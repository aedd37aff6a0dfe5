------------------------------ MODULE XmlTree -------------------------------
(***************************************************************************)
(* The content of a configuration document: how a parameter is found,      *)
(* stored, added and removed by its path (stl_xml.c, and the methods of    *)
(* stlXml and stlXmlList in stl_xmlc.cpp).  The tree and the evaluation of *)
(* a path are libxml2; the nodes a new parameter needs are made by         *)
(* stlXmlAddNodeTree, from the back of the path to its front.              *)
(*                                                                         *)
(* A path is a sequence of steps [name, key, val]: an element, with the    *)
(* condition @id or text() where key is not "", the parent (..), or the    *)
(* attribute @fact, which stands for every attribute but @id.  A document  *)
(* is [nodes, next]: nodes by number, in the order they were made, 0 above *)
(* the root.  Children are added behind the others, so that the order of   *)
(* the document follows from the numbers.                                  *)
(***************************************************************************)
EXTENDS Integers, Sequences, FiniteSets
LOCAL INSTANCE SequencesExt
LOCAL INSTANCE FiniteSetsExt

CONSTANTS
  Modules,               (* ids of modules                                 *)
  Buses,                 (* CAN buses                                      *)
  Addresses,             (* addresses on a bus                             *)
  Params,                (* ids of parameters                              *)
  XmlValues,             (* what is stored                                 *)
  FirstDocs,             (* documents there may be at the start            *)
  MaxXmlCalls            (* BOUND: calls                                   *)

NullDoc == [nodes |-> << >>, next |-> 1]     (* no document                *)
ASSUME XmlTreeAssumption ==
  /\ "" \notin XmlValues /\ "NULL" \notin XmlValues /\ MaxXmlCalls \in Nat
  /\ NullDoc \in FirstDocs

VARIABLES
  xDoc,                  (* cfgDoc                                         *)
  updateCount,
  xList,                 (* nodes of an stlXmlList                         *)
  xCalls,
  xLast                  (* HISTORY: the last call, its result, the document before it *)
xmlVars == <<xDoc, updateCount, xList, xCalls, xLast>>

-----------------------------------------------------------------------------
(* Steps, and the paths the methods make of their arguments.               *)

Elem(n) == [name |-> n, key |-> "", val |-> ""]
ElemWith(n, k, v) == [name |-> n, key |-> k, val |-> v]
Up == Elem("..")
Fact == Elem("@fact")

Plain(names) == [i \in DOMAIN names |-> Elem(names[i])]
ModulePath(m, p) ==
  Plain(<<"config", "machine", "modules">>)
    \o <<ElemWith("module", "@id", m), ElemWith("param", "@id", p)>>
CanPath(b, a, p) ==
  Plain(<<"config", "can", "devices", "device">>)
    \o <<ElemWith("bus", "text()", b), Up, ElemWith("address", "text()", a), Up,
         ElemWith("param", "@id", p)>>
MachinePath(p) == Plain(<<"config", "machine">>) \o <<ElemWith("param", "@id", p)>>
FactOf(path) == Append(path, Fact)

ParamPaths ==
  {ModulePath(m, p) : m \in Modules, p \in Params}
    \cup {CanPath(t[1], t[2], p) : t \in Buses \X Addresses, p \in Params}
    \cup {MachinePath(p) : p \in Params}
XmlPaths == ParamPaths \cup {FactOf(q) : q \in ParamPaths}
DevicesPath == Plain(<<"config", "can", "devices", "device">>)

-----------------------------------------------------------------------------
(* libxml2: the nodes of a path, in the order of the document.             *)

OneStep(d, S, s) ==
  CASE s.name = ".." -> {d.nodes[n].up : n \in S \ {0}} \ {0}
    [] s.name = "@fact" -> {n \in S : d.nodes[n].fact # "NULL"}
    [] OTHER -> {n \in DOMAIN d.nodes :
                   /\ d.nodes[n].up \in S /\ d.nodes[n].name = s.name
                   /\ s.key = "@id" => d.nodes[n].id = s.val
                   /\ s.key = "text()" => d.nodes[n].text = s.val}

(* stlXmlXPathSelecta: no path, no nodes; of an attribute its element.     *)
SelectFrom(d, n, path) == FoldLeft(LAMBDA S, s : OneStep(d, S, s), {n}, path)
Select(d, path) == IF path = << >> THEN {} ELSE SelectFrom(d, 0, path)

RECURSIVE Above(_, _)
Above(d, n) == IF n = 0 THEN << >> ELSE Append(Above(d, d.nodes[n].up), n)
Earlier(d, n, m) ==
  LET p == Above(d, n)  q == Above(d, m)
      split == {i \in 1 .. Min({Len(p), Len(q)}) : p[i] # q[i]}
  IN IF split = {} THEN Len(p) < Len(q) ELSE p[Min(split)] < q[Min(split)]
InOrder(d, S) == SetToSortSeq(S, LAMBDA n, m : Earlier(d, n, m))
First(d, S) == InOrder(d, S)[1]

Under(d, n) == {m \in DOMAIN d.nodes : \E i \in DOMAIN Above(d, m) : Above(d, m)[i] = n}

(* xmlNewTextChild, xmlSetProp and xmlNodeSetContent: the content of an    *)
(* element takes the place of all its children.                            *)
NewChild(d, n, s) ==
  [nodes |-> [m \in DOMAIN d.nodes \cup {d.next} |->
                IF m # d.next THEN d.nodes[m]
                ELSE [up |-> n, name |-> s.name,
                      id |-> IF s.key = "@id" THEN s.val ELSE "NULL",
                      text |-> IF s.key = "text()" THEN s.val ELSE "",
                      fact |-> "NULL"]],
   next |-> d.next + 1]
Without(d, S) == [d EXCEPT !.nodes = [m \in DOMAIN @ \ S |-> @[m]]]
SetFact(d, n, v) == [d EXCEPT !.nodes[n].fact = v]
SetContent(d, path, n, v) ==
  IF Last(path) = Fact THEN SetFact(d, n, v)
  ELSE [Without(d, Under(d, n) \ {n}) EXCEPT !.nodes[n].text = v]

-----------------------------------------------------------------------------
(* stlXmlAddNodeTree.  The parent of the new node is the first node of the *)
(* rest of the path, which is added first where there is none.  A node     *)
(* with the condition text() does not go to a parent that is there but to  *)
(* a new one: a bus or an address of its own belongs to a device of its    *)
(* own.  After .. the new parent is the one that the path before .. gives. *)

Added(d, e, n) == [doc |-> d, err |-> e, node |-> n]
Parent(d, n) == IF n = 0 THEN 0 ELSE d.nodes[n].up
AddOne(d, n, s, v) ==
  IF s = Fact THEN Added(SetFact(d, n, v), 0, n) ELSE Added(NewChild(d, n, s), 0, d.next)

RECURSIVE AddNodeTree(_, _, _)
(* The parent to add to when the rest of the path has nodes.               *)
OwnParent_First(d, rest, s, v) == Added(d, 0, First(d, Select(d, rest)))  \* mutant
OwnParent(d, rest, s, v) ==
  LET n == First(d, Select(d, rest))
  IN IF s.key # "text()" THEN Added(d, 0, n)
     ELSE IF Last(rest) = Up
       THEN LET r == AddNodeTree(d, rest, v)
            IN [r EXCEPT !.node = Parent(r.doc, r.node)]
     ELSE AddOne(d, Parent(d, n), Elem(Last(rest).name), v)
AddTo(r, rest, s, v) ==
  IF r.err # 0 \/ Select(r.doc, rest) = {} THEN [r EXCEPT !.node = 0]
  ELSE LET p == OwnParent(r.doc, rest, s, v)
       IN IF p.err # 0 \/ p.node = 0 THEN p ELSE AddOne(p.doc, p.node, s, v)
AddNodeTree(d, path, v) ==
  IF Len(path) < 2 THEN Added(d, -1, 0)
  ELSE IF Last(path) = Up THEN AddNodeTree(d, Front(path), v)
  ELSE AddTo(IF Select(d, Front(path)) # {} THEN Added(d, 0, 0)
             ELSE AddNodeTree(d, Front(path), v), Front(path), Last(path), v)

(* stlXmlAddUpdContent: what is missing is added, then the first is set.   *)
AddUpdContent_All(d, path, v) ==  \* mutant
  LET e == AddNodeTree(d, path, v).doc  S == Select(e, path)
  IN IF S = {} THEN [doc |-> e, res |-> 1]
     ELSE [doc |-> SetContent(e, path, First(e, S), v), res |-> 0]
AddUpdContent(d, path, v) ==
  LET e == IF Select(d, path) # {} THEN d ELSE AddNodeTree(d, path, v).doc
      S == Select(e, path)
  IN IF S = {} THEN [doc |-> e, res |-> 1]
     ELSE [doc |-> SetContent(e, path, First(e, S), v), res |-> 0]

-----------------------------------------------------------------------------
(* Reading.  cfgGetXpath gives the content of every node, << >> for NULL;  *)
(* stlXmlXPathValueA and stlXmlXPathNodeA skip nodes without content.      *)

ContentOf(d, path, n) == IF Last(path) = Fact THEN d.nodes[n].fact ELSE d.nodes[n].text
GetXpath(d, path) ==
  LET o == InOrder(d, Select(d, path)) IN [i \in DOMAIN o |-> ContentOf(d, path, o[i])]
XPathValue(d, path) == SelectSeq(GetXpath(d, path), LAMBDA c : c # "")
FirstOf(c) == IF c = << >> THEN "NULL" ELSE c[1]
XPathString(d, path) == FirstOf(XPathValue(d, path))

(* getParVal of an item of a list, by a path that begins at it.            *)
ParVal(d, n, path) ==
  LET o == InOrder(d, SelectFrom(d, n, path))
  IN FirstOf(SelectSeq([i \in DOMAIN o |-> ContentOf(d, path, o[i])], LAMBDA c : c # ""))

(* getModuleParameter and getConfigParameter replace no answer, and        *)
(* cfgGetXpathIntDf and getCANDeviceParFactor also an empty one.           *)
OrDefault(d, path, v) == IF GetXpath(d, path) = << >> THEN <<v>> ELSE GetXpath(d, path)
NumberOr(d, path, v) == IF GetXpath(d, path) \in {<< >>, <<"">>} THEN <<v>> ELSE GetXpath(d, path)

-----------------------------------------------------------------------------
(* The calls.                                                              *)

Call(o, path, v, r) ==
  /\ xCalls < MaxXmlCalls /\ xCalls' = xCalls + 1
  /\ xLast' = [op |-> o, path |-> path, val |-> v, res |-> r, doc |-> xDoc, count |-> updateCount]

(* cfgSetXpath, of setModuleParameter and setCANDeviceParameter.           *)
SetXpath(path, v) ==
  LET r == AddUpdContent(xDoc, path, v)
      none == xDoc = NullDoc
  IN /\ Call("set", path, v, CASE none -> -1 [] ~none /\ r.res = 0 -> 0 [] OTHER -> -2)
     /\ xDoc' = IF none THEN xDoc ELSE r.doc
     /\ updateCount' = updateCount + (IF ~none /\ r.res = 0 THEN 1 ELSE 0)
     /\ UNCHANGED xList
(* cfgDelXpath, of setCANDeviceParameter with NULL.                        *)
Counted_Not(S) == 0  \* mutant
Counted(S) == Cardinality(S)
DelXpath(path) ==
  LET S == Select(xDoc, path)
  IN /\ Call("del", path, "NULL", IF xDoc = NullDoc THEN -1 ELSE 0)
     /\ xDoc' = IF Last(path) = Fact
                THEN [xDoc EXCEPT !.nodes = [n \in DOMAIN @ |->
                       IF n \in S THEN [@[n] EXCEPT !.fact = "NULL"] ELSE @[n]]]
                ELSE Without(xDoc, UNION {Under(xDoc, n) : n \in S})
     /\ updateCount' = updateCount + Counted(S)
     /\ UNCHANGED xList
(* setCANDevice... without the name of a parameter.                        *)
NoName == /\ Call("noname", << >>, "NULL", -2) /\ UNCHANGED <<xDoc, updateCount, xList>>

(* cfgGetXpathListf, and deleteItem of a list.  Its node must still be in  *)
(* the document: the list does not know what is deleted.                   *)
GetList ==
  /\ Call("list", DevicesPath, "NULL", 0)
  /\ xList' = InOrder(xDoc, Select(xDoc, DevicesPath))
  /\ UNCHANGED <<xDoc, updateCount>>
InList(i) == i \in DOMAIN xList
DeleteItem(i) ==
  /\ InList(i) => xList[i] \in DOMAIN xDoc.nodes
  /\ Call("item", << >>, "NULL", IF InList(i) THEN 0 ELSE -1)
  /\ xDoc' = IF InList(i) THEN Without(xDoc, Under(xDoc, xList[i])) ELSE xDoc
  /\ UNCHANGED <<updateCount, xList>>

XmlInit ==
  /\ xDoc \in FirstDocs /\ updateCount = 0 /\ xList = << >> /\ xCalls = 0
  /\ xLast = [op |-> "none", path |-> << >>, val |-> "NULL", res |-> 0, doc |-> xDoc, count |-> 0]
XmlNext ==
  \/ \E path \in XmlPaths, v \in XmlValues : SetXpath(path, v)
  \/ \E path \in XmlPaths : DelXpath(path)
  \/ NoName \/ GetList
  \/ \E i \in 1 .. 2 : DeleteItem(i)

-----------------------------------------------------------------------------
(* Properties.                                                             *)

(* A document is a tree, and 0 is above its root only.                     *)
XmlTypeOK ==
  /\ \A n \in DOMAIN xDoc.nodes :
       /\ n < xDoc.next /\ xDoc.nodes[n].up < n
       /\ xDoc.nodes[n].up \in DOMAIN xDoc.nodes \cup {0}
       /\ xDoc.nodes[n].up = 0 => \A m \in DOMAIN xDoc.nodes \ {n} : xDoc.nodes[m].up # 0
  /\ updateCount \in Nat /\ xCalls \in 0 .. MaxXmlCalls

(* A value that is stored is what a read gives: alone when there was at    *)
(* most one node of the path, first when there were more (cfgSetXpath,     *)
(* cfgGetXpath).                                                           *)
SetIsGot ==
  xLast.op = "set" /\ xLast.res = 0 =>
    /\ GetXpath(xDoc, xLast.path)
         = <<xLast.val>> \o Tail(IF Select(xLast.doc, xLast.path) = {} THEN <<"">>
                                 ELSE GetXpath(xLast.doc, xLast.path))
    /\ XPathString(xDoc, xLast.path) = xLast.val

(* A document that has a root element config takes every parameter, and    *)
(* one without takes none.                                                 *)
TakesAll ==
  xLast.op = "set" =>
    (xLast.res = 0 <=> \E n \in DOMAIN xLast.doc.nodes :
                         xLast.doc.nodes[n].up = 0 /\ xLast.doc.nodes[n].name = "config")

(* To store or remove a parameter leaves every other one as it was, however *)
(* many nodes were added for it (stlXmlAddNodeTree).  Two depend on one    *)
(* another: an attribute goes with its parameter, and a parameter is there, *)
(* but empty, when only its attribute was stored: a default no longer takes *)
(* its place in getModuleParameter, but does in cfgGetXpathIntDf.          *)
OthersStay ==
  xLast.op \in {"set", "del"} =>
    \A q \in XmlPaths \ {xLast.path} :
      \/ GetXpath(xDoc, q) = GetXpath(xLast.doc, q)
      \/ q = FactOf(xLast.path) /\ xLast.op = "del"
      \/ /\ xLast.path = FactOf(q) /\ xLast.op = "set"
         /\ GetXpath(xLast.doc, q) = << >> /\ OrDefault(xDoc, q, "5") = <<"">>
         /\ NumberOr(xDoc, q, "5") = NumberOr(xLast.doc, q, "5")

(* To store what is there adds no node.                                    *)
StoredInPlace ==
  xLast.op = "set" /\ Select(xLast.doc, xLast.path) # {} =>
    DOMAIN xDoc.nodes = DOMAIN xLast.doc.nodes

(* Every change by a path counts in updateCount, by which a program sees   *)
(* that it must save; only deleteItem of a list does not count.            *)
ChangeIsCounted ==
  xDoc # xLast.doc /\ xLast.op # "item" => updateCount > xLast.count

(* A device never gets a second bus or address, so that a path names one.  *)
OneAddress ==
  \A n, m \in {k \in DOMAIN xDoc.nodes : xDoc.nodes[k].name \in {"bus", "address"}} :
    n # m => \/ xDoc.nodes[n].up # xDoc.nodes[m].up
             \/ xDoc.nodes[n].name # xDoc.nodes[m].name

(* What a list of devices gives of one that is still there is what the     *)
(* path of its bus and address gives (getParVal, getXPathList), also after *)
(* changes by path and of other items.                                     *)
ListAgrees ==
  \A i \in DOMAIN xList, b \in Buses, a \in Addresses, p \in Params :
    LET path == CanPath(b, a, p)
    IN Select(xDoc, Front(path)) = {xList[i]} =>
         /\ ParVal(xDoc, xList[i], <<Last(path)>>) = XPathString(xDoc, path)
         /\ ParVal(xDoc, xList[i], FactOf(<<Last(path)>>)) = XPathString(xDoc, FactOf(path))

(* All of it: documents keep what is stored in them.                       *)
TreeKept ==
  ListAgrees /\ XmlTypeOK /\ SetIsGot /\ TakesAll /\ OthersStay /\ StoredInPlace /\ ChangeIsCounted /\ OneAddress

-----------------------------------------------------------------------------
(* How a node of a document is found by names alone (stlXmlNodeSelect),    *)
(* and the forms of the selection by path (the functions of stl_xml.c      *)
(* around stlXmlXPathNodeA).  In a path of names, a step is                *)
(* [name, attr]: name(attr), or name alone when attr is "".                *)

CONSTANTS NamePaths      \* sequences of [name, attr]

Spot(kind, n) == [kind |-> kind, node |-> n]   \* "element", "text" in it, "value" of an attribute
Nowhere == Spot("none", 0)

(* cur->children: the text of an element, then its elements.               *)
ElementsIn(d, n) == SetToSortSeq({m \in DOMAIN d.nodes : d.nodes[m].up = n}, <)
ChildrenOf(d, n) ==
  (IF n # 0 /\ d.nodes[n].text # "" THEN <<Spot("text", n)>> ELSE << >>)
    \o [i \in DOMAIN ElementsIn(d, n) |-> Spot("element", ElementsIn(d, n)[i])]
NameOf(d, p) == IF p.kind = "element" THEN d.nodes[p.node].name ELSE "text"
Attribute(d, n, attr) ==
  CASE attr = "id" -> d.nodes[n].id [] attr = "fact" -> d.nodes[n].fact [] OTHER -> "NULL"

(* The loop of stlXmlNodeSelect, at the first of the children cur: it goes *)
(* down into the first that has the name, and never back.                  *)
IsLeaf_Never(d, p) == FALSE                                    \* mutant
IsLeaf(d, p) == ChildrenOf(d, p.node) = << >>
RECURSIVE SelectIn(_, _, _)
SelectIn(d, cur, path) ==
  IF cur = << >> THEN Nowhere
  ELSE IF path = << >> THEN Head(cur)
  ELSE IF NameOf(d, Head(cur)) # Head(path).name THEN SelectIn(d, Tail(cur), path)
  ELSE IF Head(path).attr # ""
    THEN IF Head(cur).kind = "element" /\ Attribute(d, Head(cur).node, Head(path).attr) # "NULL"
           THEN SelectIn(d, <<Spot("value", Head(cur).node)>>, Tail(path)) ELSE Nowhere
  ELSE IF Len(path) = 1 /\ (Head(cur).kind # "element" \/ IsLeaf(d, Head(cur))) THEN Head(cur)
  ELSE SelectIn(d, IF Head(cur).kind = "element" THEN ChildrenOf(d, Head(cur).node) ELSE << >>, Tail(path))
NodeSelect(d, n, path) == IF path = << >> THEN Nowhere ELSE SelectIn(d, ChildrenOf(d, n), path)

(* By path: stlXmlNodXPathStringf and stlXmlNodXPathNamef give the content *)
(* and the name of the first node that has content, the NN forms "".       *)
WithContent(d, n, path) ==
  SelectSeq(InOrder(d, SelectFrom(d, n, path)), LAMBDA m : ContentOf(d, path, m) # "")
NodXPathString(d, n, path) ==
  LET w == WithContent(d, n, path) IN IF w = << >> THEN "NULL" ELSE ContentOf(d, path, w[1])
NodXPathName(d, n, path) ==
  LET w == WithContent(d, n, path)
  IN CASE w = << >> -> "NULL" [] w # << >> /\ Last(path) = Fact -> "fact" [] OTHER -> d.nodes[w[1]].name
NotNull(c) == IF c = "NULL" THEN "" ELSE c
XPathStringNN(d, path) == NotNull(XPathString(d, path))
NodXPathStringNN(d, n, path) == NotNull(NodXPathString(d, n, path))

-----------------------------------------------------------------------------
(* What stlXmlNodeSelect finds is in the first element of each name: the   *)
(* value of the attribute, or the first thing in the element, or the       *)
(* element when nothing is in it.  It does not look into a second element  *)
(* of a name, where a selection by path does.                              *)
FirstNamed(d, S, name) ==
  LET T == {m \in DOMAIN d.nodes : d.nodes[m].up \in S /\ d.nodes[m].name = name}
  IN {m \in T : \A k \in T : m <= k}
Chain(d, path) == FoldLeft(LAMBDA S, s : FirstNamed(d, S, s.name), {0}, path)
SelectsFirst ==
  \A path \in NamePaths :
    LET r == NodeSelect(xDoc, 0, path)  S == Chain(xDoc, path)
        attr == path[Len(path)].attr
    IN IF S = {} THEN r = Nowhere
       ELSE LET n == CHOOSE m \in S : TRUE
            IN /\ n \in Select(xDoc, [i \in DOMAIN path |-> Elem(path[i].name)])
               /\ CASE attr # "" -> r = IF Attribute(xDoc, n, attr) = "NULL" THEN Nowhere ELSE Spot("value", n)
                    [] attr = "" /\ ChildrenOf(xDoc, n) # << >> -> r = ChildrenOf(xDoc, n)[1]
                    [] OTHER -> r = Spot("element", n)

(* By path, the content and the name are of one node, whether the search   *)
(* begins at the document or at a device in it.                            *)
FormsAgree ==
  \A path \in ParamPaths :
    /\ XPathStringNN(xDoc, path) = NodXPathStringNN(xDoc, 0, path)
    /\ (NodXPathName(xDoc, 0, path) = "NULL") <=> (XPathString(xDoc, path) = "NULL")
    /\ \A n \in Select(xDoc, DevicesPath), p \in Params :
         LET param == <<ElemWith("param", "@id", p)>>
         IN NodXPathString(xDoc, n, param) # "NULL" => NodXPathName(xDoc, n, param) = "param"

SelectionKept == SelectsFirst /\ FormsAgree
=============================================================================
