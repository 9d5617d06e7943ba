-------------------------------- MODULE XmlTree --------------------------------
(***************************************************************************)
(* The nodes of TinyXML (tinyxml.cpp): a heap in which each node has       *)
(* pointers to its parent, its first and last child and its neighbours,    *)
(* and each element the ring of its attributes, where a sentinel without a *)
(* name is both ends.  Addresses are used again.                           *)
(*                                                                         *)
(* "text" stands for every kind of leaf.  A node is not assigned to one    *)
(* that is below or above it: the code uses nodes it has deleted then.     *)
(* Room bounds the heap.                                                   *)
(***************************************************************************)
EXTENDS Integers, SequencesExt, TLC

CONSTANTS MaxNodes,   \* addresses of nodes
          MaxObjects, \* nodes and attributes there may be
          AttrNames, AttrValues

VARIABLE tree

Addresses == 1 .. MaxNodes
Null      == 0
Sentinel  == ""

-----------------------------------------------------------------------------
(* TiXmlAttributeSet: an attribute is known in its ring by its name.       *)

EmptyRing == LET itself == Sentinel :> Sentinel IN
             [next |-> itself, prev |-> itself, value |-> Sentinel :> ""]

RECURSIVE FindFrom(_, _, _)
FindFrom(ring, at, name) ==
  IF at \in {Sentinel, name} THEN at ELSE FindFrom(ring, ring.next[at], name)

Find(ring, name) == FindFrom(ring, ring.next[Sentinel], name)

Add(ring, name) ==
  LET last == ring.prev[Sentinel] IN
  [next  |-> (name :> Sentinel) @@ [ring.next EXCEPT ![last] = name],
   prev  |-> (name :> last) @@ [ring.prev EXCEPT ![Sentinel] = name],
   value |-> (name :> "") @@ ring.value]

Unlink(ring, name) ==
  [ring EXCEPT !.next[ring.prev[name]] = ring.next[name],
               !.prev[ring.next[name]] = ring.prev[name]]

Without(ring, name) ==
  LET others == DOMAIN ring.value \ {name} IN
  [next |-> Restrict(ring.next, others), prev |-> Restrict(ring.prev, others),
   value |-> Restrict(ring.value, others)]

RemoveAttr(ring, name) == Without(Unlink(ring, name), name)

FindOrCreate(ring, name) == IF Find(ring, name) = Sentinel THEN Add(ring, name) ELSE ring

SetAttr(ring, name, value) == [FindOrCreate(ring, name) EXCEPT !.value[name] = value]

\* What First() and Next() lead through.
RECURSIVE AttrsFrom(_, _)
AttrsFrom(ring, at) ==
  IF at = Sentinel THEN <<>>
  ELSE <<[name |-> at, value |-> ring.value[at]]>> \o AttrsFrom(ring, ring.next[at])

Attrs(ring) == AttrsFrom(ring, ring.next[Sentinel])

\* What sscanf() and QueryBoolAttribute() make of a value, and snprintf() of a
\* number; what is not here is of another type.
NumberOf == ("0" :> 0) @@ ("1" :> 1)
TruthOf  == ("true" :> TRUE) @@ ("1" :> TRUE) @@ ("no" :> FALSE) @@ ("0" :> FALSE)
TextOf(number) == CHOOSE text \in DOMAIN NumberOf : NumberOf[text] = number

Attribute(ring, name) == IF Find(ring, name) = Sentinel THEN <<>> ELSE <<ring.value[name]>>

\* The result of a query, and what it leaves in the variable it is given.
Query(ring, name, meaning, old) ==
  IF Find(ring, name) = Sentinel THEN <<"no attribute", old>>
  ELSE IF ring.value[name] \notin DOMAIN meaning THEN <<"wrong type", old>>
  ELSE <<"success", meaning[ring.value[name]]>>

QueryIntAttribute(ring, name, old)    == Query(ring, name, NumberOf, old)
QueryDoubleAttribute(ring, name, old) == Query(ring, name, NumberOf, old)
QueryBoolAttribute(ring, name, old)   == Query(ring, name, TruthOf, old)

\* It sets its variable also to what is no number.
QueryUnsignedAttribute(ring, name, old) ==
  IF Find(ring, name) = Sentinel THEN <<"no attribute", old>>
  ELSE Query(ring, name, NumberOf, 0)

\* Attribute() with a variable for the number, and atoi() and atof(), to which
\* what is no number is 0.
AttributeInt(ring, name, old)    ==
  <<Attribute(ring, name), QueryIntAttribute(ring, name, old)[2]>>
AttributeDouble(ring, name, old) ==
  <<Attribute(ring, name), QueryDoubleAttribute(ring, name, old)[2]>>
IntValue(ring, name) == IF ring.value[name] \in DOMAIN NumberOf THEN NumberOf[ring.value[name]] ELSE 0
DoubleValue(ring, name) == IntValue(ring, name)

\* What Last() and Previous() lead through.
RECURSIVE AttrsBack(_, _)
AttrsBack(ring, at) == IF at = Sentinel THEN <<>> ELSE <<at>> \o AttrsBack(ring, ring.prev[at])

SetIntAttribute(ring, name, number)    == SetAttr(ring, name, TextOf(number))
SetDoubleAttribute(ring, name, number) == SetAttr(ring, name, TextOf(number))

-----------------------------------------------------------------------------
(* Nodes.                                                                  *)

Node(kind, value) ==
  [kind |-> kind, value |-> value, parent |-> Null, firstChild |-> Null, lastChild |-> Null,
   prev |-> Null, next |-> Null, attributeSet |-> EmptyRing]

Free  == Node("free", "")
Twice == Node("deleted twice", "")

IsLive(t, n) == n \in Addresses /\ t[n].kind # "free"

Unused(t) == CHOOSE n \in Addresses : ~IsLive(t, n) /\ \A m \in 1 .. n - 1 : IsLive(t, m)

\* The nodes from this one on.
RECURSIVE ChildrenFrom(_, _)
ChildrenFrom(t, n) == IF n = Null THEN <<>> ELSE <<n>> \o ChildrenFrom(t, t[n].next)

Children(t, n) == ChildrenFrom(t, t[n].firstChild)

RECURSIVE Above(_, _)
Above(t, n) == IF n = Null THEN {} ELSE {n} \cup Above(t, t[n].parent)

\* ~TiXmlNode(), and the loop over children it shares with Clear().
RECURSIVE Delete(_, _), DeleteFrom(_, _)
DeleteFrom(t, n) == IF n = Null THEN t ELSE DeleteFrom(Delete(t, n), t[n].next)

\* Mutant: the children stay.
Delete_KeepsChildren(t, n) == [t EXCEPT ![n] = IF IsLive(t, n) THEN Free ELSE Twice]

Delete(t, n) ==
  [DeleteFrom(t, t[n].firstChild) EXCEPT ![n] = IF IsLive(t, n) THEN Free ELSE Twice]

Clear(t, p) ==
  [DeleteFrom(t, t[p].firstChild) EXCEPT ![p].firstChild = Null, ![p].lastChild = Null]

ClearThis(t, p) == [Clear(t, p) EXCEPT ![p].attributeSet = EmptyRing]

LinkEndChild(t, p, n) ==
  LET last   == t[p].lastChild
      Linked == [t EXCEPT ![n].parent = p, ![n].prev = last, ![n].next = Null, ![p].lastChild = n]
  IN IF last # Null THEN [Linked EXCEPT ![last].next = n] ELSE [Linked EXCEPT ![p].firstChild = n]

\* Clone() and CopyTo().
RECURSIVE CopyAttrs(_, _), CopyChildren(_, _, _), Clone(_, _)
CopyAttrs(ring, attrs) ==
  IF attrs = <<>> THEN ring
  ELSE CopyAttrs(SetAttr(ring, attrs[1].name, attrs[1].value), Tail(attrs))

CopyTo(t, n, target) ==
  CopyChildren([t EXCEPT ![target].value = t[n].value,
                         ![target].attributeSet = CopyAttrs(@, Attrs(t[n].attributeSet))],
               t[n].firstChild, target)

CopyChildren(t, n, target) ==
  LET Linked(clone) == LinkEndChild(clone.tree, target, clone.node)
      Next(linked)  == CopyChildren(linked, linked[n].next, target)
  IN IF n = Null THEN t ELSE Next(Linked(Clone(t, n)))

Clone(t, n) ==
  LET Copied(new) == [tree |-> CopyTo([t EXCEPT ![new] = Node(t[n].kind, t[n].value)], n, new),
                      node |-> new]
  IN Copied(Unused(t))

-----------------------------------------------------------------------------
(* Looking things up; Null is an answer, too.                              *)

RECURSIVE Forward(_, _, _), Backward(_, _, _), ElementFrom(_, _), ElementWith(_, _, _)
Forward(t, n, value) ==
  IF n = Null THEN Null ELSE IF t[n].value = value THEN n ELSE Forward(t, t[n].next, value)

Backward(t, n, value) ==
  IF n = Null THEN Null ELSE IF t[n].value = value THEN n ELSE Backward(t, t[n].prev, value)

FirstChild(t, p, value)      == Forward(t, t[p].firstChild, value)
LastChild(t, p, value)       == Backward(t, t[p].lastChild, value)
NextSibling(t, n, value)     == Forward(t, t[n].next, value)
PreviousSibling(t, n, value) == Backward(t, t[n].prev, value)

ElementFrom(t, n) ==
  IF n = Null THEN Null ELSE IF t[n].kind = "element" THEN n ELSE ElementFrom(t, t[n].next)

ElementWith(t, n, value) ==
  IF n = Null THEN Null ELSE IF t[n].kind = "element" THEN n
  ELSE ElementWith(t, NextSibling(t, n, value), value)

FirstChildElement(t, p)          == ElementFrom(t, t[p].firstChild)
NextSiblingElement(t, n)         == ElementFrom(t, t[n].next)
FirstChildElementOf(t, p, value)  == ElementWith(t, FirstChild(t, p, value), value)
NextSiblingElementOf(t, n, value) == ElementWith(t, NextSibling(t, n, value), value)

IterateChildren(t, p, previous) == IF previous = Null THEN t[p].firstChild ELSE t[previous].next
IterateChildrenOf(t, p, value, previous) ==
  IF previous = Null THEN FirstChild(t, p, value) ELSE NextSibling(t, previous, value)

RECURSIVE GetDocument(_, _)
GetDocument(t, n) ==
  IF n = Null \/ t[n].kind = "document" THEN n ELSE GetDocument(t, t[n].parent)

\* GetText() of an element: the node it is the value of.
GetText(t, n) ==
  IF t[n].firstChild # Null /\ t[t[n].firstChild].kind = "text" THEN t[n].firstChild ELSE Null

\* The next node, or the first, of those that are elements, or have this value.
AnyValue == "any value"

NextOf(t, n, elements, value) ==
  CASE elements /\ value = AnyValue -> NextSiblingElement(t, n)
    [] elements /\ value # AnyValue -> NextSiblingElementOf(t, n, value)
    [] ~elements /\ value = AnyValue -> t[n].next
    [] ~elements /\ value # AnyValue -> NextSibling(t, n, value)

FirstOf(t, p, elements, value) ==
  CASE elements /\ value = AnyValue -> FirstChildElement(t, p)
    [] elements /\ value # AnyValue -> FirstChildElementOf(t, p, value)
    [] ~elements /\ value = AnyValue -> t[p].firstChild
    [] ~elements /\ value # AnyValue -> FirstChild(t, p, value)

\* TiXmlHandle::Child() and ChildElement(); a handle may hold nothing.
RECURSIVE StepOn(_, _, _, _, _)
StepOn(t, n, elements, value, count) ==
  IF n = Null \/ count = 0 THEN n
  ELSE StepOn(t, NextOf(t, n, elements, value), elements, value, count - 1)

HandleChild(t, p, elements, value, count) ==
  IF p = Null THEN Null ELSE StepOn(t, FirstOf(t, p, elements, value), elements, value, count)

-----------------------------------------------------------------------------
(* What the rest of the program reads with (utils_xml.cpp): with a default *)
(* for what is not there, or (try2get_) with a result, a pointer that may  *)
(* be NULL, and a variable that keeps what it has.                         *)

NoName == "NULL"

root_element(t, d) == FirstChildElement(t, d)
first_child(t, e)  == FirstChildElement(t, e)
next_sibling(t, e) == NextSiblingElement(t, e)
name_of(t, e)      == t[e].value

value_of(t, e, default) == IF GetText(t, e) = Null THEN default ELSE t[GetText(t, e)].value

attribute(t, e, name, default) ==
  IF name = NoName \/ Find(t[e].attributeSet, name) = Sentinel THEN default
  ELSE t[e].attributeSet.value[name]

try2get_root_element(t, d) == IF d = Null THEN Null ELSE FirstChildElement(t, d)
try2get_first_child(t, e)  == IF e = Null THEN Null ELSE FirstChildElement(t, e)
try2get_next_sibling(t, e) == IF e = Null THEN Null ELSE NextSiblingElement(t, e)
try2get_name(t, e, target) == IF e = Null THEN <<FALSE, target>> ELSE <<TRUE, t[e].value>>

try2get_value(t, e, target) ==
  IF e = Null THEN <<FALSE, target>>
  ELSE IF GetText(t, e) = Null THEN <<FALSE, target>>
  ELSE <<TRUE, t[GetText(t, e)].value>>

try2get_attribute(t, e, name, target) ==
  IF name = NoName \/ e = Null THEN <<FALSE, target>>
  ELSE IF Find(t[e].attributeSet, name) = Sentinel THEN <<FALSE, target>>
  ELSE <<TRUE, t[e].attributeSet.value[name]>>

\* The elements that first_child() and next_sibling() lead through.
RECURSIVE ElementsFrom(_, _)
ElementsFrom(t, e) == IF e = Null THEN <<>> ELSE <<e>> \o ElementsFrom(t, try2get_next_sibling(t, e))

-----------------------------------------------------------------------------
(* Operations, on nodes that are there.                                    *)

Live(t) == {n \in Addresses : IsLive(t, n)}

RECURSIVE Below(_, _)
Below(t, n) == {n} \cup UNION {Below(t, m) : m \in ToSet(Children(t, n))}

Weight(t, nodes) == MapThenSumSet(LAMBDA n : Cardinality(DOMAIN t[n].attributeSet.value), nodes)

\* Bounds: there is room for as many nodes, with their attributes.
Room(t, nodes) ==
  /\ Cardinality(nodes) + Cardinality(Live(t)) <= MaxNodes
  /\ Weight(t, nodes) + Weight(t, Live(t)) <= MaxObjects

EmptyTree == [n \in Addresses |-> Free]

Init == tree = EmptyTree

Create(kind, value) ==
  /\ Cardinality(Live(tree)) < MaxNodes /\ Weight(tree, Live(tree)) < MaxObjects
  /\ tree' = [tree EXCEPT ![Unused(tree)] = Node(kind, value)]

Copy(n) == Room(tree, Below(tree, n)) /\ tree' = Clone(tree, n).tree

\* delete, by the user, of what is no child.
Dispose(n) == tree[n].parent = Null /\ tree' = Delete(tree, n)

Link(p, n) ==
  /\ tree[n].parent = Null /\ tree[n].kind # "document" /\ n \notin Above(tree, p)
  /\ tree' = LinkEndChild(tree, p, n)

\* What is inserted is a copy; a document is not taken.
InsertEndChild(p, n) ==
  LET Linked(clone) == LinkEndChild(clone.tree, p, clone.node) IN
  /\ tree[n].kind # "document" /\ Room(tree, Below(tree, n))
  /\ tree' = Linked(Clone(tree, n))

InsertBeforeChild(p, before, n) ==
  LET Put(t, new, prev) ==
        LET Linked == [t EXCEPT ![new].parent = p, ![new].next = before, ![new].prev = prev,
                                ![before].prev = new]
        IN IF prev # Null THEN [Linked EXCEPT ![prev].next = new]
           ELSE [Linked EXCEPT ![p].firstChild = new]
      Cloned(clone) == Put(clone.tree, clone.node, clone.tree[before].prev)
  IN /\ tree[before].parent = p /\ tree[n].kind # "document" /\ Room(tree, Below(tree, n))
     /\ tree' = Cloned(Clone(tree, n))

InsertAfterChild(p, after, n) ==
  LET Put(t, new, next) ==
        LET Linked == [t EXCEPT ![new].parent = p, ![new].prev = after, ![new].next = next,
                                ![after].next = new]
        IN IF next # Null THEN [Linked EXCEPT ![next].prev = new]
           ELSE [Linked EXCEPT ![p].lastChild = new]
      Cloned(clone) == Put(clone.tree, clone.node, clone.tree[after].next)
  IN /\ tree[after].parent = p /\ tree[n].kind # "document" /\ Room(tree, Below(tree, n))
     /\ tree' = Cloned(Clone(tree, n))

\* Neighbours and parent of a node point to another, or to nothing, instead.
Bypass(t, p, n, toNext, toPrev) ==
  LET next == t[n].next
      prev == t[n].prev
      Forth == IF prev # Null THEN [t EXCEPT ![prev].next = toNext]
               ELSE [t EXCEPT ![p].firstChild = toNext]
  IN IF next # Null THEN [Forth EXCEPT ![next].prev = toPrev]
     ELSE [Forth EXCEPT ![p].lastChild = toPrev]

ReplaceChild(p, old, n) ==
  LET Put(t, new) ==
        [Delete(Bypass([t EXCEPT ![new].next = t[old].next, ![new].prev = t[old].prev],
                       p, old, new, new), old)
           EXCEPT ![new].parent = p]
      Cloned(clone) == Put(clone.tree, clone.node)
  IN /\ tree[old].parent = p /\ tree[n].kind # "document" /\ Room(tree, Below(tree, n))
     /\ tree' = Cloned(Clone(tree, n))

RemoveChild(p, n) ==
  /\ tree[n].parent = p
  /\ tree' = Delete(Bypass(tree, p, n, tree[n].next, tree[n].prev), n)

ClearChildren(p) == tree' = Clear(tree, p)

\* operator=; Room as if the node itself were new.
Assign(p, n) ==
  /\ tree[n].kind = tree[p].kind
  /\ n \notin Below(tree, p) /\ p \notin Below(tree, n)
  /\ Room([ClearThis(tree, p) EXCEPT ![p] = Free], Below(tree, n))
  /\ tree' = CopyTo(ClearThis(tree, p), n, p)

SetAttribute(p, name, value) ==
  /\ tree[p].kind = "element"
  /\ Find(tree[p].attributeSet, name) # Sentinel \/ Weight(tree, Live(tree)) < MaxObjects
  /\ tree' = [tree EXCEPT ![p].attributeSet = SetAttr(@, name, value)]

RemoveAttribute(p, name) ==
  /\ tree[p].kind = "element" /\ Find(tree[p].attributeSet, name) # Sentinel
  /\ tree' = [tree EXCEPT ![p].attributeSet = RemoveAttr(@, name)]

Kinds == {<<"document", "">>, <<"element", "a">>, <<"text", "b">>}

Next ==
  \/ \E k \in Kinds : Create(k[1], k[2])
  \/ \E n \in Live(tree) :
       \/ Copy(n)
       \/ Dispose(n)
       \/ tree[n].kind # "text" /\ ClearChildren(n)
       \/ \E name \in AttrNames : RemoveAttribute(n, name)
       \/ \E name \in AttrNames, value \in AttrValues : SetAttribute(n, name, value)
  \/ \E p, n \in Live(tree) :
       /\ tree[p].kind # "text"
       /\ \/ Link(p, n)
          \/ InsertEndChild(p, n)
          \/ RemoveChild(p, n)
          \/ Assign(p, n)
          \/ \E child \in ToSet(Children(tree, p)) :
               \/ InsertBeforeChild(p, child, n)
               \/ InsertAfterChild(p, child, n)
               \/ ReplaceChild(p, child, n)

-----------------------------------------------------------------------------
(* What holds of them.                                                     *)

\* Items of a list that is linked in both directions.
BothWays(items, prev, end) ==
  \A i \in DOMAIN items : prev[items[i]] = IF i = 1 THEN end ELSE items[i - 1]

\* Lists agree in both directions and with the parents of their members,
\* nothing points to what is deleted, and nothing is deleted twice.
ListsSound(t) ==
  \A p \in Live(t) :
    LET children == Children(t, p)
        attrs    == [i \in DOMAIN Attrs(t[p].attributeSet) |-> Attrs(t[p].attributeSet)[i].name]
    IN /\ t[p].kind # Twice.kind
       /\ \A n \in ToSet(children) : IsLive(t, n) /\ t[n].parent = p
       /\ BothWays(children, [n \in Live(t) |-> t[n].prev], Null)
       /\ t[p].lastChild = IF children = <<>> THEN Null ELSE Last(children)
       /\ IF t[p].parent = Null THEN t[p].prev = Null /\ t[p].next = Null
          ELSE IsLive(t, t[p].parent) /\ p \in ToSet(Children(t, t[p].parent))
       /\ BothWays(attrs \o <<Sentinel>>, t[p].attributeSet.prev, Sentinel)
       /\ Len(attrs) + 1 = Cardinality(DOMAIN t[p].attributeSet.value)

ItemOrNull(items, i) == IF i \in DOMAIN items THEN items[i] ELSE Null

\* Lookups find the first, the last or the next of the children that are meant.
LookupsRight(t) ==
  \A p \in Live(t) :
    LET children == Children(t, p)
        Meant(elements, value) ==
          SelectSeq(children, LAMBDA n : /\ elements => t[n].kind = "element"
                                         /\ value \in {AnyValue, t[n].value})
    IN /\ \A elements \in BOOLEAN, value \in {AnyValue, "a", "b"}, count \in 0 .. MaxNodes :
            HandleChild(t, p, elements, value, count) = ItemOrNull(Meant(elements, value), count + 1)
       /\ \A value \in {"a", "b"} :
            LET meant == Meant(FALSE, value) IN
            /\ LastChild(t, p, value) = ItemOrNull(meant, Len(meant))
            /\ \A i \in DOMAIN meant :
                 /\ PreviousSibling(t, meant[i], value) = ItemOrNull(meant, i - 1)
                 /\ IterateChildrenOf(t, p, value, ItemOrNull(meant, i - 1)) = meant[i]
       /\ \A i \in DOMAIN children : IterateChildren(t, p, ItemOrNull(children, i - 1)) = children[i]
       /\ GetDocument(t, p) = Max({0} \cup {n \in Above(t, p) : t[n].kind = "document"})
       /\ GetText(t, p) = IF children # <<>> /\ t[children[1]].kind = "text" THEN children[1] ELSE Null

\* Both ways of reading meet every element, and find the same.
ReadingRight(t) ==
  /\ {try2get_root_element(t, Null), try2get_first_child(t, Null), try2get_next_sibling(t, Null)} = {Null}
  /\ \A p \in Live(t) : t[p].kind # "text" =>
       LET all == SelectSeq(Children(t, p), LAMBDA n : t[n].kind = "element")
           Agree(found, target, default) ==
             found = IF default = "default" THEN <<FALSE, target>> ELSE <<TRUE, default>>
       IN /\ ElementsFrom(t, first_child(t, p)) = all
          /\ root_element(t, p) = try2get_root_element(t, p)
          /\ Agree(try2get_value(t, p, "old"), "old", value_of(t, p, "default"))
          /\ \A name \in AttrNames \cup {NoName} :
               /\ Agree(try2get_attribute(t, p, name, "old"), "old", attribute(t, p, name, "default"))
               /\ try2get_attribute(t, Null, name, "old") = <<FALSE, "old">>
          /\ \A i \in DOMAIN all :
               /\ next_sibling(t, all[i]) = ItemOrNull(all, i + 1)
               /\ try2get_name(t, all[i], "old") = <<TRUE, name_of(t, all[i])>>

\* A number that is set as one attribute is found there and nowhere else.
AttributesRight(ring) ==
  /\ \A i \in DOMAIN Attrs(ring) : Attribute(ring, Attrs(ring)[i].name) = <<Attrs(ring)[i].value>>
  /\ AttrsBack(ring, ring.prev[Sentinel])
     = Reverse([i \in DOMAIN Attrs(ring) |-> Attrs(ring)[i].name])
  /\ \A name, other \in AttrNames, number \in {0, 1} :
       \A set \in {SetIntAttribute(ring, name, number), SetDoubleAttribute(ring, name, number)} :
         /\ QueryIntAttribute(set, name, 2) = <<"success", number>>
         /\ QueryDoubleAttribute(set, name, 2) = <<"success", number>>
         /\ AttributeInt(set, name, 2) = <<<<TextOf(number)>>, number>>
         /\ AttributeDouble(set, name, 2) = AttributeInt(set, name, 2)
         /\ IntValue(set, name) = number /\ DoubleValue(set, name) = number
         /\ QueryUnsignedAttribute(set, name, 2) = <<"success", number>>
         /\ QueryBoolAttribute(set, name, FALSE) = <<"success", number = 1>>
         /\ other # name =>
              /\ Attribute(set, other) = Attribute(ring, other)
              /\ QueryUnsignedAttribute(set, other, 2)[1] = QueryIntAttribute(ring, other, 2)[1]

\* The forest these nodes are.
Abstract ==
  [n \in Addresses |->
     [kind |-> tree[n].kind, value |-> tree[n].value, attrs |-> Attrs(tree[n].attributeSet),
      children |-> Children(tree, n)]]

Promised == INSTANCE Forest WITH forest <- Abstract
\* As Promised!Spec says; a step that leaves the nodes alone is a stutter.
ImplementsForest ==
  Promised!Init /\ [][tree' = tree \/ Promised!Next \/ UNCHANGED Abstract]_tree

TreeSound ==
  /\ ListsSound(tree) /\ LookupsRight(tree) /\ ReadingRight(tree)
  /\ \A n \in Live(tree) : AttributesRight(tree[n].attributeSet)
=============================================================================
