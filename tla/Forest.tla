-------------------------------- MODULE Forest --------------------------------
(***************************************************************************)
(* What the nodes of TinyXML promise: a forest.  A node has a value,       *)
(* attributes in the order in which they were first set, and its children  *)
(* in order.  Inserting copies what is inserted; what is taken out is gone,*)
(* with all below it.  A node is known by a handle, the least that is free *)
(* when it comes.                                                          *)
(*                                                                         *)
(* An action says of the forest f before and the forest g after what the   *)
(* operation did.                                                          *)
(***************************************************************************)
EXTENDS Integers, SequencesExt

CONSTANTS MaxNodes,   \* handles there are
          AttrNames, AttrValues

VARIABLE forest

Handles  == 1 .. MaxNodes
Nothing  == [kind |-> "free", value |-> "", attrs |-> <<>>, children |-> <<>>]
Live(f)  == {n \in Handles : f[n].kind # "free"}
Roots(f) == {n \in Live(f) : \A m \in Live(f) : n \notin ToSet(f[m].children)}

\* A node and all below it, each before its children and in their order.
RECURSIVE Below(_, _)
Below(f, n) == <<n>> \o FlattenSeq([i \in DOMAIN f[n].children |-> Below(f, f[n].children[i])])

Drop(f, nodes) == [n \in Handles |-> IF n \in ToSet(nodes) THEN Nothing ELSE f[n]]

\* The handles that copies of these nodes get.
Copies(f, nodes) ==
  LET free == SetToSortSeq(Handles \ Live(f), <) IN [i \in DOMAIN nodes |-> free[i]]

\* With copies of these nodes, among which are all the children they have.
WithCopies(f, nodes, copies) ==
  LET Of(n) == copies[CHOOSE i \in DOMAIN nodes : nodes[i] = n]
      Copy(old) == [old EXCEPT !.children = [i \in DOMAIN @ |-> Of(@[i])]]
  IN [n \in Handles |->
        IF n \in ToSet(copies) THEN Copy(f[nodes[CHOOSE i \in DOMAIN copies : copies[i] = n]])
        ELSE f[n]]

\* There are handles for copies of these nodes.
Room(f, nodes) == Len(nodes) + Cardinality(Live(f)) <= MaxNodes

-----------------------------------------------------------------------------
Create(f, g) ==
  \E n \in Live(g) \ Live(f) :
    /\ n = Min(Handles \ Live(f))
    /\ g[n].attrs = <<>> /\ g[n].children = <<>>
    /\ g = [f EXCEPT ![n] = g[n]]

Clone(f, g) ==
  \E n \in Live(f) :
    LET nodes == Below(f, n) IN
    Room(f, nodes) /\ g = WithCopies(f, nodes, Copies(f, nodes))

Link(f, g, p) ==
  \E n \in Roots(f) : p \notin ToSet(Below(f, n)) /\ g = [f EXCEPT ![p].children = Append(@, n)]

Insert(f, g, p) ==
  \E n \in Live(f), i \in 1 .. Len(f[p].children) + 1 :
    LET nodes == Below(f, n) IN
    /\ Room(f, nodes)
    /\ g = [WithCopies(f, nodes, Copies(f, nodes))
              EXCEPT ![p].children = InsertAt(@, i, Copies(f, nodes)[1])]

ReplaceChild(f, g, p) ==
  \E n \in Live(f), i \in DOMAIN f[p].children :
    LET nodes == Below(f, n) IN
    /\ Room(f, nodes)
    /\ g = Drop([WithCopies(f, nodes, Copies(f, nodes))
                   EXCEPT ![p].children[i] = Copies(f, nodes)[1]], Below(f, f[p].children[i]))

RemoveChild(f, g, p) ==
  \E i \in DOMAIN f[p].children :
    g = Drop([f EXCEPT ![p].children = RemoveAt(@, i)], Below(f, f[p].children[i]))

Cleared(f, p) == Drop([f EXCEPT ![p].children = <<>>], Tail(Below(f, p)))

Clear(f, g, p) == g = Cleared(f, p)

\* p becomes as n is; what was below it is gone before the copies come.
Assign(f, g, p) ==
  \E n \in Live(f) \ ToSet(Below(f, p)) :
    LET nodes  == Below(f, n)
        copies == <<p>> \o Copies(Cleared(f, p), Tail(nodes))
    IN /\ p \notin ToSet(nodes)
       /\ Room(Cleared(f, p), Tail(nodes))
       /\ g = WithCopies(Cleared(f, p), nodes, copies)

Delete(f, g) == \E n \in Roots(f) : g = Drop(f, Below(f, n))

SetAttribute(f, g, p) ==
  \E name \in AttrNames, value \in AttrValues :
    LET Named(a) == a.name = name
        new == [name |-> name, value |-> value]
        i   == SelectInSeq(f[p].attrs, Named)
    IN g = [f EXCEPT ![p].attrs = IF i = 0 THEN Append(@, new) ELSE [@ EXCEPT ![i] = new]]

RemoveAttribute(f, g, p) ==
  \E i \in DOMAIN f[p].attrs : g = [f EXCEPT ![p].attrs = RemoveAt(@, i)]

Step(f, g) ==
  \/ Create(f, g) \/ Clone(f, g) \/ Delete(f, g)
  \/ \E p \in Live(f) :
       \/ Len(g[p].children) = Len(f[p].children) + 1 /\ (Link(f, g, p) \/ Insert(f, g, p))
       \/ g[p].children # f[p].children
          /\ (ReplaceChild(f, g, p) \/ RemoveChild(f, g, p) \/ Clear(f, g, p))
       \/ g[p].attrs # f[p].attrs /\ (SetAttribute(f, g, p) \/ RemoveAttribute(f, g, p))
       \/ Assign(f, g, p)

Init == forest = [n \in Handles |-> Nothing]
Next == Step(forest, forest')
Spec == Init /\ [][Next]_forest
=============================================================================
