--------------------------- MODULE DispatchProofs ---------------------------
(* Proofs about Dispatch: for any number of nodes, connections, services   *)
(* and closings, the maps of the nodes hold exactly the connections there  *)
(* are, what the messages say is true, and nobody the matrix pairs with a  *)
(* service remains untold.                                                 *)
EXTENDS Dispatch, FiniteSetTheorems, SequenceTheorems, WellFoundedInduction, TLAPS

Pairs  == Seq(Nodes \X Nat)
Msg    == [kind : {"start", "service", "connect", "bound", "ask", "event"}, pairs : Pairs]
JobSet == [part : {"none", "order", "forget", "notify", "asker", "tell", "pair"},
           node : Nodes \cup {NoNode}, port : Nat]
States == {"new", "bound", "closed"}
Link   == [client : Slaves, server : Nodes, state : [Ends -> States],
           queue : [Ends -> Seq(Msg)], job : JobSet, dial : Pairs]

\* Given the owners of the ports: the port of a pair belongs to its node.
Truth(ps, p)   == p[2] \in DOMAIN ps /\ ps[p[2]] = p[1]
AllTrue(ps, q) == \A j \in DOMAIN q : Truth(ps, q[j])

\* What travels on, and is in hand at, a connection x.
MsgOk(x, e, ps, m) ==
  /\ m.kind \in {"service", "connect"} => AllTrue(ps, m.pairs)
  /\ m.kind \in {"service", "ask", "event"} => Len(m.pairs) = 1
  /\ m.kind = "service" => m.pairs[1][1] = x.client
  /\ m.kind = "event" => m.pairs[1][1] = x[e]
MsgsOk(x, e, ps, q) == \A i \in DOMAIN q : MsgOk(x, e, ps, q[i])
JobOk(x, ps, j) ==
  /\ j.part \in {"notify", "tell"} => Truth(ps, <<x.client, j.port>>)
  /\ j.part \in {"asker", "pair"} => j.node \in Slaves
LinkOk(x, ps) ==
  /\ \A e \in Ends : MsgsOk(x, e, ps, x.queue[e])
  /\ JobOk(x, ps, x.job) /\ AllTrue(ps, x.dial)

LinksOk(ls, ps) == ls \in Seq(Link) /\ \A k \in DOMAIN ls : LinkOk(ls[k], ps)

LinksInv == LinksOk(links, ports)

\* The answer to a bind is sent once, after doConnect at the server, and makes
\* the client's end bound: that end enters m_connmap once.  A server's end that
\* is not bound yet has nobody to notify.
Answers(q) == {i \in DOMAIN q : q[i].kind = "bound"}
Once(x) ==
  /\ \A i, j \in Answers(x.queue["client"]) : i = j
  /\ x.state["client"] = "bound" => Answers(x.queue["client"]) = {}
  /\ x.state["server"] = "new" \/ x.job.part = "order" =>
       Answers(x.queue["client"]) = {} /\ x.state["client"] # "bound"
  /\ x.state["server"] = "new" => x.job.part # "notify" /\ x.job.part # "order"

OnceInv == \A k \in Links : Once(links[k])

PortsInv ==
  /\ ports \in Seq(Slaves)
  /\ DOMAIN nodemap \subseteq Slaves
  /\ \A n \in DOMAIN nodemap : Truth(ports, <<n, nodemap[n]>>)

ClientsInv ==
  /\ clients \in [Slaves -> Seq([port : Nat, link : Nat])]
  /\ \A n \in Slaves :
       /\ clients[n] # <<>> /\ clients[n][1].port = 0
       /\ \A i \in DOMAIN clients[n] :
            clients[n][i].port \in 0 .. Len(ports) /\ clients[n][i].link \in 0 .. Len(links)

CallInv ==
  /\ smatrix \subseteq Slaves \X Slaves
  /\ want \in [Slaves -> Nodes \cup {NoNode}]
  /\ tries \in [Slaves -> 0 .. Tries]
  /\ asked \in [Slaves -> BOOLEAN] /\ calls \in 0 .. MaxCalls

\* m_connmap and the bound ends are the same, each way.
MapInv ==
  /\ connmap \in [Nodes -> Seq(Nat \X Ends)]
  /\ \A n \in Nodes :
       /\ \A i, j \in DOMAIN connmap[n] : connmap[n][i] = connmap[n][j] => i = j
       /\ \A i \in DOMAIN connmap[n] :
            LET h == connmap[n][i]
            IN  h[1] \in Links /\ Node(h[1], h[2]) = n /\ links[h[1]].state[h[2]] = "bound"
  /\ \A l \in Links, e \in Ends : links[l].state[e] = "bound" =>
       \E i \in DOMAIN connmap[Node(l, e)] : connmap[Node(l, e)][i] = <<l, e>>

IInv == LinksInv /\ OnceInv /\ PortsInv /\ ClientsInv /\ CallInv /\ MapInv /\ ToldInv

------------------------------------------------------------------------------
(* Sequences.                                                               *)

LEMMA Least ==
  ASSUME NEW T, T \subseteq Nat, T # {}
  PROVE  Min(T) \in T /\ \A i \in T : Min(T) <= i
<1>1. PICK x \in T : \A y \in T : ~(<<y, x>> \in OpToRel(<, Nat))
  BY WFMin, NatLessThanWellFounded
<1>2. \A y \in T : ~(y < x)
  BY <1>1 DEF OpToRel
<1>3. \A y \in T : x <= y
  BY <1>2
<1>4. QED
  BY <1>3 DEF Min

LEMMA RemovedAt ==
  ASSUME NEW S, NEW s \in Seq(S), NEW k \in 1 .. Len(s)
  PROVE  /\ RemoveAt(s, k) \in Seq(S) /\ Len(RemoveAt(s, k)) = Len(s) - 1
         /\ \A j \in 1 .. Len(s) - 1 : RemoveAt(s, k)[j] = IF j < k THEN s[j] ELSE s[j + 1]
<1> DEFINE a == SubSeq(s, 1, k - 1)
           b == SubSeq(s, k + 1, Len(s))
<1>1. Len(s) \in Nat /\ \A i \in 1 .. Len(s) : s[i] \in S
  BY LenProperties, ElementOfSeq
<1>2. /\ a \in Seq(S) /\ Len(a) = k - 1
      /\ \A i \in 1 .. k - 1 : a[i] = s[i]
  <2>1. \A i \in 1 .. k - 1 : s[i] \in S
    BY <1>1
  <2>2. QED
    BY <1>1, <2>1, SubSeqProperties
<1>3. /\ b \in Seq(S) /\ Len(b) = Len(s) - k
      /\ \A i \in 1 .. Len(s) - k : b[i] = s[k + i]
  <2>1. \A i \in k + 1 .. Len(s) : s[i] \in S
    BY <1>1
  <2>2. /\ b \in Seq(S)
        /\ Len(b) = IF k + 1 <= Len(s) THEN Len(s) - (k + 1) + 1 ELSE 0
        /\ \A i \in 1 .. Len(s) - (k + 1) + 1 : b[i] = s[k + 1 + i - 1]
    BY <1>1, <2>1, SubSeqProperties
  <2>3. QED
    BY <1>1, <2>2
<1>4. RemoveAt(s, k) = a \o b
  BY DEF RemoveAt
<1> HIDE DEF a, b
<1>5. PICK r : r = a \o b
  OBVIOUS
<1>6. /\ r \in Seq(S) /\ Len(r) = Len(a) + Len(b)
      /\ \A i \in 1 .. Len(a) + Len(b) : r[i] = IF i <= Len(a) THEN a[i] ELSE b[i - Len(a)]
  BY <1>2, <1>3, <1>5, ConcatProperties
<1>7. ASSUME NEW j \in 1 .. Len(s) - 1  PROVE r[j] = IF j < k THEN s[j] ELSE s[j + 1]
  <2>1. CASE j < k
    <3>1. j \in 1 .. k - 1 /\ j <= Len(a) /\ j \in 1 .. Len(a) + Len(b)
      BY <1>1, <1>2, <1>3, <2>1
    <3>2. QED
      BY <1>2, <1>6, <2>1, <3>1
  <2>2. CASE ~(j < k)
    <3>1. j - (k - 1) \in 1 .. Len(s) - k /\ ~(j <= Len(a)) /\ j \in 1 .. Len(a) + Len(b)
      BY <1>1, <1>2, <1>3, <2>2
    <3>2. r[j] = b[j - (k - 1)] /\ k + (j - (k - 1)) = j + 1
      BY <1>1, <1>2, <1>6, <3>1
    <3>3. QED
      BY <1>3, <2>2, <3>1, <3>2
  <2>3. QED
    BY <2>1, <2>2
<1>8. Len(r) = Len(s) - 1
  BY <1>1, <1>2, <1>3, <1>6
<1>9. QED
  BY <1>4, <1>5, <1>6, <1>7, <1>8

\* RemoveFirst() of something that is there once.
LEMMA RemovedFirst ==
  ASSUME NEW S, NEW s \in Seq(S), NEW x,
         \A i, j \in DOMAIN s : s[i] = s[j] => i = j
  PROVE  LET r == RemoveFirst(s, x)
         IN  /\ r \in Seq(S)
             /\ \A i, j \in DOMAIN r : r[i] = r[j] => i = j
             /\ \A j \in DOMAIN r : r[j] # x /\ \E i \in DOMAIN s : r[j] = s[i]
             /\ \A i \in DOMAIN s : s[i] # x => \E j \in DOMAIN r : r[j] = s[i]
<1>1. Len(s) \in Nat /\ DOMAIN s = 1 .. Len(s)
  BY LenProperties
<1>2. CASE \E i \in 1 .. Len(s) : s[i] = x
  <2>1. PICK k \in 1 .. Len(s) : s[k] = x /\ RemoveFirst(s, x) = RemoveAt(s, k)
    <3> DEFINE I == {i \in 1 .. Len(s) : s[i] = x}
    <3>1. Min(I) \in I
      <4>1. I \subseteq Nat /\ I # {}
        BY <1>2
      <4>2. QED
        BY <4>1, Least
    <3>2. RemoveFirst(s, x) = RemoveAt(s, Min(I))
      BY <1>2 DEF RemoveFirst, SelectInSeq
    <3>3. QED
      BY <3>1, <3>2
  <2>2. PICK r : r = RemoveAt(s, k)
    OBVIOUS
  <2>3. /\ r \in Seq(S) /\ Len(r) = Len(s) - 1
        /\ \A j \in 1 .. Len(s) - 1 : r[j] = IF j < k THEN s[j] ELSE s[j + 1]
    BY <2>2, RemovedAt
  <2>4. DOMAIN r = 1 .. Len(s) - 1
    BY <2>3, LenProperties
  <2> DEFINE at(j) == IF j < k THEN j ELSE j + 1
  <2>5. \A j \in 1 .. Len(s) - 1 : at(j) \in 1 .. Len(s) /\ at(j) # k /\ r[j] = s[at(j)]
    BY <1>1, <2>3
  <2>6. ASSUME NEW i \in DOMAIN r, NEW j \in DOMAIN r, r[i] = r[j]  PROVE i = j
    <3>1. i \in 1 .. Len(s) - 1 /\ j \in 1 .. Len(s) - 1
      BY <2>4
    <3>2. at(i) = at(j)
      <4> HIDE DEF at
      <4>1. QED
        BY <1>1, <2>5, <2>6, <3>1
    <3>3. QED
      BY <1>1, <3>1, <3>2
  <2>7. ASSUME NEW j \in DOMAIN r  PROVE r[j] # x /\ \E i \in DOMAIN s : r[j] = s[i]
    <3> HIDE DEF at
    <3>1. j \in 1 .. Len(s) - 1
      BY <2>4
    <3>2. QED
      BY <1>1, <2>1, <2>5, <3>1
  <2> HIDE DEF at
  <2>8. ASSUME NEW i \in DOMAIN s, s[i] # x  PROVE \E j \in DOMAIN r : r[j] = s[i]
    <3>1. CASE i < k
      BY <1>1, <2>1, <2>3, <2>4, <3>1
    <3>2. CASE i > k
      <4>1. i - 1 \in 1 .. Len(s) - 1 /\ ~(i - 1 < k) /\ (i - 1) + 1 = i
        BY <1>1, <2>1, <3>2
      <4>2. r[i - 1] = s[i]
        BY <2>3, <4>1
      <4>3. QED
        BY <2>4, <4>1, <4>2
    <3>3. QED
      BY <1>1, <2>1, <2>8, <3>1, <3>2
  <2>9. QED
    BY <2>1, <2>2, <2>3, <2>6, <2>7, <2>8
<1>3. CASE ~ \E i \in 1 .. Len(s) : s[i] = x
  <2>1. RemoveFirst(s, x) = s
    BY <1>3 DEF RemoveFirst
  <2>2. QED
    BY <1>1, <1>3, <2>1
<1>4. QED
  BY <1>2, <1>3

LEMMA Retyped ==
  ASSUME NEW S, NEW T, NEW s \in Seq(S), \A i \in DOMAIN s : s[i] \in T
  PROVE  s \in Seq(T)
<1>1. Len(s) \in Nat /\ DOMAIN s = 1 .. Len(s) /\ s \in [1 .. Len(s) -> S]
  BY LenProperties
<1>2. s \in [1 .. Len(s) -> T]
  BY <1>1
<1>3. QED
  BY <1>1, <1>2, SeqDef

------------------------------------------------------------------------------
(* What one step does to a connection, and to the sequence of them.         *)

\* q holds no answer that p did not hold.
Fewer(q, p) ==
  /\ Answers(p) = {} => Answers(q) = {}
  /\ (\A i, j \in Answers(p) : i = j) => \A i, j \in Answers(q) : i = j

\* The same connections, at the same nodes, in the same states, with no new
\* answer; the orders and notes to be done are the same.
Same(ls, r) ==
  /\ DOMAIN r = DOMAIN ls
  /\ \A k \in DOMAIN ls : /\ r[k].client = ls[k].client /\ r[k].server = ls[k].server
                          /\ r[k].state = ls[k].state
Kept(ls, r) ==
  /\ Same(ls, r)
  /\ \A k \in DOMAIN ls : Fewer(r[k].queue["client"], ls[k].queue["client"])
\* Only the state of end e of l has changed, and is v.
OnlyState(ls, r, l, e, v) ==
  /\ DOMAIN r = DOMAIN ls /\ r[l].state[e] = v
  /\ \A k \in DOMAIN ls :
       /\ r[k].client = ls[k].client /\ r[k].server = ls[k].server
       /\ r[k].queue = ls[k].queue /\ r[k].job = ls[k].job
       /\ \A d \in Ends : k # l \/ d # e => r[k].state[d] = ls[k].state[d]
Loud == {"order", "notify"}
Busy(ls, r) ==
  \A k \in DOMAIN ls : \A part \in Loud : r[k].job.part = part <=> ls[k].job.part = part

LEMMA KeptTwice ==
  ASSUME NEW a, NEW b, NEW c, Kept(a, b), Kept(b, c)
  PROVE  Kept(a, c)
BY DEF Kept, Same, Fewer

LEMMA BusyTwice ==
  ASSUME NEW a, NEW b, NEW c, Same(a, b), Busy(a, b), Busy(b, c)
  PROVE  Busy(a, c)
BY DEF Same, Busy

LEMMA EndsOf ==
  ASSUME NEW x \in Link, NEW e \in Ends
  PROVE  /\ Other(e) \in Ends /\ x[e] \in Nodes
         /\ x.state[e] \in States /\ x.queue[e] \in Seq(Msg)
BY DEF Link, Ends, Other, Nodes

\* How a connection is replaced, or a part of it.
PutLink(ls, l, y)     == [ls EXCEPT ![l] = y]
PutQueue(ls, l, e, q) == [ls EXCEPT ![l].queue[e] = q]
PutState(ls, l, e, v) == [ls EXCEPT ![l].state[e] = v]
PutJob(ls, l, j)      == [ls EXCEPT ![l].job = j]
PutDial(ls, l, q)     == [ls EXCEPT ![l].dial = q]
Took(ls, l, e)        == [ls EXCEPT ![l].queue[e] = Tail(@)]

\* Put y in the place of connection l.
LEMMA Put ==
  ASSUME NEW ps, NEW ls, LinksOk(ls, ps), NEW l \in DOMAIN ls,
         NEW y \in Link, LinkOk(y, ps)
  PROVE  LET r == PutLink(ls, l, y)
         IN  /\ LinksOk(r, ps) /\ DOMAIN r = DOMAIN ls /\ r[l] = y
             /\ \A k \in DOMAIN ls : k # l => r[k] = ls[k]
<1>1. ls \in Seq(Link)
  BY DEF LinksOk
<1>2. PICK r : r = PutLink(ls, l, y)
  OBVIOUS
<1>3. DOMAIN r = DOMAIN ls /\ r[l] = y /\ \A k \in DOMAIN ls : k # l => r[k] = ls[k]
  BY <1>2 DEF PutLink
<1>4. r \in Seq(Link)
  BY <1>1, <1>2, ExceptSeq, LenProperties DEF PutLink
<1>5. \A k \in DOMAIN r : LinkOk(r[k], ps)
  BY <1>3 DEF LinksOk
<1>6. QED
  BY <1>2, <1>3, <1>4, <1>5 DEF LinksOk

\* A connection is good as long as its ends, messages and work are.
LEMMA Good ==
  ASSUME NEW ps, NEW x \in Link, NEW y \in Link, LinkOk(x, ps),
         y.client = x.client, y.server = x.server,
         \A e \in Ends : MsgsOk(x, e, ps, y.queue[e]),
         JobOk(x, ps, y.job), AllTrue(ps, y.dial)
  PROVE  LinkOk(y, ps)
<1>1. \A e \in Ends : y[e] = x[e]
  BY DEF Ends
<1>2. \A e \in Ends : MsgsOk(y, e, ps, y.queue[e])
  BY <1>1 DEF MsgsOk, MsgOk
<1>3. JobOk(y, ps, y.job)
  BY DEF JobOk
<1>4. QED
  BY <1>2, <1>3 DEF LinkOk

LEMMA SetQueue ==
  ASSUME NEW ps, NEW ls, LinksOk(ls, ps), NEW l \in DOMAIN ls, NEW e \in Ends,
         NEW q \in Seq(Msg), MsgsOk(ls[l], e, ps, q)
  PROVE  LET r == PutQueue(ls, l, e, q)
         IN  /\ LinksOk(r, ps) /\ Same(ls, r) /\ Busy(ls, r)
             /\ \A k \in DOMAIN ls :
                  /\ r[k].job = ls[k].job
                  /\ \A d \in Ends : r[k].queue[d] = IF k = l /\ d = e THEN q ELSE ls[k].queue[d]
<1>1. PICK x \in Link : x = ls[l] /\ LinkOk(x, ps)
  BY ElementOfSeq, LenProperties DEF LinksOk
<1>2. PICK y : y = [x EXCEPT !.queue[e] = q]
  OBVIOUS
<1>3. /\ y \in Link /\ y.client = x.client /\ y.server = x.server /\ y.state = x.state
      /\ y.job = x.job /\ y.dial = x.dial
      /\ y.queue[e] = q /\ \A d \in Ends : d # e => y.queue[d] = x.queue[d]
  BY <1>2 DEF Link
<1>4. LinkOk(y, ps)
  <2>1. \A d \in Ends : MsgsOk(x, d, ps, y.queue[d])
    BY <1>1, <1>3 DEF LinkOk
  <2>2. JobOk(x, ps, y.job) /\ AllTrue(ps, y.dial)
    BY <1>1, <1>3 DEF LinkOk
  <2>3. QED
    BY <1>1, <1>3, <2>1, <2>2, Good
<1>5. PICK r : r = PutLink(ls, l, y)
  OBVIOUS
<1>6. r = PutQueue(ls, l, e, q)
  BY <1>1, <1>2, <1>5 DEF PutLink, PutQueue
<1>7. /\ LinksOk(r, ps) /\ DOMAIN r = DOMAIN ls /\ r[l] = y
      /\ \A k \in DOMAIN ls : k # l => r[k] = ls[k]
  BY <1>3, <1>4, <1>5, Put
<1>8. Same(ls, r) /\ Busy(ls, r)
  BY <1>1, <1>3, <1>7 DEF Same, Busy
<1>9. \A k \in DOMAIN ls :
        /\ r[k].job = ls[k].job
        /\ \A d \in Ends : r[k].queue[d] = IF k = l /\ d = e THEN q ELSE ls[k].queue[d]
  BY <1>1, <1>3, <1>7
<1>10. QED
  BY <1>6, <1>7, <1>8, <1>9

LEMMA SetState ==
  ASSUME NEW ps, NEW ls, LinksOk(ls, ps), NEW l \in DOMAIN ls, NEW e \in Ends,
         NEW v \in States
  PROVE  LET r == PutState(ls, l, e, v)
         IN  LinksOk(r, ps) /\ OnlyState(ls, r, l, e, v)
<1>1. PICK x \in Link : x = ls[l] /\ LinkOk(x, ps)
  BY ElementOfSeq, LenProperties DEF LinksOk
<1>2. PICK y : y = [x EXCEPT !.state[e] = v]
  OBVIOUS
<1>3. /\ y \in Link /\ y.client = x.client /\ y.server = x.server /\ y.queue = x.queue
      /\ y.job = x.job /\ y.dial = x.dial
      /\ y.state[e] = v /\ \A d \in Ends : d # e => y.state[d] = x.state[d]
  BY <1>2 DEF Link, States
<1>4. LinkOk(y, ps)
  BY <1>1, <1>3, Good DEF LinkOk
<1>5. PICK r : r = PutLink(ls, l, y)
  OBVIOUS
<1>6. r = PutState(ls, l, e, v)
  BY <1>1, <1>2, <1>5 DEF PutLink, PutState
<1>7. /\ LinksOk(r, ps) /\ DOMAIN r = DOMAIN ls /\ r[l] = y
      /\ \A k \in DOMAIN ls : k # l => r[k] = ls[k]
  BY <1>3, <1>4, <1>5, Put
<1>8. OnlyState(ls, r, l, e, v)
  BY <1>1, <1>3, <1>7 DEF OnlyState
<1>9. QED
  BY <1>6, <1>7, <1>8

LEMMA SetJob ==
  ASSUME NEW ps, NEW ls, LinksOk(ls, ps), NEW l \in DOMAIN ls,
         NEW j \in JobSet, JobOk(ls[l], ps, j)
  PROVE  LET r == PutJob(ls, l, j)
         IN  /\ LinksOk(r, ps) /\ Kept(ls, r)
             /\ ls[l].job.part \notin Loud /\ j.part \notin Loud => Busy(ls, r)
             /\ r[l].job = j /\ \A k \in DOMAIN ls : k # l => r[k].job = ls[k].job
             /\ \A k \in DOMAIN ls : r[k].queue = ls[k].queue
<1>1. PICK x \in Link : x = ls[l] /\ LinkOk(x, ps)
  BY ElementOfSeq, LenProperties DEF LinksOk
<1>2. PICK y : y = [x EXCEPT !.job = j]
  OBVIOUS
<1>3. /\ y \in Link /\ y.client = x.client /\ y.server = x.server /\ y.queue = x.queue
      /\ y.state = x.state /\ y.job = j /\ y.dial = x.dial
  BY <1>2 DEF Link
<1>4. LinkOk(y, ps)
  BY <1>1, <1>3, Good DEF LinkOk
<1>5. PICK r : r = PutLink(ls, l, y)
  OBVIOUS
<1>6. r = PutJob(ls, l, j)
  BY <1>1, <1>2, <1>5 DEF PutLink, PutJob
<1>7. /\ LinksOk(r, ps) /\ DOMAIN r = DOMAIN ls /\ r[l] = y
      /\ \A k \in DOMAIN ls : k # l => r[k] = ls[k]
  BY <1>3, <1>4, <1>5, Put
<1>8. Kept(ls, r)
  BY <1>1, <1>3, <1>7 DEF Kept, Same, Fewer
<1>9. ls[l].job.part \notin Loud /\ j.part \notin Loud => Busy(ls, r)
  BY <1>3, <1>7 DEF Busy
<1>10. \A k \in DOMAIN ls : r[k].queue = ls[k].queue
  BY <1>1, <1>3, <1>7
<1>11. QED
  BY <1>6, <1>3, <1>7, <1>8, <1>9, <1>10

LEMMA SetDial ==
  ASSUME NEW ps, NEW ls, LinksOk(ls, ps), NEW l \in DOMAIN ls,
         NEW q \in Pairs, AllTrue(ps, q)
  PROVE  LET r == PutDial(ls, l, q)
         IN  LinksOk(r, ps) /\ Kept(ls, r) /\ Busy(ls, r)
<1>1. PICK x \in Link : x = ls[l] /\ LinkOk(x, ps)
  BY ElementOfSeq, LenProperties DEF LinksOk
<1>2. PICK y : y = [x EXCEPT !.dial = q]
  OBVIOUS
<1>3. /\ y \in Link /\ y.client = x.client /\ y.server = x.server /\ y.queue = x.queue
      /\ y.state = x.state /\ y.job = x.job /\ y.dial = q
  BY <1>2 DEF Link
<1>4. LinkOk(y, ps)
  BY <1>1, <1>3, Good DEF LinkOk
<1>5. PICK r : r = PutLink(ls, l, y)
  OBVIOUS
<1>6. r = PutDial(ls, l, q)
  BY <1>1, <1>2, <1>5 DEF PutLink, PutDial
<1>7. /\ LinksOk(r, ps) /\ DOMAIN r = DOMAIN ls /\ r[l] = y
      /\ \A k \in DOMAIN ls : k # l => r[k] = ls[k]
  BY <1>3, <1>4, <1>5, Put
<1>8. Kept(ls, r) /\ Busy(ls, r)
  BY <1>1, <1>3, <1>7 DEF Kept, Same, Fewer, Busy
<1>9. QED
  BY <1>6, <1>7, <1>8

\* One message, and what follows it, of a queue.
LEMMA HeadOk ==
  ASSUME NEW ps, NEW x, NEW e, NEW q \in Seq(Msg), q # <<>>, MsgsOk(x, e, ps, q)
  PROVE  /\ Head(q) \in Msg /\ MsgOk(x, e, ps, Head(q))
         /\ Tail(q) \in Seq(Msg) /\ MsgsOk(x, e, ps, Tail(q)) /\ Fewer(Tail(q), q)
         /\ Head(q).kind = "bound" =>
              /\ Answers(q) # {}
              /\ (\A i, j \in Answers(q) : i = j) => Answers(Tail(q)) = {}
<1>1. /\ Len(q) \in Nat /\ Len(q) > 0 /\ DOMAIN q = 1 .. Len(q)
      /\ Head(q) = q[1] /\ q[1] \in Msg
      /\ Tail(q) \in Seq(Msg) /\ Len(Tail(q)) = Len(q) - 1
      /\ \A i \in 1 .. Len(Tail(q)) : Tail(q)[i] = q[i + 1]
  BY HeadTailProperties, LenProperties, ElementOfSeq, EmptySeq
<1>2. PICK t : t = Tail(q)
  OBVIOUS
<1>3. DOMAIN t = 1 .. Len(q) - 1 /\ \A i \in DOMAIN t : i + 1 \in DOMAIN q /\ t[i] = q[i + 1]
  BY <1>1, <1>2, LenProperties
<1>4. \A i \in DOMAIN t : MsgOk(x, e, ps, t[i])
  BY <1>1, <1>3 DEF MsgsOk
<1>5. \A i \in Answers(t) : i \in Int /\ i + 1 \in Answers(q) /\ i + 1 # 1
  BY <1>1, <1>3 DEF Answers
<1>6. Fewer(t, q)
  <2>1. Answers(q) = {} => Answers(t) = {}
    BY <1>5
  <2>2. ASSUME \A i, j \in Answers(q) : i = j, NEW i \in Answers(t), NEW j \in Answers(t)  PROVE i = j
    <3>1. i \in Int /\ j \in Int /\ i + 1 = j + 1
      BY <1>5, <2>2
    <3>2. QED
      BY <3>1
  <2>3. QED
    BY <2>1, <2>2 DEF Fewer
<1>7. ASSUME Head(q).kind = "bound"
      PROVE  Answers(q) # {} /\ ((\A i, j \in Answers(q) : i = j) => Answers(t) = {})
  <2>1. 1 \in Answers(q)
    BY <1>1, <1>7 DEF Answers
  <2>2. QED
    BY <1>5, <2>1
<1>8. QED
  BY <1>1, <1>2, <1>4, <1>6, <1>7 DEF MsgsOk

LEMMA Take ==
  ASSUME NEW ps, NEW ls, LinksOk(ls, ps), NEW l \in DOMAIN ls, NEW e \in Ends,
         ls[l].queue[e] # <<>>
  PROVE  LET r == Took(ls, l, e)
         IN  /\ LinksOk(r, ps) /\ Kept(ls, r) /\ Busy(ls, r)
             /\ \A k \in DOMAIN ls : r[k].job = ls[k].job
             /\ r[l].queue[e] = Tail(ls[l].queue[e])
             /\ Head(ls[l].queue[e]) \in Msg /\ MsgOk(ls[l], e, ps, Head(ls[l].queue[e]))
<1>1. PICK q : q = ls[l].queue[e]
  OBVIOUS
<1>2. ls[l] \in Link /\ LinkOk(ls[l], ps)
  BY ElementOfSeq, LenProperties DEF LinksOk
<1>3. q \in Seq(Msg) /\ MsgsOk(ls[l], e, ps, q)
  BY <1>1, <1>2, EndsOf DEF LinkOk
<1>4. /\ Head(q) \in Msg /\ MsgOk(ls[l], e, ps, Head(q))
      /\ Tail(q) \in Seq(Msg) /\ MsgsOk(ls[l], e, ps, Tail(q)) /\ Fewer(Tail(q), q)
  BY <1>1, <1>3, HeadOk
<1>5. PICK t : t = Tail(q)
  OBVIOUS
<1>6. PICK r : r = PutQueue(ls, l, e, t)
  OBVIOUS
<1>7. t \in Seq(Msg) /\ MsgsOk(ls[l], e, ps, t) /\ Fewer(t, q)
  BY <1>4, <1>5
<1>8. /\ LinksOk(r, ps) /\ Same(ls, r) /\ Busy(ls, r)
      /\ \A k \in DOMAIN ls :
           /\ r[k].job = ls[k].job
           /\ \A d \in Ends : r[k].queue[d] = IF k = l /\ d = e THEN t ELSE ls[k].queue[d]
  BY <1>6, <1>7, SetQueue
<1>9. "client" \in Ends /\ \A p : Fewer(p, p)
  BY DEF Ends, Fewer
<1>10. Kept(ls, r)
  BY <1>1, <1>4, <1>5, <1>8, <1>9 DEF Kept
<1>11. Took(ls, l, e) = r
  BY <1>1, <1>5, <1>6 DEF Took, PutQueue
<1>12. QED
  BY <1>1, <1>4, <1>5, <1>8, <1>9, <1>10, <1>11

\* Messages behind others.
LEMMA Joined ==
  ASSUME NEW ps, NEW x, NEW e, NEW q \in Seq(Msg), NEW m \in Seq(Msg),
         MsgsOk(x, e, ps, q), MsgsOk(x, e, ps, m)
  PROVE  /\ q \o m \in Seq(Msg) /\ MsgsOk(x, e, ps, q \o m)
         /\ Answers(m) = {} => Fewer(q \o m, q)
         /\ Answers(q) = {} => Fewer(q \o m, m)
<1>1. PICK c : c = q \o m
  OBVIOUS
<1>2. /\ c \in Seq(Msg) /\ Len(c) = Len(q) + Len(m)
      /\ \A i \in 1 .. Len(q) + Len(m) : c[i] = IF i <= Len(q) THEN q[i] ELSE m[i - Len(q)]
      /\ DOMAIN q = 1 .. Len(q) /\ DOMAIN m = 1 .. Len(m) /\ DOMAIN c = 1 .. Len(c)
      /\ Len(q) \in Nat /\ Len(m) \in Nat
  BY <1>1, ConcatProperties, LenProperties
<1>3. ASSUME NEW i \in DOMAIN c
      PROVE  \/ i \in DOMAIN q /\ c[i] = q[i]
             \/ i - Len(q) \in DOMAIN m /\ c[i] = m[i - Len(q)]
  BY <1>2
<1>4. MsgsOk(x, e, ps, c)
  BY <1>3 DEF MsgsOk
<1>5. \A i \in Answers(c) : i \in Int /\ (i \in Answers(q) \/ i - Len(q) \in Answers(m))
  BY <1>2, <1>3 DEF Answers
<1>6. Answers(m) = {} => Fewer(c, q)
  BY <1>5 DEF Fewer
<1>7. ASSUME Answers(q) = {}  PROVE Fewer(c, m)
  <2>1. Answers(m) = {} => Answers(c) = {}
    BY <1>5, <1>7
  <2>2. ASSUME \A i, j \in Answers(m) : i = j, NEW i \in Answers(c), NEW j \in Answers(c)  PROVE i = j
    <3>1. i \in Int /\ j \in Int /\ i - Len(q) = j - Len(q)
      BY <1>5, <1>7, <2>2
    <3>2. QED
      BY <1>2, <3>1
  <2>3. QED
    BY <2>1, <2>2 DEF Fewer
<1>8. QED
  BY <1>1, <1>2, <1>4, <1>6, <1>7

LEMMA Send ==
  ASSUME NEW ps, NEW ls, LinksOk(ls, ps), NEW l \in DOMAIN ls, NEW e \in Ends,
         NEW msgs \in Seq(Msg), MsgsOk(ls[l], Other(e), ps, msgs)
  PROVE  LET z == Sent(ls, l, e, msgs)
         IN  /\ LinksOk(z, ps) /\ Same(ls, z) /\ Busy(ls, z)
             /\ Answers(msgs) = {} => Kept(ls, z)
             /\ \A k \in DOMAIN ls :
                  /\ z[k].job = ls[k].job
                  /\ \A d \in Ends : \/ z[k].queue[d] = ls[k].queue[d]
                                     \/ /\ k = l /\ d = Other(e) /\ ls[l].state[d] # "closed"
                                        /\ z[k].queue[d] = ls[k].queue[d] \o msgs
<1>1. PICK q, b : q = ls[l].queue[b] /\ b = Other(e)
  OBVIOUS
<1>2. ls[l] \in Link /\ LinkOk(ls[l], ps) /\ b \in Ends
  BY <1>1, ElementOfSeq, LenProperties, EndsOf DEF LinksOk
<1>3. q \in Seq(Msg) /\ MsgsOk(ls[l], b, ps, q)
  BY <1>1, <1>2, EndsOf DEF LinkOk
<1>4. PICK c : c = q \o msgs
  OBVIOUS
<1>5. c \in Seq(Msg) /\ MsgsOk(ls[l], b, ps, c) /\ (Answers(msgs) = {} => Fewer(c, q))
  BY <1>1, <1>3, <1>4, Joined
<1>6. PICK r : r = PutQueue(ls, l, b, c)
  OBVIOUS
<1>7. /\ LinksOk(r, ps) /\ Same(ls, r) /\ Busy(ls, r)
      /\ \A k \in DOMAIN ls :
           /\ r[k].job = ls[k].job
           /\ \A d \in Ends : r[k].queue[d] = IF k = l /\ d = b THEN c ELSE ls[k].queue[d]
  BY <1>2, <1>5, <1>6, SetQueue
<1>8. "client" \in Ends /\ \A p : Fewer(p, p)
  BY DEF Ends, Fewer
<1>9. Answers(msgs) = {} => Kept(ls, r)
  BY <1>1, <1>5, <1>7, <1>8 DEF Kept
<1>10. PICK z : z = Sent(ls, l, e, msgs)
  OBVIOUS
<1>11. CASE ls[l].state[b] = "closed"
  <2>1. z = ls
    BY <1>1, <1>10, <1>11 DEF Sent
  <2>2. Kept(z, z) /\ Same(z, z) /\ Busy(z, z)
    BY <1>8 DEF Kept, Same, Busy
  <2>3. LinksOk(z, ps) /\ Same(ls, z) /\ Busy(ls, z) /\ Kept(ls, z)
    BY <2>1, <2>2
  <2>4. QED
    BY <1>10, <2>1, <2>3
<1>12. CASE ls[l].state[b] # "closed"
  <2>1. z = r
    BY <1>1, <1>4, <1>6, <1>10, <1>12 DEF Sent, PutQueue
  <2>2. \A k \in DOMAIN ls :
          /\ z[k].job = ls[k].job
          /\ \A d \in Ends : \/ z[k].queue[d] = ls[k].queue[d]
                             \/ /\ k = l /\ d = Other(e) /\ ls[l].state[d] # "closed"
                                /\ z[k].queue[d] = ls[k].queue[d] \o msgs
    BY <1>1, <1>4, <1>7, <1>12, <2>1
  <2>3. LinksOk(z, ps) /\ Same(ls, z) /\ Busy(ls, z) /\ (Answers(msgs) = {} => Kept(ls, z))
    BY <1>7, <1>9, <2>1
  <2>4. QED
    BY <1>10, <2>2, <2>3
<1>13. QED
  BY <1>11, <1>12

\* A message with one pair.
LEMMA Single ==
  ASSUME NEW ps, NEW x, NEW e, NEW kind \in {"service", "connect", "ask", "event"},
         NEW n \in Nodes, NEW p \in Nat,
         kind \in {"service", "connect"} => Truth(ps, <<n, p>>),
         kind = "service" => n = x.client,
         kind = "event" => n = x[e]
  PROVE  LET q == <<Message(kind, <<<<n, p>>>>)>>
         IN  q \in Seq(Msg) /\ MsgsOk(x, e, ps, q) /\ Answers(q) = {}
<1>1. PICK m : m = Message(kind, <<<<n, p>>>>)
  OBVIOUS
<1>2. m.kind = kind /\ m.pairs = <<<<n, p>>>>
  BY <1>1 DEF Message
<1>3. m \in Msg
  BY <1>1 DEF Message, Msg, Pairs
<1>4. DOMAIN m.pairs = {1} /\ Len(m.pairs) = 1 /\ m.pairs[1] = <<n, p>>
  BY <1>2
<1>5. MsgOk(x, e, ps, m)
  BY <1>2, <1>4 DEF MsgOk, AllTrue
<1>6. <<m>> \in Seq(Msg) /\ DOMAIN <<m>> = {1} /\ <<m>>[1] = m
  BY <1>3
<1>7. MsgsOk(x, e, ps, <<m>>)
  BY <1>5, <1>6 DEF MsgsOk
<1>8. Answers(<<m>>) = {}
  BY <1>2, <1>6 DEF Answers
<1>9. QED
  BY <1>1, <1>6, <1>7, <1>8

\* A message with none.
LEMMA Bare ==
  ASSUME NEW ps, NEW x, NEW e, NEW kind \in {"start", "bound"}
  PROVE  LET q == <<Message(kind, <<>>)>>
         IN  /\ q \in Seq(Msg) /\ MsgsOk(x, e, ps, q)
             /\ Answers(q) = IF kind = "bound" THEN {1} ELSE {}
<1>1. PICK m : m = Message(kind, <<>>)
  OBVIOUS
<1>2. m.kind = kind /\ m \in Msg
  BY <1>1 DEF Message, Msg, Pairs
<1>3. MsgOk(x, e, ps, m)
  BY <1>2 DEF MsgOk
<1>4. <<m>> \in Seq(Msg) /\ DOMAIN <<m>> = {1} /\ <<m>>[1] = m
  BY <1>2
<1>5. MsgsOk(x, e, ps, <<m>>)
  BY <1>3, <1>4 DEF MsgsOk
<1>6. Answers(<<m>>) = IF kind = "bound" THEN {1} ELSE {}
  BY <1>2, <1>4 DEF Answers
<1>7. QED
  BY <1>1, <1>4, <1>5, <1>6

\* A further service takes nothing from what is true of those before.
LEMMA Grown ==
  ASSUME NEW ps \in Seq(Slaves), NEW n \in Slaves
  PROVE  LET g == Append(ps, n)
         IN  /\ g \in Seq(Slaves) /\ Len(g) = Len(ps) + 1 /\ Truth(g, <<n, Len(ps) + 1>>)
             /\ \A p : Truth(ps, p) => Truth(g, p)
             /\ \A ls : LinksOk(ls, ps) => LinksOk(ls, g)
<1>1. PICK g : g = Append(ps, n)
  OBVIOUS
<1>2. /\ g \in Seq(Slaves) /\ Len(g) = Len(ps) + 1 /\ g[Len(ps) + 1] = n
      /\ \A i \in 1 .. Len(ps) : g[i] = ps[i]
      /\ DOMAIN g = 1 .. Len(ps) + 1 /\ DOMAIN ps = 1 .. Len(ps) /\ Len(ps) \in Nat
  BY <1>1, AppendProperties, LenProperties
<1>3. Truth(g, <<n, Len(ps) + 1>>)
  BY <1>2 DEF Truth
<1>4. \A p : Truth(ps, p) => Truth(g, p)
  BY <1>2 DEF Truth
<1>5. \A q : AllTrue(ps, q) => AllTrue(g, q)
  BY <1>4 DEF AllTrue
<1>6. \A x, e, q : MsgsOk(x, e, ps, q) => MsgsOk(x, e, g, q)
  BY <1>5 DEF MsgsOk, MsgOk
<1>7. \A x : LinkOk(x, ps) => LinkOk(x, g)
  BY <1>4, <1>5, <1>6 DEF LinkOk, JobOk
<1>8. \A ls : LinksOk(ls, ps) => LinksOk(ls, g)
  BY <1>7 DEF LinksOk
<1>9. QED
  BY <1>1, <1>2, <1>3, <1>4, <1>8

------------------------------------------------------------------------------
(* What follows from the invariant, and what keeps its parts.               *)

LEMMA LinksDomain ==
  ASSUME LinksInv
  PROVE  Len(links) \in Nat /\ Links = 1 .. Len(links) /\ \A l \in Links : links[l] \in Link
BY LenProperties, ElementOfSeq DEF LinksInv, LinksOk, Links

\* What m_connmap.find() finds.
LEMMA Finds ==
  ASSUME LinksInv, MapInv, NEW n \in Nodes, NEW m, Connected(n, m)
  PROVE  LET h == First(n, m)
         IN  /\ h \in Links \X Ends /\ Node(h[1], h[2]) = n /\ Remote(h[1], h[2]) = m
             /\ links[h[1]].state[h[2]] = "bound"
<1>1. connmap[n] \in Seq(Nat \X Ends) /\ DOMAIN connmap[n] = 1 .. Len(connmap[n])
  BY LenProperties DEF MapInv
<1>2. Found(n, m) \subseteq Nat /\ Found(n, m) # {}
  BY <1>1 DEF Found, Connected
<1>3. PICK i : i = Min(Found(n, m)) /\ i \in Found(n, m)
  BY <1>2, Least
<1>4. PICK h : h = First(n, m) /\ h = connmap[n][i]
  BY <1>3 DEF First
<1>5. i \in DOMAIN connmap[n] /\ Remote(h[1], h[2]) = m
  BY <1>3, <1>4 DEF Found
<1>6. h \in Nat \X Ends
  BY <1>1, <1>4, <1>5, ElementOfSeq
<1>7. h[1] \in Links /\ Node(h[1], h[2]) = n /\ links[h[1]].state[h[2]] = "bound"
  BY <1>4, <1>5 DEF MapInv
<1>8. QED
  BY <1>4, <1>5, <1>6, <1>7

\* Who is bound to n is found there.
LEMMA IsFound ==
  ASSUME LinksInv, MapInv, NEW l \in Links, NEW e \in Ends, links[l].state[e] = "bound"
  PROVE  Connected(Node(l, e), Remote(l, e))
<1>1. PICK i \in DOMAIN connmap[Node(l, e)] : connmap[Node(l, e)][i] = <<l, e>>
  BY DEF MapInv
<1>2. i \in Found(Node(l, e), Remote(l, e))
  BY <1>1 DEF Found
<1>3. QED
  BY <1>2 DEF Connected

LEMMA OnceKept ==
  ASSUME OnceInv, Kept(links, links'),
         \A k \in Links :
           /\ Doing(k, "order")' => Doing(k, "order")
           /\ Doing(k, "notify")' => Doing(k, "notify") \/ links[k].state["server"] # "new"
  PROVE  OnceInv'
<1>1. ASSUME NEW k \in DOMAIN links  PROVE Once(links'[k])
  <2>1. Once(links[k])
    BY DEF OnceInv, Links
  <2>2. /\ links'[k].state = links[k].state
        /\ Fewer(links'[k].queue["client"], links[k].queue["client"])
    BY DEF Kept, Same
  <2>3. /\ links'[k].job.part = "order" => links[k].job.part = "order"
        /\ links'[k].job.part = "notify" =>
             links[k].job.part = "notify" \/ links[k].state["server"] # "new"
    BY DEF Doing, Links
  <2>4. QED
    BY <2>1, <2>2, <2>3 DEF Once, Fewer
<1>2. DOMAIN links' = DOMAIN links
  BY DEF Kept, Same
<1>3. QED
  BY <1>1, <1>2 DEF OnceInv, Links

\* Ends stay at their nodes and in their states, and none is new and bound.
LEMMA MapSame ==
  ASSUME MapInv, UNCHANGED connmap,
         \A k \in Links, e \in Ends :
           k \in Links' /\ links'[k].state[e] = links[k].state[e] /\ links'[k][e] = links[k][e],
         \A k \in Links', e \in Ends : links'[k].state[e] = "bound" => k \in Links
  PROVE  MapInv'
<1>1. ASSUME NEW n \in Nodes, NEW i \in DOMAIN connmap[n]
      PROVE  LET h == connmap[n][i]
             IN  h[1] \in Links' /\ links'[h[1]][h[2]] = n /\ links'[h[1]].state[h[2]] = "bound"
  <2>1. PICK h : h = connmap[n][i]
    OBVIOUS
  <2>2. h \in Nat \X Ends
    BY <2>1, ElementOfSeq, LenProperties DEF MapInv
  <2>3. h[1] \in Links /\ links[h[1]][h[2]] = n /\ links[h[1]].state[h[2]] = "bound"
    BY <2>1 DEF MapInv, Node
  <2>4. QED
    BY <2>1, <2>2, <2>3
<1>2. ASSUME NEW l \in Links', NEW e \in Ends, links'[l].state[e] = "bound"
      PROVE  \E i \in DOMAIN connmap[links'[l][e]] : connmap[links'[l][e]][i] = <<l, e>>
  <2>1. l \in Links /\ links[l].state[e] = "bound" /\ links'[l][e] = links[l][e]
    BY <1>2
  <2>2. \E i \in DOMAIN connmap[links[l][e]] : connmap[links[l][e]][i] = <<l, e>>
    BY <2>1 DEF MapInv, Node
  <2>3. QED
    BY <2>1, <2>2
<1>3. connmap \in [Nodes -> Seq(Nat \X Ends)]
  BY DEF MapInv
<1>4. \A n \in Nodes : \A i, j \in DOMAIN connmap[n] : connmap[n][i] = connmap[n][j] => i = j
  BY DEF MapInv
<1>5. /\ connmap' \in [Nodes -> Seq(Nat \X Ends)]
      /\ \A n \in Nodes : \A i, j \in DOMAIN connmap'[n] : connmap'[n][i] = connmap'[n][j] => i = j
  BY <1>3, <1>4
<1>6. \A n \in Nodes : \A i \in DOMAIN connmap'[n] :
        LET h == connmap'[n][i]
        IN  h[1] \in Links' /\ links'[h[1]][h[2]] = n /\ links'[h[1]].state[h[2]] = "bound"
  BY <1>1
<1>7. \A l \in Links', e \in Ends : links'[l].state[e] = "bound" =>
        \E i \in DOMAIN connmap'[links'[l][e]] : connmap'[links'[l][e]][i] = <<l, e>>
  BY <1>2
<1>8. QED
  BY <1>5, <1>6, <1>7 DEF MapInv, Node

LEMMA MapKept ==
  ASSUME MapInv, Same(links, links'), UNCHANGED connmap
  PROVE  MapInv'
<1>1. \A k \in Links, e \in Ends :
        k \in Links' /\ links'[k].state[e] = links[k].state[e] /\ links'[k][e] = links[k][e]
  BY DEF Same, Links, Ends
<1>2. Links' = Links
  BY DEF Same, Links
<1>3. QED
  BY <1>1, <1>2, MapSame

\* Nobody is left out as long as nobody new is bound and no note is dropped.
LEMMA ToldKept ==
  ASSUME ToldInv, told \subseteq told',
         \A k \in Links : /\ k \in Links' /\ links'[k].client = links[k].client
                          /\ Doing(k, "notify") => Doing(k, "notify")',
         \A k \in Links' :
           links'[k].server = Master /\ links'[k].state["server"] = "bound" /\ ~Doing(k, "order")' =>
             /\ k \in Links /\ links[k].server = Master /\ links[k].state["server"] = "bound"
             /\ ~Doing(k, "order"),
         \A s \in DOMAIN nodemap', c \in Nat : <<s, c>> \in (smatrix \ late)' =>
           s \in DOMAIN nodemap /\ <<s, c>> \in smatrix \ late,
         LinksInv, LinksInv'
  PROVE  ToldInv'
<1> SUFFICES ASSUME NEW l \in Links', NEW s \in DOMAIN nodemap',
                    links'[l].server = Master, links'[l].state["server"] = "bound",
                    ~Doing(l, "order")', <<s, links'[l].client>> \in (smatrix \ late)'
             PROVE  \/ <<links'[l].client, s>> \in told'
                    \/ \E k \in Links' : links'[k].client = s /\ Doing(k, "notify")'
  BY DEF ToldInv
<1>1. PICK c : c = links'[l].client
  OBVIOUS
<1>2. /\ l \in Links /\ links[l].server = Master /\ links[l].state["server"] = "bound"
      /\ ~Doing(l, "order") /\ links[l].client = c
  BY <1>1
<1>3. c \in Nat
  <2>1. links[l] \in Link
    BY <1>2, LinksDomain
  <2>2. QED
    BY <1>2, <2>1, DispatchAssumption DEF Link
<1>4. s \in DOMAIN nodemap /\ <<s, c>> \in smatrix \ late
  BY <1>1, <1>3
<1>5. <<c, s>> \in told \/ \E k \in Links : links[k].client = s /\ Doing(k, "notify")
  BY <1>2, <1>4 DEF ToldInv
<1>6. QED
  BY <1>1, <1>5

LEMMA ToldQuiet ==
  ASSUME ToldInv, told \subseteq told', Same(links, links'), Busy(links, links'),
         UNCHANGED <<nodemap, smatrix, late>>, LinksInv, LinksInv'
  PROVE  ToldInv'
<1>1. Links' = Links
  BY DEF Same, Links
<1>2. \A k \in Links : /\ links'[k].client = links[k].client /\ links'[k].server = links[k].server
                       /\ links'[k].state = links[k].state
                       /\ Doing(k, "notify") <=> Doing(k, "notify")'
                       /\ Doing(k, "order") <=> Doing(k, "order")'
  BY DEF Same, Busy, Loud, Doing, Links
<1>3. QED
  BY <1>1, <1>2, ToldKept

\* A step that binds and unbinds nobody and leaves the master's maps alone.
LEMMA Quiet ==
  ASSUME IInv, LinksInv', Kept(links, links'), Busy(links, links'), told \subseteq told',
         UNCHANGED <<connmap, nodemap, smatrix, late>>
  PROVE  OnceInv' /\ MapInv' /\ ToldInv'
<1>1. Same(links, links')
  BY DEF Kept
<1>2. \A k \in Links : /\ Doing(k, "order")' => Doing(k, "order")
                       /\ Doing(k, "notify")' => Doing(k, "notify")
  BY DEF Busy, Loud, Doing, Links
<1>3. QED
  BY <1>1, <1>2, OnceKept, MapKept, ToldQuiet DEF IInv

\* The same, of the whole invariant.
LEMMA QuietStep ==
  ASSUME IInv, LinksInv', Kept(links, links'), Busy(links, links'), told \subseteq told',
         UNCHANGED <<connmap, nodemap, smatrix, ports, clients, late>>, CallInv'
  PROVE  IInv'
<1>1. OnceInv' /\ MapInv' /\ ToldInv'
  BY Quiet
<1>2. PortsInv'
  BY DEF IInv, PortsInv
<1>3. ClientsInv'
  <2>1. Len(links') = Len(links)
    BY LenProperties DEF Kept, Same, IInv, LinksInv, LinksOk
  <2>2. QED
    BY <2>1 DEF IInv, ClientsInv
<1>4. QED
  BY <1>1, <1>2, <1>3 DEF IInv

LEMMA CallsKept ==
  ASSUME CallInv, UNCHANGED <<smatrix, calling>>
  PROVE  CallInv'
BY DEF CallInv, calling

\* What it means that a message has arrived.
LEMMA Reads ==
  ASSUME LinksInv, NEW l \in Links, NEW e \in Ends, NEW kind, Arrived(l, e, kind)
  PROVE  LET m == Head(links[l].queue[e])
             r == Taken(l, e)
         IN  /\ m \in Msg /\ m.kind = kind /\ MsgOk(links[l], e, ports, m)
             /\ kind \in {"service", "ask", "event"} =>
                  Arg(l, e) \in Nodes \X Nat /\ DOMAIN m.pairs = {1}
             /\ e = "server" => links[l].job = NoJob
             /\ LinksOk(r, ports) /\ Kept(links, r) /\ Busy(links, r)
             /\ \A k \in Links : r[k].job = links[k].job
             /\ r[l].queue[e] = Tail(links[l].queue[e])
<1>1. links[l].queue[e] # <<>> /\ Taken(l, e) = Took(links, l, e)
  BY DEF Arrived, Taken, Took
<1>2. PICK m : m = Head(links[l].queue[e])
  OBVIOUS
<1>3. m.kind = kind /\ (e = "server" => links[l].job = NoJob)
  BY <1>2 DEF Arrived, Ends
<1>4. l \in DOMAIN links /\ LinksOk(links, ports)
  BY DEF Links, LinksInv
<1>5. m \in Msg /\ MsgOk(links[l], e, ports, m)
  BY <1>1, <1>2, <1>4, Take
<1>6. PICK r : r = Taken(l, e)
  OBVIOUS
<1>7. /\ LinksOk(r, ports) /\ Kept(links, r) /\ Busy(links, r)
      /\ \A k \in Links : r[k].job = links[k].job
      /\ r[l].queue[e] = Tail(links[l].queue[e])
  BY <1>1, <1>4, <1>6, Take DEF Links
<1>8. ASSUME kind \in {"service", "ask", "event"}
      PROVE  Arg(l, e) \in Nodes \X Nat /\ DOMAIN m.pairs = {1}
  <2>1. m.pairs \in Pairs /\ Len(m.pairs) = 1
    BY <1>3, <1>5, <1>8 DEF Msg, MsgOk
  <2>2. DOMAIN m.pairs = {1} /\ m.pairs[1] \in Nodes \X Nat
    BY <2>1, LenProperties, ElementOfSeq DEF Pairs
  <2>3. QED
    BY <1>2, <2>2 DEF Arg
<1>9. QED
  BY <1>2, <1>3, <1>5, <1>6, <1>7, <1>8

------------------------------------------------------------------------------
(* The steps: first those that leave the maps alone.                        *)

LEMMA DeliverStep ==
  ASSUME IInv, NEW l \in Links, NEW e \in Ends, Deliver(l, e)
  PROVE  IInv'
<1>1. /\ links' = Taken(l, e) /\ Arrived(l, e, "event")
      /\ UNCHANGED <<connmap, nodemap, smatrix, ports, clients, calling, history>>
  BY DEF Deliver
<1>2. LinksInv' /\ Kept(links, links') /\ Busy(links, links')
  BY <1>1, Reads DEF IInv, LinksInv
<1>3. QED
  BY <1>1, <1>2, QuietStep, CallsKept DEF IInv, history

LEMMA StartFailsStep ==
  ASSUME IInv, NEW l \in Links, StartFails(l)
  PROVE  IInv'
<1>1. /\ links' = Taken(l, "client") /\ Arrived(l, "client", "start")
      /\ UNCHANGED <<connmap, nodemap, smatrix, ports, clients, calling, history>>
  BY DEF StartFails
<1>2. LinksInv' /\ Kept(links, links') /\ Busy(links, links')
  BY <1>1, Reads DEF IInv, LinksInv, Ends
<1>3. QED
  BY <1>1, <1>2, QuietStep, CallsKept DEF IInv, history

LEMMA TakeListStep ==
  ASSUME IInv, NEW l \in Links, TakeList(l)
  PROVE  IInv'
<1>1. PICK r, q : r = Taken(l, "client") /\ q = Head(links[l].queue["client"]).pairs
  OBVIOUS
<1>2. /\ links' = PutDial(r, l, q) /\ Arrived(l, "client", "connect")
      /\ UNCHANGED <<connmap, nodemap, smatrix, ports, clients, calling, history>>
  BY <1>1 DEF TakeList, PutDial
<1>3. /\ LinksOk(r, ports) /\ Kept(links, r) /\ Busy(links, r)
      /\ q \in Pairs /\ AllTrue(ports, q)
  BY <1>1, <1>2, Reads DEF IInv, Ends, Msg, MsgOk
<1>4. l \in DOMAIN r
  BY <1>3 DEF Kept, Same, Links
<1>5. LinksOk(links', ports) /\ Kept(r, links') /\ Busy(r, links')
  BY <1>2, <1>3, <1>4, SetDial
<1>6. LinksInv' /\ Kept(links, links') /\ Busy(links, links')
  BY <1>2, <1>3, <1>5, KeptTwice, BusyTwice DEF LinksInv, Kept
<1>7. QED
  BY <1>2, <1>6, QuietStep, CallsKept DEF IInv, history

\* A job that is neither an order nor a note, taken in hand or put down.
LEMMA JobStep ==
  ASSUME IInv, NEW l \in Links, NEW j \in JobSet, JobOk(links[l], ports, j),
         links[l].job.part \notin Loud, j.part \notin Loud
  PROVE  LET r == PutJob(links, l, j)
         IN  LinksOk(r, ports) /\ Kept(links, r) /\ Busy(links, r)
BY SetJob DEF IInv, LinksInv, Links

\* What the work in hand tells of the node it is about.
LEMMA JobFacts ==
  ASSUME LinksInv, NEW l \in Links
  PROVE  /\ links[l].client \in Slaves /\ links[l].server \in Nodes
         /\ links[l].job \in JobSet /\ JobOk(links[l], ports, links[l].job)
BY LinksDomain DEF LinksInv, LinksOk, LinkOk, Link, Links

LEMMA AskerHasOneStep ==
  ASSUME IInv, NEW l \in Links, AskerHasOne(l)
  PROVE  IInv'
<1>1. PICK j : j = Job("tell", links[l].job.node, nodemap[links[l].client])
  OBVIOUS
<1>2. /\ links' = PutJob(links, l, j) /\ links[l].job.part = "asker"
      /\ links[l].client \in DOMAIN nodemap
      /\ UNCHANGED <<connmap, nodemap, smatrix, ports, clients, calling, history>>
  BY <1>1 DEF AskerHasOne, PutJob, Doing
<1>3. Truth(ports, <<links[l].client, nodemap[links[l].client]>>)
  BY <1>2 DEF IInv, PortsInv
<1>4. j \in JobSet /\ JobOk(links[l], ports, j) /\ j.part = "tell"
  <2>1. nodemap[links[l].client] \in Nat
    BY <1>3, LenProperties DEF Truth, IInv, PortsInv
  <2>2. links[l].job \in JobSet
    BY JobFacts DEF IInv
  <2>3. j.part = "tell" /\ j.node = links[l].job.node /\ j.port = nodemap[links[l].client]
    BY <1>1 DEF Job
  <2>4. QED
    BY <1>1, <1>3, <2>1, <2>2, <2>3 DEF JobSet, JobOk, Job
<1>5. LinksInv' /\ Kept(links, links') /\ Busy(links, links')
  BY <1>2, <1>4, JobStep DEF LinksInv, Loud
<1>6. QED
  BY <1>2, <1>5, QuietStep, CallsKept DEF IInv, history

LEMMA NeitherHasOneStep ==
  ASSUME IInv, NEW l \in Links, NeitherHasOne(l)
  PROVE  IInv'
<1>1. PICK j : j = Job("pair", links[l].job.node, 0)
  OBVIOUS
<1>2. /\ links' = PutJob(links, l, j) /\ links[l].job.part = "asker"
      /\ UNCHANGED <<connmap, nodemap, smatrix, ports, clients, calling, history>>
  BY <1>1 DEF NeitherHasOne, PutJob, Doing
<1>3. j \in JobSet /\ JobOk(links[l], ports, j) /\ j.part = "pair"
  <2>1. links[l].job \in JobSet /\ links[l].job.node \in Slaves
    BY <1>2, JobFacts DEF IInv, JobOk
  <2>2. j.part = "pair" /\ j.node = links[l].job.node /\ j.port = 0
    BY <1>1 DEF Job
  <2>3. QED
    BY <1>1, <2>1, <2>2 DEF JobSet, JobOk, Job
<1>4. LinksInv' /\ Kept(links, links') /\ Busy(links, links')
  BY <1>2, <1>3, JobStep DEF LinksInv, Loud
<1>5. QED
  BY <1>2, <1>4, QuietStep, CallsKept DEF IInv, history

LEMMA WantedHasNoneStep ==
  ASSUME IInv, NEW l \in Links, WantedHasNone(l)
  PROVE  IInv'
<1>1. PICK r, m : r = Taken(l, "server") /\ m = Arg(l, "server")[1]
  OBVIOUS
<1>2. PICK j : j = IF m = Master THEN NoJob ELSE Job("asker", m, 0)
  OBVIOUS
<1>3. /\ links' = PutJob(r, l, j) /\ Arrived(l, "server", "ask")
      /\ UNCHANGED <<connmap, nodemap, smatrix, ports, clients, calling, history>>
  BY <1>1, <1>2 DEF WantedHasNone, PutJob
<1>4. /\ LinksOk(r, ports) /\ Kept(links, r) /\ Busy(links, r) /\ m \in Nodes
      /\ r[l].job = NoJob
  BY <1>1, <1>3, Reads DEF IInv, Ends
<1>5. /\ j \in JobSet /\ JobOk(r[l], ports, j)
      /\ j.part \notin Loud /\ r[l].job.part \notin Loud
  BY <1>2, <1>4 DEF JobSet, JobOk, Job, NoJob, Loud, Nodes
<1>6. l \in DOMAIN r
  BY <1>4 DEF Kept, Same, Links
<1>7. LinksOk(links', ports) /\ Kept(r, links') /\ Busy(r, links')
  BY <1>3, <1>4, <1>5, <1>6, SetJob
<1>8. LinksInv' /\ Kept(links, links') /\ Busy(links, links')
  BY <1>3, <1>4, <1>7, KeptTwice, BusyTwice DEF LinksInv, Kept
<1>9. QED
  BY <1>3, <1>8, QuietStep, CallsKept DEF IInv, history

\* Messages without an answer, sent on a connection k after r came of links.
LEMMA SendsQuietly ==
  ASSUME NEW ps, NEW r, LinksOk(r, ps), Kept(links, r), Busy(links, r),
         NEW k \in Links, NEW e \in Ends, NEW q \in Seq(Msg),
         MsgsOk(r[k], Other(e), ps, q), Answers(q) = {}
  PROVE  LET z == Sent(r, k, e, q)
         IN  LinksOk(z, ps) /\ Kept(links, z) /\ Busy(links, z)
<1>1. PICK z : z = Sent(r, k, e, q)
  OBVIOUS
<1>2. k \in DOMAIN r
  BY DEF Kept, Same, Links
<1>3. LinksOk(z, ps) /\ Kept(r, z) /\ Busy(r, z)
  BY <1>1, <1>2, Send
<1>4. Kept(links, z) /\ Busy(links, z)
  BY <1>3, KeptTwice, BusyTwice DEF Kept
<1>5. QED
  BY <1>1, <1>3, <1>4

LEMMA AnswerAskerStep ==
  ASSUME IInv, NEW l \in Links, AnswerAsker(l)
  PROVE  IInv'
<1>1. PICK r, m, p : r = Taken(l, "server") /\ m = Arg(l, "server")[1] /\ p = nodemap[m]
  OBVIOUS
<1>2. PICK q : q = <<Message("connect", <<<<m, p>>>>)>>
  OBVIOUS
<1>3. /\ links' = Sent(r, l, "server", q) /\ Arrived(l, "server", "ask")
      /\ m \in DOMAIN nodemap /\ told \subseteq told'
      /\ UNCHANGED <<connmap, nodemap, smatrix, ports, clients, calling, late>>
  BY <1>1, <1>2 DEF AnswerAsker
<1>4. LinksOk(r, ports) /\ Kept(links, r) /\ Busy(links, r) /\ m \in Nodes
  BY <1>1, <1>3, Reads DEF IInv, Ends
<1>5. Truth(ports, <<m, p>>) /\ p \in Nat
  BY <1>1, <1>3, LenProperties DEF IInv, PortsInv, Truth
<1>6. q \in Seq(Msg) /\ MsgsOk(r[l], Other("server"), ports, q) /\ Answers(q) = {}
  BY <1>2, <1>4, <1>5, Single
<1>7. LinksOk(links', ports) /\ Kept(links, links') /\ Busy(links, links')
  BY <1>3, <1>4, <1>6, SendsQuietly DEF Ends
<1>8. LinksInv'
  BY <1>3, <1>7 DEF LinksInv
<1>9. QED
  BY <1>3, <1>7, <1>8, QuietStep, CallsKept DEF IInv

LEMMA TellWantedStep ==
  ASSUME IInv, NEW l \in Links, TellWanted(l)
  PROVE  IInv'
<1>1. PICK r, s, m, p :
        /\ r = PutJob(links, l, NoJob) /\ s = links[l].client
        /\ m = links[l].job.node /\ p = links[l].job.port
  OBVIOUS
<1>2. PICK q, k : q = <<Message("connect", <<<<s, p>>>>)>> /\ k = First(Master, m)[1]
  OBVIOUS
<1>3. /\ \/ Connected(Master, m) /\ links' = Sent(r, k, "server", q)
         \/ links' = r
      /\ links[l].job.part = "tell" /\ told \subseteq told'
      /\ UNCHANGED <<connmap, nodemap, smatrix, ports, clients, calling, late>>
  BY <1>1, <1>2 DEF TellWanted, PutJob, Doing
<1>4. LinksOk(r, ports) /\ Kept(links, r) /\ Busy(links, r)
  <2>1. NoJob \in JobSet /\ JobOk(links[l], ports, NoJob) /\ NoJob.part \notin Loud
    BY DEF JobSet, JobOk, NoJob, Job, Loud
  <2>2. QED
    BY <1>1, <1>3, <2>1, JobStep DEF Loud
<1>5. s \in Nodes /\ p \in Nat /\ Truth(ports, <<s, p>>)
  BY <1>1, <1>3, JobFacts DEF IInv, JobSet, JobOk, Nodes
<1>6. \A x, e : q \in Seq(Msg) /\ MsgsOk(x, e, ports, q) /\ Answers(q) = {}
  BY <1>2, <1>5, Single
<1>7. LinksOk(links', ports) /\ Kept(links, links') /\ Busy(links, links')
  <2>1. CASE links' = r
    BY <1>4, <2>1
  <2>2. CASE Connected(Master, m) /\ links' = Sent(r, k, "server", q)
    <3>1. k \in Links
      BY <1>2, <2>2, Finds DEF IInv, Nodes
    <3>2. QED
      BY <1>4, <1>6, <2>2, <3>1, SendsQuietly DEF Ends
  <2>3. QED
    BY <1>3, <2>1, <2>2
<1>8. LinksInv'
  BY <1>3, <1>7 DEF LinksInv
<1>9. QED
  BY <1>3, <1>7, <1>8, QuietStep, CallsKept DEF IInv

LEMMA Unmoved ==
  ASSUME UNCHANGED links
  PROVE  Kept(links, links') /\ Busy(links, links')
BY DEF Kept, Same, Busy, Fewer

LEMMA CallDispatchStep ==
  ASSUME IInv, NEW n \in Slaves, NEW m \in Nodes, CallDispatch(n, m)
  PROVE  IInv'
<1>1. CallInv'
  <2>1. calls' = calls + 1 /\ calls < MaxCalls /\ calls \in 0 .. MaxCalls /\ UNCHANGED smatrix
    BY DEF CallDispatch, IInv, CallInv
  <2>2. /\ want' \in [Slaves -> Nodes \cup {NoNode}] /\ tries' \in [Slaves -> 0 .. Tries]
        /\ asked' \in [Slaves -> BOOLEAN]
    BY DispatchAssumption DEF CallDispatch, IInv, CallInv
  <2>3. calls' \in 0 .. MaxCalls
    BY <2>1, DispatchAssumption
  <2>4. QED
    BY <2>1, <2>2, <2>3 DEF IInv, CallInv
<1>2. LinksInv' /\ UNCHANGED <<links, connmap, nodemap, smatrix, ports, clients, told, late>>
  BY DEF CallDispatch, IInv, LinksInv, history
<1>3. QED
  BY <1>1, <1>2, QuietStep, Unmoved

LEMMA ReturnsOk ==
  ASSUME CallInv, NEW n \in Slaves, Returns(n), UNCHANGED <<smatrix, calls>>
  PROVE  CallInv'
BY DispatchAssumption DEF CallInv, Returns

LEMMA DiscardStep ==
  ASSUME IInv, NEW n \in Slaves, Discard(n)
  PROVE  IInv'
<1>1. CallInv'
  BY ReturnsOk DEF Discard, IInv
<1>2. LinksInv' /\ UNCHANGED <<links, connmap, nodemap, smatrix, ports, clients, told, late>>
  BY DEF Discard, IInv, LinksInv, history
<1>3. QED
  BY <1>1, <1>2, QuietStep, Unmoved

LEMMA SendEventStep ==
  ASSUME IInv, NEW n \in Slaves, SendEvent(n)
  PROVE  IInv'
<1>1. PICK m, h : m = want[n] /\ h = First(n, m)
  OBVIOUS
<1>2. PICK q : q = <<Message("event", <<<<m, 0>>>>)>>
  OBVIOUS
<1>3. /\ links' = Sent(links, h[1], h[2], q) /\ m # NoNode /\ Connected(n, m) /\ Returns(n)
      /\ UNCHANGED <<connmap, nodemap, smatrix, ports, clients, calls, told, late>>
  BY <1>1, <1>2 DEF SendEvent, history
<1>4. CallInv'
  BY <1>3, ReturnsOk DEF IInv
<1>5. h[1] \in Links /\ h[2] \in Ends /\ links[h[1]][Other(h[2])] = m
  BY <1>1, <1>3, Finds DEF IInv, Nodes, Remote
<1>6. m \in Nodes
  BY <1>1, <1>3 DEF IInv, CallInv
<1>7. q \in Seq(Msg) /\ MsgsOk(links[h[1]], Other(h[2]), ports, q) /\ Answers(q) = {}
  BY <1>2, <1>5, <1>6, Single
<1>8. LinksOk(links, ports) /\ Kept(links, links) /\ Busy(links, links)
  BY DEF IInv, LinksInv, Kept, Same, Busy, Fewer
<1>9. LinksOk(links', ports) /\ Kept(links, links') /\ Busy(links, links')
  BY <1>3, <1>5, <1>7, <1>8, SendsQuietly
<1>10. LinksInv'
  BY <1>3, <1>9 DEF LinksInv
<1>11. QED
  BY <1>3, <1>4, <1>9, <1>10, QuietStep

LEMMA TryAgainStep ==
  ASSUME IInv, NEW n \in Slaves, TryAgain(n)
  PROVE  IInv'
<1>1. PICK m, up : m = want[n] /\ up = Head(clients[n]).link
  OBVIOUS
<1>2. PICK q : q = <<Message("ask", <<<<m, 0>>>>)>>
  OBVIOUS
<1>3. /\ \/ links' = links
         \/ up # 0 /\ links' = Sent(links, up, "client", q)
      /\ tries' = [tries EXCEPT ![n] = @ - 1] /\ tries[n] > 0
      /\ asked' = asked \/ asked' = [asked EXCEPT ![n] = TRUE]
      /\ m # NoNode
      /\ UNCHANGED <<connmap, nodemap, smatrix, ports, clients, want, calls, told, late>>
  BY <1>1, <1>2 DEF TryAgain, history
<1>4. CallInv'
  <2>1. asked' \in [Slaves -> BOOLEAN]
    BY <1>3 DEF IInv, CallInv
  <2>2. tries' \in [Slaves -> 0 .. Tries]
    <3>1. tries[n] - 1 \in 0 .. Tries
      BY <1>3, DispatchAssumption DEF IInv, CallInv
    <3>2. QED
      BY <1>3, <3>1 DEF IInv, CallInv
  <2>3. QED
    BY <1>3, <2>1, <2>2 DEF IInv, CallInv
<1>5. LinksOk(links, ports) /\ Kept(links, links) /\ Busy(links, links)
  BY DEF IInv, LinksInv, Kept, Same, Busy, Fewer
<1>6. m \in Nodes
  BY <1>1, <1>3 DEF IInv, CallInv
<1>7. LinksOk(links', ports) /\ Kept(links, links') /\ Busy(links, links')
  <2>1. CASE links' = links
    BY <1>5, <2>1
  <2>2. CASE up # 0 /\ links' = Sent(links, up, "client", q)
    <3>1. up \in Links
      <4>1. clients[n] \in Seq([port : Nat, link : Nat]) /\ clients[n] # <<>>
        BY DEF IInv, ClientsInv
      <4>2. Head(clients[n]) = clients[n][1] /\ 1 \in DOMAIN clients[n]
        BY <4>1, LenProperties, EmptySeq, HeadTailProperties
      <4>3. up \in 0 .. Len(links)
        BY <1>1, <4>2 DEF IInv, ClientsInv
      <4>4. QED
        BY <2>2, <4>3, LinksDomain DEF IInv
    <3>2. q \in Seq(Msg) /\ MsgsOk(links[up], Other("client"), ports, q) /\ Answers(q) = {}
      BY <1>2, <1>6, Single
    <3>3. QED
      BY <1>5, <2>2, <3>1, <3>2, SendsQuietly DEF Ends
  <2>3. QED
    BY <1>3, <2>1, <2>2
<1>8. LinksInv'
  BY <1>3, <1>7 DEF LinksInv
<1>9. QED
  BY <1>3, <1>4, <1>7, <1>8, QuietStep

------------------------------------------------------------------------------
(* The steps that start services and clients.                              *)

LEMMA StartServiceStep ==
  ASSUME IInv, NEW l \in Links, StartService(l)
  PROVE  IInv'
<1>1. PICK r, s, ps :
        r = Taken(l, "client") /\ s = links[l].client /\ ps = Append(ports, s)
  OBVIOUS
<1>2. PICK q : q = <<Message("service", <<<<s, Len(ports) + 1>>>>)>>
  OBVIOUS
<1>3. /\ links' = Sent(r, l, "client", q) /\ Arrived(l, "client", "start") /\ ports' = ps
      /\ UNCHANGED <<connmap, nodemap, smatrix, clients, calling, told, late>>
  BY <1>1, <1>2 DEF StartService, history
<1>4. s \in Slaves /\ s \in Nodes /\ ports \in Seq(Slaves) /\ Len(ports) \in Nat /\ Len(ports) + 1 \in Nat
  BY <1>1, JobFacts, LenProperties DEF IInv, PortsInv, Nodes
<1>5. /\ ps \in Seq(Slaves) /\ Len(ps) = Len(ports) + 1 /\ Truth(ps, <<s, Len(ports) + 1>>)
      /\ \A p : Truth(ports, p) => Truth(ps, p)
      /\ \A ls : LinksOk(ls, ports) => LinksOk(ls, ps)
  BY <1>1, <1>4, Grown
<1>6. LinksOk(r, ps) /\ Kept(links, r) /\ Busy(links, r)
  BY <1>1, <1>3, <1>5, Reads DEF IInv, Ends
<1>7. r[l].client = s
  BY <1>1, <1>6 DEF Kept, Same, Links
<1>8. q \in Seq(Msg) /\ MsgsOk(r[l], Other("client"), ps, q) /\ Answers(q) = {}
  BY <1>2, <1>4, <1>5, <1>7, Single
<1>9. LinksOk(links', ps) /\ Kept(links, links') /\ Busy(links, links')
  BY <1>3, <1>6, <1>8, SendsQuietly DEF Ends
<1>10. LinksInv'
  BY <1>3, <1>9 DEF LinksInv
<1>11. OnceInv' /\ MapInv' /\ ToldInv'
  BY <1>3, <1>9, <1>10, Quiet
<1>12. PortsInv'
  BY <1>3, <1>5 DEF IInv, PortsInv
<1>13. ClientsInv'
  <2>1. Len(links') = Len(links)
    BY <1>9, <1>10, LenProperties DEF Kept, Same, IInv, LinksInv, LinksOk
  <2>2. ASSUME NEW n \in Slaves, NEW i \in DOMAIN clients[n]
        PROVE  clients[n][i].port \in 0 .. Len(ps)
    <3>1. clients[n][i].port \in 0 .. Len(ports)
      BY DEF IInv, ClientsInv
    <3>2. Len(ports) \in Nat /\ Len(ps) = Len(ports) + 1
      BY <1>4, <1>5
    <3>3. QED
      BY <3>1, <3>2
  <2>3. QED
    BY <1>3, <2>1, <2>2 DEF IInv, ClientsInv
<1>14. CallInv'
  BY <1>3, CallsKept DEF IInv
<1>15. QED
  BY <1>10, <1>11, <1>12, <1>13, <1>14 DEF IInv

LEMMA DialStep ==
  ASSUME IInv, NEW l \in Links, Dial(l)
  PROVE  IInv'
<1>1. PICK n, d, p : n = links[l].client /\ d = links[l].dial /\ p = Head(d)
  OBVIOUS
<1>2. PICK t, c : t = Tail(d) /\ c = [port |-> p[2], link |-> 0]
  OBVIOUS
<1>3. /\ d # <<>> /\ links' = PutDial(links, l, t)
      /\ \/ clients' = clients
         \/ clients' = [clients EXCEPT ![n] = Append(@, c)]
      /\ UNCHANGED <<connmap, nodemap, smatrix, ports, calling, told, late>>
  BY <1>1, <1>2 DEF Dial, PutDial, history
<1>4. n \in Slaves /\ d \in Pairs /\ AllTrue(ports, d)
  BY <1>1, LinksDomain DEF IInv, LinksInv, LinksOk, LinkOk, Link, Links
<1>5. /\ Len(d) \in Nat /\ Len(d) > 0 /\ DOMAIN d = 1 .. Len(d)
      /\ p = d[1] /\ t \in Pairs /\ Len(t) = Len(d) - 1
      /\ \A i \in 1 .. Len(t) : t[i] = d[i + 1]
  BY <1>1, <1>2, <1>3, <1>4, HeadTailProperties, LenProperties, EmptySeq DEF Pairs
<1>6. AllTrue(ports, t)
  <2>1. DOMAIN t = 1 .. Len(d) - 1
    BY <1>5, LenProperties DEF Pairs
  <2>2. \A i \in DOMAIN t : t[i] = d[i + 1] /\ i + 1 \in DOMAIN d
    BY <1>5, <2>1
  <2>3. QED
    BY <1>4, <2>2 DEF AllTrue
<1>7. LinksOk(links', ports) /\ Kept(links, links') /\ Busy(links, links')
  BY <1>3, <1>5, <1>6, SetDial DEF IInv, LinksInv, Links
<1>8. LinksInv'
  BY <1>3, <1>7 DEF LinksInv
<1>9. OnceInv' /\ MapInv' /\ ToldInv'
  BY <1>3, <1>7, <1>8, Quiet
<1>10. PortsInv' /\ CallInv'
  BY <1>3, CallsKept DEF IInv, PortsInv
<1>11. Len(links') = Len(links)
  BY <1>7, <1>8, LenProperties DEF Kept, Same, IInv, LinksInv, LinksOk
<1>12. CASE clients' = clients
  BY <1>3, <1>8, <1>9, <1>10, <1>11, <1>12 DEF IInv, ClientsInv
<1>13. CASE clients' = [clients EXCEPT ![n] = Append(@, c)]
  <2>1. p[2] \in 1 .. Len(ports) /\ Len(ports) \in Nat
    <3>1. p[2] \in DOMAIN ports
      BY <1>4, <1>5 DEF AllTrue, Truth
    <3>2. QED
      BY <3>1, LenProperties DEF IInv, PortsInv
  <2>2. PICK a, b : a = clients[n] /\ b = Append(a, c)
    OBVIOUS
  <2>3. a \in Seq([port : Nat, link : Nat]) /\ a # <<>> /\ a[1].port = 0
    BY <1>4, <2>2 DEF IInv, ClientsInv
  <2>4. c \in [port : Nat, link : Nat] /\ c.port = p[2] /\ c.link = 0
    BY <1>2, <2>1
  <2>5. /\ b \in Seq([port : Nat, link : Nat]) /\ Len(b) = Len(a) + 1 /\ b[Len(a) + 1] = c
        /\ \A i \in 1 .. Len(a) : b[i] = a[i]
        /\ DOMAIN b = 1 .. Len(a) + 1 /\ DOMAIN a = 1 .. Len(a) /\ Len(a) \in Nat /\ Len(a) > 0
    BY <2>2, <2>3, <2>4, AppendProperties, LenProperties, EmptySeq
  <2>6. b # <<>> /\ b[1].port = 0
    BY <2>3, <2>5
  <2>7. \A i \in DOMAIN a : a[i].port \in 0 .. Len(ports) /\ a[i].link \in 0 .. Len(links)
    BY <1>4, <2>2 DEF IInv, ClientsInv
  <2>8. ASSUME NEW i \in DOMAIN b
        PROVE  b[i].port \in 0 .. Len(ports) /\ b[i].link \in 0 .. Len(links)
    <3>1. CASE i = Len(a) + 1
      <4>1. b[i] = c /\ Len(links) \in Nat
        BY <2>5, <3>1, LinksDomain DEF IInv
      <4>2. QED
        BY <2>1, <2>4, <4>1
    <3>2. CASE i \in DOMAIN a
      BY <2>5, <2>7, <3>2
    <3>3. QED
      BY <2>5, <3>1, <3>2
  <2>9. clients' = [clients EXCEPT ![n] = b]
    BY <1>13, <2>2
  <2>10. ClientsInv'
    BY <1>3, <1>4, <1>11, <2>5, <2>6, <2>8, <2>9 DEF IInv, ClientsInv
  <2>11. QED
    BY <1>8, <1>9, <1>10, <2>10 DEF IInv
<1>14. QED
  BY <1>3, <1>12, <1>13

LEMMA ReapStep ==
  ASSUME IInv, NEW n \in Slaves, NEW i \in DOMAIN clients[n], Reap(n, i)
  PROVE  IInv'
<1>1. PICK a, b : a = clients[n] /\ b = RemoveAt(a, i)
  OBVIOUS
<1>2. /\ a[i].port # 0 /\ clients' = [clients EXCEPT ![n] = b]
      /\ UNCHANGED <<links, connmap, nodemap, smatrix, ports, calling, told, late>>
  BY <1>1 DEF Reap, history
<1>3. /\ a \in Seq([port : Nat, link : Nat]) /\ a # <<>> /\ a[1].port = 0
      /\ \A k \in DOMAIN a : a[k].port \in 0 .. Len(ports) /\ a[k].link \in 0 .. Len(links)
  BY <1>1 DEF IInv, ClientsInv
<1>4. i \in 1 .. Len(a) /\ DOMAIN a = 1 .. Len(a) /\ Len(a) \in Nat /\ i # 1
  BY <1>1, <1>2, <1>3, LenProperties
<1>5. /\ b \in Seq([port : Nat, link : Nat]) /\ Len(b) = Len(a) - 1 /\ DOMAIN b = 1 .. Len(a) - 1
      /\ \A k \in 1 .. Len(a) - 1 : b[k] = IF k < i THEN a[k] ELSE a[k + 1]
  <2>1. /\ b \in Seq([port : Nat, link : Nat]) /\ Len(b) = Len(a) - 1
        /\ \A k \in 1 .. Len(a) - 1 : b[k] = IF k < i THEN a[k] ELSE a[k + 1]
    BY <1>1, <1>3, <1>4, RemovedAt
  <2>2. QED
    BY <2>1, LenProperties
<1>6. b # <<>> /\ b[1].port = 0
  <2>1. 1 < i /\ 1 \in 1 .. Len(a) - 1
    BY <1>4
  <2>2. b[1] = a[1] /\ Len(b) # 0
    BY <1>4, <1>5, <2>1
  <2>3. QED
    BY <1>3, <1>5, <2>2, EmptySeq
<1>7. ASSUME NEW k \in DOMAIN b
      PROVE  b[k].port \in 0 .. Len(ports) /\ b[k].link \in 0 .. Len(links)
  <2>1. PICK j \in DOMAIN a : b[k] = a[j]
    <3>1. k \in 1 .. Len(a) - 1 /\ k \in DOMAIN a /\ k + 1 \in DOMAIN a
      <4>1. k \in 1 .. Len(a) - 1
        BY <1>5
      <4>2. QED
        BY <1>4, <4>1
    <3>2. b[k] = a[k] \/ b[k] = a[k + 1]
      BY <1>5, <3>1
    <3>3. QED
      BY <3>1, <3>2
  <2>2. QED
    BY <1>3, <2>1
<1>8. ClientsInv'
  BY <1>2, <1>5, <1>6, <1>7 DEF IInv, ClientsInv
<1>9. LinksInv' /\ PortsInv' /\ CallInv'
  BY <1>2, CallsKept DEF IInv, LinksInv, PortsInv
<1>10. OnceInv' /\ MapInv' /\ ToldInv'
  BY <1>2, <1>9, Unmoved, Quiet
<1>11. QED
  BY <1>8, <1>9, <1>10 DEF IInv

LEMMA ConnectStep ==
  ASSUME IInv, NEW n \in Slaves, NEW i \in DOMAIN clients[n], Connect(n, i)
  PROVE  IInv'
<1>1. PICK s, y :
        /\ s = Owner(clients[n][i].port)
        /\ y = [client |-> n, server |-> s, state |-> [e \in Ends |-> "new"],
                queue |-> [e \in Ends |-> <<>>], job |-> NoJob, dial |-> <<>>]
  OBVIOUS
<1>2. PICK k : k = Len(links) + 1
  OBVIOUS
<1>3. /\ links' = Append(links, y) /\ clients' = [clients EXCEPT ![n][i].link = k]
      /\ UNCHANGED <<connmap, nodemap, smatrix, ports, calling, told, late>>
  BY <1>1, <1>2 DEF Connect, history
<1>4. clients[n][i].port \in 0 .. Len(ports) /\ ports \in Seq(Slaves)
  BY DEF IInv, ClientsInv, PortsInv
<1>5. s \in Nodes
  <2>1. CASE clients[n][i].port = 0
    BY <1>1, <2>1 DEF Owner, Nodes
  <2>2. CASE clients[n][i].port # 0
    <3>1. clients[n][i].port \in 1 .. Len(ports)
      BY <1>4, <2>2, LenProperties
    <3>2. QED
      BY <1>1, <1>4, <2>2, <3>1, ElementOfSeq DEF Owner, Nodes
  <2>3. QED
    BY <2>1, <2>2
<1>6. /\ y \in Link /\ y.client = n /\ y.server = s /\ y.job.part = "none"
      /\ \A e \in Ends : y.state[e] = "new" /\ y.queue[e] = <<>>
  BY <1>1, <1>5 DEF Link, States, JobSet, NoJob, Job, Pairs
<1>7. LinkOk(y, ports)
  BY <1>1 DEF LinkOk, MsgsOk, JobOk, AllTrue, NoJob, Job
<1>8. /\ links' \in Seq(Link) /\ Len(links) \in Nat /\ links \in Seq(Link)
      /\ DOMAIN links = 1 .. Len(links) /\ DOMAIN links' = 1 .. k /\ Len(links') = k
      /\ links'[k] = y /\ \A l \in 1 .. Len(links) : links'[l] = links[l]
  BY <1>2, <1>3, <1>6, AppendProperties, LenProperties DEF IInv, LinksInv, LinksOk
<1>9. LinksInv'
  <2>1. \A l \in 1 .. k : LinkOk(links'[l], ports)
    BY <1>2, <1>7, <1>8 DEF IInv, LinksInv, LinksOk
  <2>2. QED
    BY <1>3, <1>8, <2>1 DEF LinksInv, LinksOk
<1>10. OnceInv'
  <2>1. Once(y)
    BY <1>6 DEF Once, Answers, Ends
  <2>2. \A l \in 1 .. k : Once(links'[l])
    BY <1>2, <1>8, <2>1 DEF IInv, OnceInv, Links
  <2>3. QED
    BY <1>8, <2>2 DEF OnceInv, Links
<1>11. ToldInv'
  <2>1. \A l \in Links : l \in Links' /\ links'[l] = links[l]
    BY <1>2, <1>8 DEF Links
  <2>2. \A l \in Links' : l \in Links \/ links'[l].state["server"] = "new"
    BY <1>2, <1>6, <1>8 DEF Links, Ends
  <2>3. QED
    BY <1>3, <1>9, <2>1, <2>2, ToldKept DEF IInv, Doing
<1>12. PortsInv' /\ CallInv'
  BY <1>3, CallsKept DEF IInv, PortsInv
<1>13. ClientsInv'
  <2>1. PICK a, b : a = clients[n] /\ b = [a EXCEPT ![i].link = k]
    OBVIOUS
  <2>2. PICK c : c = [a[i] EXCEPT !.link = k]
    OBVIOUS
  <2>3. /\ a \in Seq([port : Nat, link : Nat]) /\ a # <<>> /\ a[1].port = 0 /\ i \in DOMAIN a
        /\ \A j \in DOMAIN a : a[j].port \in 0 .. Len(ports) /\ a[j].link \in 0 .. Len(links)
    BY <2>1 DEF IInv, ClientsInv
  <2>4. a[i] \in [port : Nat, link : Nat] /\ k \in Nat /\ DOMAIN a = 1 .. Len(a) /\ Len(a) \in Nat
    BY <1>2, <1>8, <2>3, ElementOfSeq, LenProperties
  <2>5. c \in [port : Nat, link : Nat] /\ c.port = a[i].port /\ c.link = k
    BY <2>2, <2>4
  <2>6. b = [a EXCEPT ![i] = c]
    BY <2>1, <2>2
  <2>7. b \in Seq([port : Nat, link : Nat])
    BY <2>3, <2>4, <2>5, <2>6, ExceptSeq
  <2>8. DOMAIN b = DOMAIN a /\ b[i] = c /\ \A j \in DOMAIN a : j # i => b[j] = a[j]
    BY <2>3, <2>6
  <2>9. b # <<>> /\ b[1].port = 0
    <3>1. 1 \in DOMAIN a /\ b[1].port = 0
      <4>1. 1 \in DOMAIN a
        BY <2>3, <2>4, EmptySeq
      <4>2. CASE i = 1
        BY <2>3, <2>5, <2>8, <4>2
      <4>3. CASE i # 1
        BY <2>3, <2>8, <4>1, <4>3
      <4>4. QED
        BY <4>1, <4>2, <4>3
    <3>2. QED
      BY <2>8, <3>1
  <2>10. ASSUME NEW j \in DOMAIN b
         PROVE  b[j].port \in 0 .. Len(ports) /\ b[j].link \in 0 .. k
    <3>1. CASE j = i
      BY <2>3, <2>4, <2>5, <2>8, <3>1
    <3>2. CASE j # i
      <4>1. j \in DOMAIN a /\ b[j] = a[j]
        BY <2>8, <3>2
      <4>2. a[j].link \in 0 .. Len(links) /\ a[j].port \in 0 .. Len(ports)
        BY <2>3, <4>1
      <4>3. QED
        BY <1>2, <1>8, <4>1, <4>2
    <3>3. QED
      BY <3>1, <3>2
  <2>11. clients' = [clients EXCEPT ![n] = b]
    BY <1>3, <2>1
  <2>12. \A m \in Slaves : \A j \in DOMAIN clients[m] : clients[m][j].link \in 0 .. k
    <3>1. \A m \in Slaves : \A j \in DOMAIN clients[m] : clients[m][j].link \in 0 .. Len(links)
      BY DEF IInv, ClientsInv
    <3>2. 0 .. Len(links) \subseteq 0 .. k
      BY <1>2, <1>8
    <3>3. QED
      BY <3>1, <3>2
  <2>13. clients \in [Slaves -> Seq([port : Nat, link : Nat])]
    BY DEF IInv, ClientsInv
  <2>14. clients' \in [Slaves -> Seq([port : Nat, link : Nat])]
    BY <2>7, <2>11, <2>13
  <2>15. ASSUME NEW m \in Slaves
         PROVE  /\ clients'[m] # <<>> /\ clients'[m][1].port = 0
                /\ \A j \in DOMAIN clients'[m] :
                     clients'[m][j].port \in 0 .. Len(ports) /\ clients'[m][j].link \in 0 .. k
    <3>1. CASE m = n
      <4>1. clients'[m] = b
        BY <2>11, <2>13, <3>1
      <4>2. QED
        BY <2>9, <2>10, <4>1
    <3>2. CASE m # n
      <4>1. clients'[m] = clients[m]
        BY <2>11, <2>13, <3>2
      <4>2. /\ clients[m] # <<>> /\ clients[m][1].port = 0
            /\ \A j \in DOMAIN clients[m] : clients[m][j].port \in 0 .. Len(ports)
        BY DEF IInv, ClientsInv
      <4>3. QED
        BY <2>12, <4>1, <4>2
    <3>3. QED
      BY <3>1, <3>2
  <2>16. QED
    BY <1>3, <1>8, <2>14, <2>15 DEF ClientsInv
<1>14. MapInv'
  <2>1. \A l \in Links, e \in Ends :
          l \in Links' /\ links'[l].state[e] = links[l].state[e] /\ links'[l][e] = links[l][e]
    BY <1>2, <1>8 DEF Links
  <2>2. \A l \in Links', e \in Ends : links'[l].state[e] = "bound" => l \in Links
    BY <1>2, <1>6, <1>8 DEF Links
  <2>3. QED
    BY <1>3, <2>1, <2>2, MapSame DEF IInv
<1>15. QED
  BY <1>9, <1>10, <1>11, <1>12, <1>13, <1>14 DEF IInv

------------------------------------------------------------------------------
(* The steps that change what the master knows.                            *)

LEMMA ForgetStep ==
  ASSUME IInv, NEW l \in Links, Forget(l)
  PROVE  IInv'
<1>1. /\ links' = PutJob(links, l, NoJob) /\ links[l].job.part = "forget"
      /\ DOMAIN nodemap' \subseteq DOMAIN nodemap
      /\ \A m \in DOMAIN nodemap' : nodemap'[m] = nodemap[m]
      /\ UNCHANGED <<connmap, smatrix, ports, clients, calling, told, late>>
  BY DEF Forget, PutJob, Doing, history
<1>2. NoJob \in JobSet /\ JobOk(links[l], ports, NoJob) /\ NoJob.part \notin Loud
  BY DEF JobSet, JobOk, NoJob, Job, Loud
<1>3. LinksOk(links', ports) /\ Kept(links, links') /\ Busy(links, links')
  BY <1>1, <1>2, JobStep DEF Loud
<1>4. LinksInv' /\ Same(links, links')
  BY <1>1, <1>3 DEF LinksInv, Kept
<1>5. \A k \in Links : /\ Doing(k, "order")' <=> Doing(k, "order")
                       /\ Doing(k, "notify")' <=> Doing(k, "notify")
  BY <1>3 DEF Busy, Loud, Doing, Links
<1>6. OnceInv' /\ MapInv'
  BY <1>1, <1>3, <1>4, <1>5, OnceKept, MapKept DEF IInv
<1>7. ToldInv'
  <2>1. \A k \in Links : /\ k \in Links' /\ links'[k].client = links[k].client
                         /\ links'[k].server = links[k].server /\ links'[k].state = links[k].state
    BY <1>4 DEF Same, Links
  <2>2. Links' = Links
    BY <1>4 DEF Same, Links
  <2>3. QED
    BY <1>1, <1>4, <1>5, <2>1, <2>2, ToldKept DEF IInv
<1>8. PortsInv'
  BY <1>1 DEF IInv, PortsInv
<1>9. CallInv'
  BY <1>1, CallsKept DEF IInv
<1>10. ClientsInv'
  <2>1. Len(links') = Len(links)
    BY <1>4, LenProperties DEF Same, IInv, LinksInv, LinksOk
  <2>2. QED
    BY <1>1, <2>1 DEF IInv, ClientsInv
<1>11. QED
  BY <1>4, <1>6, <1>7, <1>8, <1>9, <1>10 DEF IInv

LEMMA AskForServiceStep ==
  ASSUME IInv, NEW l \in Links, AskForService(l)
  PROVE  IInv'
<1>1. PICK r, s, m :
        r = PutJob(links, l, NoJob) /\ s = links[l].client /\ m = links[l].job.node
  OBVIOUS
<1>2. PICK q : q = <<Message("start", <<>>)>>
  OBVIOUS
<1>3. /\ links' = Sent(r, l, "server", q) /\ links[l].job.part = "pair"
      /\ smatrix' = smatrix \cup {<<s, m>>}
      /\ late' = late \cup {p \in {<<s, m>>} : s \in DOMAIN nodemap /\ p \notin smatrix}
      /\ UNCHANGED <<connmap, nodemap, ports, clients, calling, told>>
  BY <1>1, <1>2 DEF AskForService, PutJob, Doing
<1>4. NoJob \in JobSet /\ JobOk(links[l], ports, NoJob) /\ NoJob.part \notin Loud
  BY DEF JobSet, JobOk, NoJob, Job, Loud
<1>5. LinksOk(r, ports) /\ Kept(links, r) /\ Busy(links, r)
  BY <1>1, <1>3, <1>4, JobStep DEF Loud
<1>6. \A x, e : q \in Seq(Msg) /\ MsgsOk(x, e, ports, q) /\ Answers(q) = {}
  BY <1>2, Bare
<1>7. LinksOk(links', ports) /\ Kept(links, links') /\ Busy(links, links')
  BY <1>3, <1>5, <1>6, SendsQuietly DEF Ends
<1>8. LinksInv' /\ Same(links, links')
  BY <1>3, <1>7 DEF LinksInv, Kept
<1>9. \A k \in Links : /\ Doing(k, "order")' <=> Doing(k, "order")
                       /\ Doing(k, "notify")' <=> Doing(k, "notify")
  BY <1>7 DEF Busy, Loud, Doing, Links
<1>10. OnceInv' /\ MapInv'
  BY <1>3, <1>7, <1>8, <1>9, OnceKept, MapKept DEF IInv
<1>11. ToldInv'
  <2>1. \A k \in Links : /\ k \in Links' /\ links'[k].client = links[k].client
                         /\ links'[k].server = links[k].server /\ links'[k].state = links[k].state
    BY <1>8 DEF Same, Links
  <2>2. Links' = Links
    BY <1>8 DEF Same, Links
  <2>3. ASSUME NEW d \in DOMAIN nodemap', NEW c \in Nat, <<d, c>> \in (smatrix \ late)'
        PROVE  d \in DOMAIN nodemap /\ <<d, c>> \in smatrix \ late
    BY <1>3, <2>3
  <2>4. QED
    BY <1>3, <1>8, <1>9, <2>1, <2>2, <2>3, ToldKept DEF IInv
<1>12. PortsInv'
  BY <1>3 DEF IInv, PortsInv
<1>13. CallInv'
  <2>1. s \in Slaves /\ m \in Slaves
    BY <1>1, <1>3, JobFacts DEF IInv, JobOk
  <2>2. QED
    BY <1>3, <2>1 DEF IInv, CallInv, calling
<1>14. ClientsInv'
  <2>1. Len(links') = Len(links)
    BY <1>8, LenProperties DEF Same, IInv, LinksInv, LinksOk
  <2>2. QED
    BY <1>3, <2>1 DEF IInv, ClientsInv
<1>15. QED
  BY <1>8, <1>10, <1>11, <1>12, <1>13, <1>14 DEF IInv

LEMMA RegisterStep ==
  ASSUME IInv, NEW l \in Links, Register(l)
  PROVE  IInv'
<1>1. PICK r, s, p :
        r = Taken(l, "server") /\ s = links[l].client /\ p = Arg(l, "server")[2]
  OBVIOUS
<1>2. PICK j : j = Job("notify", NoNode, p)
  OBVIOUS
<1>3. /\ links' = PutJob(r, l, j) /\ Arrived(l, "server", "service")
      /\ nodemap' = [n \in DOMAIN nodemap \cup {s} |->
                       IF n \in DOMAIN nodemap THEN nodemap[n] ELSE p]
      /\ UNCHANGED <<connmap, smatrix, ports, clients, calling, told, late>>
  BY <1>1, <1>2 DEF Register, PutJob, history
<1>4. /\ LinksOk(r, ports) /\ Kept(links, r) /\ Busy(links, r)
      /\ \A k \in Links : r[k].job = links[k].job
      /\ links[l].job = NoJob
  BY <1>1, <1>3, Reads DEF IInv, Ends
<1>5. p \in Nat /\ Truth(ports, <<s, p>>)
  <2>1. PICK m : m = Head(links[l].queue["server"])
    OBVIOUS
  <2>2. /\ m.kind = "service" /\ MsgOk(links[l], "server", ports, m)
        /\ Arg(l, "server") \in Nodes \X Nat /\ DOMAIN m.pairs = {1}
    BY <1>3, <2>1, Reads DEF IInv, Ends
  <2>3. Arg(l, "server") = m.pairs[1]
    BY <2>1 DEF Arg
  <2>4. m.pairs[1][1] = s /\ Truth(ports, m.pairs[1])
    BY <1>1, <2>2 DEF MsgOk, AllTrue
  <2>5. QED
    BY <1>1, <2>2, <2>3, <2>4 DEF Truth
<1>6. /\ j \in JobSet /\ JobOk(r[l], ports, j) /\ j.part = "notify"
  <2>1. r[l].client = s
    BY <1>1, <1>4 DEF Kept, Same, Links
  <2>2. j.part = "notify" /\ j.node = NoNode /\ j.port = p
    BY <1>2 DEF Job
  <2>3. QED
    BY <1>2, <1>5, <2>1, <2>2 DEF JobSet, JobOk, Job
<1>7. l \in DOMAIN r
  BY <1>4 DEF Kept, Same, Links
<1>8. /\ LinksOk(links', ports) /\ Kept(r, links') /\ links'[l].job = j
      /\ \A k \in DOMAIN r : k # l => links'[k].job = r[k].job
  BY <1>3, <1>4, <1>6, <1>7, SetJob
<1>9. LinksInv' /\ Kept(links, links') /\ Same(links, links') /\ Links' = Links
  <2>1. Kept(links, links')
    BY <1>4, <1>8, KeptTwice
  <2>2. QED
    BY <1>3, <1>8, <2>1 DEF LinksInv, Kept, Same, Links
<1>10. /\ Doing(l, "notify")' /\ ~Doing(l, "order")' /\ links[l].state["server"] # "new"
       /\ \A k \in Links : k # l => links'[k].job = links[k].job
  BY <1>3, <1>4, <1>6, <1>8 DEF Doing, Kept, Same, Links, Arrived
<1>11. OnceInv' /\ MapInv'
  BY <1>3, <1>9, <1>10, OnceKept, MapKept DEF IInv, Doing
<1>12. ToldInv'
  <2> SUFFICES ASSUME NEW k \in Links', NEW d \in DOMAIN nodemap',
                      links'[k].server = Master, links'[k].state["server"] = "bound",
                      ~Doing(k, "order")', <<d, links'[k].client>> \in (smatrix \ late)'
               PROVE  \/ <<links'[k].client, d>> \in told'
                      \/ \E i \in Links' : links'[i].client = d /\ Doing(i, "notify")'
    BY DEF ToldInv
  <2>1. \A i \in Links : /\ links'[i].client = links[i].client
                         /\ links'[i].server = links[i].server /\ links'[i].state = links[i].state
    BY <1>9 DEF Same, Links
  <2>2. CASE d = s
    BY <1>1, <1>9, <1>10, <2>1, <2>2
  <2>3. CASE d # s
    <3>1. d \in DOMAIN nodemap
      BY <1>3, <2>3
    <3>2. ~Doing(k, "order")
      BY <1>4, <1>9, <1>10 DEF Doing, NoJob, Job
    <3>3. \/ <<links[k].client, d>> \in told
          \/ \E i \in Links : links[i].client = d /\ Doing(i, "notify")
      BY <1>3, <1>9, <2>1, <3>1, <3>2 DEF IInv, ToldInv
    <3>4. \A i \in Links : Doing(i, "notify") => Doing(i, "notify")'
      BY <1>10 DEF Doing
    <3>5. QED
      BY <1>3, <1>9, <2>1, <3>3, <3>4
  <2>4. QED
    BY <2>2, <2>3
<1>13. PortsInv'
  <2>1. s \in Slaves
    BY <1>1, JobFacts DEF IInv
  <2>2. QED
    BY <1>3, <1>5, <2>1 DEF IInv, PortsInv
<1>14. CallInv'
  BY <1>3, CallsKept DEF IInv
<1>15. ClientsInv'
  <2>1. Len(links') = Len(links)
    BY <1>9, LenProperties DEF Same, IInv, LinksInv, LinksOk
  <2>2. QED
    BY <1>3, <2>1 DEF IInv, ClientsInv
<1>16. QED
  BY <1>9, <1>11, <1>12, <1>13, <1>14, <1>15 DEF IInv

------------------------------------------------------------------------------
(* The steps that bind and unbind ends.                                    *)

\* An end that becomes bound and enters the map of its node.
LEMMA Entered ==
  ASSUME LinksInv, MapInv, NEW l \in Links, NEW e \in Ends, links[l].state[e] = "new",
         Enter(l, e), Links' = Links,
         \A k \in Links, d \in Ends :
           /\ links'[k][d] = links[k][d]
           /\ links'[k].state[d] = IF k = l /\ d = e THEN "bound" ELSE links[k].state[d]
  PROVE  MapInv'
<1>1. PICK n, a, x : n = links[l][e] /\ a = connmap[n] /\ x = <<l, e>>
  OBVIOUS
<1>2. PICK b : b = Append(a, x)
  OBVIOUS
<1>3. connmap' = [connmap EXCEPT ![n] = b]
  BY <1>1, <1>2 DEF Enter, Node
<1>4. n \in Nodes /\ a \in Seq(Nat \X Ends) /\ x \in Nat \X Ends
  <2>1. links[l] \in Link /\ l \in Nat
    BY LinksDomain
  <2>2. n \in Nodes
    BY <1>1, <2>1, EndsOf
  <2>3. QED
    BY <1>1, <2>1, <2>2 DEF MapInv
<1>5. /\ b \in Seq(Nat \X Ends) /\ b[Len(a) + 1] = x /\ \A i \in 1 .. Len(a) : b[i] = a[i]
      /\ DOMAIN b = 1 .. Len(a) + 1 /\ DOMAIN a = 1 .. Len(a) /\ Len(a) \in Nat
  BY <1>2, <1>4, AppendProperties, LenProperties
<1>6. \A i \in DOMAIN a : a[i] # x
  BY <1>1, <1>4 DEF MapInv
<1>7. \A m \in Nodes : connmap'[m] = IF m = n THEN b ELSE connmap[m]
  BY <1>3 DEF MapInv
<1>8. \A i, j \in DOMAIN a : a[i] = a[j] => i = j
  BY <1>1, <1>4 DEF MapInv
<1>9. ASSUME NEW i \in DOMAIN b, NEW j \in DOMAIN b, b[i] = b[j]  PROVE i = j
  <2>1. CASE i \in DOMAIN a /\ j \in DOMAIN a
    BY <1>5, <1>8, <1>9, <2>1
  <2>2. CASE i \in DOMAIN a /\ j = Len(a) + 1
    BY <1>5, <1>6, <1>9, <2>2
  <2>3. CASE i = Len(a) + 1 /\ j \in DOMAIN a
    BY <1>5, <1>6, <1>9, <2>3
  <2>4. QED
    BY <1>5, <2>1, <2>2, <2>3
<1>10. connmap' \in [Nodes -> Seq(Nat \X Ends)]
  BY <1>3, <1>4, <1>5 DEF MapInv
<1>11. \A m \in Nodes : \A i, j \in DOMAIN connmap'[m] : connmap'[m][i] = connmap'[m][j] => i = j
  BY <1>7, <1>9 DEF MapInv
<1>12. ASSUME NEW m \in Nodes, NEW i \in DOMAIN connmap'[m]
       PROVE  LET h == connmap'[m][i]
              IN  h[1] \in Links' /\ links'[h[1]][h[2]] = m /\ links'[h[1]].state[h[2]] = "bound"
  <2>1. PICK h : h = connmap'[m][i]
    OBVIOUS
  <2>2. CASE m = n /\ i = Len(a) + 1
    <3>1. h = x
      BY <1>5, <1>7, <2>1, <2>2
    <3>2. h[1] = l /\ h[2] = e
      BY <1>1, <3>1
    <3>3. h[1] \in Links' /\ links'[h[1]][h[2]] = m /\ links'[h[1]].state[h[2]] = "bound"
      BY <1>1, <2>2, <3>2
    <3>4. QED
      BY <2>1, <3>3
  <2>3. CASE ~(m = n /\ i = Len(a) + 1)
    <3>1. i \in DOMAIN connmap[m] /\ h = connmap[m][i]
      <4>1. CASE m = n
        <5>1. connmap'[m] = b /\ connmap[m] = a
          BY <1>1, <1>7, <4>1
        <5>2. i \in DOMAIN a /\ b[i] = a[i]
          BY <1>5, <2>3, <4>1, <5>1
        <5>3. QED
          BY <2>1, <5>1, <5>2
      <4>2. CASE m # n
        BY <1>7, <2>1, <4>2
      <4>3. QED
        BY <4>1, <4>2
    <3>2. h \in Nat \X Ends
      BY <3>1, ElementOfSeq, LenProperties DEF MapInv
    <3>3. h[1] \in Links /\ links[h[1]][h[2]] = m /\ links[h[1]].state[h[2]] = "bound"
      BY <3>1 DEF MapInv, Node
    <3>4. QED
      BY <2>1, <3>2, <3>3
  <2>4. QED
    BY <2>2, <2>3
<1>13. ASSUME NEW k \in Links', NEW d \in Ends, links'[k].state[d] = "bound"
       PROVE  \E i \in DOMAIN connmap'[links'[k][d]] : connmap'[links'[k][d]][i] = <<k, d>>
  <2>1. k \in Links /\ links'[k][d] = links[k][d]
    OBVIOUS
  <2>2. PICK m : m = links[k][d]
    OBVIOUS
  <2>3. m \in Nodes
    BY <2>1, <2>2, LinksDomain, EndsOf
  <2>4. CASE k = l /\ d = e
    <3>1. m = n /\ Len(a) + 1 \in DOMAIN b /\ b[Len(a) + 1] = <<k, d>>
      BY <1>1, <1>5, <2>2, <2>4
    <3>2. QED
      BY <1>7, <2>1, <2>2, <2>3, <3>1
  <2>5. CASE ~(k = l /\ d = e)
    <3>1. links[k].state[d] = "bound"
      BY <1>13, <2>1, <2>5
    <3>2. PICK i \in DOMAIN connmap[links[k][d]] : connmap[links[k][d]][i] = <<k, d>>
      BY <2>1, <3>1 DEF MapInv, Node
    <3>3. i \in DOMAIN connmap[m] /\ connmap[m][i] = <<k, d>>
      BY <2>2, <3>2
    <3>4. i \in DOMAIN connmap'[m] /\ connmap'[m][i] = <<k, d>>
      <4>1. CASE m = n
        <5>1. connmap'[m] = b /\ connmap[m] = a
          BY <1>1, <1>7, <2>3, <4>1
        <5>2. i \in DOMAIN b /\ b[i] = a[i]
          BY <1>5, <3>3, <5>1
        <5>3. QED
          BY <3>3, <5>1, <5>2
      <4>2. CASE m # n
        BY <1>7, <2>3, <3>3, <4>2
      <4>3. QED
        BY <4>1, <4>2
    <3>5. QED
      BY <2>1, <2>2, <3>4
  <2>6. QED
    BY <2>4, <2>5
<1>14. QED
  BY <1>10, <1>11, <1>12, <1>13 DEF MapInv, Node

\* An end that is closed and leaves it.
LEMMA Left ==
  ASSUME LinksInv, MapInv, NEW l \in Links, NEW e \in Ends,
         Leave(l, e), Links' = Links,
         \A k \in Links, d \in Ends :
           /\ links'[k][d] = links[k][d]
           /\ links'[k].state[d] = IF k = l /\ d = e THEN "closed" ELSE links[k].state[d]
  PROVE  MapInv'
<1>1. PICK n, a, x : n = links[l][e] /\ a = connmap[n] /\ x = <<l, e>>
  OBVIOUS
<1>2. PICK b : b = RemoveFirst(a, x)
  OBVIOUS
<1>3. connmap' = [connmap EXCEPT ![n] = b]
  BY <1>1, <1>2 DEF Leave, Node
<1>4. n \in Nodes /\ a \in Seq(Nat \X Ends) /\ l \in Nat
  <2>1. links[l] \in Link /\ l \in Nat
    BY LinksDomain
  <2>2. n \in Nodes
    BY <1>1, <2>1, EndsOf
  <2>3. QED
    BY <1>1, <2>1, <2>2 DEF MapInv
<1>5. \A i, j \in DOMAIN a : a[i] = a[j] => i = j
  BY <1>1, <1>4 DEF MapInv
<1>6. /\ b \in Seq(Nat \X Ends)
      /\ \A i, j \in DOMAIN b : b[i] = b[j] => i = j
      /\ \A j \in DOMAIN b : b[j] # x /\ \E i \in DOMAIN a : b[j] = a[i]
      /\ \A i \in DOMAIN a : a[i] # x => \E j \in DOMAIN b : b[j] = a[i]
  BY <1>2, <1>4, <1>5, RemovedFirst
<1>7. \A m \in Nodes : connmap'[m] = IF m = n THEN b ELSE connmap[m]
  BY <1>3 DEF MapInv
<1>8. connmap' \in [Nodes -> Seq(Nat \X Ends)]
  BY <1>3, <1>4, <1>6 DEF MapInv
<1>9. \A m \in Nodes : \A i, j \in DOMAIN connmap'[m] : connmap'[m][i] = connmap'[m][j] => i = j
  <2>1. ASSUME NEW m \in Nodes, NEW i \in DOMAIN connmap'[m], NEW j \in DOMAIN connmap'[m],
               connmap'[m][i] = connmap'[m][j]
        PROVE  i = j
    <3>1. CASE m = n
      BY <1>6, <1>7, <2>1, <3>1
    <3>2. CASE m # n
      BY <1>7, <2>1, <3>2 DEF MapInv
    <3>3. QED
      BY <3>1, <3>2
  <2>2. QED
    BY <2>1
<1>10. ASSUME NEW m \in Nodes, NEW i \in DOMAIN connmap'[m]
       PROVE  LET h == connmap'[m][i]
              IN  h[1] \in Links' /\ links'[h[1]][h[2]] = m /\ links'[h[1]].state[h[2]] = "bound"
  <2>1. PICK h : h = connmap'[m][i]
    OBVIOUS
  <2>2. PICK j \in DOMAIN connmap[m] : h = connmap[m][j]
    BY <1>1, <1>6, <1>7, <2>1
  <2>3. h \in Nat \X Ends
    BY <2>2, ElementOfSeq, LenProperties DEF MapInv
  <2>4. h[1] \in Links /\ links[h[1]][h[2]] = m /\ links[h[1]].state[h[2]] = "bound"
    BY <2>2 DEF MapInv, Node
  <2>5. ~(h[1] = l /\ h[2] = e)
    <3>1. CASE m = n
      <4>1. h # x
        BY <1>6, <1>7, <2>1, <3>1
      <4>2. QED
        BY <1>1, <2>3, <4>1
    <3>2. CASE m # n
      BY <1>1, <2>4, <3>2
    <3>3. QED
      BY <3>1, <3>2
  <2>6. QED
    BY <2>1, <2>3, <2>4, <2>5
<1>11. ASSUME NEW k \in Links', NEW d \in Ends, links'[k].state[d] = "bound"
       PROVE  \E i \in DOMAIN connmap'[links'[k][d]] : connmap'[links'[k][d]][i] = <<k, d>>
  <2>1. /\ k \in Links /\ links'[k][d] = links[k][d] /\ links[k].state[d] = "bound"
        /\ ~(k = l /\ d = e)
    BY <1>11
  <2>2. PICK m : m = links[k][d]
    OBVIOUS
  <2>3. m \in Nodes
    BY <2>1, <2>2, LinksDomain, EndsOf
  <2>4. PICK i \in DOMAIN connmap[links[k][d]] : connmap[links[k][d]][i] = <<k, d>>
    BY <2>1 DEF MapInv, Node
  <2>5. i \in DOMAIN connmap[m] /\ connmap[m][i] = <<k, d>> /\ <<k, d>> # x
    BY <1>1, <2>1, <2>2, <2>4
  <2>6. \E j \in DOMAIN connmap'[m] : connmap'[m][j] = <<k, d>>
    <3>1. CASE m = n
      <4>1. connmap'[m] = b /\ connmap[m] = a
        BY <1>1, <1>7, <2>3, <3>1
      <4>2. QED
        BY <1>6, <2>5, <4>1
    <3>2. CASE m # n
      BY <1>7, <2>3, <2>5, <3>2
    <3>3. QED
      BY <3>1, <3>2
  <2>7. QED
    BY <2>1, <2>2, <2>6
<1>12. QED
  BY <1>8, <1>9, <1>10, <1>11 DEF MapInv, Node

\* What a step must not touch for the rest of the invariant to stay.
LEMMA RestKept ==
  ASSUME IInv, LinksInv', DOMAIN links' = DOMAIN links,
         UNCHANGED <<nodemap, smatrix, ports, clients, calling>>
  PROVE  PortsInv' /\ ClientsInv' /\ CallInv'
<1>1. Len(links') = Len(links)
  BY LenProperties DEF IInv, LinksInv, LinksOk
<1>2. ClientsInv'
  BY <1>1 DEF IInv, ClientsInv
<1>3. QED
  BY <1>2, CallsKept DEF IInv, PortsInv

LEMMA BindStep ==
  ASSUME IInv, NEW l \in Links, Bind(l)
  PROVE  IInv'
<1>1. PICK r, j : r = PutState(links, l, "server", "bound") /\ j = Job("order", NoNode, 0)
  OBVIOUS
<1>2. /\ links[l].state["server"] = "new" /\ Enter(l, "server") /\ links' = PutJob(r, l, j)
      /\ UNCHANGED <<nodemap, smatrix, ports, clients, calling, told, late>>
  BY <1>1 DEF Bind, PutState, PutJob, history
<1>3. "server" \in Ends /\ "client" \in Ends /\ l \in DOMAIN links /\ LinksOk(links, ports)
  BY DEF Ends, Links, IInv, LinksInv
<1>4. /\ LinksOk(r, ports) /\ DOMAIN r = DOMAIN links
      /\ \A k \in DOMAIN links :
           /\ r[k].client = links[k].client /\ r[k].server = links[k].server
           /\ r[k].queue = links[k].queue /\ r[k].job = links[k].job
           /\ \A d \in Ends : r[k].state[d] = IF k = l /\ d = "server" THEN "bound" ELSE links[k].state[d]
  <2>1. LinksOk(r, ports) /\ OnlyState(links, r, l, "server", "bound")
    BY <1>1, <1>3, SetState DEF States
  <2>2. QED
    BY <2>1 DEF OnlyState
<1>5. j.part = "order" /\ j \in JobSet /\ JobOk(r[l], ports, j)
  BY <1>1 DEF Job, JobSet, JobOk
<1>6. /\ LinksOk(links', ports) /\ Same(r, links') /\ links'[l].job = j
      /\ \A k \in DOMAIN r : k # l => links'[k].job = r[k].job
      /\ \A k \in DOMAIN r : links'[k].queue = r[k].queue
  BY <1>2, <1>3, <1>4, <1>5, SetJob DEF Kept
<1>7. /\ DOMAIN links' = DOMAIN links
      /\ \A k \in DOMAIN links :
           /\ links'[k].client = links[k].client /\ links'[k].server = links[k].server
           /\ links'[k].queue = links[k].queue /\ (k # l => links'[k].job = links[k].job)
           /\ \A d \in Ends : links'[k].state[d] = IF k = l /\ d = "server" THEN "bound" ELSE links[k].state[d]
  BY <1>4, <1>6 DEF Same
<1>8. LinksInv'
  BY <1>2, <1>6 DEF LinksInv
<1>9. OnceInv'
  <2>1. ASSUME NEW k \in DOMAIN links  PROVE Once(links'[k])
    <3>1. Once(links[k])
      BY DEF IInv, OnceInv, Links
    <3>2. CASE k = l
      BY <1>2, <1>3, <1>5, <1>6, <1>7, <3>1, <3>2 DEF Once
    <3>3. CASE k # l
      BY <1>3, <1>7, <3>1, <3>3 DEF Once
    <3>4. QED
      BY <3>2, <3>3
  <2>2. QED
    BY <1>7, <2>1 DEF OnceInv, Links
<1>10. MapInv'
  <2>1. Links' = Links /\ \A k \in Links, d \in Ends :
          /\ links'[k][d] = links[k][d]
          /\ links'[k].state[d] = IF k = l /\ d = "server" THEN "bound" ELSE links[k].state[d]
    BY <1>7 DEF Links, Ends
  <2>2. QED
    BY <1>2, <1>3, <2>1, Entered DEF IInv
<1>11. ToldInv'
  <2>1. \A k \in Links : /\ k \in Links' /\ links'[k].client = links[k].client
                         /\ Doing(k, "notify") => Doing(k, "notify")'
    <3>1. links[l].job.part # "notify"
      BY <1>2 DEF IInv, OnceInv, Once
    <3>2. QED
      BY <1>7, <3>1 DEF Doing, Links
  <2>2. \A k \in Links' :
          links'[k].server = Master /\ links'[k].state["server"] = "bound" /\ ~Doing(k, "order")' =>
            /\ k \in Links /\ links[k].server = Master /\ links[k].state["server"] = "bound"
            /\ ~Doing(k, "order")
    BY <1>3, <1>5, <1>6, <1>7 DEF Doing, Links
  <2>3. QED
    BY <1>2, <1>8, <2>1, <2>2, ToldKept DEF IInv
<1>12. QED
  BY <1>2, <1>7, <1>8, <1>9, <1>10, <1>11, RestKept DEF IInv

LEMMA BoundStep ==
  ASSUME IInv, NEW l \in Links, Bound(l)
  PROVE  IInv'
<1>1. PICK r : r = Taken(l, "client")
  OBVIOUS
<1>2. /\ Arrived(l, "client", "bound") /\ Enter(l, "client")
      /\ links' = PutState(r, l, "client", "bound")
      /\ UNCHANGED <<nodemap, smatrix, ports, clients, calling, told, late>>
  BY <1>1 DEF Bound, PutState, history
<1>3. "server" \in Ends /\ "client" \in Ends /\ l \in DOMAIN links
  BY DEF Ends, Links
<1>4. /\ LinksOk(r, ports) /\ Kept(links, r)
      /\ \A k \in Links : r[k].job = links[k].job
      /\ r[l].queue["client"] = Tail(links[l].queue["client"])
  BY <1>1, <1>2, <1>3, Reads DEF IInv
<1>5. l \in DOMAIN r
  BY <1>3, <1>4 DEF Kept, Same
<1>6. LinksOk(links', ports) /\ OnlyState(r, links', l, "client", "bound")
  BY <1>2, <1>3, <1>4, <1>5, SetState DEF States
<1>7. LinksInv'
  BY <1>2, <1>6 DEF LinksInv
<1>8. /\ Answers(links[l].queue["client"]) # {}
      /\ Answers(Tail(links[l].queue["client"])) = {}
  <2>1. PICK q : q = links[l].queue["client"]
    OBVIOUS
  <2>2. q \in Seq(Msg) /\ q # <<>> /\ Head(q).kind = "bound" /\ MsgsOk(links[l], "client", ports, q)
    BY <1>2, <1>3, <2>1, LinksDomain, EndsOf DEF Arrived, IInv, LinksInv, LinksOk, LinkOk
  <2>3. \A i, j \in Answers(q) : i = j
    BY <2>1 DEF IInv, OnceInv, Once
  <2>4. QED
    BY <2>1, <2>2, <2>3, HeadOk
<1>9. /\ links[l].state["client"] = "new" /\ links[l].state["server"] # "new"
      /\ links[l].job.part # "order"
  BY <1>2, <1>8 DEF Arrived, IInv, OnceInv, Once
<1>10. /\ DOMAIN links' = DOMAIN links
       /\ \A k \in DOMAIN links :
            /\ links'[k].client = links[k].client /\ links'[k].server = links[k].server
            /\ Fewer(links'[k].queue["client"], links[k].queue["client"])
            /\ links'[k].job = links[k].job
            /\ \A d \in Ends : k # l \/ d # "client" => links'[k].state[d] = links[k].state[d]
       /\ links'[l].queue["client"] = Tail(links[l].queue["client"])
       /\ links'[l].state["client"] = "bound"
  BY <1>3, <1>4, <1>5, <1>6 DEF OnlyState, Kept, Same, Links
<1>11. OnceInv'
  <2>1. ASSUME NEW k \in DOMAIN links  PROVE Once(links'[k])
    <3>1. Once(links[k])
      BY DEF IInv, OnceInv, Links
    <3>2. CASE k = l
      BY <1>3, <1>8, <1>9, <1>10, <3>1, <3>2 DEF Once
    <3>3. CASE k # l
      BY <1>3, <1>10, <3>1, <3>3 DEF Once, Fewer
    <3>4. QED
      BY <3>2, <3>3
  <2>2. QED
    BY <1>10, <2>1 DEF OnceInv, Links
<1>12. MapInv'
  <2>1. Links' = Links /\ \A k \in Links, d \in Ends :
          /\ links'[k][d] = links[k][d]
          /\ links'[k].state[d] = IF k = l /\ d = "client" THEN "bound" ELSE links[k].state[d]
    BY <1>10 DEF Links, Ends
  <2>2. QED
    BY <1>2, <1>3, <1>9, <2>1, Entered DEF IInv
<1>13. ToldInv'
  <2>1. Links' = Links
    BY <1>10 DEF Links
  <2>2. \A k \in Links : /\ links'[k].client = links[k].client /\ links'[k].server = links[k].server
                         /\ links'[k].state["server"] = links[k].state["server"]
                         /\ links'[k].job = links[k].job
    BY <1>3, <1>10 DEF Links
  <2>3. QED
    BY <1>2, <1>7, <2>1, <2>2, ToldKept DEF IInv, Doing
<1>14. QED
  BY <1>2, <1>7, <1>10, <1>11, <1>12, <1>13, RestKept DEF IInv

LEMMA CloseStep ==
  ASSUME IInv, NEW l \in Links, NEW e \in Ends, Close(l, e)
  PROVE  IInv'
<1>1. PICK r, z, j :
        /\ r = PutState(links, l, e, "closed") /\ z = PutQueue(r, l, e, <<>>)
        /\ j = IF e = "server" /\ links[l].state[e] = "bound" /\ links[l].server = Master
                 THEN Job("forget", NoNode, 0) ELSE links[l].job
  OBVIOUS
<1>2. /\ links' = PutJob(z, l, j) /\ Leave(l, e)
      /\ e = "server" => links[l].job = NoJob
      /\ UNCHANGED <<nodemap, smatrix, ports, calling, told, late>>
  BY <1>1 DEF Close, PutState, PutQueue, PutJob, Ends, history
<1>3. "server" \in Ends /\ "client" \in Ends /\ l \in DOMAIN links /\ LinksOk(links, ports)
  BY DEF Ends, Links, IInv, LinksInv
<1>4. LinksOk(r, ports) /\ OnlyState(links, r, l, e, "closed")
  BY <1>1, <1>3, SetState DEF States
<1>5. l \in DOMAIN r
  BY <1>3, <1>4 DEF OnlyState
<1>6. /\ LinksOk(z, ports) /\ Same(r, z)
      /\ \A k \in DOMAIN r :
           /\ z[k].job = r[k].job
           /\ \A d \in Ends : z[k].queue[d] = IF k = l /\ d = e THEN <<>> ELSE r[k].queue[d]
  <2>1. PICK q : q = <<>>
    OBVIOUS
  <2>2. q \in Seq(Msg) /\ MsgsOk(r[l], e, ports, q) /\ z = PutQueue(r, l, e, q)
    BY <1>1, <2>1 DEF MsgsOk
  <2>3. /\ LinksOk(z, ports) /\ Same(r, z)
        /\ \A k \in DOMAIN r :
             /\ z[k].job = r[k].job
             /\ \A d \in Ends : z[k].queue[d] = IF k = l /\ d = e THEN q ELSE r[k].queue[d]
    BY <1>4, <1>5, <2>2, SetQueue
  <2>4. QED
    BY <2>1, <2>3
<1>7. /\ j \in JobSet /\ JobOk(z[l], ports, j)
      /\ (j.part \in Loud \/ links[l].job.part \in Loud) => j = links[l].job
  <2>1. z[l].client = links[l].client
    BY <1>3, <1>4, <1>5, <1>6 DEF OnlyState, Same
  <2>2. CASE j = links[l].job
    BY <2>1, <2>2, JobFacts DEF IInv, JobOk
  <2>3. CASE j = Job("forget", NoNode, 0) /\ links[l].job = NoJob
    BY <2>3 DEF Job, NoJob, JobSet, JobOk, Loud
  <2>4. QED
    BY <1>1, <1>2, <2>2, <2>3
<1>8. l \in DOMAIN z
  BY <1>5, <1>6 DEF Same
<1>9. /\ LinksOk(links', ports) /\ Same(z, links') /\ links'[l].job = j
      /\ \A k \in DOMAIN z : k # l => links'[k].job = z[k].job
      /\ \A k \in DOMAIN z : links'[k].queue = z[k].queue
  BY <1>2, <1>6, <1>7, <1>8, SetJob DEF Kept
<1>10. /\ DOMAIN links' = DOMAIN links
       /\ \A k \in DOMAIN links :
            /\ links'[k].client = links[k].client /\ links'[k].server = links[k].server
            /\ k # l => links'[k].job = links[k].job
            /\ \A d \in Ends : k # l \/ d # e =>
                 links'[k].state[d] = links[k].state[d] /\ links'[k].queue[d] = links[k].queue[d]
       /\ links'[l].state[e] = "closed" /\ links'[l].queue[e] = <<>> /\ links'[l].job = j
  <2>1. DOMAIN links' = DOMAIN links /\ DOMAIN z = DOMAIN links /\ DOMAIN r = DOMAIN links
    BY <1>4, <1>6, <1>9 DEF OnlyState, Same
  <2>2. \A k \in DOMAIN links :
            /\ links'[k].client = links[k].client /\ links'[k].server = links[k].server
            /\ k # l => links'[k].job = links[k].job
    BY <1>4, <1>6, <1>9, <2>1 DEF OnlyState, Same
  <2>3. \A k \in DOMAIN links : \A d \in Ends : k # l \/ d # e =>
          links'[k].state[d] = links[k].state[d] /\ links'[k].queue[d] = links[k].queue[d]
    BY <1>4, <1>6, <1>9, <2>1 DEF OnlyState, Same
  <2>4. links'[l].state[e] = "closed" /\ links'[l].queue[e] = <<>>
    BY <1>3, <1>4, <1>6, <1>9, <2>1 DEF OnlyState, Same
  <2>5. QED
    BY <1>9, <2>1, <2>2, <2>3, <2>4
<1>11. LinksInv'
  BY <1>2, <1>9 DEF LinksInv
<1>12. OnceInv'
  <2>1. ASSUME NEW k \in DOMAIN links  PROVE Once(links'[k])
    <3>1. Once(links[k])
      BY DEF IInv, OnceInv, Links
    <3>2. CASE k # l
      BY <1>3, <1>10, <3>1, <3>2 DEF Once
    <3>3. CASE k = l /\ e = "client"
      <4>1. Answers(links'[l].queue["client"]) = {}
        BY <1>10, <3>3 DEF Answers
      <4>2. /\ links'[l].state["client"] = "closed" /\ links'[l].job = links[l].job
            /\ links'[l].state["server"] = links[l].state["server"]
        BY <1>1, <1>3, <1>10, <3>3
      <4>3. QED
        BY <3>1, <3>3, <4>1, <4>2 DEF Once
    <3>4. CASE k = l /\ e = "server"
      <4>1. /\ links'[l].queue["client"] = links[l].queue["client"]
            /\ links'[l].state["client"] = links[l].state["client"]
            /\ links'[l].state["server"] = "closed"
        BY <1>3, <1>10, <3>4
      <4>2. links'[l].job.part # "order"
        BY <1>2, <1>7, <1>10, <3>4 DEF Loud, NoJob, Job
      <4>3. QED
        BY <3>1, <3>4, <4>1, <4>2 DEF Once
    <3>5. QED
      BY <3>2, <3>3, <3>4 DEF Ends
  <2>2. QED
    BY <1>10, <2>1 DEF OnceInv, Links
<1>13. MapInv'
  <2>1. Links' = Links /\ \A k \in Links, d \in Ends :
          /\ links'[k][d] = links[k][d]
          /\ links'[k].state[d] = IF k = l /\ d = e THEN "closed" ELSE links[k].state[d]
    BY <1>10 DEF Links, Ends
  <2>2. QED
    BY <1>2, <2>1, Left DEF IInv
<1>14. ToldInv'
  <2>1. Links' = Links
    BY <1>10 DEF Links
  <2>2. \A k \in Links :
          /\ links'[k].client = links[k].client /\ links'[k].server = links[k].server
          /\ links'[k].state["server"] = "bound" => links[k].state["server"] = "bound"
          /\ Doing(k, "notify") => Doing(k, "notify")'
          /\ Doing(k, "order") => Doing(k, "order")'
    BY <1>3, <1>7, <1>10 DEF Links, Doing, Loud
  <2>3. QED
    BY <1>2, <1>11, <2>1, <2>2, ToldKept DEF IInv
<1>15. PortsInv' /\ CallInv'
  BY <1>2, CallsKept DEF IInv, PortsInv
<1>16. ClientsInv'
  <2>1. PICK n, a : n = links[l].client /\ a = clients[n]
    OBVIOUS
  <2>2. PICK b : b = [i \in DOMAIN a |-> IF a[i].link = l THEN [a[i] EXCEPT !.link = 0] ELSE a[i]]
    OBVIOUS
  <2>3. clients' = clients \/ clients' = [clients EXCEPT ![n] = b]
    BY <2>1, <2>2 DEF Close
  <2>4. n \in Slaves /\ Len(links') = Len(links) /\ Len(links) \in Nat
    BY <1>10, <1>11, <2>1, JobFacts, LenProperties DEF IInv, LinksInv, LinksOk
  <2>5. /\ a \in Seq([port : Nat, link : Nat]) /\ a # <<>> /\ a[1].port = 0
        /\ DOMAIN a = 1 .. Len(a) /\ Len(a) \in Nat /\ 1 \in DOMAIN a
        /\ \A i \in DOMAIN a : /\ a[i] \in [port : Nat, link : Nat]
                               /\ a[i].port \in 0 .. Len(ports) /\ a[i].link \in 0 .. Len(links)
    <3>1. /\ a \in Seq([port : Nat, link : Nat]) /\ a # <<>> /\ a[1].port = 0
          /\ \A i \in DOMAIN a : a[i].port \in 0 .. Len(ports) /\ a[i].link \in 0 .. Len(links)
      BY <2>1, <2>4 DEF IInv, ClientsInv
    <3>2. DOMAIN a = 1 .. Len(a) /\ Len(a) \in Nat
      BY <3>1, LenProperties
    <3>3. \A i \in DOMAIN a : a[i] \in [port : Nat, link : Nat]
      BY <3>1, <3>2, ElementOfSeq
    <3>4. Len(a) # 0
      BY <3>1, EmptySeq
    <3>5. QED
      BY <3>1, <3>2, <3>3, <3>4
  <2>6. \A i \in DOMAIN a : /\ b[i] \in [port : Nat, link : Nat] /\ b[i].port = a[i].port
                            /\ b[i].link \in 0 .. Len(links)
    BY <2>2, <2>4, <2>5
  <2>7. DOMAIN b = DOMAIN a
    BY <2>2
  <2>8. b \in Seq([port : Nat, link : Nat])
    <3>1. b \in [1 .. Len(a) -> [port : Nat, link : Nat]]
      BY <2>2, <2>5, <2>6
    <3>2. QED
      BY <2>5, <3>1, SeqDef
  <2>9. b # <<>> /\ b[1].port = 0
    BY <2>5, <2>6, <2>7, EmptySeq
  <2>10. CASE clients' = clients
    BY <1>2, <2>4, <2>10 DEF IInv, ClientsInv
  <2>11. CASE clients' = [clients EXCEPT ![n] = b]
    BY <1>2, <2>4, <2>5, <2>6, <2>7, <2>8, <2>9, <2>11 DEF IInv, ClientsInv
  <2>12. QED
    BY <2>3, <2>10, <2>11
<1>17. QED
  BY <1>11, <1>12, <1>13, <1>14, <1>15, <1>16 DEF IInv

\* What the nodes of a listing are told is true.
LEMMA Listed ==
  ASSUME PortsInv, NEW c, NEW listed \in SetToSeqs(Listing(c))
  PROVE  LET p == [i \in DOMAIN listed |-> <<listed[i][2], nodemap[listed[i][2]]>>]
         IN  p \in Pairs /\ AllTrue(ports, p)
<1>1. PICK n : n = Cardinality(Listing(c)) /\ listed \in [1 .. n -> Listing(c)]
  BY DEF SetToSeqs
<1>2. n \in Nat
  <2>1. IsFiniteSet(DOMAIN nodemap)
    BY FS_Subset, DispatchAssumption DEF PortsInv
  <2>2. IsFiniteSet((DOMAIN nodemap) \X (DOMAIN nodemap))
    BY <2>1, FS_Product
  <2>3. Listing(c) \in SUBSET ((DOMAIN nodemap) \X (DOMAIN nodemap))
    BY DEF Listing
  <2>4. IsFiniteSet(Listing(c))
    BY <2>2, <2>3, FS_Subset
  <2>5. QED
    BY <1>1, <2>4, FS_CardinalityType
<1>3. PICK p : p = [i \in DOMAIN listed |-> <<listed[i][2], nodemap[listed[i][2]]>>]
  OBVIOUS
<1>4. ASSUME NEW i \in 1 .. n  PROVE p[i] \in Nodes \X Nat /\ Truth(ports, p[i])
  <2>1. PICK d : d = listed[i][2] /\ d \in DOMAIN nodemap
    BY <1>1 DEF Listing
  <2>2. d \in Nodes /\ Truth(ports, <<d, nodemap[d]>>) /\ DOMAIN ports = 1 .. Len(ports)
    BY <2>1, LenProperties DEF PortsInv, Nodes
  <2>3. nodemap[d] \in Nat
    BY <2>2, LenProperties DEF PortsInv, Truth
  <2>4. p[i] = <<d, nodemap[d]>>
    BY <1>1, <1>3, <2>1
  <2>5. QED
    BY <2>2, <2>3, <2>4
<1>5. p \in [1 .. n -> Nodes \X Nat] /\ DOMAIN p = 1 .. n
  BY <1>1, <1>3, <1>4
<1>6. p \in Pairs
  BY <1>2, <1>5, SeqDef DEF Pairs
<1>7. QED
  BY <1>3, <1>4, <1>5, <1>6 DEF AllTrue

\* A list of nodes to connect to.
LEMMA Told ==
  ASSUME NEW ps, NEW p \in Pairs, AllTrue(ps, p)
  PROVE  LET q == <<Message("connect", p)>>
         IN  q \in Seq(Msg) /\ (\A x, e : MsgsOk(x, e, ps, q)) /\ Answers(q) = {}
<1>1. PICK m : m = Message("connect", p)
  OBVIOUS
<1>2. m.kind = "connect" /\ m.pairs = p /\ m \in Msg
  BY <1>1 DEF Message, Msg
<1>3. \A x, e : MsgOk(x, e, ps, m)
  BY <1>2 DEF MsgOk
<1>4. <<m>> \in Seq(Msg) /\ DOMAIN <<m>> = {1} /\ <<m>>[1] = m
  BY <1>2
<1>5. \A x, e : MsgsOk(x, e, ps, <<m>>)
  BY <1>3, <1>4 DEF MsgsOk
<1>6. Answers(<<m>>) = {}
  BY <1>2, <1>4 DEF Answers
<1>7. QED
  BY <1>1, <1>4, <1>5, <1>6

\* What is sent to a new node c when its server n has looked at its maps.
Ordered(c, n, listed) ==
  LET p == [i \in DOMAIN listed |-> <<listed[i][2], nodemap[listed[i][2]]>>]
      start == IF Row(c) # {} THEN <<Message("start", <<>>)>> ELSE <<>>
      dial  == IF ~Column(c) THEN <<>> ELSE <<Message("connect", p)>>
  IN  (IF n = Master THEN start \o dial ELSE <<>>) \o <<Message("bound", <<>>)>>

LEMMA Orders ==
  ASSUME PortsInv, NEW c, NEW n, NEW listed \in SetToSeqs(Listing(c))
  PROVE  LET q == Ordered(c, n, listed)
         IN  /\ q \in Seq(Msg) /\ \A x, e : MsgsOk(x, e, ports, q)
             /\ \A i, j \in Answers(q) : i = j
<1>1. PICK p : p = [i \in DOMAIN listed |-> <<listed[i][2], nodemap[listed[i][2]]>>]
  OBVIOUS
<1>2. p \in Pairs /\ AllTrue(ports, p)
  BY <1>1, Listed
<1>3. PICK none : none = <<>>
  OBVIOUS
<1>4. none \in Seq(Msg) /\ (\A x, e : MsgsOk(x, e, ports, none)) /\ Answers(none) = {}
  BY <1>3 DEF MsgsOk, Answers
<1>5. PICK a : a = IF Row(c) # {} THEN <<Message("start", <<>>)>> ELSE none
  OBVIOUS
<1>6. a \in Seq(Msg) /\ (\A x, e : MsgsOk(x, e, ports, a)) /\ Answers(a) = {}
  BY <1>4, <1>5, Bare
<1>7. PICK b : b = IF ~Column(c) THEN none ELSE <<Message("connect", p)>>
  OBVIOUS
<1>8. b \in Seq(Msg) /\ (\A x, e : MsgsOk(x, e, ports, b)) /\ Answers(b) = {}
  BY <1>2, <1>4, <1>7, Told
<1>9. PICK d : d = a \o b
  OBVIOUS
<1>10. d \in Seq(Msg) /\ (\A x, e : MsgsOk(x, e, ports, d)) /\ Answers(d) = {}
  <2>1. ASSUME NEW x, NEW e
        PROVE  d \in Seq(Msg) /\ MsgsOk(x, e, ports, d) /\ Fewer(d, a)
    <3>1. MsgsOk(x, e, ports, a) /\ MsgsOk(x, e, ports, b)
      BY <1>6, <1>8
    <3>2. QED
      BY <1>6, <1>8, <1>9, <3>1, Joined
  <2>2. Answers(d) = {}
    BY <1>6, <2>1 DEF Fewer
  <2>3. QED
    BY <2>1, <2>2
<1>11. PICK f : f = IF n = Master THEN d ELSE none
  OBVIOUS
<1>12. f \in Seq(Msg) /\ (\A x, e : MsgsOk(x, e, ports, f)) /\ Answers(f) = {}
  BY <1>4, <1>10, <1>11
<1>13. PICK z : z = <<Message("bound", <<>>)>>
  OBVIOUS
<1>14. /\ z \in Seq(Msg) /\ (\A x, e : MsgsOk(x, e, ports, z))
       /\ \A i, j \in Answers(z) : i = j
  BY <1>13, Bare
<1>15. PICK q : q = f \o z
  OBVIOUS
<1>16. \A x, e : q \in Seq(Msg) /\ MsgsOk(x, e, ports, q) /\ Fewer(q, z)
  BY <1>12, <1>14, <1>15, Joined
<1>17. \A i, j \in Answers(q) : i = j
  BY <1>14, <1>16 DEF Fewer
<1>18. q = Ordered(c, n, listed)
  BY <1>1, <1>3, <1>5, <1>7, <1>9, <1>11, <1>13, <1>15 DEF Ordered
<1>19. QED
  BY <1>16, <1>17, <1>18

LEMMA OrderStep ==
  ASSUME IInv, NEW l \in Links, Order(l)
  PROVE  IInv'
<1>1. PICK c, n, r : c = links[l].client /\ n = links[l].server /\ r = PutJob(links, l, NoJob)
  OBVIOUS
<1>2. PICK q \in Seq(Msg) :
        /\ links' = Sent(r, l, "server", q)
        /\ (\A x, e : MsgsOk(x, e, ports, q)) /\ \A i, j \in Answers(q) : i = j
  <2>1. PICK listed \in SetToSeqs(Listing(c)) :
          links' = Sent(r, l, "server", Ordered(c, n, listed))
    BY <1>1 DEF Order, PutJob, Ordered
  <2>2. PICK q : q = Ordered(c, n, listed)
    OBVIOUS
  <2>3. /\ q \in Seq(Msg) /\ (\A x, e : MsgsOk(x, e, ports, q))
        /\ \A i, j \in Answers(q) : i = j
    BY <2>2, Orders DEF IInv
  <2>4. QED
    BY <2>1, <2>2, <2>3
<1>3. /\ links[l].job.part = "order"
      /\ told' = IF links[l].server = Master THEN told \cup {<<c, p[2]>> : p \in Listing(c)} ELSE told
      /\ UNCHANGED <<connmap, nodemap, smatrix, ports, clients, calling, late>>
  BY <1>1 DEF Order, Doing
<1>4. /\ l \in DOMAIN links /\ LinksOk(links, ports) /\ Links = DOMAIN links
      /\ "server" \in Ends /\ "client" \in Ends /\ Other("server") = "client"
  BY DEF Links, IInv, LinksInv, Ends, Other
<1>5. NoJob \in JobSet /\ JobOk(links[l], ports, NoJob) /\ NoJob.part = "none"
  BY DEF JobSet, JobOk, NoJob, Job
<1>6. /\ LinksOk(r, ports) /\ Same(links, r) /\ r[l].job = NoJob
      /\ \A k \in DOMAIN links : k # l => r[k].job = links[k].job
      /\ \A k \in DOMAIN links : r[k].queue = links[k].queue
  BY <1>1, <1>4, <1>5, SetJob DEF Kept
<1>7. /\ LinksOk(links', ports) /\ Same(r, links')
      /\ \A k \in DOMAIN r :
           /\ links'[k].job = r[k].job
           /\ \A d \in Ends : \/ links'[k].queue[d] = r[k].queue[d]
                              \/ /\ k = l /\ d = Other("server") /\ r[l].state[d] # "closed"
                                 /\ links'[k].queue[d] = r[k].queue[d] \o q
  <2>1. LinksOk(r, ports) /\ l \in DOMAIN r /\ "server" \in Ends /\ q \in Seq(Msg)
    BY <1>2, <1>4, <1>6 DEF Same
  <2>2. PICK z : z = Sent(r, l, "server", q)
    OBVIOUS
  <2>3. MsgsOk(r[l], Other("server"), ports, q)
    BY <1>2
  <2>4. /\ LinksOk(z, ports) /\ Same(r, z)
        /\ \A k \in DOMAIN r :
             /\ z[k].job = r[k].job
             /\ \A d \in Ends : \/ z[k].queue[d] = r[k].queue[d]
                                \/ /\ k = l /\ d = Other("server") /\ r[l].state[d] # "closed"
                                   /\ z[k].queue[d] = r[k].queue[d] \o q
    BY <2>1, <2>2, <2>3, Send
  <2>5. links' = z
    BY <1>2, <2>2
  <2>6. QED
    BY <2>4, <2>5, Zenon
<1>8. LinksInv'
  BY <1>3, <1>7 DEF LinksInv
<1>9. /\ Same(links, links') /\ DOMAIN links' = DOMAIN links /\ links'[l].job = NoJob
      /\ \A k \in DOMAIN links : k # l =>
           links'[k].job = links[k].job /\ links'[k].queue["client"] = links[k].queue["client"]
      /\ \/ links'[l].queue["client"] = links[l].queue["client"]
         \/ links'[l].queue["client"] = links[l].queue["client"] \o q
  <2>1. Same(links, links') /\ DOMAIN links' = DOMAIN links /\ DOMAIN r = DOMAIN links
    BY <1>6, <1>7 DEF Same
  <2>2. QED
    BY <1>4, <1>6, <1>7, <2>1
<1>10. OnceInv'
  <2>1. \A k \in DOMAIN links : Once(links[k]) /\ links'[k].state = links[k].state
    BY <1>9 DEF IInv, OnceInv, Links, Same
  <2>2. PICK t, u : t = links[l].queue["client"] /\ u = links'[l].queue["client"]
    OBVIOUS
  <2>3. Answers(t) = {} /\ links[l].state["client"] # "bound" /\ links[l].state["server"] # "new"
    BY <1>3, <1>4, <2>1, <2>2 DEF Once
  <2>4. t \in Seq(Msg) /\ MsgsOk(links[l], "client", ports, t)
    BY <1>4, <2>2, LinksDomain, EndsOf DEF IInv, LinksOk, LinkOk
  <2>5. \A i, j \in Answers(u) : i = j
    <3>1. CASE u = t
      BY <2>3, <3>1
    <3>2. CASE u = t \o q
      <4>1. Fewer(t \o q, q)
        BY <1>2, <2>3, <2>4, Joined
      <4>2. QED
        BY <1>2, <3>2, <4>1 DEF Fewer
    <3>3. QED
      BY <1>9, <2>2, <3>1, <3>2
  <2>6. Once(links'[l])
    <3>1. links'[l].state = links[l].state /\ links'[l].job.part = "none"
      BY <1>4, <1>5, <1>9, <2>1
    <3>2. QED
      BY <2>2, <2>3, <2>5, <3>1 DEF Once
  <2>7. ASSUME NEW k \in DOMAIN links, k # l  PROVE Once(links'[k])
    BY <1>9, <2>1, <2>7 DEF Once
  <2>8. \A k \in DOMAIN links' : Once(links'[k])
    BY <1>9, <2>6, <2>7
  <2>9. QED
    BY <2>8 DEF OnceInv, Links
<1>11. MapInv'
  BY <1>3, <1>9, MapKept DEF IInv
<1>12. ToldInv'
  <2>1. /\ Links' = Links
        /\ \A k \in Links : links'[k].client = links[k].client /\ links'[k].server = links[k].server
                            /\ links'[k].state = links[k].state
    BY <1>9 DEF Same, Links
  <2> SUFFICES ASSUME NEW k \in Links', NEW s \in DOMAIN nodemap',
                      links'[k].server = Master, links'[k].state["server"] = "bound",
                      ~Doing(k, "order")', <<s, links'[k].client>> \in (smatrix \ late)'
               PROVE  \/ <<links'[k].client, s>> \in told'
                      \/ \E b \in Links' : links'[b].client = s /\ Doing(b, "notify")'
    BY DEF ToldInv
  <2>2. /\ k \in Links /\ s \in DOMAIN nodemap /\ links'[k].client = links[k].client
        /\ links[k].server = Master /\ links[k].state["server"] = "bound"
        /\ <<s, links[k].client>> \in smatrix \ late
    BY <1>3, <2>1
  <2>3. CASE k = l
    <3>1. s \in Nat
      BY <2>2, DispatchAssumption DEF IInv, PortsInv
    <3>2. PICK p : p = <<s, s>>
      OBVIOUS
    <3>3. /\ p \in (DOMAIN nodemap) \X (DOMAIN nodemap) /\ p[1] = s /\ p[2] = s /\ p[1] <= p[2]
          /\ <<s, c>> \in smatrix
      BY <1>1, <2>3, <2>2, <3>1, <3>2
    <3>4. p \in Listing(c)
      BY <3>3 DEF Listing
    <3>5. QED
      BY <1>1, <1>3, <2>3, <2>2, <3>3, <3>4
  <2>4. CASE k # l
    <3>1. ~Doing(k, "order")
      BY <1>9, <2>4, <2>2 DEF Doing, Links
    <3>2. \/ <<links[k].client, s>> \in told
          \/ \E b \in Links : links[b].client = s /\ Doing(b, "notify")
      BY <2>2, <3>1 DEF IInv, ToldInv
    <3>3. \A b \in Links : Doing(b, "notify") => Doing(b, "notify")'
      BY <1>3, <1>9 DEF Doing, Links
    <3>4. told \subseteq told'
      BY <1>3
    <3>5. QED
      BY <2>1, <2>2, <3>2, <3>3, <3>4
  <2>5. QED
    BY <2>3, <2>4
<1>13. QED
  BY <1>3, <1>8, <1>9, <1>10, <1>11, <1>12, RestKept DEF IInv

\* Connection x when its client has been told to connect to n at port p.
Notified(x, n, p) == [x EXCEPT !.queue["client"] = Append(@, Message("connect", <<<<n, p>>>>))]

LEMMA Noted ==
  ASSUME NEW ps, NEW x \in Link, LinkOk(x, ps), NEW n \in Nodes, NEW p \in Nat, Truth(ps, <<n, p>>)
  PROVE  LET y == Notified(x, n, p)
         IN  /\ y \in Link /\ LinkOk(y, ps) /\ y.client = x.client /\ y.server = x.server
             /\ y.state = x.state /\ y.job = x.job
             /\ Fewer(y.queue["client"], x.queue["client"])
<1>1. PICK m, q : m = Message("connect", <<<<n, p>>>>) /\ q = x.queue["client"]
  OBVIOUS
<1>2. PICK t : t = Append(q, m)
  OBVIOUS
<1>3. PICK y : y = [x EXCEPT !.queue["client"] = t]
  OBVIOUS
<1>4. "client" \in Ends
  BY DEF Ends
<1>5. q \in Seq(Msg) /\ MsgsOk(x, "client", ps, q)
  BY <1>1, <1>4, EndsOf DEF LinkOk
<1>6. m \in Msg
  BY <1>1 DEF Message, Msg, Pairs
<1>7. t = q \o <<m>>
  BY <1>2, <1>5, <1>6, AppendIsConcat
<1>8. <<m>> \in Seq(Msg) /\ MsgsOk(x, "client", ps, <<m>>) /\ Answers(<<m>>) = {}
  BY <1>1, Single
<1>9. t \in Seq(Msg) /\ MsgsOk(x, "client", ps, t) /\ Fewer(t, q)
  BY <1>5, <1>7, <1>8, Joined
<1>10. /\ y \in Link /\ y.client = x.client /\ y.server = x.server /\ y.state = x.state
       /\ y.job = x.job /\ y.dial = x.dial
       /\ y.queue["client"] = t /\ \A d \in Ends : d # "client" => y.queue[d] = x.queue[d]
  BY <1>3, <1>4, <1>9 DEF Link
<1>11. LinkOk(y, ps)
  <2>1. \A d \in Ends : MsgsOk(x, d, ps, y.queue[d])
    BY <1>9, <1>10 DEF LinkOk
  <2>2. JobOk(x, ps, y.job) /\ AllTrue(ps, y.dial)
    BY <1>10 DEF LinkOk
  <2>3. QED
    BY <1>10, <2>1, <2>2, Good
<1>12. y = Notified(x, n, p)
  BY <1>1, <1>2, <1>3 DEF Notified
<1>13. QED
  BY <1>1, <1>9, <1>10, <1>11, <1>12

LEMMA NotifyStep ==
  ASSUME IInv, NEW l \in Links, Notify(l)
  PROVE  IInv'
<1>1. PICK r, s, p :
        r = PutJob(links, l, NoJob) /\ s = links[l].client /\ p = links[l].job.port
  OBVIOUS
<1>2. PICK first : first = {First(Master, c)[1] : c \in {d \in Row(s) : Connected(Master, d)}}
  OBVIOUS
<1>3. /\ links[l].job.part = "notify"
      /\ told' = told \cup {<<links[k].client, s>> : k \in first}
      /\ UNCHANGED <<connmap, nodemap, smatrix, ports, clients, calling, late>>
  BY <1>1, <1>2 DEF Notify, Doing
<1>4. /\ l \in DOMAIN links /\ LinksOk(links, ports) /\ Links = DOMAIN links
      /\ Links = 1 .. Len(links) /\ Len(links) \in Nat
      /\ "server" \in Ends /\ "client" \in Ends
  BY LinksDomain DEF Links, IInv, LinksInv, Ends
<1>5. NoJob \in JobSet /\ JobOk(links[l], ports, NoJob) /\ NoJob.part = "none"
  BY DEF JobSet, JobOk, NoJob, Job
<1>6. /\ LinksOk(r, ports) /\ Kept(links, r) /\ r[l].job = NoJob
      /\ \A k \in DOMAIN links : k # l => r[k].job = links[k].job
  BY <1>1, <1>4, <1>5, SetJob
<1>7. s \in Nodes /\ p \in Nat /\ Truth(ports, <<s, p>>)
  BY <1>1, <1>3, JobFacts DEF IInv, JobSet, JobOk, Nodes
<1>8. /\ DOMAIN links' = Links
      /\ \A k \in Links :
           \/ links'[k] = r[k]
           \/ links'[k] = Notified(r[k], s, p)
  <2>1. \A k \in Links : r[k] = IF k = l THEN [links[k] EXCEPT !.job = NoJob] ELSE links[k]
    BY <1>1, <1>4 DEF PutJob
  <2>2. links' = [k \in Links |->
           LET x == IF k = l THEN [links[k] EXCEPT !.job = NoJob] ELSE links[k]
           IN  IF k \in first /\ x.state["client"] # "closed"
                 THEN [x EXCEPT !.queue["client"] = Append(@, Message("connect", <<<<s, p>>>>))]
                 ELSE x]
    BY <1>1, <1>2 DEF Notify
  <2>3. QED
    BY <2>1, <2>2 DEF Notified
<1>9. ASSUME NEW k \in Links
      PROVE  /\ links'[k] \in Link /\ LinkOk(links'[k], ports)
             /\ links'[k].client = links[k].client /\ links'[k].server = links[k].server
             /\ links'[k].state = links[k].state /\ links'[k].job = r[k].job
             /\ Fewer(links'[k].queue["client"], links[k].queue["client"])
  <2>1. r[k] \in Link /\ LinkOk(r[k], ports) /\ Same(links, r) /\ k \in DOMAIN links
    BY <1>4, <1>6, ElementOfSeq, LenProperties DEF LinksOk, Kept, Same
  <2>2. /\ links'[k] \in Link /\ LinkOk(links'[k], ports)
        /\ links'[k].client = r[k].client /\ links'[k].server = r[k].server
        /\ links'[k].state = r[k].state /\ links'[k].job = r[k].job
        /\ Fewer(links'[k].queue["client"], r[k].queue["client"])
    <3>1. CASE links'[k] = r[k]
      BY <2>1, <3>1 DEF Fewer
    <3>2. CASE links'[k] = Notified(r[k], s, p)
      <4>1. PICK x, y : x = r[k] /\ y = Notified(x, s, p)
        OBVIOUS
      <4>2. /\ y \in Link /\ LinkOk(y, ports) /\ y.client = x.client /\ y.server = x.server
            /\ y.state = x.state /\ y.job = x.job
            /\ Fewer(y.queue["client"], x.queue["client"])
        BY <1>7, <2>1, <4>1, Noted
      <4>3. QED
        BY <3>2, <4>1, <4>2
    <3>3. QED
      BY <1>8, <3>1, <3>2
  <2>3. QED
    BY <1>6, <2>1, <2>2 DEF Kept, Same, Fewer
<1>10. LinksInv' /\ DOMAIN links' = DOMAIN links
  <2>1. links' \in [1 .. Len(links) -> Link]
    <3>1. PICK f : f = links'
      OBVIOUS
    <3>2. f = [k \in Links |-> f[k]]
      BY <3>1 DEF Notify
    <3>3. QED
      BY <1>4, <1>9, <3>1, <3>2
  <2>2. links' \in Seq(Link)
    BY <1>4, <2>1, SeqDef
  <2>3. QED
    BY <1>3, <1>4, <1>8, <1>9, <2>2 DEF LinksInv, LinksOk
<1>11. Kept(links, links') /\ Same(links, links')
  BY <1>4, <1>9, <1>10 DEF Kept, Same
<1>12. \A k \in Links : links'[k].job = IF k = l THEN NoJob ELSE links[k].job
  BY <1>4, <1>6, <1>9
<1>13. OnceInv'
  BY <1>5, <1>11, <1>12, OnceKept DEF IInv, Doing
<1>14. MapInv'
  BY <1>3, <1>11, MapKept DEF IInv
<1>15. ToldInv'
  <2>1. Links' = Links
    BY <1>10 DEF Links
  <2> SUFFICES ASSUME NEW k \in Links', NEW d \in DOMAIN nodemap',
                      links'[k].server = Master, links'[k].state["server"] = "bound",
                      ~Doing(k, "order")', <<d, links'[k].client>> \in (smatrix \ late)'
               PROVE  \/ <<links'[k].client, d>> \in told'
                      \/ \E b \in Links' : links'[b].client = d /\ Doing(b, "notify")'
    BY DEF ToldInv
  <2>2. PICK c : c = links[k].client
    OBVIOUS
  <2>3. /\ k \in Links /\ d \in DOMAIN nodemap /\ links'[k].client = c
        /\ links[k].server = Master /\ links[k].state["server"] = "bound"
        /\ <<d, c>> \in smatrix \ late /\ ~Doing(k, "order")
    <3>1. ~Doing(k, "order")
      BY <1>3, <1>12, <2>1 DEF Doing
    <3>2. QED
      BY <1>3, <1>9, <2>1, <2>2, <3>1
  <2>4. CASE <<c, d>> \in told
    BY <1>3, <2>3, <2>4
  <2>5. ASSUME NEW b \in Links, links[b].client = d, Doing(b, "notify"), b # l
        PROVE  links'[b].client = d /\ Doing(b, "notify")'
    BY <1>9, <1>12, <2>5 DEF Doing
  <2>6. ASSUME links[l].client = d
        PROVE  <<c, d>> \in told'
    <3>1. c \in Slaves /\ Master \in Nodes /\ Master \notin Slaves
      BY <2>2, <2>3, JobFacts, DispatchAssumption DEF IInv, Nodes, Master
    <3>2. Connected(Master, c)
      BY <1>4, <2>2, <2>3, IsFound DEF IInv, Node, Remote, Other
    <3>3. PICK h : h = First(Master, c)
      OBVIOUS
    <3>4. h \in Links \X Ends /\ Node(h[1], h[2]) = Master /\ Remote(h[1], h[2]) = c
      BY <3>1, <3>2, <3>3, Finds DEF IInv
    <3>5. links[h[1]].client = c
      <4>1. CASE h[2] = "client"
        <5>1. links[h[1]].client = Master
          BY <3>4, <4>1 DEF Node
        <5>2. links[h[1]].client \in Slaves
          BY <3>4, JobFacts DEF IInv
        <5>3. QED
          BY <3>1, <5>1, <5>2
      <4>2. CASE h[2] = "server"
        BY <3>4, <4>2 DEF Remote, Other
      <4>3. QED
        BY <3>4, <4>1, <4>2 DEF Ends
    <3>6. c \in Row(s) /\ d = s
      BY <1>1, <2>3, <2>6, <3>1 DEF Row
    <3>7. h[1] \in first
      BY <1>2, <3>2, <3>3, <3>6
    <3>8. QED
      BY <1>3, <3>5, <3>6, <3>7
  <2>7. <<c, d>> \in told \/ \E b \in Links : links[b].client = d /\ Doing(b, "notify")
    BY <2>2, <2>3 DEF IInv, ToldInv
  <2>8. QED
    BY <2>1, <2>3, <2>4, <2>5, <2>6, <2>7
<1>16. QED
  BY <1>3, <1>10, <1>11, <1>13, <1>14, <1>15, RestKept DEF IInv, Kept

------------------------------------------------------------------------------
(* The theorems.                                                            *)

LEMMA Inits == Init => IInv
<1> SUFFICES ASSUME Init  PROVE IInv
  OBVIOUS
<1>1. PICK none : none = <<>>
  OBVIOUS
<1>2. \A S : none \in Seq(S) /\ Len(none) = 0 /\ DOMAIN none = {}
  BY <1>1, EmptySeq
<1>3. /\ links = none /\ ports = none /\ DOMAIN nodemap = {} /\ Links = {}
      /\ clients = [n \in Slaves |-> <<MasterClient>>] /\ connmap = [n \in Nodes |-> none]
  BY <1>1, <1>2 DEF Init, Links
<1>4. LinksInv /\ OnceInv /\ PortsInv /\ MapInv /\ ToldInv
  BY <1>2, <1>3 DEF LinksInv, LinksOk, OnceInv, PortsInv, MapInv, ToldInv
<1>5. ClientsInv
  <2>1. PICK a : a = <<MasterClient>>
    OBVIOUS
  <2>2. MasterClient \in [port : Nat, link : Nat] /\ MasterClient.port = 0 /\ MasterClient.link = 0
    BY DEF MasterClient
  <2>3. a \in Seq([port : Nat, link : Nat]) /\ a # <<>> /\ DOMAIN a = {1} /\ a[1] = MasterClient
    BY <2>1, <2>2
  <2>4. QED
    BY <1>2, <1>3, <2>1, <2>2, <2>3 DEF ClientsInv
<1>6. CallInv
  BY DispatchAssumption DEF Init, CallInv
<1>7. QED
  BY <1>4, <1>5, <1>6 DEF IInv

LEMMA Steps == IInv /\ [Next]_vars => IInv'
<1> SUFFICES ASSUME IInv, [Next]_vars  PROVE IInv'
  OBVIOUS
<1>1. CASE UNCHANGED vars
  <2>1. UNCHANGED <<links, connmap, nodemap, smatrix, ports, clients, calling, told, late>>
    BY <1>1 DEF vars, calling
  <2>2. LinksInv' /\ Kept(links, links') /\ Busy(links, links')
    BY <2>1, Unmoved DEF IInv, LinksInv
  <2>3. QED
    BY <2>1, <2>2, QuietStep, CallsKept DEF IInv
<1>2. ASSUME NEW n \in Slaves, NEW i \in DOMAIN clients[n], Connect(n, i) \/ Reap(n, i)
      PROVE  IInv'
  BY <1>2, ConnectStep, ReapStep
<1>3. ASSUME NEW n \in Slaves, NEW m \in Nodes, CallDispatch(n, m)  PROVE IInv'
  BY <1>3, CallDispatchStep
<1>4. ASSUME NEW n \in Slaves, SendEvent(n) \/ TryAgain(n) \/ Discard(n)  PROVE IInv'
  BY <1>4, SendEventStep, TryAgainStep, DiscardStep
<1>5. ASSUME NEW l \in Links, Bind(l) \/ Order(l) \/ Bound(l) \/ Forget(l)  PROVE IInv'
  BY <1>5, BindStep, OrderStep, BoundStep, ForgetStep
<1>6. ASSUME NEW l \in Links, StartService(l) \/ StartFails(l) \/ TakeList(l) \/ Dial(l)
      PROVE  IInv'
  BY <1>6, StartServiceStep, StartFailsStep, TakeListStep, DialStep
<1>7. ASSUME NEW l \in Links, Register(l) \/ Notify(l) \/ AnswerAsker(l) \/ WantedHasNone(l)
      PROVE  IInv'
  BY <1>7, RegisterStep, NotifyStep, AnswerAskerStep, WantedHasNoneStep
<1>8. ASSUME NEW l \in Links,
             AskerHasOne(l) \/ TellWanted(l) \/ NeitherHasOne(l) \/ AskForService(l)
      PROVE  IInv'
  BY <1>8, AskerHasOneStep, TellWantedStep, NeitherHasOneStep, AskForServiceStep
<1>9. ASSUME NEW l \in Links, NEW e \in Ends, Close(l, e) \/ Deliver(l, e)  PROVE IInv'
  BY <1>9, CloseStep, DeliverStep
<1>10. QED
  BY <1>1, <1>2, <1>3, <1>4, <1>5, <1>6, <1>7, <1>8, <1>9 DEF Next

\* The maps of the nodes agree with the connections, the messages with the
\* services, the matrix with what its clients have been told, and what is in
\* hand between two locks is not lost; whatever the numbers of nodes,
\* connections, services and closings.
THEOREM DispatchIInvHolds == Spec => []IInv
<1>1. Init => IInv
  BY Inits
<1>2. IInv /\ [Next]_vars => IInv'
  BY Steps
<1>3. QED
  BY <1>1, <1>2, PTL DEF Spec

\* m_connmap holds the handlers of exactly the bound ends, each once: no
\* handler is used after its OnClose(), and none is forgotten.
THEOREM ConnMapInvHolds == Spec => []ConnMapInv
<1>1. IInv => ConnMapInv
  <2> SUFFICES ASSUME IInv  PROVE ConnMapInv
    OBVIOUS
  <2>1. ASSUME NEW n \in Nodes, NEW i \in DOMAIN connmap[n]
        PROVE  LET h == connmap[n][i]
               IN  /\ h \in Links \X Ends /\ h = <<h[1], h[2]>>
                   /\ Node(h[1], h[2]) = n /\ links[h[1]].state[h[2]] = "bound"
    <3>1. PICK h : h = connmap[n][i]
      OBVIOUS
    <3>2. h \in Nat \X Ends
      BY <3>1, ElementOfSeq, LenProperties DEF IInv, MapInv
    <3>3. h[1] \in Links /\ Node(h[1], h[2]) = n /\ links[h[1]].state[h[2]] = "bound"
      BY <3>1 DEF IInv, MapInv
    <3>4. QED
      BY <3>1, <3>2, <3>3
  <2>2. connmap \in [Nodes -> Seq(Links \X Ends)]
    <3>1. \A n \in Nodes : connmap[n] \in Seq(Links \X Ends)
      BY <2>1, Retyped DEF IInv, MapInv
    <3>2. QED
      BY <3>1 DEF IInv, MapInv
  <2>3. \A l \in Links : /\ links[l].client \in Slaves /\ links[l].server \in Nodes
                         /\ links[l].state \in [Ends -> {"new", "bound", "closed"}]
    BY LinksDomain DEF IInv, Link, States
  <2>4. TypeOK
    BY <2>2, <2>3 DEF IInv, PortsInv, CallInv, TypeOK
  <2>5. ASSUME NEW n \in Nodes
        PROVE  ToSet(connmap[n]) =
                 {h \in Links \X Ends : Node(h[1], h[2]) = n /\ links[h[1]].state[h[2]] = "bound"}
    <3>1. ASSUME NEW h \in ToSet(connmap[n])
          PROVE  h \in Links \X Ends /\ Node(h[1], h[2]) = n /\ links[h[1]].state[h[2]] = "bound"
      <4>1. PICK i \in DOMAIN connmap[n] : h = connmap[n][i]
        BY DEF ToSet
      <4>2. QED
        BY <2>1, <4>1
    <3>2. ASSUME NEW h \in Links \X Ends, Node(h[1], h[2]) = n, links[h[1]].state[h[2]] = "bound"
          PROVE  h \in ToSet(connmap[n])
      <4>1. PICK l \in Links, e \in Ends : h = <<l, e>>
        OBVIOUS
      <4>2. Node(l, e) = n /\ links[l].state[e] = "bound"
        BY <3>2, <4>1
      <4>3. \E i \in DOMAIN connmap[n] : connmap[n][i] = <<l, e>>
        BY <4>2 DEF IInv, MapInv
      <4>4. QED
        BY <4>1, <4>3 DEF ToSet
    <3>3. QED
      BY <3>1, <3>2
  <2>6. QED
    BY <2>4, <2>5 DEF IInv, MapInv, ConnMapInv
<1>2. QED
  BY <1>1, DispatchIInvHolds, PTL

\* A port that is told has been opened by the node it is told for, and an
\* event is on a connection to the node it is for.
THEOREM AddressInvHolds == Spec => []AddressInv
<1>1. IInv => AddressInv
  <2> SUFFICES ASSUME IInv  PROVE AddressInv
    OBVIOUS
  <2>1. \A n \in DOMAIN nodemap : ports[nodemap[n]] = n
    BY DEF IInv, PortsInv, Truth
  <2>2. ASSUME NEW l \in Links, NEW e \in Ends, NEW i \in DOMAIN links[l].queue[e]
        PROVE  LET m == links[l].queue[e][i]
               IN  \A j \in DOMAIN m.pairs :
                     /\ m.kind \in {"service", "connect"} => ports[m.pairs[j][2]] = m.pairs[j][1]
                     /\ m.kind = "event" => m.pairs[j][1] = Node(l, e)
    <3>1. PICK m : m = links[l].queue[e][i]
      OBVIOUS
    <3>2. MsgOk(links[l], e, ports, m)
      BY <3>1 DEF IInv, LinksInv, LinksOk, LinkOk, MsgsOk, Links
    <3>3. m \in Msg
      <4>1. links[l].queue[e] \in Seq(Msg)
        BY LinksDomain, EndsOf DEF IInv
      <4>2. QED
        BY <3>1, <4>1, ElementOfSeq, LenProperties
    <3>4. ASSUME NEW j \in DOMAIN m.pairs
          PROVE  /\ m.kind \in {"service", "connect"} => ports[m.pairs[j][2]] = m.pairs[j][1]
                 /\ m.kind = "event" => m.pairs[j][1] = Node(l, e)
      <4>1. m.kind \in {"service", "connect"} => ports[m.pairs[j][2]] = m.pairs[j][1]
        BY <3>2 DEF MsgOk, AllTrue, Truth
      <4>2. ASSUME m.kind = "event"  PROVE m.pairs[j][1] = Node(l, e)
        <5>1. m.pairs \in Pairs /\ Len(m.pairs) = 1 /\ m.pairs[1][1] = Node(l, e)
          BY <3>2, <3>3, <4>2 DEF MsgOk, Msg, Node
        <5>2. j = 1
          BY <5>1, LenProperties DEF Pairs
        <5>3. QED
          BY <5>1, <5>2
      <4>3. QED
        BY <4>1, <4>2
    <3>5. QED
      BY <3>1, <3>4
  <2>3. QED
    BY <2>1, <2>2 DEF AddressInv
<1>2. QED
  BY <1>1, DispatchIInvHolds, PTL

\* Whoever comes second, the report of a service or the connection of its
\* client, the client is told of the service, or is about to be.
THEOREM ToldInvHolds == Spec => []ToldInv
<1>1. IInv => ToldInv
  BY DEF IInv
<1>2. QED
  BY <1>1, DispatchIInvHolds, PTL
=============================================================================
