------------------------------ MODULE Dispatch ------------------------------
(***************************************************************************)
(* CEPDispatch (communication/CEPDispatch.cpp): how processing nodes find  *)
(* and connect to each other.  Every slave holds a connection to the       *)
(* master, node 0.  A slave that has an event for a node it is not         *)
(* connected to asks the master (0x0002); the master tells one of the two  *)
(* to start a service (0x1001), learns its port (0x0001), and tells the    *)
(* other where to connect (0x1002).  Connections the configuration asks    *)
(* for are arranged the same way when a node comes up.                     *)
(*                                                                         *)
(* A link is one ZTP connection.  Either end closes in its own time, its   *)
(* client reconnects while the server may not have noticed, and each link  *)
(* has a thread of its own at either end, so the master's handlers         *)
(* interleave wherever they release a lock: a handler is split there, and  *)
(* job holds what it has still to do.                                      *)
(***************************************************************************)
EXTENDS Integers, Sequences, SequencesExt, FiniteSets

CONSTANTS
  Slaves,       \* numbers: m_nodemap is ordered by them
  Matrices,     \* what the configuration may put into m_smatrix
  Calls,        \* <<n, m>>: elements of n call dispatch() for node m
  Tries,        \* attempts before dispatch() discards an event
  MaxLinks,     \* bound: connections ever made
  MaxCloses,    \* bound: ends of connections ever closed
  MaxPorts,     \* bound: services ever started
  MaxCalls,     \* bound: calls of dispatch()
  MaxQueue      \* bound: messages in one direction before a slave asks again

Master == 0
NoNode == -1
Nodes  == Slaves \cup {Master}

ASSUME DispatchAssumption ==
  /\ Slaves \subseteq Nat \ {0} /\ IsFiniteSet(Slaves)
  /\ Matrices \subseteq SUBSET (Slaves \X Slaves)
  /\ Calls \subseteq Slaves \X (Slaves \cup {0})
  /\ Tries \in Nat \ {0} /\ MaxCalls \in Nat

VARIABLES
  links,     \* Seq of connections: both ends, what travels, what is in hand
  connmap,   \* m_connmap of each node: its ends of links, as they were inserted
  nodemap,   \* m_nodemap of the master: slave -> port of its service
  smatrix,   \* m_smatrix of the master: <<server, client>> pairs
  ports,     \* owner of each port ever opened; port 0 is the master's
  clients,   \* m_client and m_masterclient of each slave
  want, tries, asked, \* dispatch() of each slave: node, attempts, alreadyrequestconnec
  calls,     \* calls of dispatch() so far
  told,      \* history: <<n, s>> when 0x1002 about s was sent to n
  late       \* history: pairs put into the matrix when their server had a service

vars == <<links, connmap, nodemap, smatrix, ports, clients, want, tries, asked, calls, told, late>>
calling == <<want, tries, asked, calls>>
history == <<told, late>>

\* A ZTPClient: the port it connects to and its present link, 0 for none.
MasterClient == [port |-> 0, link |-> 0]

Init ==
  /\ links = <<>>
  /\ connmap = [n \in Nodes |-> <<>>]
  /\ nodemap = <<>>
  /\ smatrix \in Matrices
  /\ ports = <<>>
  /\ clients = [n \in Slaves |-> <<MasterClient>>]
  /\ want  = [n \in Slaves |-> NoNode]
  /\ tries = [n \in Slaves |-> 0]
  /\ asked = [n \in Slaves |-> FALSE]
  /\ calls = 0
  /\ told = {} /\ late = {}

Links     == DOMAIN links
Owner(p)  == IF p = 0 THEN Master ELSE ports[p]
\* The two ends of a link, the node at an end and the node it sees there.
Ends      == {"client", "server"}
Other(e)  == IF e = "client" THEN "server" ELSE "client"
Node(l, e)   == links[l][e]
Remote(l, e) == links[l][Other(e)]
IsOpen(l, e) == links[l].state[e] \in {"new", "bound"}

\* m_connmap.find(m) at node n: the places of the handlers whose remote node is m.

\* Mutant: a find that may stop at a higher key, as lower_bound() does.
Found_LowerBound(n, m) ==
  {i \in DOMAIN connmap[n] : Remote(connmap[n][i][1], connmap[n][i][2]) >= m}

Found(n, m) ==
  {i \in DOMAIN connmap[n] : Remote(connmap[n][i][1], connmap[n][i][2]) = m}

Connected(n, m) == Found(n, m) # {}
First(n, m)     == connmap[n][Min(Found(n, m))]

Message(kind, pairs) == [kind |-> kind, pairs |-> pairs]

\* What a handler has still to do when it has released a lock in the middle.
Job(part, node, port) == [part |-> part, node |-> node, port |-> port]
NoJob == Job("none", NoNode, 0)

\* links with msgs sent from end e of l (nobody reads at a closed end), and
\* links after end e takes one.
Sent(ls, l, e, msgs) ==
  IF ls[l].state[Other(e)] = "closed" THEN ls
                                      ELSE [ls EXCEPT ![l].queue[Other(e)] = @ \o msgs]
Taken(l, e)  == [links EXCEPT ![l].queue[e] = Tail(@)]
Arrived(l, e, kind) ==
  /\ links[l].state[e] = "bound" \/ (e = "client" /\ links[l].state[e] = "new")
  /\ IF e = "client" THEN links[l].dial = <<>> ELSE links[l].job = NoJob
  /\ links[l].queue[e] # <<>>
  /\ Head(links[l].queue[e]).kind = kind
Doing(l, part) == links[l].job.part = part
Arg(l, e) == Head(links[l].queue[e]).pairs[1]

------------------------------------------------------------------------------
(* Links: ZTPClient::run(), doBind, forBind, and losing the connection.    *)

Connect(n, i) ==
  /\ clients[n][i].link = 0
  /\ Len(links) < MaxLinks
  /\ links' = Append(links,
       [client |-> n, server |-> Owner(clients[n][i].port),
        state |-> [e \in Ends |-> "new"], queue |-> [e \in Ends |-> <<>>],
        job |-> NoJob, dial |-> <<>>])
  /\ clients' = [clients EXCEPT ![n][i].link = Len(links) + 1]
  /\ UNCHANGED <<connmap, nodemap, smatrix, ports, calling, history>>

\* doConnect at the end e of l: the handler enters m_connmap.
Enter(l, e) == connmap' = [connmap EXCEPT ![Node(l, e)] = Append(@, <<l, e>>)]

\* The server sees the client's bind: OnAuth() runs doConnect(), which on the
\* master goes on to order the new node about; only then the answer is sent.
Bind(l) ==
  /\ links[l].state["server"] = "new"
  /\ Enter(l, "server")
  /\ links' = [links EXCEPT ![l].state["server"] = "bound",
                            ![l].job = Job("order", NoNode, 0)]
  /\ UNCHANGED <<nodemap, smatrix, ports, clients, calling, history>>

\* The services that node c is told of when it comes up: for each server of
\* its column that has one, the iteration runs from it to the end of m_nodemap.
Listing(c) ==
  {p \in (DOMAIN nodemap) \X (DOMAIN nodemap) : <<p[1], c>> \in smatrix /\ p[1] <= p[2]}
Column(c)  == \E s \in Slaves : <<s, c>> \in smatrix
InOrder(q) ==
  \A i, j \in DOMAIN q : i < j =>
    q[i][1] < q[j][1] \/ (q[i][1] = q[j][1] /\ q[i][2] < q[j][2])

\* Mutant: the row and the column of the matrix are mixed up.
Row_Column(s) == {c \in Slaves : <<c, s>> \in smatrix}

Row(s) == {c \in Slaves : <<s, c>> \in smatrix}

\* Second half of doConnect, on the master only; then the bind is answered.
Order(l) ==
  LET c == links[l].client
      start == IF Row(c) # {} THEN <<Message("start", <<>>)>> ELSE <<>>
      dial(listed) ==
        IF ~Column(c) THEN <<>>
        ELSE <<Message("connect", [i \in DOMAIN listed |-> <<listed[i][2], nodemap[listed[i][2]]>>])>>
  IN  /\ Doing(l, "order")
      /\ \E listed \in SetToSeqs(Listing(c)) :
           /\ InOrder(listed)
           /\ links' = Sent([links EXCEPT ![l].job = NoJob], l, "server",
                            (IF links[l].server = Master THEN start \o dial(listed) ELSE <<>>)
                              \o <<Message("bound", <<>>)>>)
      /\ told' = IF links[l].server = Master THEN told \cup {<<c, p[2]>> : p \in Listing(c)}
                                              ELSE told
      /\ UNCHANGED <<connmap, nodemap, smatrix, ports, clients, calling, late>>

\* forBind at the client: OnAuth() runs doConnect() there.
Bound(l) ==
  /\ Arrived(l, "client", "bound")
  /\ Enter(l, "client")
  /\ links' = [Taken(l, "client") EXCEPT ![l].state["client"] = "bound"]
  /\ UNCHANGED <<nodemap, smatrix, ports, clients, calling, history>>

\* Mutant: doClose takes the first entry of the remote node, not its own.
Leave_First(l, e) ==
  connmap' = [connmap EXCEPT ![Node(l, e)] =
                IF Connected(Node(l, e), Remote(l, e))
                  THEN RemoveAt(@, Min(Found(Node(l, e), Remote(l, e)))) ELSE @]

\* doClose, first half: this handler's entry leaves m_connmap.
Leave(l, e) == connmap' = [connmap EXCEPT ![Node(l, e)] = RemoveFirst(@, <<l, e>>)]

\* Second half, on the master (elsewhere m_nodemap is empty), as written: if
\* the node has a service, every service from there to the end is forgotten.
Forget(l) ==
  LET n == links[l].client
  IN  /\ Doing(l, "forget")
      /\ links' = [links EXCEPT ![l].job = NoJob]
      /\ nodemap' = [m \in {k \in DOMAIN nodemap : n \in DOMAIN nodemap => k < n} |-> nodemap[m]]
      /\ UNCHANGED <<connmap, smatrix, ports, clients, calling, history>>

\* An end notices that the connection is gone (an error, the peer's close, no
\* traffic for 120 s) between two messages; what it has not read is lost.  An
\* end that was never bound does not know its remote node.
Close(l, e) ==
  /\ IsOpen(l, e)
  /\ Cardinality({h \in Links \X Ends : ~IsOpen(h[1], h[2])}) < MaxCloses
  /\ IF e = "client" THEN links[l].dial = <<>> ELSE links[l].job = NoJob
  /\ links' = [links EXCEPT ![l].state[e] = "closed", ![l].queue[e] = <<>>,
                   ![l].job = IF e = "server" /\ links[l].state[e] = "bound" /\ links[l].server = Master
                                THEN Job("forget", NoNode, 0) ELSE @]
  /\ Leave(l, e)
  /\ clients' = IF e = "server" THEN clients
                ELSE [clients EXCEPT ![links[l].client] =
                        [i \in DOMAIN @ |-> IF @[i].link = l THEN [@[i] EXCEPT !.link = 0] ELSE @[i]]]
  /\ UNCHANGED <<nodemap, smatrix, ports, calling, history>>

\* run(): every 6 s the clients without a connection are dropped one by one,
\* the one to the master excepted, which is not in m_client.
Reap(n, i) ==
  /\ clients[n][i].link = 0 /\ clients[n][i].port # 0
  /\ clients' = [clients EXCEPT ![n] = RemoveAt(@, i)]
  /\ UNCHANGED <<links, connmap, nodemap, smatrix, ports, calling, history>>

------------------------------------------------------------------------------
(* doMasterCommand: what a slave does for the master.                      *)

\* 0x1001: a new service, whatever this node has started before.
StartService(l) ==
  /\ Arrived(l, "client", "start")
  /\ Len(ports) < MaxPorts
  /\ ports' = Append(ports, links[l].client)
  /\ links' = Sent(Taken(l, "client"), l, "client",
                   <<Message("service", <<<<links[l].client, Len(ports) + 1>>>>)>>)
  /\ UNCHANGED <<connmap, nodemap, smatrix, clients, calling, history>>

\* No port, no memory: 0xFFFF, which the master only logs.
StartFails(l) ==
  /\ Arrived(l, "client", "start")
  /\ links' = Taken(l, "client")
  /\ UNCHANGED <<connmap, nodemap, smatrix, ports, clients, calling, history>>

\* 0x1002: the list is read ...
TakeList(l) ==
  /\ Arrived(l, "client", "connect")
  /\ links' = [Taken(l, "client") EXCEPT ![l].dial = Head(links[l].queue["client"]).pairs]
  /\ UNCHANGED <<connmap, nodemap, smatrix, ports, clients, calling, history>>

\* ... and each of its nodes that m_connmap does not hold gets a client, the
\* lock being taken for each anew.
Dial(l) ==
  LET n == links[l].client
      p == Head(links[l].dial)
  IN  /\ links[l].dial # <<>>
      /\ links' = [links EXCEPT ![l].dial = Tail(@)]
      /\ clients' = IF Connected(n, p[1]) THEN clients
                    ELSE [clients EXCEPT ![n] = Append(@, [port |-> p[2], link |-> 0])]
      /\ UNCHANGED <<connmap, nodemap, smatrix, ports, calling, history>>

------------------------------------------------------------------------------
(* doSlaveRequest: what the master does for a slave.                       *)

\* 0x0001: insert() keeps an entry that is there.
Register(l) ==
  LET s == links[l].client
      p == Arg(l, "server")[2]
  IN  /\ Arrived(l, "server", "service")
      /\ nodemap' = [n \in DOMAIN nodemap \cup {s} |-> IF n \in DOMAIN nodemap THEN nodemap[n] ELSE p]
      /\ links' = [Taken(l, "server") EXCEPT ![l].job = Job("notify", NoNode, p)]
      /\ UNCHANGED <<connmap, smatrix, ports, clients, calling, history>>

\* ... then the clients of the row that are connected are told, each on the
\* first of its links.
Notify(l) ==
  LET s == links[l].client
      p == links[l].job.port
      first == {First(Master, c)[1] : c \in {d \in Row(s) : Connected(Master, d)}}
  IN  /\ Doing(l, "notify")
      /\ links' = [k \in Links |->
           LET x == IF k = l THEN [links[k] EXCEPT !.job = NoJob] ELSE links[k]
           IN  IF k \in first /\ x.state["client"] # "closed"
                 THEN [x EXCEPT !.queue["client"] = Append(@, Message("connect", <<<<s, p>>>>))]
                 ELSE x]
      /\ told' = told \cup {<<links[k].client, s>> : k \in first}
      /\ UNCHANGED <<connmap, nodemap, smatrix, ports, clients, calling, late>>

\* 0x0002, the wanted node has a service: the asker is told where.
AnswerAsker(l) ==
  LET m == Arg(l, "server")[1]
  IN  /\ Arrived(l, "server", "ask")
      /\ m \in DOMAIN nodemap
      /\ links' = Sent(Taken(l, "server"), l, "server", <<Message("connect", <<<<m, nodemap[m]>>>>)>>)
      /\ told' = told \cup {<<links[l].client, m>>}
      /\ UNCHANGED <<connmap, nodemap, smatrix, ports, clients, calling, late>>

\* It has none: m_nodemaplock is released, and taken again for the asker.
\* An ask for the master itself is an error that goes no further.
WantedHasNone(l) ==
  LET m == Arg(l, "server")[1]
  IN  /\ Arrived(l, "server", "ask")
      /\ m \notin DOMAIN nodemap
      /\ links' = [Taken(l, "server") EXCEPT ![l].job = IF m = Master THEN NoJob
                                                          ELSE Job("asker", m, 0)]
      /\ UNCHANGED <<connmap, nodemap, smatrix, ports, clients, calling, history>>

\* The asker has one, copied under the lock ...
AskerHasOne(l) ==
  LET s == links[l].client
  IN  /\ Doing(l, "asker")
      /\ s \in DOMAIN nodemap
      /\ links' = [links EXCEPT ![l].job = Job("tell", @.node, nodemap[s])]
      /\ UNCHANGED <<connmap, nodemap, smatrix, ports, clients, calling, history>>

\* ... for the wanted node, if it is connected.
TellWanted(l) ==
  LET s == links[l].client
      m == links[l].job.node
      done == [links EXCEPT ![l].job = NoJob]
  IN  /\ Doing(l, "tell")
      /\ IF Connected(Master, m)
           THEN /\ links' = Sent(done, First(Master, m)[1], "server",
                                 <<Message("connect", <<<<s, links[l].job.port>>>>)>>)
                /\ told' = told \cup {<<m, s>>}
           ELSE links' = done /\ UNCHANGED told
      /\ UNCHANGED <<connmap, nodemap, smatrix, ports, clients, calling, late>>

\* Neither has: the asker shall start one ...
NeitherHasOne(l) ==
  /\ Doing(l, "asker")
  /\ links[l].client \notin DOMAIN nodemap
  /\ links' = [links EXCEPT ![l].job = Job("pair", @.node, 0)]
  /\ UNCHANGED <<connmap, nodemap, smatrix, ports, clients, calling, history>>

\* ... once the pair is in the matrix, under m_smatrix_lock_.
AskForService(l) ==
  LET s == links[l].client
  IN  /\ Doing(l, "pair")
      /\ smatrix' = smatrix \cup {<<s, links[l].job.node>>}
      /\ late' = late \cup {p \in {<<s, links[l].job.node>>} : s \in DOMAIN nodemap /\ p \notin smatrix}
      /\ links' = Sent([links EXCEPT ![l].job = NoJob], l, "server", <<Message("start", <<>>)>>)
      /\ UNCHANGED <<connmap, nodemap, ports, clients, calling, told>>

------------------------------------------------------------------------------
(* dispatch(): an event for another node.                                  *)

CallDispatch(n, m) ==
  /\ want[n] = NoNode /\ m # n /\ <<n, m>> \in Calls
  /\ calls < MaxCalls
  /\ calls' = calls + 1
  /\ want'  = [want EXCEPT ![n] = m]
  /\ tries' = [tries EXCEPT ![n] = Tries]
  /\ asked' = [asked EXCEPT ![n] = FALSE]
  /\ UNCHANGED <<links, connmap, nodemap, smatrix, ports, clients, history>>

\* dispatch() returns; its local variables are gone.
Returns(n) ==
  /\ want'  = [want EXCEPT ![n] = NoNode]
  /\ tries' = [tries EXCEPT ![n] = 0]
  /\ asked' = [asked EXCEPT ![n] = FALSE]

\* The first entry of m_connmap takes the event, under m_connmaplock.
SendEvent(n) ==
  /\ want[n] # NoNode /\ tries[n] > 0 /\ Connected(n, want[n])
  /\ LET h == First(n, want[n])
     IN  links' = Sent(links, h[1], h[2], <<Message("event", <<<<want[n], 0>>>>)>>)
  /\ Returns(n)
  /\ UNCHANGED <<connmap, nodemap, smatrix, ports, clients, calls, history>>

\* Another round: the buffer of the connection was full, or there is none.
\* requestConnection() returns the int of SendDataDirectly(), 0 for success,
\* as its bool: a request that was sent is repeated, one that failed is not.
TryAgain(n) ==
  LET up == Head(clients[n]).link
  IN  /\ want[n] # NoNode /\ tries[n] > 0
      /\ tries' = [tries EXCEPT ![n] = @ - 1]
      /\ IF Connected(n, want[n]) \/ asked[n] \/ up = 0
           THEN UNCHANGED <<links, asked>>
           ELSE \/ /\ Len(links[up].queue["server"]) < MaxQueue
                   /\ links' = Sent(links, up, "client", <<Message("ask", <<<<want[n], 0>>>>)>>)
                   /\ UNCHANGED asked
                \/ /\ asked' = [asked EXCEPT ![n] = TRUE]
                   /\ UNCHANGED links
      /\ UNCHANGED <<connmap, nodemap, smatrix, ports, clients, want, calls, history>>

\* The time is over: the event is discarded.
Discard(n) ==
  /\ want[n] # NoNode /\ tries[n] = 0
  /\ Returns(n)
  /\ UNCHANGED <<links, connmap, nodemap, smatrix, ports, clients, calls, history>>

\* The event arrives: doInterceptor() pushes it into the node.
Deliver(l, e) ==
  /\ Arrived(l, e, "event")
  /\ links' = Taken(l, e)
  /\ UNCHANGED <<connmap, nodemap, smatrix, ports, clients, calling, history>>

Next ==
  \/ \E n \in Slaves :
       \/ \E i \in DOMAIN clients[n] : Connect(n, i) \/ Reap(n, i)
       \/ \E m \in Nodes : CallDispatch(n, m)
       \/ SendEvent(n) \/ TryAgain(n) \/ Discard(n)
  \/ \E l \in Links :
       \/ Bind(l) \/ Order(l) \/ Bound(l) \/ Forget(l)
       \/ StartService(l) \/ StartFails(l) \/ TakeList(l) \/ Dial(l)
       \/ Register(l) \/ Notify(l) \/ AnswerAsker(l) \/ WantedHasNone(l)
       \/ AskerHasOne(l) \/ TellWanted(l) \/ NeitherHasOne(l) \/ AskForService(l)
       \/ \E e \in Ends : Close(l, e) \/ Deliver(l, e)

Spec == Init /\ [][Next]_vars
------------------------------------------------------------------------------
(* Correctness.                                                            *)

TypeOK ==
  /\ \A l \in Links :
       /\ links[l].client \in Slaves /\ links[l].server \in Nodes
       /\ links[l].state \in [Ends -> {"new", "bound", "closed"}]
  /\ connmap \in [Nodes -> Seq(Links \X Ends)]
  /\ DOMAIN nodemap \subseteq Slaves
  /\ smatrix \subseteq Slaves \X Slaves
  /\ ports \in Seq(Slaves)
  /\ want \in [Slaves -> Nodes \cup {NoNode}]
  /\ tries \in [Slaves -> 0 .. Tries]
  /\ asked \in [Slaves -> BOOLEAN] /\ calls \in 0 .. MaxCalls

\* m_connmap holds the handlers of exactly the bound, not yet closed ends,
\* each once, although several links of one node, and of a node with itself,
\* come and go in any order:
\* dispatch() and sendCommand() never use a handler whose OnClose() returned,
\* whose send thread is deleted.  A link carries one bind here: a client's
\* buffer, from which a second may come, is in Server.
ConnMapInv ==
  /\ TypeOK
  /\ \A n \in Nodes :
       /\ \A i, j \in DOMAIN connmap[n] : connmap[n][i] = connmap[n][j] => i = j
       /\ ToSet(connmap[n]) =
            {h \in Links \X Ends : Node(h[1], h[2]) = n /\ links[h[1]].state[h[2]] = "bound"}

\* What a message says is true wherever it travels: a port is one the named
\* node has opened, and an event is on a link to the node it is for, so no
\* node is connected to, or given an event, under another node's id.
AddressInv ==
  /\ \A n \in DOMAIN nodemap : ports[nodemap[n]] = n
  /\ \A l \in Links, e \in Ends : \A i \in DOMAIN links[l].queue[e] :
       LET m == links[l].queue[e][i]
       IN  \A j \in DOMAIN m.pairs :
             /\ m.kind \in {"service", "connect"} => ports[m.pairs[j][2]] = m.pairs[j][1]
             /\ m.kind = "event" => m.pairs[j][1] = Node(l, e)

\* Whoever comes second, the server's report or the client's connection, the
\* client is told: the report is in m_nodemap before m_connmap is read, the
\* connection in m_connmap before m_nodemap is read, without a common lock.
\* One pair escapes: an ask is half done on one link of a node while the node
\* reports its service on another, and the pair comes after the report.
ToldInv ==
  \A l \in Links :
    LET c == links[l].client
    IN  (links[l].server = Master /\ links[l].state["server"] = "bound" /\ ~Doing(l, "order")) =>
          \A s \in DOMAIN nodemap :
            <<s, c>> \in smatrix \ late =>
              \/ <<c, s>> \in told
              \/ \E k \in Links : links[k].client = s /\ Doing(k, "notify")
=============================================================================
