------------------------------- MODULE Server -------------------------------
(***************************************************************************)
(* The server side of a ZTP link: the accept loop of TCPServer with its    *)
(* list of clients, the thread of each accepted connection (TCPClientNode, *)
(* driving a ZTPServerHandler), the send thread of the connection, a       *)
(* thread that broadcasts with ZTPServer::SendData(), and a thread in      *)
(* CEPDispatch::dispatch(), which finds handlers in m_connmap.             *)
(*                                                                         *)
(* One action is what a thread does between two points where another can   *)
(* see or change what it uses.  Locks:                                     *)
(*    m_lock          of TCPServer: held by a broadcast that is not idle,  *)
(*    m_connmaplock   of CEPDispatch: held while the dispatcher uses one,  *)
(*    m_sendthreadlock of a handler: slock.                                *)
(* The ten-millisecond sleeps and what is sent are left out; a buffer is   *)
(* the number of packages in it.                                           *)
(*                                                                         *)
(* A client binds each time it connects, but ZTPClient::doBind() appends   *)
(* the bind to what the client's buffer still holds: one that was not sent *)
(* on an earlier connection goes out with the next, so a connection may    *)
(* carry several.                                                          *)
(***************************************************************************)
EXTENDS Naturals

CONSTANTS
    MaxConns,   \* connections that are accepted in all
    Capacity    \* packages the buffers of a connection hold

ASSUME ConnsAssumption == MaxConns \in Nat
ASSUME CapacityAssumption == Capacity \in Nat \ {0}

VARIABLES
    acceptor,   \* where TCPServer::run() is
    clients,    \* TCPServer::m_clients
    pc,         \* where the thread of each connection is
    replies,    \* packages its handler has still to answer with
    sock,       \* the connection as the two ends left it
    binds,      \* binds read from it
    owed,       \* binds its client has in the buffer
    entries,    \* how often its handler is in CEPDispatch::m_connmap
    stat,       \* ZTPServerHandler::m_pConnStat and what it tells
    sender,     \* ZTPServerHandler::m_sendthread and where it is
    buf,        \* packages in its buffers
    slock,      \* who holds its m_sendthreadlock
    bcast,      \* ZTPServer::SendData(), one call at a time
    disp        \* CEPDispatch::dispatch(), one call at a time

nodeVars == <<pc, replies, sock, binds, owed>>
sendVars == <<stat, sender, buf>>
vars == <<acceptor, clients, nodeVars, entries, sendVars, slock, bcast, disp>>

Conns == 1..MaxConns
Nobody == 0
Hung == MaxConns + 1        \* dispatch() never comes back
Idle == [at |-> "idle", conn |-> Nobody, todo |-> {}]

Init ==
    /\ acceptor = "select"
    /\ clients = {}
    /\ pc = [c \in Conns |-> "none"]
    /\ replies = [c \in Conns |-> 0]
    /\ sock = [c \in Conns |-> "none"]
    /\ binds = [c \in Conns |-> 0]
    /\ owed = [c \in Conns |-> 0]
    /\ entries = [c \in Conns |-> 0]
    /\ stat = [c \in Conns |-> "none"]
    /\ sender = [c \in Conns |-> "none"]
    /\ buf = [c \in Conns |-> 0]
    /\ slock = [c \in Conns |-> "free"]
    /\ bcast = Idle
    /\ disp = Nobody

-----------------------------------------------------------------------------
(* The accept loop.                                                        *)

Dead(c) == {d \in clients \cup {c} : pc[d] = "dead"}

\* accept(), then the node of the connection and its thread.  The client is a new
\* one (d = c) or that of the connection d, which is over; it puts a bind behind
\* those that its buffer still holds.
Accept(c, d) ==
    /\ acceptor = "select"
    /\ pc[c] = "none" /\ \A e \in 1..(c - 1) : pc[e] # "none"
    /\ d = c \/ (d < c /\ sock[d] # "open")
    /\ acceptor' = "push"
    /\ pc' = [pc EXCEPT ![c] = "connect"]
    /\ sock' = [sock EXCEPT ![c] = "open"]
    /\ owed' = [e \in Conns |-> IF e = c THEN owed[d] + 1
                                ELSE IF e = d THEN 0 ELSE owed[e]]
    /\ UNCHANGED <<clients, replies, binds, entries, sendVars, slock, bcast, disp>>

\* Mutant: the list is walked without m_lock.
Push_Unlocked(c) ==
    /\ acceptor = "push"
    /\ pc[c] \notin {"none", "deleted"}
    /\ c \notin clients
    /\ acceptor' = "select"
    /\ clients' = (clients \cup {c}) \ Dead(c)
    /\ pc' = [d \in Conns |-> IF d \in Dead(c) THEN "deleted" ELSE pc[d]]
    /\ sock' = [d \in Conns |-> IF d \in Dead(c) THEN "none" ELSE sock[d]]
    /\ UNCHANGED <<replies, binds, owed, entries, sendVars, slock, bcast, disp>>

\* m_clients.push_back(), when the node's thread is running already, and the
\* CheckClients() the next round begins with: connections that ended are freed.
Push(c) ==
    /\ acceptor = "push"
    /\ bcast.at = "idle"
    /\ pc[c] \notin {"none", "deleted"}
    /\ c \notin clients
    /\ acceptor' = "select"
    /\ clients' = (clients \cup {c}) \ Dead(c)
    /\ pc' = [d \in Conns |-> IF d \in Dead(c) THEN "deleted" ELSE pc[d]]
    /\ sock' = [d \in Conns |-> IF d \in Dead(c) THEN "none" ELSE sock[d]]
    /\ UNCHANGED <<replies, binds, owed, entries, sendVars, slock, bcast, disp>>

-----------------------------------------------------------------------------
(* The thread of a connection: OnConnect(), OnRead(), OnIdle().            *)

\* ZTPServerHandler::OnConnect(): the statistics, the send thread, and the
\* CEPConnHandler gets its service.
OnConnect(c) ==
    /\ pc[c] = "connect"
    /\ pc' = [pc EXCEPT ![c] = "loop"]
    /\ stat' = [stat EXCEPT ![c] = "up"]
    /\ sender' = [sender EXCEPT ![c] = "loop"]
    /\ UNCHANGED <<acceptor, clients, replies, sock, binds, owed, entries, buf, slock,
                   bcast, disp>>

\* doBind(): OnAuth() reports the node, doConnect() puts its handler into
\* m_connmap; a bind of the server's own and the answer are to be sent.
ReadBind(c) ==
    /\ pc[c] = "loop" /\ sock[c] = "open"
    /\ owed[c] > 0
    /\ disp = Nobody
    /\ owed' = [owed EXCEPT ![c] = @ - 1]
    /\ binds' = [binds EXCEPT ![c] = @ + 1]
    /\ entries' = [entries EXCEPT ![c] = @ + 1]
    /\ replies' = [replies EXCEPT ![c] = 2]
    /\ pc' = [pc EXCEPT ![c] = "reply"]
    /\ UNCHANGED <<acceptor, clients, sock, sendVars, slock, bcast, disp>>

ReadCheckLink(c) ==
    /\ pc[c] = "loop" /\ sock[c] = "open"
    /\ replies' = [replies EXCEPT ![c] = 1]
    /\ pc' = [pc EXCEPT ![c] = "reply"]
    /\ UNCHANGED <<acceptor, clients, sock, binds, owed, entries, sendVars, slock, bcast,
                   disp>>

\* SendPacket(): tried every ten milliseconds for as long as the buffers are
\* full, which changes nothing; never given up.
Reply(c) ==
    /\ pc[c] = "reply"
    /\ slock[c] = "free"
    /\ buf[c] < Capacity
    /\ buf' = [buf EXCEPT ![c] = @ + 1]
    /\ replies' = [replies EXCEPT ![c] = @ - 1]
    /\ pc' = [pc EXCEPT ![c] = IF replies[c] = 1 THEN "loop" ELSE "reply"]
    /\ UNCHANGED <<acceptor, clients, sock, binds, owed, entries, stat, sender, slock, bcast,
                   disp>>

\* The client's end of the connection goes away.
Lost(c) ==
    /\ sock[c] = "open"
    /\ sock' = [sock EXCEPT ![c] = "over"]
    /\ UNCHANGED <<acceptor, clients, pc, replies, binds, owed, entries, sendVars, slock,
                   bcast, disp>>

\* OnIdle() after 120 seconds without a sign of the client, and a package that
\* OnRead() refuses: the socket is closed, and the next Select() fails.
Timeout(c) ==
    /\ pc[c] = "loop" /\ sock[c] = "open"
    /\ sock' = [sock EXCEPT ![c] = "over"]
    /\ stat' = [stat EXCEPT ![c] = "down"]
    /\ pc' = [pc EXCEPT ![c] = "close"]
    /\ UNCHANGED <<acceptor, clients, replies, binds, owed, entries, sender, buf, slock,
                   bcast, disp>>

\* Select() or OnRead() finds the end of the connection.
SeesEnd(c) ==
    /\ pc[c] = "loop" /\ sock[c] # "open"
    /\ stat' = [stat EXCEPT ![c] = "down"]
    /\ pc' = [pc EXCEPT ![c] = "close"]
    /\ UNCHANGED <<acceptor, clients, replies, sock, binds, owed, entries, sender, buf, slock,
                   bcast, disp>>

-----------------------------------------------------------------------------
(* The end of a connection: ZTPServerHandler::OnClose().                   *)

\* Mutant: the handler's entry is not found among those of its node.
Close_Misses(c) ==
    /\ pc[c] = "close"
    /\ pc' = [pc EXCEPT ![c] = "stop"]
    /\ UNCHANGED <<acceptor, clients, replies, sock, binds, owed, entries, sendVars, slock,
                   bcast, disp>>

\* m_hndl->OnClose() and doClose(): the first entry of the handler goes, and
\* only that one.
Close(c) ==
    /\ pc[c] = "close"
    /\ disp = Nobody
    /\ entries' = [entries EXCEPT ![c] = IF @ > 0 THEN @ - 1 ELSE 0]
    /\ pc' = [pc EXCEPT ![c] = "stop"]
    /\ UNCHANGED <<acceptor, clients, replies, sock, binds, owed, sendVars, slock, bcast,
                   disp>>

TakeSendLock(c) ==
    /\ pc[c] = "stop"
    /\ slock[c] = "free"
    /\ slock' = [slock EXCEPT ![c] = "node"]
    /\ pc' = [pc EXCEPT ![c] = "join"]
    /\ UNCHANGED <<acceptor, clients, replies, sock, binds, owed, entries, sendVars, bcast,
                   disp>>

\* Mutant: the lock is not given back when the send thread is gone.
JoinSender_Keeps(c) ==
    /\ pc[c] = "join"
    /\ sender[c] = "loop"
    /\ sender' = [sender EXCEPT ![c] = "none"]
    /\ buf' = [buf EXCEPT ![c] = 0]
    /\ pc' = [pc EXCEPT ![c] = "stat"]
    /\ UNCHANGED <<acceptor, clients, replies, sock, binds, owed, entries, stat, slock, bcast,
                   disp>>

\* m_sendthread->stop() waits for the write the thread is in, then both the
\* thread and its buffers are freed and the lock is given back.
JoinSender(c) ==
    /\ pc[c] = "join"
    /\ sender[c] = "loop"
    /\ sender' = [sender EXCEPT ![c] = "none"]
    /\ buf' = [buf EXCEPT ![c] = 0]
    /\ slock' = [slock EXCEPT ![c] = "free"]
    /\ pc' = [pc EXCEPT ![c] = "stat"]
    /\ UNCHANGED <<acceptor, clients, replies, sock, binds, owed, entries, stat, bcast, disp>>

\* The statistics are freed, the socket is closed, m_bIsDead tells that the thread
\* is through.
Die(c) ==
    /\ pc[c] = "stat"
    /\ stat' = [stat EXCEPT ![c] = "none"]
    /\ pc' = [pc EXCEPT ![c] = "dead"]
    /\ UNCHANGED <<acceptor, clients, replies, sock, binds, owed, entries, sender, buf, slock,
                   bcast, disp>>

-----------------------------------------------------------------------------
(* The send thread of a connection: ZTPSendThread::doSend().               *)

\* isrunning is false once stop() was called.
Take(c) ==
    /\ sender[c] = "loop" /\ pc[c] # "join"
    /\ stat[c] = "up"
    /\ buf[c] > 0
    /\ sender' = [sender EXCEPT ![c] = "writing"]
    /\ buf' = [buf EXCEPT ![c] = @ - 1]
    /\ UNCHANGED <<acceptor, clients, nodeVars, entries, stat, slock, bcast, disp>>

WriteOk(c) ==
    /\ sender[c] = "writing"
    /\ sock[c] = "open"
    /\ sender' = [sender EXCEPT ![c] = "loop"]
    /\ UNCHANGED <<acceptor, clients, nodeVars, entries, stat, buf, slock, bcast, disp>>

\* Mutant: a write that fails is tried again.
WriteFails_Retries(c) ==
    /\ sender[c] = "writing"
    /\ sock[c] # "open"
    /\ stat' = [stat EXCEPT ![c] = "down"]
    /\ UNCHANGED <<acceptor, clients, nodeVars, entries, sender, buf, slock, bcast, disp>>

\* The package is lost, and nothing more is sent on this connection.
WriteFails(c) ==
    /\ sender[c] = "writing"
    /\ sock[c] # "open"
    /\ sender' = [sender EXCEPT ![c] = "loop"]
    /\ stat' = [stat EXCEPT ![c] = "down"]
    /\ UNCHANGED <<acceptor, clients, nodeVars, entries, buf, slock, bcast, disp>>

-----------------------------------------------------------------------------
(* ZTPServer::SendData(): ForEach() over the clients, under m_lock.        *)

\* The iterator moves on to the clients that are left.  Behind the last m_lock is
\* given back.
Walk(todo) == IF todo = {} THEN Idle ELSE [at |-> "each", conn |-> Nobody, todo |-> todo]

\* A list without clients is walked in no time.
StartBroadcast ==
    /\ clients # {} /\ bcast.at = "idle"
    /\ bcast' = Walk(clients)
    /\ UNCHANGED <<acceptor, clients, nodeVars, entries, sendVars, slock, disp>>

\* What SendData() looks at before it takes the lock of the handler: the send
\* thread, and m_hash, which a bind fills.
Wanted(c) == pc[c] # "dead" /\ sender[c] # "none" /\ binds[c] > 0

NextClient(c) ==
    /\ bcast.at = "each"
    /\ c \in bcast.todo /\ \A d \in bcast.todo : c <= d
    /\ bcast' = IF Wanted(c)
                THEN [at |-> "lock", conn |-> c, todo |-> bcast.todo \ {c}]
                ELSE Walk(bcast.todo \ {c})
    /\ UNCHANGED <<acceptor, clients, nodeVars, entries, sendVars, slock, disp>>

Left == Walk(bcast.todo)

\* The first try, with the lock held: m_sendthread->SendData().
FirstTry(c) ==
    /\ bcast.at = "lock" /\ bcast.conn = c
    /\ slock[c] = "free"
    /\ IF sender[c] # "none" /\ buf[c] = Capacity
       THEN bcast' = [bcast EXCEPT !.at = "wait"] /\ buf' = buf
       ELSE /\ bcast' = Left
            /\ buf' = [buf EXCEPT ![c] = IF sender[c] = "none" THEN @ ELSE @ + 1]
    /\ UNCHANGED <<acceptor, clients, nodeVars, entries, stat, sender, slock, disp>>

\* Mutant: m_sendthread is not looked at again after the sleep.
Retry_Unchecked(c) ==
    /\ bcast.at = "wait" /\ bcast.conn = c
    /\ slock[c] = "free"
    /\ buf[c] < Capacity
    /\ bcast' = Left
    /\ buf' = [buf EXCEPT ![c] = @ + 1]
    /\ UNCHANGED <<acceptor, clients, nodeVars, entries, stat, sender, slock, disp>>

\* After the sleep, with the lock taken again: the connection may be gone.  While
\* the buffers are full nothing changes but the time that is left.
Retry(c) ==
    /\ bcast.at = "wait" /\ bcast.conn = c
    /\ slock[c] = "free"
    /\ sender[c] = "none" \/ buf[c] < Capacity
    /\ bcast' = Left
    /\ buf' = [buf EXCEPT ![c] = IF sender[c] = "none" THEN @ ELSE @ + 1]
    /\ UNCHANGED <<acceptor, clients, nodeVars, entries, stat, sender, slock, disp>>

\* The time is up after a sleep: the loop ends where the lock has been taken
\* again, and SendData() returns without giving it back.
TimeUp(c) ==
    /\ bcast.at = "wait" /\ bcast.conn = c
    /\ slock[c] = "free"
    /\ sender[c] # "none"
    /\ slock' = [slock EXCEPT ![c] = "broadcast"]
    /\ bcast' = Left
    /\ UNCHANGED <<acceptor, clients, nodeVars, entries, sendVars, disp>>

-----------------------------------------------------------------------------
(* CEPDispatch::dispatch(): the handler is found and used under            *)
(* m_connmaplock; the handler's own lock is not taken.                     *)

Find(c) ==
    /\ disp = Nobody
    /\ entries[c] > 0
    /\ disp' = c
    /\ UNCHANGED <<acceptor, clients, nodeVars, entries, sendVars, slock, bcast>>

Use(c) ==
    /\ disp = c
    /\ sender[c] # "none"
    /\ buf' = [buf EXCEPT ![c] = IF @ < Capacity THEN @ + 1 ELSE @]
    /\ disp' = Nobody
    /\ UNCHANGED <<acceptor, clients, nodeVars, entries, stat, sender, slock, bcast>>

\* The same of a handler that is gone, or whose send thread is.  What it was is
\* freed memory: the call returns, or waits for ever with m_connmaplock held, ...
UseFreed(c) ==
    /\ disp = c
    /\ sender[c] = "none"
    /\ disp' \in {Nobody, Hung}
    /\ UNCHANGED <<acceptor, clients, nodeVars, entries, sendVars, slock, bcast>>

\* ... or the process ends, with all its threads and connections.
Crash(c) ==
    /\ disp = c
    /\ sender[c] = "none"
    /\ acceptor' = "over" /\ clients' = {} /\ bcast' = Idle /\ disp' = Nobody
    /\ pc' = [d \in Conns |-> "deleted"]
    /\ sock' = [d \in Conns |-> "none"]
    /\ stat' = [d \in Conns |-> "none"]
    /\ sender' = [d \in Conns |-> "none"]
    /\ slock' = [d \in Conns |-> "free"]
    /\ replies' = [d \in Conns |-> 0]
    /\ binds' = [d \in Conns |-> 0]
    /\ owed' = [d \in Conns |-> 0]
    /\ entries' = [d \in Conns |-> 0]
    /\ buf' = [d \in Conns |-> 0]

-----------------------------------------------------------------------------
NodeStep(c) ==
    \/ OnConnect(c)
    \/ ReadBind(c) \/ ReadCheckLink(c) \/ Reply(c)
    \/ Timeout(c) \/ SeesEnd(c)
    \/ Close(c) \/ TakeSendLock(c) \/ JoinSender(c) \/ Die(c)

UseStep(c) == Use(c) \/ UseFreed(c) \/ Crash(c)

SenderStep(c) == Take(c) \/ WriteOk(c) \/ WriteFails(c)

BroadcastStep(c) == NextClient(c) \/ FirstTry(c) \/ Retry(c) \/ TimeUp(c)

Next ==
    \/ StartBroadcast
    \/ \E c \in Conns :
          \/ (\E d \in Conns : Accept(c, d)) \/ Push(c) \/ Lost(c)
          \/ NodeStep(c) \/ SenderStep(c) \/ BroadcastStep(c)
          \/ Find(c) \/ UseStep(c)

Spec == Init /\ [][Next]_vars

(***************************************************************************)
(* The threads run.  A thread that waits for m_connmaplock, which another  *)
(* gives back again and again, gets it at last (strong fairness of Close); *)
(* the lock of a handler is held once.  A write ends: the client reads, or *)
(* the connection is lost.  Nothing makes a client connect, send or go, a  *)
(* time-out pass or a broadcast begin.                                     *)
(***************************************************************************)
Fairness ==
    /\ WF_vars(\E c \in Conns : BroadcastStep(c))
    /\ WF_vars(\E c \in Conns : UseStep(c))
    /\ \A c \in Conns :
          /\ WF_vars(OnConnect(c) \/ Reply(c) \/ SeesEnd(c) \/ TakeSendLock(c)
                     \/ JoinSender(c) \/ Die(c))
          /\ SF_vars(Close(c))
          /\ WF_vars(SenderStep(c))

FairSpec == Spec /\ Fairness

-----------------------------------------------------------------------------
(* Properties.                                                             *)

Live == {"loop", "reply", "close", "stop", "join"}

TypeOK ==
    /\ acceptor \in {"select", "push", "over"}
    /\ clients \subseteq Conns
    /\ pc \in [Conns -> Live \cup {"none", "connect", "stat", "dead", "deleted"}]
    /\ replies \in [Conns -> 0..2]
    /\ sock \in [Conns -> {"none", "open", "over"}]
    /\ binds \in [Conns -> Nat]
    /\ owed \in [Conns -> Nat]
    /\ entries \in [Conns -> Nat]
    /\ stat \in [Conns -> {"none", "down", "up"}]
    /\ sender \in [Conns -> {"none", "loop", "writing"}]
    /\ buf \in [Conns -> 0..Capacity]
    /\ slock \in [Conns -> {"free", "node", "broadcast"}]
    /\ bcast \in [at : {"idle", "each", "lock", "wait"}, conn : Conns \cup {Nobody},
                  todo : SUBSET Conns]
    /\ disp \in Conns \cup {Nobody, Hung}

\* The parts of a connection come and go together: the send thread lives from
\* OnConnect() to OnClose() and the statistics it works with live longer; the
\* thread that frees it holds the lock; a node is in the list from Push() until
\* it is freed.
ServerInv ==
    /\ TypeOK
    /\ \A c \in Conns :
          /\ (sender[c] # "none") = (pc[c] \in Live)
          /\ (stat[c] # "none") = (pc[c] \in Live \cup {"stat"})
          /\ (slock[c] = "node") = (pc[c] = "join")
          /\ (replies[c] > 0) = (pc[c] = "reply")
          /\ (c \in clients) => (pc[c] \notin {"none", "deleted"})
          /\ (acceptor # "push") =>
                (pc[c] \notin {"none", "deleted"} => c \in clients)

\* What another thread holds a pointer to exists.  A broadcast: the client it
\* works on, and those it has still to visit, are not freed.  dispatch(): a
\* connection that is closed leaves no entry in m_connmap, and the handler found
\* there has its send thread -- unless the connection carried several binds: each
\* made an entry, and all but one of them stay for ever.
HandlersAlive ==
    /\ \A c \in bcast.todo \cup {bcast.conn} : c # Nobody => pc[c] # "deleted"
    /\ \A c \in Conns :
          sender[c] = "none" => entries[c] = IF binds[c] > 1 THEN binds[c] - 1 ELSE 0
    /\ disp \in Conns => sender[disp] # "none" \/ binds[disp] > 1

\* Broadcasts and replies put data into the buffers of a send thread that exists,
\* never into those of a connection that OnClose() is done with, however long
\* they slept.  (Of dispatch(), which does not take the handler's lock,
\* HandlersAlive tells.)
SendsAlive ==
    [][\A c \in Conns : disp' = disp /\ buf'[c] > buf[c] => sender[c] # "none"]_vars

\* m_connmap has the local connections (CEPDispatch.h), and doClose() takes out
\* the one that is dropped: no entry is of a handler whose send thread is freed.
EntriesAreConnections == \A c \in Conns : entries[c] > 0 => sender[c] # "none"

Leaked(c) == slock[c] = "broadcast"

\* A broadcast ends, though clients leave while it visits them, unless an earlier
\* one ran into its time-out and left the lock of a handler taken: again and again
\* there is none.
BroadcastEnds == []<>(bcast.at = "idle" \/ \E c \in Conns : Leaked(c))

\* A reply that finds the buffers full when nothing is sent any more.
Stuck(c) == pc[c] = "reply" /\ buf[c] = Capacity /\ stat[c] = "down"

\* The end of a connection is noticed: the handler leaves m_connmap, the send
\* thread stops, the node can be freed -- except that a handler with a reply to
\* put into full buffers waits for ever, and so does one whose lock was left
\* taken, and all do when dispatch() hangs in freed memory with m_connmaplock.
\* A connection that is over stays so until its node is freed.
LostIsClosed ==
    \A c \in Conns :
        []<>(\/ sock[c] # "over" \/ pc[c] = "dead"
             \/ Stuck(c) \/ Leaked(c) \/ disp = Hung)

\* A send is given up when its time-out has passed (ZTPServer.h: the default is
\* to wait 100 seconds): a broadcast always ends.
SendEnds == []<>(bcast.at = "idle")
=============================================================================
