---------------------------- MODULE ServerProofs ----------------------------
(***************************************************************************)
(* Proofs about Server, for any number of connections, any number of binds *)
(* on each and any buffers: no thread uses a handler after its end, but    *)
(* dispatch() may, after several binds on one connection.                  *)
(***************************************************************************)
EXTENDS Server, TLAPS

Started(c) == pc[c] \notin {"none", "deleted"}

\* A handler is in m_connmap as often as its client bound, and once less from
\* doClose() on; dispatch() holds the lock that doClose() needs.
Bound(c) == IF pc[c] \in {"loop", "reply", "close"} THEN binds[c]
            ELSE IF binds[c] > 1 THEN binds[c] - 1 ELSE 0

MapInv ==
    /\ \A c \in Conns : pc[c] \in {"none", "connect"} => binds[c] = 0
    /\ \A c \in Conns : entries[c] = Bound(c)
    /\ disp \in Conns => entries[disp] > 0

\* A broadcast holds the lock that Push() needs, and visits members of the list.
ListInv ==
    /\ bcast.at = "idle" => bcast.todo = {} /\ bcast.conn = Nobody
    /\ bcast.todo \subseteq clients
    /\ bcast.conn # Nobody => bcast.conn \in clients

\* Between accept() and push_back() one node is not in the list.
AcceptInv ==
    acceptor = "push" =>
        \A c, d \in Conns : Started(c) /\ c \notin clients
                            /\ Started(d) /\ d \notin clients => c = d

IInv == ServerInv /\ MapInv /\ ListInv /\ AcceptInv

-----------------------------------------------------------------------------
\* "Nobody" and "hung" are no connections.
LEMMA NotConns == Nobody \notin Conns /\ Hung \notin Conns /\ Nobody # Hung
  BY ConnsAssumption DEF Nobody, Hung, Conns

LEMMA InitIInv == Init => IInv
  BY CapacityAssumption
     DEF Init, IInv, ServerInv, TypeOK, MapInv, ListInv, AcceptInv, Bound, Started,
         Idle, Nobody, Hung, Live, Conns

-----------------------------------------------------------------------------
(* One step per action.                                                     *)

LEMMA AcceptLoopSteps ==
  ASSUME IInv, NEW c \in Conns, (\E d \in Conns : Accept(c, d)) \/ Push(c)
  PROVE  IInv'
<1>1. ASSUME NEW d \in Conns, Accept(c, d)
      PROVE  IInv'
  BY <1>1 DEF IInv, ServerInv, TypeOK, MapInv, Bound, ListInv, AcceptInv, Started,
              Nobody, Hung, Live, Accept, sendVars
<1>2. CASE Push(c)
  BY <1>2 DEF IInv, ServerInv, TypeOK, MapInv, Bound, ListInv, AcceptInv, Started,
              Nobody, Hung, Live, Push, Dead, sendVars
<1> QED
  BY <1>1, <1>2

LEMMA NodeSteps ==
  ASSUME IInv, NEW c \in Conns, NodeStep(c) \/ Lost(c)
  PROVE  IInv'
<1> USE DEF IInv, ServerInv, TypeOK, MapInv, Bound, ListInv, AcceptInv, Started,
            Nobody, Hung, Live, sendVars
<1>1. CASE OnConnect(c)
  BY <1>1 DEF OnConnect
<1>2. CASE ReadBind(c)
  BY <1>2 DEF ReadBind
<1>3. CASE ReadCheckLink(c)
  BY <1>3 DEF ReadCheckLink
<1>4. CASE Reply(c)
  BY <1>4, CapacityAssumption DEF Reply
<1>5. CASE Timeout(c)
  BY <1>5 DEF Timeout
<1>6. CASE SeesEnd(c)
  BY <1>6 DEF SeesEnd
<1>7. CASE Close(c)
  BY <1>7, NotConns DEF Close
<1>8. CASE TakeSendLock(c)
  BY <1>8 DEF TakeSendLock
<1>9. CASE JoinSender(c)
  BY <1>9, CapacityAssumption DEF JoinSender
<1>10. CASE Die(c)
  BY <1>10 DEF Die
<1>11. CASE Lost(c)
  BY <1>11 DEF Lost
<1> QED
  BY <1>1, <1>2, <1>3, <1>4, <1>5, <1>6, <1>7, <1>8, <1>9, <1>10, <1>11 DEF NodeStep

LEMMA SenderSteps ==
  ASSUME IInv, NEW c \in Conns, SenderStep(c)
  PROVE  IInv'
<1> USE DEF IInv, ServerInv, TypeOK, MapInv, Bound, ListInv, AcceptInv, Started,
            Nobody, Hung, Live, nodeVars
<1>1. CASE Take(c)
  BY <1>1, CapacityAssumption DEF Take
<1>2. CASE WriteOk(c)
  BY <1>2 DEF WriteOk
<1>3. CASE WriteFails(c)
  BY <1>3 DEF WriteFails
<1> QED
  BY <1>1, <1>2, <1>3 DEF SenderStep

\* Where the walk stands after a client: at the next, or at its end.
LEMMA WalkType ==
  ASSUME NEW todo \in SUBSET Conns
  PROVE  /\ Walk(todo) \in [at : {"idle", "each", "lock", "wait"},
                             conn : Conns \cup {Nobody}, todo : SUBSET Conns]
         /\ Walk(todo).conn = Nobody /\ Walk(todo).todo = todo
         /\ Walk(todo).at = "idle" <=> todo = {}
         /\ Walk(todo).at \in {"idle", "each"}
  BY DEF Walk, Idle, Nobody

LEMMA BroadcastSteps ==
  ASSUME IInv,
         StartBroadcast \/ \E c \in Conns : BroadcastStep(c)
  PROVE  IInv'
<1> USE DEF IInv, ServerInv, TypeOK, MapInv, Bound, ListInv, AcceptInv, Started,
            Nobody, Hung, Live, nodeVars, sendVars
<1>1. CASE StartBroadcast
  BY <1>1, WalkType DEF StartBroadcast
<1>2. ASSUME NEW c \in Conns, NextClient(c)
      PROVE  IInv'
  <2>1. /\ bcast'.todo = bcast.todo \ {c} /\ bcast'.conn \in {Nobody, c}
        /\ bcast'.at = "idle" => bcast'.todo = {} /\ bcast'.conn = Nobody
        /\ bcast' \in [at : {"idle", "each", "lock", "wait"},
                       conn : Conns \cup {Nobody}, todo : SUBSET Conns]
    <3>1. bcast.todo \ {c} \in SUBSET Conns
      OBVIOUS
    <3>2. \/ bcast' = [at |-> "lock", conn |-> c, todo |-> bcast.todo \ {c}]
          \/ bcast' = Walk(bcast.todo \ {c})
      BY <1>2 DEF NextClient
    <3> QED
      BY <3>1, <3>2, WalkType
  <2>2. c \in clients
    BY <1>2 DEF NextClient
  <2>3. UNCHANGED <<acceptor, clients, nodeVars, entries, sendVars, slock, disp>>
    BY <1>2 DEF NextClient
  <2>4. TypeOK' /\ MapInv' /\ AcceptInv'
    BY <2>1, <2>3
  <2>5. ListInv'
    BY <2>1, <2>2, <2>3
  <2> QED
    BY <2>3, <2>4, <2>5
<1>3. /\ Left \in [at : {"idle", "each", "lock", "wait"},
                   conn : Conns \cup {Nobody}, todo : SUBSET Conns]
      /\ Left.conn = Nobody /\ Left.todo = bcast.todo
      /\ Left.at = "idle" => Left.todo = {}
      /\ Left.at \in {"idle", "each"}
  BY WalkType DEF Left
<1>4. ASSUME NEW c \in Conns, FirstTry(c)
      PROVE  IInv'
  <2>1. /\ bcast'.todo = bcast.todo /\ bcast'.conn \in {bcast.conn, Nobody}
        /\ bcast'.at = "idle" => bcast'.todo = {} /\ bcast'.conn = Nobody
        /\ bcast' \in [at : {"idle", "each", "lock", "wait"},
                       conn : Conns \cup {Nobody}, todo : SUBSET Conns]
    <3>1. bcast' \in {[bcast EXCEPT !.at = "wait"], Left}
      BY <1>4 DEF FirstTry
    <3>2. CASE bcast' = [bcast EXCEPT !.at = "wait"]
      BY <1>4, <3>2 DEF FirstTry
    <3>3. CASE bcast' = Left
      BY <1>3, <3>3
    <3> QED
      BY <3>1, <3>2, <3>3
  <2>2. buf' \in [Conns -> 0..Capacity]
    BY <1>4, CapacityAssumption DEF FirstTry
  <2> QED
    BY <1>4, <2>1, <2>2 DEF FirstTry
<1>5. ASSUME NEW c \in Conns, Retry(c)
      PROVE  IInv'
  <2>1. bcast' = Left
    BY <1>5 DEF Retry
  <2>2. buf' \in [Conns -> 0..Capacity]
    BY <1>5, CapacityAssumption DEF Retry
  <2> QED
    BY <1>3, <1>5, <2>1, <2>2 DEF Retry
<1>6. ASSUME NEW c \in Conns, TimeUp(c)
      PROVE  IInv'
  <2>1. bcast' = Left
    BY <1>6 DEF TimeUp
  <2>2. slock' = [slock EXCEPT ![c] = "broadcast"] /\ slock[c] = "free"
    BY <1>6 DEF TimeUp
  <2> QED
    BY <1>3, <1>6, <2>1, <2>2 DEF TimeUp
<1> QED
  BY <1>1, <1>2, <1>4, <1>5, <1>6 DEF BroadcastStep

LEMMA DispatchSteps ==
  ASSUME IInv, NEW c \in Conns, Find(c) \/ UseStep(c)
  PROVE  IInv'
<1> USE DEF IInv, ServerInv, TypeOK, MapInv, Bound, ListInv, AcceptInv, Started,
            Nobody, Hung, Live, nodeVars, sendVars
<1>1. CASE Find(c)
  BY <1>1 DEF Find
<1>2. CASE Use(c)
  BY <1>2, CapacityAssumption, NotConns DEF Use
<1>3. CASE UseFreed(c)
  BY <1>3, NotConns DEF UseFreed
<1>4. CASE Crash(c)
  BY <1>4, CapacityAssumption, NotConns DEF Crash, Idle
<1> QED
  BY <1>1, <1>2, <1>3, <1>4 DEF UseStep

LEMMA NextIInv ==
  ASSUME IInv, [Next]_vars
  PROVE  IInv'
<1>1. CASE Next
  BY <1>1, AcceptLoopSteps, NodeSteps, SenderSteps, BroadcastSteps, DispatchSteps
     DEF Next
<1>2. CASE UNCHANGED vars
  BY <1>2 DEF vars, nodeVars, sendVars, IInv, ServerInv, TypeOK, MapInv, Bound,
              ListInv, AcceptInv, Started
<1> QED
  BY <1>1, <1>2

-----------------------------------------------------------------------------
(* The results.                                                            *)

\* The parts of every connection come and go together.
THEOREM ServerInvHolds == Spec => []ServerInv
<1>1. IInv => ServerInv
  BY DEF IInv
<1> QED
  BY <1>1, InitIInv, NextIInv, PTL DEF Spec

\* The clients a broadcast visits are not freed, however they come and go; in
\* m_connmap are the handlers of live connections, and of those that are closed
\* exactly the binds but one, so that dispatch() uses a handler that is gone only
\* after several binds on its connection.
THEOREM HandlersAliveHolds == Spec => []HandlersAlive
<1>1. IInv => HandlersAlive
  BY DEF IInv, ServerInv, TypeOK, MapInv, Bound, ListInv, HandlersAlive, Live, Nobody,
         Conns
<1> QED
  BY <1>1, InitIInv, NextIInv, PTL DEF Spec

\* Broadcasts and replies put packages only into the buffers of a send thread that
\* exists.
THEOREM SendsAliveHolds == Spec => SendsAlive
<1>1. ASSUME IInv, Next, NEW c \in Conns, disp' = disp, buf'[c] > buf[c]
      PROVE  sender[c] # "none"
  <2> USE <1>1 DEF IInv, ServerInv, TypeOK, Live, Nobody, nodeVars, sendVars
  <2>1. buf' # buf
    OBVIOUS
  <2>2. ASSUME NEW d \in Conns, Reply(d)
        PROVE  sender[c] # "none"
    BY <2>2 DEF Reply
  <2>3. ASSUME NEW d \in Conns, FirstTry(d) \/ Retry(d)
        PROVE  sender[c] # "none"
    <3>1. buf' = [buf EXCEPT ![d] = IF sender[d] = "none" THEN buf[d] ELSE buf[d] + 1]
      BY <2>1, <2>3 DEF FirstTry, Retry
    <3> QED
      BY <3>1
  <2>4. ASSUME NEW d \in Conns, Find(d) \/ UseStep(d)
        PROVE  FALSE
    BY <2>4, NotConns DEF Find, UseStep, Use, UseFreed, Crash
  <2>5. ASSUME NEW d \in Conns, JoinSender(d) \/ Take(d)
        PROVE  sender[c] # "none"
    BY <2>5 DEF JoinSender, Take
  <2>6. ~StartBroadcast
    BY <2>1 DEF StartBroadcast
  <2>7. ASSUME NEW d \in Conns,
               \/ (\E e \in Conns : Accept(d, e)) \/ Push(d) \/ Lost(d)
               \/ OnConnect(d) \/ ReadBind(d) \/ ReadCheckLink(d) \/ Timeout(d)
        PROVE  FALSE
    BY <2>1, <2>7 DEF Accept, Push, Lost, OnConnect, ReadBind, ReadCheckLink, Timeout
  <2>8. ASSUME NEW d \in Conns,
               \/ SeesEnd(d) \/ Close(d) \/ TakeSendLock(d) \/ Die(d)
               \/ WriteOk(d) \/ WriteFails(d) \/ NextClient(d) \/ TimeUp(d)
        PROVE  FALSE
    BY <2>1, <2>8 DEF SeesEnd, Close, TakeSendLock, Die, WriteOk, WriteFails,
                      NextClient, TimeUp
  <2> QED
    BY <1>1, <2>2, <2>3, <2>4, <2>5, <2>6, <2>7, <2>8
       DEF Next, NodeStep, SenderStep, BroadcastStep
<1>2. IInv /\ [Next]_vars =>
        [\A c \in Conns : disp' = disp /\ buf'[c] > buf[c] => sender[c] # "none"]_vars
  BY <1>1 DEF vars
<1> QED
  BY <1>2, InitIInv, NextIInv, PTL DEF Spec, SendsAlive
=============================================================================
