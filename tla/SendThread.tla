----------------------------- MODULE SendThread -----------------------------
(***************************************************************************)
(* How a ZTP client sends (communication/baseutils/ZTPSendThread.cpp and   *)
(* the sending half of ZTPClient.cpp).  Callers add records to a package   *)
(* that is being filled; a package that is full, or that the send thread   *)
(* finds when nothing else waits, goes to the send buffer (SendBuffer).    *)
(* A record that is larger than a package is cut.  The client's own thread *)
(* connects, puts the bind into the same buffer, and only then declares    *)
(* the connection usable; it notices when the connection is lost and       *)
(* connects again.  The send thread writes blocks to the one socket.       *)
(*                                                                         *)
(* What is done under m_lock is one step, except for a record that is cut: *)
(* a step for each package, and nobody else has the lock in between.  A    *)
(* write of a package is one step: all of it, or an error.  What has been  *)
(* written to a socket that is then lost may not arrive; nothing is sent   *)
(* again.                                                                  *)
(***************************************************************************)
EXTENDS SendBuffer

CONSTANTS
  Callers,          \* threads of the application
  Kinds,            \* of calls: "record", "headed", "direct"
  Lengths,          \* data_len of the records
  Modes,            \* is there a cache of files (BufMode)
  PkgSize,          \* m_pkgsize
  HeaderSize,       \* ZTP_HEADER_SIZE
  RecordHeaderSize, \* ZTP_RECORD_HEADER_SIZE
  BindSize,         \* what doBind() sends
  Tries,            \* tTimeOut of the callers
  MaxCalls,         \* bound: calls
  MaxBreaks,        \* bound: connections lost
  MaxLinkChecks     \* bound: check-link messages

\* The room for data in a package with one record.
Chunk == PkgSize - HeaderSize - RecordHeaderSize

ASSUME SendThreadAssumption ==
  /\ Modes \subseteq BOOLEAN /\ Modes # {}
  /\ Kinds \subseteq {"record", "headed", "direct"}
  /\ Lengths \subseteq Nat \ {0}
  /\ {PkgSize, HeaderSize, BindSize, Tries} \subseteq Nat /\ RecordHeaderSize \in Nat \ {0}
  /\ {MaxCalls, MaxBreaks, MaxLinkChecks} \subseteq Nat
  /\ PkgSize > HeaderSize + RecordHeaderSize

VARIABLES
  buf,        \* m_pIoBuf, without the block that is sent
  pack,       \* m_pkgBuf, m_pkgbuflen and the status in its header
  out,        \* m_pOutbuf
  at,         \* packages of out that were written or given up
  writer,     \* the send thread: where it stands in doSend()
  isConn,     \* ConnStat
  everConn,   \* ConnTimes() is not 0
  client,     \* the client's thread: where it stands in run()
  connected,  \* m_connected
  sock,       \* m_socket: "none", "open", "broken" (lost, not yet noticed)
  call,       \* each caller's SendData() or SendDataDirectly()
  made, breaks, checks, \* calls, losses and check-links so far
  given       \* history: how many records were accepted

filling == <<buf, pack>>
sending == <<out, at, writer>>
linking == <<client, connected, sock, breaks, checks>>
stat    == <<isConn, everConn>>
asking  == <<call, made, given>>
vars == <<filling, sending, stat, linking, asking>>

Calls == [kind : Kinds, len : Lengths, tries : 0 .. Tries, left : Nat]
NoCall == [kind |-> "none", len |-> 0, tries |-> 0, left |-> 0]

Packs == [len : Nat, seg : BOOLEAN, items : Seq(Items)]
EmptyPack(seg) == [len |-> HeaderSize, seg |-> seg, items |-> <<>>]

\* Start(): the connection is tried once before the threads run.
Init ==
  /\ \E file \in Modes : buf = EmptyBuffer(file)
  /\ pack = EmptyPack(FALSE)
  /\ out = NoBlock /\ at = 0 /\ writer = "loop"
  /\ isConn = FALSE /\ everConn = FALSE
  /\ \/ client = "down" /\ connected = FALSE /\ sock = "none"
     \/ client = "bind" /\ connected = TRUE /\ sock = "open"
  /\ call = [c \in Callers |-> NoCall]
  /\ made = 0 /\ breaks = 0 /\ checks = 0
  /\ given = 0

------------------------------------------------------------------------------
\* Adding.  s is [ok, buf, pack, left], left the packages a record has still
\* to be cut into; an item is a record of n bytes, or its piece from one
\* offset to another.
Piece(id, n, from, to) == [id |-> id, of |-> n, from |-> from, to |-> to]

Command(n) == [kind |-> "command", len |-> HeaderSize + n, seg |-> FALSE, items |-> <<>>]

\* addPkgToSendBuf(): the package goes to the buffer, if there is room.  The
\* status in its header is not touched.
addPkgToSendBuf(s) ==
  LET r == Room(s.buf, s.pack.len + PrefixSize)
      p == [kind |-> "records", len |-> s.pack.len, seg |-> s.pack.seg, items |-> s.pack.items]
  IN  IF s.pack.len <= HeaderSize THEN [s EXCEPT !.ok = TRUE]
      ELSE IF ~r.ok THEN [s EXCEPT !.ok = FALSE, !.buf = r.buf]
      ELSE [s EXCEPT !.ok = TRUE, !.buf = Put(r.buf, p), !.pack = EmptyPack(s.pack.seg)]

Fits(s, n) == s.pack.len + RecordHeaderSize + n <= PkgSize

\* A package with n more bytes of records, in all the items.
Longer(package, n, items) ==
  [len |-> package.len + RecordHeaderSize + n, seg |-> package.seg, items |-> items]

Add(s, id, n) ==
  [s EXCEPT !.ok = TRUE, !.pack = Longer(s.pack, n, Append(s.pack.items, Piece(id, n, 0, n)))]

Pieces(n) == (n + Chunk - 1) \div Chunk

\* One round of the loop of addSuperLenPkgToSendBuf() for record id of n
\* bytes, with left rounds to go.  The offset moves with whole chunks only,
\* and the counter is decremented before it is compared with 1, so two
\* rounds take the branch for the last package.
Cut(s, id, n, left) ==
  LET from == (Pieces(n) - (IF left > 2 THEN left ELSE 2)) * Chunk
      to   == from + (IF left > 2 THEN Chunk ELSE n % Chunk)
  IN  addPkgToSendBuf(
        IF left > 2
          THEN [s EXCEPT !.pack = [len |-> PkgSize, seg |-> TRUE, items |-> <<Piece(id, n, from, to)>>]]
          ELSE [s EXCEPT !.pack = Longer(s.pack, to - from, <<Piece(id, n, from, to)>>)])

\* addSuperLenPkgToSendBuf() before the loop: room for all of the record, and
\* in the loop again for each package, whose failure is ignored.
addSuperLenPkgToSendBuf(s, n) ==
  LET r == Room(s.buf, Pieces(n) * PkgSize)
  IN  [s EXCEPT !.ok = r.ok, !.buf = r.buf, !.left = IF r.ok THEN Pieces(n) ELSE 0]

\* addToPkg().
addToPkg(s, id, n) ==
  LET t == addPkgToSendBuf(s)
  IN  IF Fits(s, n) THEN Add(s, id, n)
      ELSE IF ~t.ok THEN t
      ELSE IF Fits(t, n) THEN Add(t, id, n)
      ELSE addSuperLenPkgToSendBuf(t, n)

\* SendData() with a head in front of the data: nothing is cut.
SendHeaded(s, id, n) ==
  LET t == addPkgToSendBuf(s)
  IN  IF n > Chunk + HeaderSize THEN [s EXCEPT !.ok = FALSE]
      ELSE IF Fits(s, n) THEN Add(s, id, n)
      ELSE IF t.ok THEN Add(t, id, n)
      ELSE t

\* SendPacket(): a package of its own, past the one that is being filled.
SendPacket(s, n) ==
  LET p == Command(n)
      r == Room(s.buf, PrefixSize + p.len)
  IN  [s EXCEPT !.ok = r.ok, !.buf = IF r.ok THEN Put(r.buf, p) ELSE r.buf]

Now == [ok |-> TRUE, buf |-> buf, pack |-> pack, left |-> 0]

\* m_lock is free.
Unlocked == \A c \in Callers : call[c].left = 0

------------------------------------------------------------------------------
\* Callers.

\* ZTPClient::SendData(): a record is refused at once while there is neither
\* a connection nor a cache of files.
Call(c) ==
  /\ call[c] = NoCall /\ made < MaxCalls
  /\ connected \/ (everConn /\ buf.file)
  /\ \E k \in Kinds, n \in Lengths :
       /\ k = "record" => n <= MaxMem
       /\ call' = [call EXCEPT ![c] = [kind |-> k, len |-> n, tries |-> Tries, left |-> 0]]
  /\ made' = made + 1
  /\ UNCHANGED <<filling, sending, stat, linking, given>>

CutInto(request, left) == [request EXCEPT !.left = left]
Again(request) == [request EXCEPT !.tries = @ - 1]

\* One round of its loop: success, another try later, or an error.
Attempt(c) ==
  LET n == call[c].len
      s == CASE call[c].kind = "record" -> addToPkg(Now, given + 1, n)
             [] call[c].kind = "headed" -> SendHeaded(Now, given + 1, n)
             [] call[c].kind = "direct" -> SendPacket(Now, n)
  IN  /\ call[c] # NoCall /\ Unlocked
      /\ buf' = s.buf /\ pack' = s.pack
      /\ given' = IF s.ok /\ s.left = 0 /\ call[c].kind # "direct" THEN given + 1 ELSE given
      /\ call' = [call EXCEPT ![c] =
                    IF s.left > 0 THEN CutInto(@, s.left)
                    ELSE IF s.ok \/ @.tries = 0 THEN NoCall
                    ELSE Again(@)]
      /\ UNCHANGED <<sending, stat, linking, made>>

\* One round of the loop of addSuperLenPkgToSendBuf().
CutRound(c) ==
  LET n == call[c].len
      left == call[c].left
      id == IF left = Pieces(n) THEN given + 1 ELSE given
      s == Cut(Now, id, n, left)
  IN  /\ left > 0
      /\ buf' = s.buf /\ pack' = s.pack /\ given' = id
      /\ call' = [call EXCEPT ![c] = IF left = 1 THEN NoCall ELSE CutInto(@, left - 1)]
      /\ UNCHANGED <<sending, stat, linking, made>>

------------------------------------------------------------------------------
\* The client's thread.

Dial ==
  /\ client = "down"
  /\ client' = "bind" /\ sock' = "open"
  /\ UNCHANGED <<filling, sending, stat, connected, breaks, checks, asking>>

\* ZTPClient::SendPacket(): tried until there is room.
Insist(n, next) ==
  LET s == SendPacket(Now, n)
  IN  /\ Unlocked
      /\ buf' = s.buf
      /\ client' = IF s.ok THEN next ELSE client
      /\ UNCHANGED <<pack, sending, stat, connected, sock, breaks, checks, asking>>

doBind == client = "bind" /\ Insist(BindSize, "join")

Join ==
  /\ client = "join" /\ client' = "up"
  /\ isConn' = TRUE /\ everConn' = TRUE /\ connected' = TRUE
  /\ UNCHANGED <<filling, sending, sock, breaks, checks, asking>>

\* A check-link message is due every minute.
LinkCheckDue ==
  /\ client = "up" /\ checks < MaxLinkChecks
  /\ client' = "check" /\ checks' = checks + 1
  /\ UNCHANGED <<filling, sending, stat, connected, sock, breaks, asking>>

CheckLink == client = "check" /\ Insist(0, "up")

\* Select() and doRead() report the end of the connection.
Notice ==
  /\ client = "up" /\ sock = "broken"
  /\ client' = "down" /\ sock' = "none" /\ connected' = FALSE /\ isConn' = FALSE
  /\ UNCHANGED <<filling, sending, everConn, breaks, checks, asking>>

\* The connection is lost, or the server ends it because nothing arrives.
Break ==
  /\ sock = "open" /\ breaks < MaxBreaks
  /\ sock' = "broken" /\ breaks' = breaks + 1
  /\ UNCHANGED <<filling, sending, stat, client, connected, checks, asking>>

ServerTimeout ==
  /\ sock = "open" /\ client = "up" /\ ~isConn /\ writer \in {"loop", "cache"}
  /\ sock' = "broken"
  /\ UNCHANGED <<filling, sending, stat, client, connected, breaks, checks, asking>>

------------------------------------------------------------------------------
\* The send thread: doSend().

\* Without a connection, and no block idle, what waits goes to the files.
NotConnected ==
  /\ writer = "loop" /\ ~isConn /\ everConn /\ buf.idle = <<>>
  /\ writer' = "cache"
  /\ UNCHANGED <<filling, out, at, stat, linking, asking>>

SetAllBufInFile ==
  /\ writer = "cache" /\ Unlocked /\ writer' = "loop"
  /\ buf' = AllInFile(buf)
  /\ UNCHANGED <<pack, out, at, stat, linking, asking>>

SeesConnection ==
  /\ writer = "loop" /\ isConn
  /\ writer' = "locked"
  /\ UNCHANGED <<filling, out, at, stat, linking, asking>>

\* Mutant: a package leaves when it is full, or not at all.
NextBlock_FullOnly ==
  LET free == FreeBuf(buf, out)
      next == GetOutBuf(free)
  IN  /\ writer = "locked" /\ Unlocked /\ at' = 0
      /\ IF Empty(free) \/ ~isConn
           THEN buf' = free /\ out' = NoBlock /\ writer' = "loop"
           ELSE /\ buf' = next.buf /\ out' = next.out
                /\ writer' = IF next.out.len > 0 THEN "write" ELSE "loop"
      /\ UNCHANGED <<pack, stat, linking, asking>>

\* The step under m_lock: the block that was sent is freed; if nothing waits
\* the package that is being filled goes to the buffer; otherwise the next
\* block is taken, unless the connection has been lost meanwhile.
NextBlock ==
  LET free == FreeBuf(buf, out)
      s == addPkgToSendBuf([Now EXCEPT !.buf = free])
      next == GetOutBuf(free)
  IN  /\ writer = "locked" /\ Unlocked /\ at' = 0
      /\ \/ /\ Empty(free)
            /\ buf' = s.buf /\ pack' = s.pack /\ out' = NoBlock /\ writer' = "loop"
         \/ /\ ~Empty(free) /\ ~isConn
            /\ buf' = free /\ out' = NoBlock /\ writer' = "loop"
            /\ UNCHANGED pack
         \/ /\ ~Empty(free) /\ isConn
            /\ buf' = next.buf /\ out' = next.out
            /\ writer' = IF next.out.len > 0 THEN "write" ELSE "loop"
            /\ UNCHANGED pack
      /\ UNCHANGED <<stat, linking, asking>>

Onward == IF at + 1 < Len(out.packages) THEN "write" ELSE "loop"

\* WriteAll(): it may succeed on a connection that is already lost.
Write ==
  /\ writer = "write" /\ sock # "none"
  /\ at' = at + 1 /\ writer' = Onward
  /\ UNCHANGED <<filling, out, stat, linking, asking>>

WriteFails ==
  /\ writer = "write" /\ sock # "open"
  /\ writer' = "failed"
  /\ UNCHANGED <<filling, out, at, stat, linking, asking>>

\* What the send thread does about it, whatever the client has done since.
ConnClose ==
  /\ writer = "failed"
  /\ isConn' = FALSE
  /\ at' = at + 1 /\ writer' = Onward
  /\ UNCHANGED <<filling, out, everConn, linking, asking>>

Caller(c) == Call(c) \/ Attempt(c) \/ CutRound(c)
Client == Dial \/ doBind \/ Join \/ LinkCheckDue \/ CheckLink \/ Notice
Sender == NotConnected \/ SetAllBufInFile \/ SeesConnection \/ NextBlock
            \/ Write \/ WriteFails \/ ConnClose

Next == (\E c \in Callers : Caller(c)) \/ Client \/ Sender \/ Break \/ ServerTimeout

Spec == Init /\ [][Next]_vars

\* The threads go on, a server that is called answers sooner or later, and
\* one that hears nothing for two minutes ends the connection.
FairSpec == Spec /\ WF_vars(Client) /\ WF_vars(Sender) /\ WF_vars(ServerTimeout)
              /\ \A c \in Callers : WF_vars(CutRound(c))

------------------------------------------------------------------------------
\* Every variable has its type.
TypeOK ==
  /\ buf \in Buffers /\ out \in Blocks /\ pack \in Packs
  /\ writer \in {"loop", "cache", "locked", "write", "failed"}
  /\ at \in 0 .. Len(out.packages)
  /\ writer \in {"write", "failed"} => at < Len(out.packages)
  /\ isConn \in BOOLEAN /\ everConn \in BOOLEAN /\ connected \in BOOLEAN
  /\ client \in {"down", "bind", "join", "up", "check"}
  /\ sock \in {"none", "open", "broken"}
  /\ call \in [Callers -> Calls \cup {NoCall}]
  /\ made \in Nat /\ breaks \in Nat /\ checks \in Nat /\ given \in Nat

\* The lists of blocks keep to NetBufCount, blocks to what they may grow to,
\* and what is in them to their size, whoever adds or takes meanwhile: a
\* peer that is slow or gone costs no more memory than was configured.
SendInv == TypeOK /\ BufferInv(buf) /\ BlockInv(buf.file, out)

\* What waits: the rest of the block that is sent, the buffer, and the
\* package that is being filled.
Ids(items) == [i \in DOMAIN items |-> items[i].id]
ItemsOf(packages) == FlattenSeq([i \in DOMAIN packages |-> packages[i].items])
Unsent == SubSeq(out.packages, IF writer = "failed" THEN at + 2 ELSE at + 1, Len(out.packages))
Line == Ids(ItemsOf(Unsent \o Waiting(buf)) \o pack.items)

\* Records leave in the order in which they were accepted, and none is
\* dropped or taken twice on its way through a batch, blocks, a list, files
\* and a socket that is replaced (addToPkg, SetIn, GetOutBuf, doSend).
Box == INSTANCE Outbox WITH count <- given, line <- Line
IsOutbox == Box!Spec

\* With a cache of files every accepted record is written or given up, even
\* if the connection is lost in between and the send thread's ConnClose()
\* comes after the client has connected again.
AllSent == buf.file =>
  \A i \in 1 .. MaxCalls : given >= i ~> \A k \in DOMAIN Line : Line[k] # i
=============================================================================
