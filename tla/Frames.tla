------------------------------- MODULE Frames -------------------------------
(***************************************************************************)
(* Packages on a connection: what ZTPSendThread::doSend() writes of one,   *)
(* and how ZTPServerHandler::OnRead() and ZTPClient::doRead() find them in *)
(* what TCPSocket::ReadAll() makes of the pieces that recv() returns.      *)
(*                                                                         *)
(* A byte is a value and the positions of the key it was combined with by  *)
(* exclusive or: none, if it can be read.  The BCM header is three bytes   *)
(* (magic, package_len, isCompress) and ZTP_CMD one, the command.          *)
(***************************************************************************)
EXTENDS Integers, Sequences, SequencesExt

CONSTANT KeyLen  \* of the key of Encrypt::Encode()

ZTP_BCM_HEADER_SIZE == 3
ZTP_CMD_SIZE == 1
ZTP_FRAME_SIZE == ZTP_BCM_HEADER_SIZE + ZTP_CMD_SIZE
BufLen == 16

Plain(value) == <<value, {}>>
Value(byte) == byte[1]
IsPlain(byte) == byte[2] = {}

\* Encode(), which is Decode() as well.
Encode(bytes) ==
    [i \in DOMAIN bytes |-> <<Value(bytes[i]), SymDiff(bytes[i][2], {i % KeyLen})>>]

\* LZO, of which only matters that a block gives its data back when it is whole.
Compress(data) == <<Plain(<<"lzo", data>>), Plain(<<"end", Len(data)>>)>>

IsBlock(bytes) ==
    /\ Len(bytes) = 2 /\ \A i \in 1 .. 2 : IsPlain(bytes[i])
    /\ Value(bytes[1])[1] = "lzo" /\ Value(bytes[2])[1] = "end"
    /\ Len(Value(bytes[1])[2]) = Value(bytes[2])[2]

DeCompress(bytes) == Value(bytes[1])[2]

Content(p) == <<Plain(<<"cmd", p.cmd>>)>> \o p.data

\* doSend(): one package as it is written.
Frame(p, compress, encrypt) ==
    LET packed == compress /\ p.data # <<>>
        body   == IF packed THEN <<Head(Content(p))>> \o Compress(p.data) ELSE Content(p)
        head   == <<Plain(<<"magic", 0>>), Plain(<<"len", Len(body)>>), Plain(<<"flag", packed>>)>>
    IN IF encrypt THEN Encode(head) \o Encode(body) ELSE head \o body

-----------------------------------------------------------------------------
(* A connection is the pieces in which recv() returns what arrived, <<>>   *)
(* for one that a signal interrupts, and what comes then: EOF or an error. *)

SetIn(buf, at, bytes) ==
    [i \in DOMAIN buf |-> IF i \in at + 1 .. at + Len(bytes) THEN bytes[i - at] ELSE buf[i]]

\* recv(): as much of the first piece as is asked for; flag is whether m_rflag is
\* positive.
Recv(conn, len) ==
    LET piece == Head(conn.pieces)
        n     == IF Len(piece) <= len THEN Len(piece) ELSE len
    IN [got |-> SubSeq(piece, 1, n),
        conn |-> [conn EXCEPT !.flag = n > 0,
                    !.pieces = IF n = Len(piece) THEN Tail(@)
                               ELSE <<SubSeq(piece, n + 1, Len(piece))>> \o Tail(@)]]

\* Mutant: EINTR ends the read like any other error.
RECURSIVE ReadAll_NoRetry(_, _, _)
ReadAll_NoRetry(conn, len, got) ==
    LET next == Recv(conn, len - Len(got)) IN
    CASE Len(got) = len -> [ret |-> len, got |-> got, conn |-> conn]
      [] Len(got) # len /\ (conn.pieces = <<>> \/ Head(conn.pieces) = <<>>) ->
           [ret |-> -1, got |-> got, conn |-> [conn EXCEPT !.flag = FALSE]]
      [] OTHER -> ReadAll_NoRetry(next.conn, len, got \o next.got)

\* ReadAll(): got are the bytes so far.  At EOF it returns what it has.
RECURSIVE ReadAll(_, _, _)
ReadAll(conn, len, got) ==
    LET next == Recv(conn, len - Len(got)) IN
    CASE Len(got) = len -> [ret |-> len, got |-> got, conn |-> conn]
      [] Len(got) # len /\ conn.pieces = <<>> ->
           [ret |-> IF conn.end = "EOF" THEN Len(got) ELSE -1, got |-> got,
            conn |-> [conn EXCEPT !.flag = FALSE]]
      [] OTHER -> ReadAll(next.conn, len, got \o next.got)

-----------------------------------------------------------------------------
(* An end s has a connection, m_buf, whether the connection is open, and   *)
(* the packages it has been given: command and data.                       *)

NewEnd(conn, server) ==
    [conn |-> conn, buf |-> [i \in 1 .. BufLen |-> Plain(<<"none", 0>>)], open |-> TRUE,
     server |-> server, given |-> <<>>]

Closed(s) == [s EXCEPT !.open = FALSE]

\* A read into m_buf at an offset; what it does not fill keeps its old content.
Fetch(s, at, len) ==
    LET r == ReadAll(s.conn, len, <<>>)
    IN [ret |-> r.ret, end |-> [s EXCEPT !.conn = r.conn, !.buf = SetIn(@, at, r.got),
                                         !.open = r.conn.flag]]

HasMagic(buf) == buf[1] = Plain(<<"magic", 0>>)

Decoded(s, at, len) ==
    [s EXCEPT !.buf = SetIn(@, at, Encode(SubSeq(@, at + 1, at + len)))]

\* Commands an end acts on, and commands it takes for nothing; any other ends the
\* connection.
Handled(server) == {"record", "bind", "check"} \cup (IF server THEN {"unbind"} ELSE {})
Ignored(server) == IF server THEN {} ELSE {"unbind", "resp"}

Give(s, total_len) ==
    LET cmd == Value(s.buf[ZTP_FRAME_SIZE])[2]
        data == SubSeq(s.buf, ZTP_FRAME_SIZE + 1, total_len)
    IN CASE cmd \in Handled(s.server) ->
              [s EXCEPT !.given = Append(@, [cmd |-> cmd, data |-> data])]
         [] cmd \in Ignored(s.server) -> s
         [] OTHER -> Closed(s)

\* The package whose body has been read: decompressed, if the header says so.
Unpack(s, total_len) ==
    LET bytes == SubSeq(s.buf, ZTP_FRAME_SIZE + 1, total_len) IN
    IF total_len < ZTP_FRAME_SIZE THEN Closed(s)
    ELSE IF ~Value(s.buf[3])[2] \/ (~s.server /\ total_len = ZTP_FRAME_SIZE)
      THEN Give(s, total_len)
    ELSE IF ~IsBlock(bytes) THEN Closed(s)
    ELSE LET data == DeCompress(bytes) IN
         Give([s EXCEPT !.buf = SetIn(SetIn(@, ZTP_FRAME_SIZE, data), 1,
                                      <<Plain(<<"len", Len(data) + ZTP_CMD_SIZE>>)>>)],
              ZTP_FRAME_SIZE + Len(data))

ReadBody(s, encrypted) ==
    LET package_len == Value(s.buf[2])[2]
        body == Fetch(s, ZTP_BCM_HEADER_SIZE, package_len)
    IN CASE body.ret <= 0 -> Closed(body.end)
         [] body.ret > 0 /\ encrypted ->
              Unpack(Decoded(body.end, ZTP_BCM_HEADER_SIZE, package_len),
                     ZTP_BCM_HEADER_SIZE + package_len)
         [] OTHER -> Unpack(body.end, ZTP_BCM_HEADER_SIZE + package_len)

\* OnRead(), doRead(): a header without the magic number is decoded once.
OnRead(s) ==
    LET head == Fetch(s, 0, ZTP_BCM_HEADER_SIZE)
        turned == Decoded(head.end, 0, ZTP_BCM_HEADER_SIZE)
    IN CASE head.ret <= 0 -> Closed(head.end)
         [] head.ret > 0 /\ HasMagic(head.end.buf) -> ReadBody(head.end, FALSE)
         [] head.ret > 0 /\ ~HasMagic(head.end.buf) /\ HasMagic(turned.buf) -> ReadBody(turned, TRUE)
         [] OTHER -> Closed(turned)

\* The loop of TCPClientNode::run() and ZTPClient::run(): while reads succeed.
RECURSIVE ReadOn(_)
ReadOn(s) == IF s.open THEN ReadOn(OnRead(s)) ELSE s

-----------------------------------------------------------------------------
(* A reference: the packages sent, as they are cut on the way.             *)

Written(packages, compress, encrypt) ==
    FlattenSeq([i \in DOMAIN packages |-> Frame(packages[i], compress, encrypt)])

\* In pieces of size bytes, the one before which a signal comes excepted.
Cut(bytes, size, signal) ==
    LET count == (Len(bytes) + size - 1) \div size
        Piece(k) == SubSeq(bytes, (k - 1) * size + 1,
                           IF k < count THEN k * size ELSE Len(bytes))
        pieces == [k \in 1 .. count |-> Piece(k)]
    IN IF signal \in 1 .. count THEN InsertAt(pieces, signal, <<>>) ELSE pieces

\* The packages that are whole in the first n bytes, before one that the end refuses.
Arrived(packages, compress, n, server) ==
    LET k == CHOOSE i \in 0 .. Len(packages) :
               /\ Len(Written(SubSeq(packages, 1, i), compress, FALSE)) <= n
               /\ i = Len(packages) \/ Len(Written(SubSeq(packages, 1, i + 1), compress, FALSE)) > n
    IN SubSeq(packages, 1, k)

Refused(server, p) == p.cmd \notin Handled(server) \cup Ignored(server)

Expected(packages, server) ==
    LET upto == SelectInSeq(packages, LAMBDA p : Refused(server, p))
    IN SelectSeq(IF upto = 0 THEN packages ELSE SubSeq(packages, 1, upto - 1),
                 LAMBDA p : p.cmd \in Handled(server))

\* Of a stream that ends after n bytes an end is given the packages that arrived
\* whole, each once, in order and as they were; and one more at most, if EOF came
\* in the middle of its body.
GivesPackages(packages, compress, encrypt, size, signal, n, end, server) ==
    LET bytes   == Written(packages, compress, encrypt)
        whole   == Arrived(packages, compress, n, server)
        left    == n - Len(Written(whole, compress, FALSE))
        expected == Expected(whole, server)
        given   == ReadOn(NewEnd([pieces |-> Cut(SubSeq(bytes, 1, n), size, signal),
                                  end |-> end, flag |-> TRUE], server)).given
    IN /\ IsPrefix(expected, given)
       /\ Len(given) <= Len(expected)
            + (IF end = "EOF" /\ left > ZTP_BCM_HEADER_SIZE THEN 1 ELSE 0)
=============================================================================
