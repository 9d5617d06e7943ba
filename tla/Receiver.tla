------------------------------ MODULE Receiver ------------------------------
(***************************************************************************)
(* The receiving end of a ZTP link: doSendRecord() and OnIdle() of         *)
(* ZTPServerHandler and of ZTPClient take records out of packages, and put *)
(* a record that was cut into several packages together.                   *)
(*                                                                         *)
(* A package is the pieces of data in it, each behind a record header, and *)
(* whether its status is ZTP_CMD_STATUS_PKGSEG.  A receiver is what its    *)
(* m_rcvbuf holds (m_info.data_len of it) and what it gave to OnReceive(). *)
(***************************************************************************)
EXTENDS Naturals, Sequences, SequencesExt

CONSTANT PkgSize  \* ZTPSendThread::m_pkgsize

ZTP_HEADER_SIZE == 11
ZTP_RECORD_HEADER_SIZE == 10

NewReceiver == [held |-> <<>>, given |-> <<>>]

Size(pieces) ==
    FoldLeft(LAMBDA n, data : n + ZTP_RECORD_HEADER_SIZE + Len(data), 0, pieces)

\* Mutant: m_info.data_len is not reset when a record is complete.
Take_Keeps(r, data) == [held |-> r.held \o data, given |-> Append(r.given, r.held \o data)]

\* A piece ends the record that m_rcvbuf holds, or is a record of its own.
Take(r, data) == [held |-> <<>>, given |-> Append(r.given, r.held \o data)]

\* The loop over the records of a package.  The server goes on behind the length
\* of the whole record: what follows the last piece of a cut record is not read.
RECURSIVE Rounds(_, _, _, _, _)
Rounds(r, pieces, offset, pure_data_len, server) ==
    IF offset >= pure_data_len THEN r
    ELSE IF Len(Head(pieces)) + offset > pure_data_len THEN r
    ELSE Rounds(Take(r, Head(pieces)),
                IF server /\ r.held # <<>> THEN <<>> ELSE Tail(pieces),
                offset + ZTP_RECORD_HEADER_SIZE + Len(Head(pieces))
                  + (IF server THEN Len(r.held) ELSE 0),
                pure_data_len, server)

\* doSendRecord(): a package that is no more than headers is not looked at.
doSendRecord(r, package, server) ==
    LET pure_data_len == Size(package.pieces) - ZTP_RECORD_HEADER_SIZE IN
    IF Size(package.pieces) <= ZTP_RECORD_HEADER_SIZE THEN r
    ELSE IF package.seg THEN [r EXCEPT !.held = @ \o Head(package.pieces)]
    ELSE Rounds(r, package.pieces, 0, pure_data_len, server)

\* OnIdle(), after a second without data: what is held is given as it is; the
\* client goes on holding it.
OnIdle(r, server) ==
    IF r.held = <<>> THEN r
    ELSE [held |-> IF server THEN <<>> ELSE r.held, given |-> Append(r.given, r.held)]

-----------------------------------------------------------------------------
(* A reference: records packed and cut as the two functions expect them.   *)

MaxPiece == PkgSize - ZTP_HEADER_SIZE - ZTP_RECORD_HEADER_SIZE

\* Pieces of MaxPiece bytes, the last of what is left, alone in its package.
Pieces(data) ==
    LET count == (Len(data) + MaxPiece - 1) \div MaxPiece
    IN [k \in 1..count |->
          [seg |-> k < count,
           pieces |-> <<SubSeq(data, (k - 1) * MaxPiece + 1,
                               IF k < count THEN k * MaxPiece ELSE Len(data))>>]]

Fits(package, data) ==
    ZTP_HEADER_SIZE + Size(package.pieces) + ZTP_RECORD_HEADER_SIZE + Len(data) <= PkgSize

EmptyPackage == [seg |-> FALSE, pieces |-> <<>>]

\* A record joins the package that is being filled if it fits; a new one is begun
\* behind a record that was cut.
Pack(packages, data) ==
    CASE Len(data) > MaxPiece -> packages \o Pieces(data) \o <<EmptyPackage>>
      [] packages # <<>> /\ Fits(Last(packages), data) ->
           Append(Front(packages), [Last(packages) EXCEPT !.pieces = Append(@, data)])
      [] OTHER -> Append(packages, [seg |-> FALSE, pieces |-> <<data>>])

Packages(records) == FoldLeft(Pack, <<>>, records)

\* What a receiver makes of packages that come one by one, with an idle second
\* after each package that does not cut a record, if the link is slow.
Receive(packages, server, slow) ==
    FoldLeft(LAMBDA r, package :
                LET s == doSendRecord(r, package, server)
                IN IF slow /\ ~package.seg THEN OnIdle(s, server) ELSE s,
             NewReceiver, packages).given

\* An empty record that ends its package is never given.
Shown(packages) ==
    \A i \in DOMAIN packages :
        packages[i].pieces # <<>> => Last(packages[i].pieces) # <<>>
=============================================================================
