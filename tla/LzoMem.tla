------------------------------- MODULE LzoMem -------------------------------
(***************************************************************************)
(* Compression of data that comes in parts, in memory: CLzoMem, which      *)
(* gathers its input until there is a block to compress, or to decompress, *)
(* and hands the result to a function (Compress, DeCompress) or to its     *)
(* caller (the same with an output, CompressFlush, DeCompressFlush).       *)
(*                                                                         *)
(* A compressed block is its header and what stands for the data; bytes of *)
(* it are <<data of the block, position>>.                                 *)
(***************************************************************************)
EXTENDS Integers, Sequences, SequencesExt

CONSTANT BlockSize    \* m_nBlockSize

HeaderSize == 2       \* sizeof(CompressBlock)
Slack == 1            \* by how much a compressed block may be longer than its data

\* CLzoWrapper, which writes the length of the whole block into its header.
BlockLen(data) == HeaderSize + Len(data) \div 2 + 1
Compressed(data) == [i \in 1 .. BlockLen(data) |-> <<data, i>>]
getPkgLen(bytes) == IF bytes[1][2] = 1 THEN BlockLen(bytes[1][1]) ELSE -1
getCompressLen(len) == len + Slack + HeaderSize

MaxBufLen == 2 * getCompressLen(BlockSize)

\* What is no whole block is handed on as it is, or refused.
IsBlock(bytes) == bytes = Compressed(bytes[1][1])

\* m holds m_pInBuf (so much of it as is used), what the output function was given,
\* how many more calls of it succeed, and whether the call in progress has not
\* failed.
NewMem(calls) == [buf |-> <<>>, out |-> <<>>, calls |-> calls, ok |-> TRUE]

Behind(seq, n) == SubSeq(seq, n + 1, Len(seq))

OutPut(m, bytes) ==
    IF m.calls = 0 THEN [m EXCEPT !.ok = FALSE]
    ELSE [m EXCEPT !.out = @ \o bytes, !.calls = @ - 1]

\* CompressOutPut(): the buffer is empty afterwards, even if the function fails.
CompressOutPut(m) == OutPut([m EXCEPT !.buf = <<>>], Compressed(m.buf))

RECURSIVE Fill(_, _)
Fill(m, rest) ==
    LET n == BlockSize - Len(m.buf) IN
    IF ~m.ok THEN m
    ELSE IF Len(rest) < n THEN [m EXCEPT !.buf = @ \o rest]
    ELSE Fill(CompressOutPut([m EXCEPT !.buf = @ \o SubSeq(rest, 1, n)]), Behind(rest, n))

\* Compress(): a failure drops what is left of the input.
Compress(m, in, forceout) ==
    LET filled == Fill(m, in)
    IN IF filled.ok /\ forceout THEN CompressOutPut(filled) ELSE filled

\* Mutant: what follows the block is not moved to the front of the buffer.
DeCompressBuffer_Drops(m, len) == [m EXCEPT !.buf = <<>>]

\* DeCompressBuffer(): the data of a block, and the buffer without it.
DeCompressBuffer(m, len) == [m EXCEPT !.buf = Behind(@, len)]

DeCompressOutPut(m, len) ==
    IF ~IsBlock(SubSeq(m.buf, 1, len)) THEN [m EXCEPT !.ok = FALSE]
    ELSE OutPut(DeCompressBuffer(m, len), m.buf[1][1])

\* The header is completed first, then the block; what is no block yet is kept.
RECURSIVE DeCompress(_, _)
DeCompress(m, rest) ==
    LET head  == IF Len(m.buf) < HeaderSize THEN HeaderSize - Len(m.buf) ELSE 0
        begun == m.buf \o SubSeq(rest, 1, head)
        total == IF getPkgLen(begun) < 0 THEN Len(begun) ELSE getPkgLen(begun)
        n     == IF Len(m.buf) < total THEN total - Len(m.buf) ELSE 0
    IN IF ~m.ok THEN m
       ELSE IF Len(m.buf) + Len(rest) <= HeaderSize
               \/ Len(m.buf) + Len(rest) < getPkgLen(begun)
         THEN [m EXCEPT !.buf = @ \o rest]
       ELSE DeCompress(DeCompressOutPut([m EXCEPT !.buf = @ \o SubSeq(rest, 1, n)], total),
                       Behind(rest, n))

-----------------------------------------------------------------------------
(* The calls whose caller takes the output: 2 if there is some, 0 if there *)
(* is none, less if the call failed.                                       *)

Result(ret, out, m) == [ret |-> ret, out |-> out, mem |-> m]

PullCompress(m, in) ==
    LET n == BlockSize - Len(m.buf) IN
    IF Len(in) > BlockSize THEN Result(-1, <<>>, m)
    ELSE IF Len(in) < n THEN Result(0, <<>>, [m EXCEPT !.buf = @ \o in])
    ELSE Result(2, Compressed(m.buf \o SubSeq(in, 1, n)), [m EXCEPT !.buf = Behind(in, n)])

CompressFlush(m) ==
    IF m.buf = <<>> THEN Result(0, <<>>, m)
    ELSE Result(2, Compressed(m.buf), [m EXCEPT !.buf = <<>>])

\* The block at the front of the buffer, if it is there as a whole.
First(m) ==
    LET pkg   == getPkgLen(m.buf)
        total == IF pkg = -1 THEN Len(m.buf) ELSE pkg
    IN IF Len(m.buf) < total THEN Result(0, <<>>, m)
       ELSE IF ~IsBlock(SubSeq(m.buf, 1, total)) THEN Result(-1, <<>>, m)
       ELSE Result(2, m.buf[1][1], DeCompressBuffer(m, total))

\* Input that leaves no more than a header in the buffer, or fills it, is not taken.
Takes(m, in) == Len(m.buf) + Len(in) \in HeaderSize + 1 .. MaxBufLen - 1

\* The test of the buffer's length comes last, and counts input that was taken twice.
PullDeCompress(m, in) ==
    LET left   == IF Takes(m, in) THEN [m EXCEPT !.buf = @ \o in] ELSE m
        result == First(left)
    IN IF Takes(m, in) /\ result.ret # 0 THEN result
       ELSE Result(IF Len(left.buf) + Len(in) > MaxBufLen THEN -2 ELSE 0, <<>>, left)

DeCompressFlush(m) == IF Len(m.buf) > HeaderSize THEN First(m) ELSE Result(0, <<>>, m)

-----------------------------------------------------------------------------
(* A reference: data that goes through both, in parts.                     *)

Parts(bytes, size) ==
    LET count == (Len(bytes) + size - 1) \div size
    IN [k \in 1 .. count |-> SubSeq(bytes, (k - 1) * size + 1,
                                    IF k < count THEN k * size ELSE Len(bytes))]

\* Data compressed in parts of one size and decompressed in parts of another comes
\* out as it went in; when an output function fails, the beginning of it does.
StreamsWhole(data, part, fragment, calls) ==
    LET fed    == FoldLeft(LAMBDA m, in : IF m.ok THEN Compress(m, in, FALSE) ELSE m,
                           NewMem(calls), Parts(data, part))
        packed == IF fed.ok /\ fed.buf # <<>> THEN Compress(fed, <<>>, TRUE) ELSE fed
        back   == FoldLeft(DeCompress, NewMem(Len(data)), Parts(packed.out, fragment))
    IN /\ back.ok /\ back.buf = <<>>
       /\ IF packed.ok THEN back.out = data ELSE IsPrefix(back.out, data)

\* One call, its output taken, and flushing until nothing is left to take.
RECURSIVE Drain(_)
Drain(r) ==
    LET next == DeCompressFlush(r.mem)
    IN IF next.ret = 2 THEN Drain([next EXCEPT !.out = r.out \o next.out]) ELSE r

Pulled(r, in) ==
    LET next == PullDeCompress(r.mem, in)
    IN [Drain([next EXCEPT !.out = r.out \o @]) EXCEPT !.ret = IF Takes(r.mem, in) THEN r.ret ELSE -1]

\* The same with calls whose caller takes the output, as long as each call of
\* DeCompress() brings what it takes.
PullsWhole(data, part, fragment) ==
    LET Packed(r, in) == LET next == PullCompress(r.mem, in)
                         IN [next EXCEPT !.out = r.out \o @]
        fed    == FoldLeft(Packed, Result(0, <<>>, NewMem(0)), Parts(data, part))
        packed == fed.out \o CompressFlush(fed.mem).out
        back   == FoldLeft(Pulled, Result(0, <<>>, NewMem(0)), Parts(packed, fragment))
    IN part <= BlockSize /\ back.ret = 0 => back.out = data /\ back.mem.buf = <<>>
=============================================================================
