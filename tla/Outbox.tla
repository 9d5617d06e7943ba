------------------------------- MODULE Outbox -------------------------------
(***************************************************************************)
(* What the sending side of a ZTP connection promises to its callers: the  *)
(* records it accepts wait in line in the order in which they were         *)
(* accepted, each in one or more pieces that follow each other, and leave  *)
(* it only at its front, a package at a time.                              *)
(***************************************************************************)
EXTENDS Naturals, Sequences

VARIABLES
  count,    \* records accepted; they are numbered
  line      \* the pieces that wait, the oldest first

vars == <<count, line>>

Init == count = 0 /\ line = <<>>

Accept == count' = count + 1 /\ line' = Append(line, count + 1)

\* Another piece of the record accepted last.
Continue == UNCHANGED count /\ line' = Append(line, count)

Leave ==
  /\ \E k \in 1 .. Len(line) : line' = SubSeq(line, k + 1, Len(line))
  /\ UNCHANGED count

Next == Accept \/ Continue \/ Leave

Spec == Init /\ [][Next]_vars
=============================================================================
