------------------------------ MODULE EventLog ------------------------------
(***************************************************************************)
(* What a file of events promises, whatever its format: who reads it gets  *)
(* the events that were accepted, in their order, and is told that the     *)
(* file is over only when it has them all.                                 *)
(***************************************************************************)
EXTENDS Naturals, Sequences

VARIABLES log, got, phase

vars == <<log, got, phase>>

Init == log = <<>> /\ got = <<>> /\ phase = "writing"

\* One event is added.
Put ==
  /\ phase = "writing"
  /\ log' # <<>> /\ log = SubSeq(log', 1, Len(log') - 1)
  /\ UNCHANGED <<got, phase>>

Finish == phase = "writing" /\ phase' = "reading" /\ UNCHANGED <<log, got>>

Get ==
  /\ phase = "reading" /\ Len(got) < Len(log)
  /\ got' = Append(got, log[Len(got) + 1])
  /\ UNCHANGED <<log, phase>>

Over == phase = "reading" /\ Len(got) = Len(log) /\ phase' = "over" /\ UNCHANGED <<log, got>>

Next == Put \/ Finish \/ Get \/ Over

Spec == Init /\ [][Next]_vars
=============================================================================
