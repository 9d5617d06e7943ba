---------------------------- MODULE BoundedQueue ----------------------------
(***************************************************************************)
(* What circular_bounded_queue promises to its callers: a bounded FIFO     *)
(* queue in which every operation takes effect in one instant between its  *)
(* call and its return.  A blocking operation ("wait") takes effect        *)
(* sooner or later; a "try" or "timed" one may be refused instead, but     *)
(* only at an instant at which the queue really is full (for a push) or    *)
(* really is empty (for a pop).                                            *)
(***************************************************************************)
EXTENDS Naturals, Sequences

CONSTANTS Producers, Consumers, Values, NoValue, Capacity

VARIABLES
  items,   \* the queued values, oldest first
  phase,   \* where each thread stands in its current operation
  mode,    \* which flavour of operation each thread runs
  val      \* the argument of a push, the result of a pop

vars == <<items, phase, mode, val>>

Threads == Producers \cup Consumers
Modes   == {"wait", "try", "timed"}
Phases  == {"idle", "open", "done", "refused"}

Init ==
  /\ items = <<>>
  /\ phase = [t \in Threads |-> "idle"]
  /\ mode  = [t \in Threads |-> "wait"]
  /\ val   = [t \in Threads |-> NoValue]

Invoke(t, m, v) ==
  /\ phase[t] = "idle"
  /\ phase' = [phase EXCEPT ![t] = "open"]
  /\ mode'  = [mode EXCEPT ![t] = m]
  /\ val'   = [val EXCEPT ![t] = v]
  /\ UNCHANGED items

CallPush(p) == \E m \in Modes, v \in Values : Invoke(p, m, v)
CallPop(c)  == \E m \in Modes : Invoke(c, m, NoValue)

Put(p) ==
  /\ phase[p] = "open"
  /\ Len(items) < Capacity
  /\ items' = Append(items, val[p])
  /\ phase' = [phase EXCEPT ![p] = "done"]
  /\ UNCHANGED <<mode, val>>

Get(c) ==
  /\ phase[c] = "open"
  /\ Len(items) > 0
  /\ val'   = [val EXCEPT ![c] = Head(items)]
  /\ items' = Tail(items)
  /\ phase' = [phase EXCEPT ![c] = "done"]
  /\ UNCHANGED mode

Refuse(t) ==
  /\ phase[t] = "open"
  /\ mode[t] # "wait"
  /\ IF t \in Producers THEN Len(items) = Capacity ELSE Len(items) = 0
  /\ phase' = [phase EXCEPT ![t] = "refused"]
  /\ UNCHANGED <<items, mode, val>>

Return(t) ==
  /\ phase[t] \in {"done", "refused"}
  /\ phase' = [phase EXCEPT ![t] = "idle"]
  /\ mode'  = [mode EXCEPT ![t] = "wait"]
  /\ val'   = [val EXCEPT ![t] = NoValue]
  /\ UNCHANGED items

Next ==
  \/ \E p \in Producers : CallPush(p) \/ Put(p)
  \/ \E c \in Consumers : CallPop(c) \/ Get(c)
  \/ \E t \in Threads : Refuse(t) \/ Return(t)

Spec == Init /\ [][Next]_vars
=============================================================================
