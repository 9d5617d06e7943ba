---------------------------- MODULE CircularQueue ----------------------------
(***************************************************************************)
(* circular_bounded_queue<T, Mt> (include/circular_queue.hpp) as the       *)
(* project's makefiles build it: none of the __VER4QUEUE_*__ macros is     *)
(* defined, so blocking is the "timed wait" flavour and the multi-threaded *)
(* operations wrap the single-threaded ones in mutexPush_ / mutexPop_.     *)
(*                                                                         *)
(* One step is one access to shared memory or one mutex/condition call.    *)
(* The fill test and the slot, count and index updates take no lock: a     *)
(* thread that finds room writes outside mutex_, and notify_one() is       *)
(* called outside mutex_ too, so a wakeup can be lost; what recovers from  *)
(* it is the 500 ms deadline of the waiter.  With one producer and one     *)
(* consumer mutexPush_ and mutexPop_ are never contended and the module is *)
(* the Mt = false_tag queue.                                               *)
(***************************************************************************)
EXTENDS Naturals, Sequences

CONSTANTS
  Producers, Consumers,  \* the threads that push, the threads that pop
  Values,                \* what can be queued
  NoValue, NoThread,     \* "nothing read yet", "mutex free"
  Capacity,              \* capacity_
  CountRange             \* number of values of size_t: counts wrap there

ASSUME ThreadsAssumption ==
  /\ Producers \cap Consumers = {}
  /\ NoThread \notin Producers \cup Consumers
  /\ NoValue \notin Values

ASSUME CapacityAssumption ==
  /\ Capacity \in Nat \ {0}
  /\ CountRange \in Nat
  /\ Capacity < CountRange

Threads == Producers \cup Consumers
Modes   == {"wait", "try", "timed"}   \* push/pop, try_*, timed_*

VARIABLES
  buffer,       \* buffer_: slot -> value
  pushCount, popCount, pushIndex, popIndex,
  outer,        \* holder of mutexPush_ (outer["push"]) and of mutexPop_
  mutex,        \* holder of mutex_
  pc, mode, val \* per thread: next step, flavour, the T it carries

vars == <<buffer, pushCount, popCount, pushIndex, popIndex,
          outer, mutex, pc, mode, val>>
shared == <<buffer, pushCount, popCount, pushIndex, popIndex>>

Slots == 0 .. Capacity - 1

Init ==
  /\ buffer = [i \in Slots |-> NoValue]
  /\ pushCount = 0 /\ popCount = 0 /\ pushIndex = 0 /\ popIndex = 0
  /\ outer = [s \in {"push", "pop"} |-> NoThread]
  /\ mutex = NoThread
  /\ pc   = [t \in Threads |-> "idle"]
  /\ mode = [t \in Threads |-> "wait"]
  /\ val  = [t \in Threads |-> NoValue]

------------------------------------------------------------------------------
(* Arithmetic of the counters and indices.                                 *)

\* size(): size_t subtraction, so the difference is taken modulo 2^w.
Size == IF pushCount >= popCount THEN pushCount - popCount
                                 ELSE pushCount + CountRange - popCount

\* Mutant: room is tested off by one.
is_not_full_OffByOne == Size <= Capacity

is_not_empty == pushCount # popCount
is_not_full  == Size < Capacity

\* ++pushCount_ and ++popCount_ on an unsigned type.
NextCount(n) == IF n = CountRange - 1 THEN 0 ELSE n + 1

\* Mutant: the wrap is tested against capacity_ instead of highIndex_.
NextIndexLateWrap(i) == IF i = Capacity THEN 0 ELSE i + 1

\* The wrap of pushIndex_ and popIndex_ at highIndex_.
NextIndex(i) == IF i = Capacity - 1 THEN 0 ELSE i + 1

\* The condition a thread waits for: room for a push, a value for a pop.
Ready(t) == IF t \in Producers THEN is_not_full ELSE is_not_empty

Side(t) == IF t \in Producers THEN "push" ELSE "pop"

Goto(t, from, to) ==
  /\ pc[t] = from
  /\ pc' = [pc EXCEPT ![t] = to]

------------------------------------------------------------------------------
(* Calling, and the outer mutex of the mt_ operations.                     *)

CallPush(p) ==
  /\ Goto(p, "idle", "enter")
  /\ \E m \in Modes, v \in Values :
       /\ mode' = [mode EXCEPT ![p] = m]
       /\ val'  = [val EXCEPT ![p] = v]
  /\ UNCHANGED <<shared, outer, mutex>>

CallPop(c) ==
  /\ Goto(c, "idle", "enter")
  /\ \E m \in Modes : mode' = [mode EXCEPT ![c] = m]
  /\ UNCHANGED <<shared, outer, mutex, val>>

\* Mutant: the mt_ operation forgets its outer lock.
EnterUnlocked(t) ==
  /\ Goto(t, "enter", "check")
  /\ UNCHANGED <<shared, outer, mutex, mode, val>>

\* scoped_lock lock(mutexPush_) or lock(mutexPop_).
Enter(t) ==
  /\ Goto(t, "enter", "check")
  /\ outer[Side(t)] = NoThread
  /\ outer' = [outer EXCEPT ![Side(t)] = t]
  /\ UNCHANGED <<shared, mutex, mode, val>>

\* The scoped_lock's destructor; the operation returns, and its arguments
\* and result are the caller's business.
Leave(t) ==
  /\ pc[t] \in {"leave", "refused"}
  /\ pc' = [pc EXCEPT ![t] = "idle"]
  /\ outer' = [outer EXCEPT ![Side(t)] = NoThread]
  /\ mode'  = [mode EXCEPT ![t] = "wait"]
  /\ val'   = [val EXCEPT ![t] = NoValue]
  /\ UNCHANGED <<shared, mutex>>

------------------------------------------------------------------------------
(* The unlocked test, and the wait under mutex_ when it fails.             *)

Check(t) ==
  /\ pc[t] = "check"
  /\ pc' = [pc EXCEPT ![t] = IF Ready(t) THEN "slot"
                             ELSE IF mode[t] = "try" THEN "refused" ELSE "lock"]
  /\ UNCHANGED <<shared, outer, mutex, mode, val>>

\* mutex_ is taken before the first predicate, and again when a wait ends.
Lock(t) ==
  /\ pc[t] \in {"lock", "woken", "expired"}
  /\ mutex = NoThread
  /\ mutex' = t
  /\ pc' = [pc EXCEPT ![t] = IF pc[t] = "expired" THEN "last" ELSE "pred"]
  /\ UNCHANGED <<shared, outer, mode, val>>

\* Mutant: sleeping without releasing mutex_.
PredHoldingMutex(t) ==
  /\ Goto(t, "pred", IF Ready(t) THEN "slot" ELSE "blocked")
  /\ mutex' = IF Ready(t) THEN NoThread ELSE mutex
  /\ UNCHANGED <<shared, outer, mode, val>>

\* while (!pred()) wait: the wait releases mutex_ and blocks in one step.
Pred(t) ==
  /\ Goto(t, "pred", IF Ready(t) THEN "slot" ELSE "blocked")
  /\ mutex' = NoThread
  /\ UNCHANGED <<shared, outer, mode, val>>

\* Mutant: timed_push() and timed_pop() renew their deadline as well.
LastPredRenewed(t) ==
  /\ Goto(t, "last", IF Ready(t) THEN "slot" ELSE "pred")
  /\ mutex' = IF ~Ready(t) THEN t ELSE NoThread
  /\ UNCHANGED <<shared, outer, mode, val>>

\* The deadline passed: timed_wait returns pred().  push() and pop() set
\* a new deadline and wait again, timed_push() and timed_pop() give up.
LastPred(t) ==
  /\ Goto(t, "last", IF Ready(t) THEN "slot"
                     ELSE IF mode[t] = "timed" THEN "refused" ELSE "pred")
  /\ mutex' = IF ~Ready(t) /\ mode[t] # "timed" THEN t ELSE NoThread
  /\ UNCHANGED <<shared, outer, mode, val>>

\* Mutant: push() and pop() wait without a deadline, as the build with
\* __VER4BUG_QUEUE_BLOCKING_DEADLOCK__ does.
TimeoutOnlyTimed(t) ==
  /\ mode[t] = "timed"
  /\ Goto(t, "blocked", "expired")
  /\ UNCHANGED <<shared, outer, mutex, mode, val>>

Timeout(t) ==
  /\ Goto(t, "blocked", "expired")
  /\ UNCHANGED <<shared, outer, mutex, mode, val>>

\* A condition variable may wake a waiter that nobody notified.
SpuriousWake(t) ==
  /\ Goto(t, "blocked", "woken")
  /\ UNCHANGED <<shared, outer, mutex, mode, val>>

------------------------------------------------------------------------------
(* __do_push: slot, then count, then index.                                *)

WriteSlot(p) ==
  /\ Goto(p, "slot", "count")
  /\ buffer' = [buffer EXCEPT ![pushIndex] = val[p]]
  /\ UNCHANGED <<pushCount, popCount, pushIndex, popIndex, outer, mutex, mode, val>>

CountPush(p) ==
  /\ Goto(p, "count", "index")
  /\ pushCount' = NextCount(pushCount)
  /\ UNCHANGED <<buffer, popCount, pushIndex, popIndex, outer, mutex, mode, val>>

\* The wrap at highIndex_; try_push() returns here without notifying.
AdvancePush(p) ==
  /\ Goto(p, "index", IF mode[p] = "try" THEN "leave" ELSE "notify")
  /\ pushIndex' = NextIndex(pushIndex)
  /\ UNCHANGED <<buffer, pushCount, popCount, popIndex, outer, mutex, mode, val>>

------------------------------------------------------------------------------
(* __do_pop: slot, then count, then index.                                 *)

ReadSlot(c) ==
  /\ Goto(c, "slot", "count")
  /\ val' = [val EXCEPT ![c] = buffer[popIndex]]
  /\ UNCHANGED <<shared, outer, mutex, mode>>

CountPop(c) ==
  /\ Goto(c, "count", "index")
  /\ popCount' = NextCount(popCount)
  /\ UNCHANGED <<buffer, pushCount, pushIndex, popIndex, outer, mutex, mode, val>>

AdvancePop(c) ==
  /\ Goto(c, "index", IF mode[c] = "try" THEN "leave" ELSE "notify")
  /\ popIndex' = NextIndex(popIndex)
  /\ UNCHANGED <<buffer, pushCount, popCount, pushIndex, outer, mutex, mode, val>>

------------------------------------------------------------------------------
\* notify_one() on the other side's condition, without mutex_: at most one
\* thread that is blocked right now wakes; otherwise the signal is lost.
Notify(t) ==
  LET Waiters == {u \in Threads : Side(u) # Side(t) /\ pc[u] = "blocked"}
  IN  /\ pc[t] = "notify"
      /\ IF Waiters = {}
           THEN pc' = [pc EXCEPT ![t] = "leave"]
           ELSE \E u \in Waiters : pc' = [pc EXCEPT ![t] = "leave", ![u] = "woken"]
      /\ UNCHANGED <<shared, outer, mutex, mode, val>>

------------------------------------------------------------------------------
Acquire(t) == Enter(t) \/ Lock(t)

Local(t) ==
  \/ Check(t) \/ Pred(t) \/ LastPred(t) \/ Notify(t) \/ Leave(t)

Push(p) == WriteSlot(p) \/ CountPush(p) \/ AdvancePush(p)
Pop(c)  == ReadSlot(c) \/ CountPop(c) \/ AdvancePop(c)

Next ==
  \/ \E p \in Producers : CallPush(p) \/ Push(p)
  \/ \E c \in Consumers : CallPop(c) \/ Pop(c)
  \/ \E t \in Threads : Acquire(t) \/ Local(t) \/ Timeout(t) \/ SpuriousWake(t)

Spec == Init /\ [][Next]_vars

\* A started operation keeps running (weak fairness); a mutex that is free
\* again and again is obtained in the end, and a wait that is resumed again
\* and again with the same absolute deadline reaches it (strong fairness).
\* Nobody is obliged to call, and nothing is assumed of spurious wakeups.
FairSpec ==
  /\ Spec
  /\ \A p \in Producers : WF_vars(Push(p))
  /\ \A c \in Consumers : WF_vars(Pop(c))
  /\ \A t \in Threads : WF_vars(Local(t)) /\ SF_vars(Acquire(t)) /\ SF_vars(Timeout(t))
------------------------------------------------------------------------------
(* Correctness.                                                            *)

Steps == {"idle", "enter", "check", "lock", "pred", "blocked", "woken", "expired",
          "last", "slot", "count", "index", "notify", "leave", "refused"}
InLocked == {"pred", "last"}

\* Every variable stays in its range; the counts never leave size_t.
TypeOK ==
  /\ buffer \in [Slots -> Values \cup {NoValue}]
  /\ pushCount \in 0 .. CountRange - 1 /\ popCount \in 0 .. CountRange - 1
  /\ pushIndex \in Slots /\ popIndex \in Slots
  /\ outer \in [{"push", "pop"} -> Threads \cup {NoThread}]
  /\ mutex \in Threads \cup {NoThread}
  /\ pc \in [Threads -> Steps]
  /\ mode \in [Threads -> Modes]
  /\ val \in [Threads -> Values \cup {NoValue}]

\* mutexPush_, mutexPop_ and mutex_ are held by exactly the threads inside.
LockInv ==
  /\ \A t \in Threads : pc[t] \notin {"idle", "enter"} <=> outer[Side(t)] = t
  /\ \A t \in Threads : pc[t] \in InLocked <=> mutex = t
  /\ outer["push"] \in Producers \cup {NoThread}
  /\ outer["pop"] \in Consumers \cup {NoThread}

\* The index a side uses next, even between its count and its index update.
PushNext == IF \E p \in Producers : pc[p] = "index" THEN NextIndex(pushIndex) ELSE pushIndex
PopNext  == IF \E c \in Consumers : pc[c] = "index" THEN NextIndex(popIndex) ELSE popIndex

\* The k-th slot after i, round the ring.
SlotAfter(i, k) == IF i + k >= Capacity THEN i + k - Capacity ELSE i + k

\* Counts and indices tell the same story although four separate unlocked
\* stores update them: the queue never overfills, and the producer's slot is
\* always Size slots ahead of the consumer's.
RingInv ==
  /\ Size \in 0 .. Capacity
  /\ PushNext = SlotAfter(PopNext, Size)

\* The test of is_not_full()/is_not_empty() made long before, outside any
\* lock or before mutex_ was released, still holds when the slot is used.
GuardInv ==
  /\ \A p \in Producers : pc[p] \in {"slot", "count"} => is_not_full
  /\ \A c \in Consumers : pc[c] \in {"slot", "count"} => is_not_empty

\* What a thread carries between its slot access and its count update is
\* what the slot holds, and a consumer has nothing before it read a slot.
Carrying == {"count", "index", "notify", "leave"}

CarryInv ==
  /\ \A p \in Producers : pc[p] # "idle" => val[p] \in Values
  /\ \A p \in Producers : pc[p] = "count" => buffer[pushIndex] = val[p]
  /\ \A c \in Consumers : pc[c] = "count" => buffer[popIndex] = val[c]
  /\ \A c \in Consumers : pc[c] \notin Carrying => val[c] = NoValue
  /\ \A i \in 0 .. Capacity - 1 : i < Size => buffer[SlotAfter(PopNext, i)] \in Values

\* Inductive: every step of every thread preserves the conjunction.
QueueInv == TypeOK /\ LockInv /\ RingInv /\ GuardInv /\ CarryInv

\* The unsynchronised store to buffer_[pushIndex_] and the load from
\* buffer_[popIndex_] never meet on one slot: no half-written T is read.
NoSlotRace ==
  \A p \in Producers, c \in Consumers :
    pc[p] = "slot" /\ pc[c] = "slot" => pushIndex # popIndex

------------------------------------------------------------------------------
(* Refinement: the operation takes effect at its count update, a refusal   *)
(* at the failed test.                                                     *)

Contents == [i \in 1 .. Size |-> buffer[SlotAfter(PopNext, i - 1)]]

PhaseOf(t) ==
  IF pc[t] = "idle" THEN "idle"
  ELSE IF pc[t] = "refused" THEN "refused"
  ELSE IF pc[t] \in {"index", "notify", "leave"} THEN "done"
  ELSE "open"

Phase  == [t \in Threads |-> PhaseOf(t)]
Result == [t \in Threads |->
             IF t \in Consumers /\ pc[t] = "count" THEN NoValue ELSE val[t]]

Fifo == INSTANCE BoundedQueue WITH items <- Contents, phase <- Phase, val <- Result

\* Values leave in the order they entered, none lost, none twice, and every
\* operation (with its refusals) is atomic between its call and its return.
IsBoundedQueue == Fifo!Spec

------------------------------------------------------------------------------
(* Liveness.                                                               *)

\* A producer inside push() or timed_push() for which there is room gets
\* through, although condPush_ may have been notified before it waited.
PushProceeds ==
  \A p \in Producers :
    (outer["push"] = p /\ is_not_full) ~> pc[p] = "idle"

\* A consumer that holds mutexPop_ while something is queued gets it, even
\* when the value came from try_push(), which never notifies.
PopProceeds ==
  \A c \in Consumers :
    (outer["pop"] = c /\ is_not_empty) ~> pc[c] = "idle"

\* timed_push() and timed_pop() give up: once past the outer mutex they end
\* whatever the other side does.
TimedEnds ==
  \A t \in Threads :
    (outer[Side(t)] = t /\ mode[t] # "wait") ~> pc[t] = "idle"
=============================================================================
