------------------------- MODULE CircularQueueProofs -------------------------
(***************************************************************************)
(* For every number of producers and consumers, every capacity and every   *)
(* width of size_t above it: the invariant of circular_bounded_queue and   *)
(* the refinement of the abstract bounded FIFO queue.                      *)
(***************************************************************************)
EXTENDS CircularQueue, SequenceTheorems, TLAPS

\* Type correctness: every step of every thread keeps every variable in range.
LEMMA TypeStep ==
  ASSUME TypeOK, [Next]_vars PROVE TypeOK'
<1> USE ThreadsAssumption, CapacityAssumption
        DEF TypeOK, Threads, Slots, Steps, Modes, Goto, shared, Side
<1>1. ASSUME NEW p \in Producers, CallPush(p) PROVE TypeOK'
  BY <1>1 DEF CallPush
<1>2. ASSUME NEW p \in Producers, Push(p) PROVE TypeOK'
  BY <1>2 DEF Push, WriteSlot, CountPush, AdvancePush, NextCount, NextIndex
<1>3. ASSUME NEW c \in Consumers, CallPop(c) PROVE TypeOK'
  BY <1>3 DEF CallPop
<1>4. ASSUME NEW c \in Consumers, Pop(c) PROVE TypeOK'
  BY <1>4 DEF Pop, ReadSlot, CountPop, AdvancePop, NextCount, NextIndex
<1>5. ASSUME NEW t \in Threads, Acquire(t) PROVE TypeOK'
  BY <1>5 DEF Acquire, Enter, Lock
<1>6. ASSUME NEW t \in Threads, Local(t) PROVE TypeOK'
  <2>1. CASE Check(t)    BY <2>1 DEF Check
  <2>2. CASE Pred(t)     BY <2>2 DEF Pred
  <2>3. CASE LastPred(t) BY <2>3 DEF LastPred
  <2>4. CASE Notify(t)   BY <2>4 DEF Notify
  <2>5. CASE Leave(t)    BY <2>5 DEF Leave
  <2> QED BY <1>6, <2>1, <2>2, <2>3, <2>4, <2>5 DEF Local
<1>7. ASSUME NEW t \in Threads, Timeout(t) \/ SpuriousWake(t) PROVE TypeOK'
  BY <1>7 DEF Timeout, SpuriousWake
<1>8. CASE UNCHANGED vars
  BY <1>8 DEF vars
<1> QED BY <1>1, <1>2, <1>3, <1>4, <1>5, <1>6, <1>7, <1>8 DEF Next

\* Each mutex has exactly the holder the program counters say it has.
LEMMA LockStep ==
  ASSUME TypeOK, LockInv, [Next]_vars PROVE LockInv'
<1> USE ThreadsAssumption
        DEF TypeOK, LockInv, Threads, Steps, Goto, shared, Side, InLocked
<1>1. ASSUME NEW p \in Producers, CallPush(p) PROVE LockInv'
  BY <1>1 DEF CallPush
<1>2. ASSUME NEW p \in Producers, Push(p) PROVE LockInv'
  BY <1>2 DEF Push, WriteSlot, CountPush, AdvancePush
<1>3. ASSUME NEW c \in Consumers, CallPop(c) PROVE LockInv'
  BY <1>3 DEF CallPop
<1>4. ASSUME NEW c \in Consumers, Pop(c) PROVE LockInv'
  BY <1>4 DEF Pop, ReadSlot, CountPop, AdvancePop
<1>5. ASSUME NEW t \in Threads, Enter(t) PROVE LockInv'
  BY <1>5 DEF Enter
<1>5a. ASSUME NEW t \in Threads, Lock(t) PROVE LockInv'
  BY <1>5a DEF Lock
<1>6. ASSUME NEW t \in Threads, Local(t) PROVE LockInv'
  <2>1. CASE Check(t)    BY <2>1 DEF Check
  <2>2. CASE Pred(t)     BY <2>2 DEF Pred
  <2>3. CASE LastPred(t) BY <2>3 DEF LastPred
  <2>4. CASE Notify(t)   BY <2>4 DEF Notify
  <2>5. CASE Leave(t)    BY <2>5 DEF Leave
  <2> QED BY <1>6, <2>1, <2>2, <2>3, <2>4, <2>5 DEF Local
<1>7. ASSUME NEW t \in Threads, Timeout(t) \/ SpuriousWake(t) PROVE LockInv'
  BY <1>7 DEF Timeout, SpuriousWake
<1>8. CASE UNCHANGED vars
  BY <1>8 DEF vars
<1> QED BY <1>1, <1>2, <1>3, <1>4, <1>5, <1>5a, <1>6, <1>7, <1>8 DEF Next, Acquire

------------------------------------------------------------------------------
(* The ring: a step that does not touch the shared data cannot disturb it,  *)
(* and of the six that do, each is alone on its side.                       *)

RingPart == RingInv /\ GuardInv /\ CarryInv

\* Arithmetic of the ring, free of the state.
LEMMA IndexArithmetic ==
  ASSUME NEW i \in Slots, NEW k \in 0 .. Capacity
  PROVE  /\ SlotAfter(i, k) \in Slots
         /\ NextIndex(i) \in Slots
         /\ k < Capacity => NextIndex(SlotAfter(i, k)) = SlotAfter(i, k + 1)
         /\ k > 0 => SlotAfter(NextIndex(i), k - 1) = SlotAfter(i, k)
         /\ SlotAfter(i, 0) = i
         /\ \A j \in 0 .. Capacity - 1 : j < k /\ k < Capacity => SlotAfter(i, j) # SlotAfter(i, k)
  BY CapacityAssumption DEF Slots, SlotAfter, NextIndex

\* A step that leaves the shared data alone and moves nobody in or out of
\* the index update keeps the ring, if whoever starts a slot access is Ready
\* and whoever was about to update a count still carries what it carried.
LeavesRing(t) ==
  /\ pc[t] = "index" <=> pc'[t] = "index"
  /\ pc'[t] = "slot" => pc[t] = "slot" \/ Ready(t)
  /\ pc'[t] = "count" => pc[t] = "count" /\ val'[t] = val[t]
  /\ pc'[t] # "idle" /\ t \in Producers =>
       \/ pc[t] # "idle" /\ val'[t] = val[t]
       \/ val'[t] \in Values
  /\ pc'[t] \notin Carrying /\ t \in Consumers =>
       \/ pc[t] \notin Carrying /\ val'[t] = val[t]
       \/ val'[t] = NoValue

\* A step in which every thread leaves the ring alone changes neither its
\* consistency nor what is in it.
LEMMA QuietStep ==
  ASSUME TypeOK, LockInv, RingPart, UNCHANGED shared, \A t \in Threads : LeavesRing(t)
  PROVE  RingPart' /\ UNCHANGED shared /\ Size' = Size /\ PopNext' = PopNext
<1> USE ThreadsAssumption DEF TypeOK, RingPart, Threads, shared, Slots, LeavesRing
<1>1. PushNext' = PushNext /\ PopNext' = PopNext
  BY DEF PushNext, PopNext, NextIndex
<1>2. Size' = Size
  BY DEF Size
<1>3. RingInv'
  BY <1>1, <1>2 DEF RingInv
<1>4. GuardInv'
  BY DEF GuardInv, Ready, is_not_full, is_not_empty, Size
<1>5. CarryInv'
  BY <1>1, <1>2 DEF CarryInv, Carrying, SlotAfter
<1> QED BY <1>1, <1>2, <1>3, <1>4, <1>5

\* A single writer and a single reader at a time: two threads of one side
\* are never both past mutexPush_ (or mutexPop_).
LEMMA SingleActor ==
  ASSUME LockInv, NEW t \in Threads, NEW u \in Threads, Side(t) = Side(u),
         pc[t] \notin {"idle", "enter"}, pc[u] \notin {"idle", "enter"}
  PROVE  t = u
  BY DEF LockInv

\* The counter arithmetic modulo 2^w: one more, one less.
LEMMA SizeArithmetic ==
  ASSUME TypeOK, Size \in 0 .. Capacity
  PROVE  /\ is_not_full /\ pushCount' = NextCount(pushCount) /\ popCount' = popCount
              => Size' = Size + 1
         /\ is_not_empty /\ popCount' = NextCount(popCount) /\ pushCount' = pushCount
              => Size' = Size - 1 /\ Size > 0
         /\ is_not_empty <=> Size > 0
  BY CapacityAssumption DEF TypeOK, Size, NextCount, is_not_full, is_not_empty

\* WriteSlot fills a free slot: nothing queued changes.
LEMMA WriteSlotStep ==
  ASSUME TypeOK, LockInv, RingPart, NEW p \in Producers, WriteSlot(p)
  PROVE  RingPart' /\ Size' = Size /\ PopNext' = PopNext
                   /\ \A i \in 0 .. Capacity - 1 : i < Size =>
                        buffer'[SlotAfter(PopNext, i)] = buffer[SlotAfter(PopNext, i)]
<1> USE ThreadsAssumption, CapacityAssumption
        DEF TypeOK, RingPart, Threads, Slots, Goto, WriteSlot
<1>1. Size' = Size /\ Size < Capacity
  BY DEF Size, GuardInv, is_not_full
<1>2. PopNext' = PopNext /\ PushNext' = PushNext /\ PushNext = pushIndex
  <2>1. \A q \in Producers : pc[q] # "index"
    BY SingleActor DEF Side
  <2> QED BY <2>1 DEF PopNext, PushNext, NextIndex
<1>3. PopNext \in Slots /\ pushIndex = SlotAfter(PopNext, Size) /\ Size \in 0 .. Capacity
  BY <1>2 DEF RingInv, PopNext, NextIndex
<1>4. \A i \in 0 .. Capacity - 1 : i < Size => SlotAfter(PopNext, i) # pushIndex /\ SlotAfter(PopNext, i) \in Slots
  <2> SUFFICES ASSUME NEW i \in 0 .. Capacity - 1, i < Size
               PROVE  SlotAfter(PopNext, i) # pushIndex /\ SlotAfter(PopNext, i) \in Slots
    OBVIOUS
  <2>1. i \in 0 .. Capacity
    OBVIOUS
  <2>2. SlotAfter(PopNext, i) \in Slots
    BY <2>1, <1>3, IndexArithmetic
  <2>3. SlotAfter(PopNext, i) # SlotAfter(PopNext, Size)
    BY <1>1, <1>3, IndexArithmetic
  <2> QED BY <2>2, <2>3, <1>3
<1>5. RingInv'
  BY <1>1, <1>2 DEF RingInv, SlotAfter
<1>6. GuardInv'
  BY <1>1 DEF GuardInv, is_not_full, is_not_empty
<1>7. \A c \in Consumers : pc[c] = "count" => popIndex = PopNext /\ Size > 0
  <2> SUFFICES ASSUME NEW c \in Consumers, pc[c] = "count" PROVE popIndex = PopNext /\ Size > 0
    OBVIOUS
  <2>1. \A d \in Consumers : pc[d] # "index"
    BY SingleActor DEF Side
  <2>2. popIndex = PopNext
    BY <2>1 DEF PopNext
  <2> QED BY <2>2, <1>3, SizeArithmetic DEF GuardInv
<1>8. popIndex = SlotAfter(popIndex, 0)
  BY DEF SlotAfter
<1>9. CarryInv'
  <2>1. \A q \in Producers : pc'[q] # "idle" => val'[q] \in Values
    BY DEF CarryInv
  <2>2. \A q \in Producers : pc'[q] = "count" => buffer'[pushIndex'] = val'[q]
    BY SingleActor DEF Side
  <2>3. \A c \in Consumers : pc'[c] = "count" => buffer'[popIndex'] = val'[c]
    BY <1>4, <1>7, <1>8 DEF CarryInv
  <2>4. \A i \in 0 .. Capacity - 1 : i < Size => buffer'[SlotAfter(PopNext, i)] \in Values
    BY <1>4 DEF CarryInv
  <2>5. \A c \in Consumers : pc'[c] \notin Carrying => val'[c] = NoValue
    BY DEF CarryInv, Carrying
  <2> QED BY <2>1, <2>2, <2>3, <2>4, <2>5, <1>1, <1>2 DEF CarryInv, Carrying, SlotAfter
<1>10. \A i \in 0 .. Capacity - 1 : i < Size =>
         buffer'[SlotAfter(PopNext, i)] = buffer[SlotAfter(PopNext, i)]
  BY <1>4
<1> QED BY <1>1, <1>2, <1>5, <1>6, <1>9, <1>10

\* CountPush publishes: the queue grows by the value its caller brought.
LEMMA CountPushStep ==
  ASSUME TypeOK, LockInv, RingPart, NEW p \in Producers, CountPush(p)
  PROVE  RingPart' /\ Size < Capacity /\ Size' = Size + 1 /\ PopNext' = PopNext
                   /\ buffer[SlotAfter(PopNext, Size)] = val[p]
<1> USE ThreadsAssumption, CapacityAssumption
        DEF TypeOK, RingPart, Threads, Slots, Goto, CountPush
<1>1. Size < Capacity /\ Size \in 0 .. Capacity
  BY DEF RingInv, GuardInv, is_not_full
<1>2. Size' = Size + 1
  BY <1>1, SizeArithmetic DEF is_not_full
<1>3. PopNext' = PopNext /\ PopNext \in Slots
  BY DEF PopNext, NextIndex
<1>4. PushNext = pushIndex /\ PushNext' = NextIndex(pushIndex)
  <2>1. \A q \in Producers : pc[q] # "index"
    BY SingleActor DEF Side
  <2> QED BY <2>1 DEF PushNext, NextIndex
<1>5. pushIndex = SlotAfter(PopNext, Size)
  BY <1>4 DEF RingInv
<1>6. RingInv'
  <2>1. NextIndex(pushIndex) = SlotAfter(PopNext, Size + 1)
    BY <1>1, <1>3, <1>5, IndexArithmetic
  <2> QED BY <2>1, <1>1, <1>2, <1>3, <1>4 DEF RingInv, SlotAfter
<1>7. GuardInv'
  <2>1. \A q \in Producers : pc'[q] \notin {"slot", "count"}
    BY SingleActor DEF Side
  <2>2. is_not_empty'
    BY <1>1, <1>2 DEF is_not_empty, Size
  <2> QED BY <2>1, <2>2 DEF GuardInv
<1>8. buffer[SlotAfter(PopNext, Size)] = val[p] /\ val[p] \in Values
  BY <1>5 DEF CarryInv
<1>9. CarryInv'
  <2>1. \A q \in Producers : pc'[q] # "idle" => val'[q] \in Values
    BY DEF CarryInv
  <2>2. \A q \in Producers : pc'[q] # "count"
    BY SingleActor DEF Side
  <2>3. \A c \in Consumers : pc'[c] = "count" => buffer'[popIndex'] = val'[c]
    BY DEF CarryInv
  <2>4. \A i \in 0 .. Capacity - 1 : i < Size + 1 => buffer[SlotAfter(PopNext, i)] \in Values
    <3> SUFFICES ASSUME NEW i \in 0 .. Capacity - 1, i < Size + 1
                 PROVE  buffer[SlotAfter(PopNext, i)] \in Values
      OBVIOUS
    <3>1. CASE i < Size BY <3>1 DEF CarryInv
    <3>2. CASE i = Size BY <3>2, <1>8
    <3> QED BY <3>1, <3>2, <1>1
  <2>5. \A c \in Consumers : pc'[c] \notin Carrying => val'[c] = NoValue
    BY DEF CarryInv, Carrying
  <2> QED BY <2>1, <2>2, <2>3, <2>4, <2>5, <1>2, <1>3 DEF CarryInv, Carrying, SlotAfter
<1> QED BY <1>1, <1>2, <1>3, <1>6, <1>7, <1>8, <1>9

\* AdvancePush lets the index catch up with the count.
LEMMA AdvancePushStep ==
  ASSUME TypeOK, LockInv, RingPart, NEW p \in Producers, AdvancePush(p)
  PROVE  RingPart' /\ Size' = Size /\ PopNext' = PopNext
<1> USE ThreadsAssumption, CapacityAssumption
        DEF TypeOK, RingPart, Threads, Slots, Goto, AdvancePush
<1>1. Size' = Size
  BY DEF Size
<1>2. PopNext' = PopNext
  BY DEF PopNext, NextIndex
<1>3. PushNext' = PushNext
  <2>1. \A q \in Producers : q # p => pc[q] # "index"
    BY SingleActor DEF Side
  <2> QED BY <2>1 DEF PushNext, NextIndex
<1>4. RingInv'
  BY <1>1, <1>2, <1>3 DEF RingInv, SlotAfter
<1>5. GuardInv'
  BY <1>1 DEF GuardInv, is_not_full, is_not_empty
<1>6. \A q \in Producers : pc'[q] # "count"
  BY SingleActor DEF Side
<1>7. CarryInv'
  BY <1>1, <1>2, <1>6 DEF CarryInv, Carrying, SlotAfter
<1> QED BY <1>1, <1>2, <1>4, <1>5, <1>7

\* ReadSlot copies the oldest value; the queue does not change yet.
LEMMA ReadSlotStep ==
  ASSUME TypeOK, LockInv, RingPart, NEW c \in Consumers, ReadSlot(c)
  PROVE  RingPart' /\ Size' = Size /\ PopNext' = PopNext
<1> USE ThreadsAssumption, CapacityAssumption
        DEF TypeOK, RingPart, Threads, Slots, Goto, ReadSlot, shared
<1>1. Size' = Size
  BY DEF Size
<1>2. PopNext' = PopNext /\ PushNext' = PushNext
  BY DEF PopNext, PushNext, NextIndex
<1>3. RingInv'
  BY <1>1, <1>2 DEF RingInv, SlotAfter
<1>4. GuardInv'
  BY <1>1 DEF GuardInv, is_not_full, is_not_empty
<1>5. CarryInv'
  BY <1>1, <1>2 DEF CarryInv, Carrying, SlotAfter
<1> QED BY <1>1, <1>2, <1>3, <1>4, <1>5

\* CountPop removes: the oldest value goes, the rest moves up by one.
LEMMA CountPopStep ==
  ASSUME TypeOK, LockInv, RingPart, NEW c \in Consumers, CountPop(c)
  PROVE  RingPart' /\ Size > 0 /\ Size' = Size - 1 /\ PopNext \in Slots
                   /\ PopNext' = NextIndex(PopNext)
                   /\ buffer[PopNext] = val[c]
<1> USE ThreadsAssumption, CapacityAssumption
        DEF TypeOK, RingPart, Threads, Slots, Goto, CountPop
<1>1. Size > 0 /\ Size \in 0 .. Capacity /\ Size' = Size - 1
  BY SizeArithmetic DEF RingInv, GuardInv
<1>2. PopNext = popIndex /\ PopNext \in Slots /\ PopNext' = NextIndex(PopNext)
  <2>1. \A d \in Consumers : pc[d] # "index"
    BY SingleActor DEF Side
  <2> QED BY <2>1 DEF PopNext, NextIndex
<1>3. PushNext' = PushNext
  BY DEF PushNext, NextIndex
<1>4. RingInv'
  <2>1. SlotAfter(NextIndex(PopNext), Size - 1) = SlotAfter(PopNext, Size)
    BY <1>1, <1>2, IndexArithmetic
  <2> QED BY <2>1, <1>1, <1>2, <1>3 DEF RingInv, SlotAfter
<1>5. GuardInv'
  <2>1. \A d \in Consumers : pc'[d] \notin {"slot", "count"}
    BY SingleActor DEF Side
  <2> QED BY <2>1, <1>1 DEF GuardInv, is_not_full
<1>6. CarryInv'
  <2>1. \A d \in Consumers : pc'[d] # "count"
    BY SingleActor DEF Side
  <2>2. \A i \in 0 .. Capacity - 1 : i < Size - 1 => buffer[SlotAfter(NextIndex(PopNext), i)] \in Values
    <3> SUFFICES ASSUME NEW i \in 0 .. Capacity - 1, i < Size - 1
                 PROVE  buffer[SlotAfter(NextIndex(PopNext), i)] \in Values
      OBVIOUS
    <3>1. i + 1 \in 0 .. Capacity - 1 /\ i + 1 < Size
      BY <1>1
    <3>2. SlotAfter(NextIndex(PopNext), i) = SlotAfter(PopNext, i + 1)
      BY <1>2, <3>1 DEF SlotAfter, NextIndex
    <3> QED BY <3>1, <3>2 DEF CarryInv
  <2>3. \A q \in Producers : /\ pc'[q] # "idle" => val'[q] \in Values
                             /\ pc'[q] = "count" => buffer'[pushIndex'] = val'[q]
    BY DEF CarryInv
  <2> QED BY <2>1, <2>2, <2>3, <1>1, <1>2 DEF CarryInv, Carrying, SlotAfter
<1>7. buffer[PopNext] = val[c]
  BY <1>2 DEF CarryInv
<1> QED BY <1>1, <1>2, <1>4, <1>5, <1>6, <1>7

\* AdvancePop lets the index catch up with the count.
LEMMA AdvancePopStep ==
  ASSUME TypeOK, LockInv, RingPart, NEW c \in Consumers, AdvancePop(c)
  PROVE  RingPart' /\ Size' = Size /\ PopNext' = PopNext
<1> USE ThreadsAssumption, CapacityAssumption
        DEF TypeOK, RingPart, Threads, Slots, Goto, AdvancePop
<1>1. Size' = Size
  BY DEF Size
<1>2. PopNext' = PopNext
  <2>1. \A d \in Consumers : d # c => pc[d] # "index"
    BY SingleActor DEF Side
  <2> QED BY <2>1 DEF PopNext, NextIndex
<1>3. PushNext' = PushNext
  BY DEF PushNext, NextIndex
<1>4. RingInv'
  BY <1>1, <1>2, <1>3 DEF RingInv, SlotAfter
<1>5. GuardInv'
  BY <1>1 DEF GuardInv, is_not_full, is_not_empty
<1>6. \A d \in Consumers : pc'[d] # "count"
  BY SingleActor DEF Side
<1>7. CarryInv'
  BY <1>1, <1>2, <1>6 DEF CarryInv, Carrying, SlotAfter
<1> QED BY <1>1, <1>2, <1>4, <1>5, <1>7

------------------------------------------------------------------------------
(* The steps that leave the ring alone.                                     *)

Quiet ==
  \/ \E p \in Producers : CallPush(p)
  \/ \E c \in Consumers : CallPop(c)
  \/ \E t \in Threads : Acquire(t) \/ Local(t) \/ Timeout(t) \/ SpuriousWake(t)
  \/ UNCHANGED vars

\* Taking a lock, a timeout and the other steps outside the ring are such.
LEMMA QuietSteps ==
  ASSUME TypeOK, LockInv, RingPart, Quiet
  PROVE  RingPart' /\ UNCHANGED shared /\ Size' = Size /\ PopNext' = PopNext
<1> SUFFICES UNCHANGED shared /\ \A t \in Threads : LeavesRing(t)
  BY QuietStep
<1> USE ThreadsAssumption DEF TypeOK, Threads, Steps, Modes, Goto, LeavesRing, Carrying
<1>1. ASSUME NEW p \in Producers, CallPush(p)
      PROVE  UNCHANGED shared /\ \A t \in Threads : LeavesRing(t)
  BY <1>1 DEF CallPush
<1>2. ASSUME NEW c \in Consumers, CallPop(c)
      PROVE  UNCHANGED shared /\ \A t \in Threads : LeavesRing(t)
  BY <1>2 DEF CallPop
<1>3. ASSUME NEW u \in Threads, Enter(u) \/ Lock(u) \/ Timeout(u) \/ SpuriousWake(u)
      PROVE  UNCHANGED shared /\ \A t \in Threads : LeavesRing(t)
  BY <1>3 DEF Enter, Lock, Timeout, SpuriousWake
<1>4. ASSUME NEW u \in Threads, Check(u) \/ Pred(u) \/ LastPred(u)
      PROVE  UNCHANGED shared /\ \A t \in Threads : LeavesRing(t)
  BY <1>4 DEF Check, Pred, LastPred
<1>5. ASSUME NEW u \in Threads, Notify(u)
      PROVE  UNCHANGED shared /\ \A t \in Threads : LeavesRing(t)
  BY <1>5 DEF Notify
<1>6. ASSUME NEW u \in Threads, Leave(u)
      PROVE  UNCHANGED shared /\ \A t \in Threads : LeavesRing(t)
  BY <1>6 DEF Leave
<1>7. ASSUME UNCHANGED vars
      PROVE  UNCHANGED shared /\ \A t \in Threads : LeavesRing(t)
  BY <1>7 DEF vars, shared
<1> QED BY <1>1, <1>2, <1>3, <1>4, <1>5, <1>6, <1>7 DEF Quiet, Acquire, Local

\* [Next]_vars is a quiet step or one of the six accesses to the ring.
LEMMA StepCases ==
  ASSUME [Next]_vars
  PROVE  \/ Quiet
         \/ \E p \in Producers : WriteSlot(p) \/ CountPush(p) \/ AdvancePush(p)
         \/ \E c \in Consumers : ReadSlot(c) \/ CountPop(c) \/ AdvancePop(c)
  BY DEF Next, Quiet, Push, Pop

------------------------------------------------------------------------------
\* The queue invariant holds in every reachable state: counts, indices,
\* slots and locks agree although the fill tests take no lock.
THEOREM QueueInvariant == Spec => []QueueInv
<1>1. Init => QueueInv
  BY ThreadsAssumption, CapacityAssumption
     DEF Init, QueueInv, TypeOK, LockInv, RingInv, GuardInv, CarryInv, Carrying, Slots, Threads,
         Steps, Modes, InLocked, Side, Size, PushNext, PopNext, SlotAfter
<1>2. QueueInv /\ [Next]_vars => QueueInv'
  <2> SUFFICES ASSUME QueueInv, [Next]_vars PROVE QueueInv'
    OBVIOUS
  <2>1. TypeOK /\ LockInv /\ RingPart
    BY DEF QueueInv, RingPart
  <2>2. TypeOK' /\ LockInv'
    BY <2>1, TypeStep, LockStep
  <2>3. RingPart'
    BY <2>1, StepCases, QuietSteps, WriteSlotStep, CountPushStep, AdvancePushStep,
       ReadSlotStep, CountPopStep, AdvancePopStep
  <2> QED BY <2>2, <2>3 DEF QueueInv, RingPart
<1> QED BY <1>1, <1>2, PTL DEF Spec

\* A store to a slot and a load from it are never both about to happen.
THEOREM SlotRaceFree == Spec => []NoSlotRace
<1>1. QueueInv => NoSlotRace
  <2> SUFFICES ASSUME QueueInv, NEW p \in Producers, NEW c \in Consumers,
                      pc[p] = "slot", pc[c] = "slot"
               PROVE  pushIndex # popIndex
    BY DEF NoSlotRace
  <2> USE DEF QueueInv
  <2>1. PushNext = pushIndex /\ PopNext = popIndex
    <3>1. \A q \in Producers : pc[q] # "index"
      BY SingleActor DEF Side, Threads
    <3>2. \A d \in Consumers : pc[d] # "index"
      BY SingleActor, ThreadsAssumption DEF Side, Threads
    <3> QED BY <3>1, <3>2 DEF PushNext, PopNext
  <2>2. Size > 0 /\ Size < Capacity /\ Size \in 0 .. Capacity
    BY SizeArithmetic DEF GuardInv, RingInv, is_not_full
  <2>3. pushIndex = SlotAfter(popIndex, Size) /\ popIndex \in Slots
    BY <2>1 DEF RingInv, TypeOK
  <2> QED BY <2>2, <2>3, CapacityAssumption DEF SlotAfter, Slots
<1> QED BY <1>1, QueueInvariant, PTL

------------------------------------------------------------------------------
(* Refinement.                                                              *)

\* The abstract queue as seen through the mapping: a sequence of Size values.
LEMMA ContentsFacts ==
  ASSUME Size \in Nat
  PROVE  /\ Len(Contents) = Size
         /\ DOMAIN Contents = 1 .. Size
         /\ \A i \in 1 .. Size : Contents[i] = buffer[SlotAfter(PopNext, i - 1)]
  BY DEF Contents

\* Contents depends only on the values queued.
LEMMA SameContents ==
  ASSUME Size \in Nat, Size' = Size, PopNext' = PopNext,
         \A i \in 1 .. Size : buffer'[SlotAfter(PopNext, i - 1)] = buffer[SlotAfter(PopNext, i - 1)]
  PROVE  Contents' = Contents
  BY DEF Contents, SlotAfter

\* The contents of the ring are a sequence of values, as long as the counters say.
LEMMA ContentsType ==
  ASSUME RingPart PROVE Size \in Nat /\ Size <= Capacity /\ Contents \in Seq(Values)
<1>1. Size \in 0 .. Capacity
  BY DEF RingPart, RingInv
<1>2. Size \in Nat /\ Size <= Capacity
  BY <1>1, CapacityAssumption
<1>3. \A i \in 1 .. Size : i - 1 \in 0 .. Capacity - 1 /\ i - 1 < Size
  BY <1>1, CapacityAssumption
<1>4. \A i \in 1 .. Size : buffer[SlotAfter(PopNext, i - 1)] \in Values
  BY <1>3 DEF RingPart, CarryInv
<1>5. Contents \in [1 .. Size -> Values]
  BY <1>4 DEF Contents
<1> QED BY <1>2, <1>5

\* The count update of a push is the abstract Put.
LEMMA PutSimulation ==
  ASSUME TypeOK, LockInv, RingPart, NEW p \in Producers, CountPush(p)
  PROVE  Fifo!Put(p)
<1> USE DEF TypeOK, Threads, CountPush, Goto, Steps
<1>1. /\ Size < Capacity /\ Size' = Size + 1 /\ PopNext' = PopNext
      /\ buffer[SlotAfter(PopNext, Size)] = val[p]
  BY CountPushStep
<1>2. Size \in Nat /\ Contents \in Seq(Values)
  BY ContentsType
<1>3. Len(Contents) = Size
  BY <1>2, ContentsFacts
<1>4. Contents' = Append(Contents, val[p])
  <2>1. Contents' = [i \in 1 .. Size + 1 |-> buffer[SlotAfter(PopNext, i - 1)]]
    BY <1>1 DEF Contents, SlotAfter
  <2>2. Append(Contents, val[p]) =
          [i \in 1 .. Size + 1 |-> IF i = Size + 1 THEN val[p] ELSE Contents[i]]
    BY <1>2, <1>3
  <2>3. ASSUME NEW i \in 1 .. Size + 1
        PROVE  buffer[SlotAfter(PopNext, i - 1)] = IF i = Size + 1 THEN val[p] ELSE Contents[i]
    <3>1. CASE i = Size + 1
      BY <3>1, <1>1, <1>2
    <3>2. CASE i \in 1 .. Size
      BY <3>2, <1>2, ContentsFacts
    <3> QED BY <3>1, <3>2, <1>2
  <2> QED BY <2>1, <2>2, <2>3
<1>5. Phase[p] = "open" /\ Phase' = [Phase EXCEPT ![p] = "done"]
  BY DEF Phase, PhaseOf
<1>6. Result' = Result /\ Result[p] = val[p]
  BY ThreadsAssumption DEF Result
<1> QED BY <1>1, <1>3, <1>4, <1>5, <1>6 DEF Fifo!Put

\* Head and Tail of a sequence that is not empty, index by index.
LEMMA HeadTail ==
  ASSUME NEW S, NEW s \in Seq(S), Len(s) > 0
  PROVE  Head(s) = s[1] /\ Tail(s) = [i \in 1 .. Len(s) - 1 |-> s[i + 1]]
<1> DEFINE t == Tail(s)
<1>1. s # <<>>
  OBVIOUS
<1>2. t \in Seq(S) /\ Len(t) = Len(s) - 1 /\ \A i \in 1 .. Len(t) : t[i] = s[i + 1]
  BY <1>1, HeadTailProperties
<1> HIDE DEF t
<1>3. t = [i \in 1 .. Len(t) |-> t[i]]
  BY <1>2
<1>4. t = [i \in 1 .. Len(s) - 1 |-> s[i + 1]]
  BY <1>2, <1>3
<1> QED BY <1>1, <1>4 DEF t

\* The count update of a pop is the abstract Get of the oldest value.
LEMMA GetSimulation ==
  ASSUME TypeOK, LockInv, RingPart, NEW c \in Consumers, CountPop(c)
  PROVE  Fifo!Get(c)
<1> USE DEF TypeOK, Threads, CountPop, Goto, Steps
<1>1. /\ Size > 0 /\ Size' = Size - 1 /\ PopNext \in Slots
      /\ PopNext' = NextIndex(PopNext) /\ buffer[PopNext] = val[c]
  BY CountPopStep
<1>2. Size \in Nat /\ Size <= Capacity /\ Contents \in Seq(Values)
  BY ContentsType
<1>3. Len(Contents) = Size
  BY <1>2, ContentsFacts
<1>4. Contents' = Tail(Contents)
  <2>1. Contents' = [i \in 1 .. Size - 1 |-> buffer[SlotAfter(NextIndex(PopNext), i - 1)]]
    BY <1>1 DEF Contents, SlotAfter
  <2>2. Tail(Contents) = [i \in 1 .. Size - 1 |-> Contents[i + 1]]
    BY <1>1, <1>2, <1>3, HeadTail
  <2>3. ASSUME NEW i \in 1 .. Size - 1
        PROVE  buffer[SlotAfter(NextIndex(PopNext), i - 1)] = Contents[i + 1]
    <3>1. SlotAfter(NextIndex(PopNext), i - 1) = SlotAfter(PopNext, i)
      BY <1>1, <1>2, CapacityAssumption DEF SlotAfter, NextIndex, Slots
    <3>2. i + 1 \in 1 .. Size /\ (i + 1) - 1 = i
      BY <1>2
    <3> QED BY <3>1, <3>2, <1>2, ContentsFacts
  <2> HIDE DEF TypeOK, Threads, CountPop, Goto, Steps
  <2>4. [i \in 1 .. Size - 1 |-> buffer[SlotAfter(NextIndex(PopNext), i - 1)]]
          = [i \in 1 .. Size - 1 |-> Contents[i + 1]]
    BY <2>3
  <2> QED BY <2>1, <2>2, <2>4
<1>5. Head(Contents) = val[c]
  <2>1. Contents[1] = buffer[SlotAfter(PopNext, 0)]
    BY <1>1, <1>2, ContentsFacts
  <2>2. SlotAfter(PopNext, 0) = PopNext
    BY <1>1, CapacityAssumption DEF SlotAfter, Slots
  <2>3. Head(Contents) = Contents[1]
    BY <1>1, <1>2, <1>3, HeadTail
  <2> QED BY <2>1, <2>2, <2>3, <1>1
<1>6. Phase[c] = "open" /\ Phase' = [Phase EXCEPT ![c] = "done"]
  BY DEF Phase, PhaseOf
<1>7. Result' = [Result EXCEPT ![c] = val[c]]
  <2>1. \A d \in Consumers : d # c => pc[d] # "count"
    BY SingleActor, ThreadsAssumption DEF Side
  <2> QED BY <2>1 DEF Result
<1> QED BY <1>1, <1>3, <1>4, <1>5, <1>6, <1>7 DEF Fifo!Get

\* A slot access or an index update changes nothing the caller can see.
LEMMA RingAccessStutters ==
  ASSUME TypeOK, LockInv, RingPart,
         \/ \E p \in Producers : WriteSlot(p) \/ AdvancePush(p)
         \/ \E c \in Consumers : ReadSlot(c) \/ AdvancePop(c)
  PROVE  UNCHANGED <<Contents, Phase, mode, Result>>
<1> USE ThreadsAssumption DEF TypeOK, Threads, Goto, Steps
<1>1. Size \in Nat /\ Size <= Capacity
  BY ContentsType
<1>2. ASSUME NEW p \in Producers, WriteSlot(p)
      PROVE  UNCHANGED <<Contents, Phase, mode, Result>>
  <2>1. /\ Size' = Size /\ PopNext' = PopNext
        /\ \A i \in 0 .. Capacity - 1 : i < Size =>
             buffer'[SlotAfter(PopNext, i)] = buffer[SlotAfter(PopNext, i)]
    BY <1>2, WriteSlotStep
  <2>2. \A i \in 1 .. Size : i - 1 \in 0 .. Capacity - 1 /\ i - 1 < Size
    BY <1>1, CapacityAssumption
  <2>3. Contents' = Contents
    BY <2>1, <2>2, <1>1, SameContents
  <2> QED BY <1>2, <2>3 DEF WriteSlot, Phase, PhaseOf, Result
<1>3. ASSUME NEW p \in Producers, AdvancePush(p)
      PROVE  UNCHANGED <<Contents, Phase, mode, Result>>
  <2>1. Contents' = Contents
    BY <1>1, <1>3, AdvancePushStep, SameContents DEF AdvancePush
  <2> QED BY <1>3, <2>1 DEF AdvancePush, Phase, PhaseOf, Result
<1>4. ASSUME NEW c \in Consumers, ReadSlot(c)
      PROVE  UNCHANGED <<Contents, Phase, mode, Result>>
  <2>1. Contents' = Contents
    BY <1>1, <1>4, ReadSlotStep, SameContents DEF ReadSlot, shared
  <2>2. val[c] = NoValue
    BY <1>4 DEF ReadSlot, RingPart, CarryInv, Carrying
  <2> QED BY <1>4, <2>1, <2>2 DEF ReadSlot, Phase, PhaseOf, Result
<1>5. ASSUME NEW c \in Consumers, AdvancePop(c)
      PROVE  UNCHANGED <<Contents, Phase, mode, Result>>
  <2>1. Contents' = Contents
    BY <1>1, <1>5, AdvancePopStep, SameContents DEF AdvancePop
  <2> QED BY <1>5, <2>1 DEF AdvancePop, Phase, PhaseOf, Result
<1> QED BY <1>2, <1>3, <1>4, <1>5

\* A quiet step is a call, a return, a refusal at an instant at which the
\* queue is full (empty), or invisible.
LEMMA QuietSimulation ==
  ASSUME TypeOK, LockInv, RingPart, Quiet
  PROVE  [Fifo!Next]_(Fifo!vars)
<1> USE ThreadsAssumption DEF TypeOK, Threads, Goto, Steps
<1>1. Contents' = Contents /\ Len(Contents) = Size /\ Size \in Nat /\ Size <= Capacity
  <2>1. Size \in Nat /\ Size <= Capacity /\ Len(Contents) = Size
    BY ContentsType, ContentsFacts
  <2>2. buffer' = buffer /\ Size' = Size /\ PopNext' = PopNext
    BY QuietSteps DEF shared
  <2> QED BY <2>1, <2>2, SameContents
<1>2. ASSUME NEW p \in Producers, CallPush(p) PROVE Fifo!CallPush(p)
  <2>1. PICK m \in Modes, v \in Values : mode' = [mode EXCEPT ![p] = m] /\ val' = [val EXCEPT ![p] = v]
    BY <1>2 DEF CallPush
  <2>2. Phase[p] = "idle" /\ Phase' = [Phase EXCEPT ![p] = "open"]
    BY <1>2 DEF CallPush, Phase, PhaseOf
  <2>3. Result' = [Result EXCEPT ![p] = v]
    BY <1>2, <2>1 DEF CallPush, Result
  <2>4. Fifo!Invoke(p, m, v)
    BY <1>1, <2>1, <2>2, <2>3 DEF Fifo!Invoke
  <2> QED BY <2>1, <2>4 DEF Fifo!CallPush, Fifo!Modes, Modes
<1>3. ASSUME NEW c \in Consumers, CallPop(c) PROVE Fifo!CallPop(c)
  <2>1. PICK m \in Modes : mode' = [mode EXCEPT ![c] = m]
    BY <1>3 DEF CallPop
  <2>2. Phase[c] = "idle" /\ Phase' = [Phase EXCEPT ![c] = "open"]
    BY <1>3 DEF CallPop, Phase, PhaseOf
  <2>3. val[c] = NoValue
    BY <1>3 DEF CallPop, RingPart, CarryInv, Carrying
  <2>4. Result' = [Result EXCEPT ![c] = NoValue]
    BY <1>3, <2>3 DEF CallPop, Result
  <2>5. Fifo!Invoke(c, m, NoValue)
    BY <1>1, <2>1, <2>2, <2>4 DEF Fifo!Invoke
  <2> QED BY <2>1, <2>5 DEF Fifo!CallPop, Fifo!Modes, Modes
<1>4. ASSUME NEW t \in Threads, Acquire(t) \/ Timeout(t) \/ SpuriousWake(t) \/ Pred(t) \/ Notify(t)
      PROVE  UNCHANGED <<Contents, Phase, mode, Result>>
  BY <1>1, <1>4 DEF Acquire, Enter, Lock, Timeout, SpuriousWake, Pred, Notify, Phase, PhaseOf, Result
<1>5. ASSUME NEW t \in Threads, Check(t) \/ LastPred(t), pc'[t] # "refused"
      PROVE  UNCHANGED <<Contents, Phase, mode, Result>>
  BY <1>1, <1>5 DEF Check, LastPred, Phase, PhaseOf, Result
<1>6. ASSUME NEW t \in Threads, Check(t) \/ LastPred(t), pc'[t] = "refused"
      PROVE  Fifo!Refuse(t)
  <2>1. mode[t] # "wait" /\ ~Ready(t)
    BY <1>6 DEF Check, LastPred
  <2>2. IF t \in Producers THEN Size = Capacity ELSE Size = 0
    <3>1. is_not_empty <=> Size > 0
      BY SizeArithmetic DEF RingPart, RingInv
    <3> QED BY <2>1, <3>1, <1>1, CapacityAssumption DEF Ready, is_not_full
  <2>3. Phase[t] = "open" /\ Phase' = [Phase EXCEPT ![t] = "refused"]
    BY <1>6 DEF Check, LastPred, Phase, PhaseOf
  <2>4. mode' = mode /\ Result' = Result
    BY <1>6 DEF Check, LastPred, Result
  <2> QED BY <1>1, <2>1, <2>2, <2>3, <2>4 DEF Fifo!Refuse
<1>7. ASSUME NEW t \in Threads, Leave(t) PROVE Fifo!Return(t)
  <2>1. Phase[t] \in {"done", "refused"} /\ Phase' = [Phase EXCEPT ![t] = "idle"]
    BY <1>7 DEF Leave, Phase, PhaseOf
  <2>2. Result' = [Result EXCEPT ![t] = NoValue] /\ mode' = [mode EXCEPT ![t] = "wait"]
    BY <1>7 DEF Leave, Result
  <2> QED BY <1>1, <2>1, <2>2 DEF Fifo!Return
<1>8. ASSUME UNCHANGED vars PROVE UNCHANGED <<Contents, Phase, mode, Result>>
  BY <1>1, <1>8 DEF vars, Phase, PhaseOf, Result
<1> HIDE DEF Threads
<1> QED
  BY <1>2, <1>3, <1>4, <1>5, <1>6, <1>7, <1>8
     DEF Quiet, Local, Fifo!Next, Fifo!vars, Fifo!Threads, Threads

\* circular_bounded_queue implements the atomic bounded FIFO queue: no value
\* lost, duplicated or out of order, and no operation refused without cause.
THEOREM QueueRefinement == Spec => IsBoundedQueue
<1>1. Init => Fifo!Init
  <2> SUFFICES ASSUME Init PROVE Fifo!Init
    OBVIOUS
  <2>1. Contents = <<>>
    BY DEF Init, Contents, Size
  <2> QED BY <2>1, ThreadsAssumption DEF Init, Fifo!Init, Phase, PhaseOf, Result, Threads, Fifo!Threads
<1>2. QueueInv /\ [Next]_vars => [Fifo!Next]_(Fifo!vars)
  <2> SUFFICES ASSUME QueueInv, [Next]_vars PROVE [Fifo!Next]_(Fifo!vars)
    OBVIOUS
  <2>1. TypeOK /\ LockInv /\ RingPart
    BY DEF QueueInv, RingPart
  <2>2. CASE Quiet
    BY <2>1, <2>2, QuietSimulation
  <2>3. CASE \/ \E p \in Producers : WriteSlot(p) \/ AdvancePush(p)
             \/ \E c \in Consumers : ReadSlot(c) \/ AdvancePop(c)
    BY <2>1, <2>3, RingAccessStutters DEF Fifo!vars
  <2>4. ASSUME NEW p \in Producers, CountPush(p) PROVE Fifo!Next
    BY <2>1, <2>4, PutSimulation DEF Fifo!Next
  <2>5. ASSUME NEW c \in Consumers, CountPop(c) PROVE Fifo!Next
    BY <2>1, <2>5, GetSimulation DEF Fifo!Next
  <2> QED BY <2>2, <2>3, <2>4, <2>5, StepCases
<1> QED BY <1>1, <1>2, QueueInvariant, PTL DEF Spec, IsBoundedQueue, Fifo!Spec
=============================================================================
