---------------------------- MODULE Distribution ----------------------------
(***************************************************************************)
(* Who owns an event: pn::push(), processed_distribute(),                  *)
(* received_distribute() and their distribute4*() wrappers (processing/    *)
(* pn.cpp) hand one event to every recipient of the routing table.  The    *)
(* last local recipient gets the event itself, the others get copies, and  *)
(* a PE may delete or pass on what it was given as soon as it has it, on   *)
(* a thread of its own, while the loop goes on.                            *)
(*                                                                         *)
(* What the router answers, and what the optional set of ids leaves of it, *)
(* is an arbitrary subset of the PEs in array order (ProcessingNode checks *)
(* which).  The events themselves are the addresses they live at.          *)
(***************************************************************************)
EXTENDS Naturals, Sequences, FiniteSets

CONSTANTS
  LocalPEs, RemotePEs, \* numbers: the order of local_pes_ and remote_pes_
  Network,             \* threads that bring new events in with push()
  Workers,             \* PE threads, which pass events on with distribute4*()
  Addresses,           \* where an event can live
  NoEvent, Free        \* "distributes nothing", "nothing lives there"

Threads == Network \cup Workers

ASSUME DistributionAssumption ==
  /\ LocalPEs \subseteq Nat /\ RemotePEs \subseteq Nat
  /\ IsFiniteSet(LocalPEs) /\ IsFiniteSet(RemotePEs)
  /\ Threads \cap LocalPEs = {}
  /\ Free \notin Threads \cup LocalPEs
  /\ NoEvent \notin Addresses

VARIABLES
  owner,    \* address -> who has to delete the event that lives there
  evt,      \* thread -> the event it distributes
  remote,   \* thread -> remote recipients still to be sent to
  local,    \* thread -> local recipients still to be pushed to
  anyLocal  \* thread -> the routing found a local recipient

distributionVars == <<owner, evt, remote, local, anyLocal>>

DistributionInit ==
  /\ owner  = [a \in Addresses |-> Free]
  /\ evt    = [t \in Threads |-> NoEvent]
  /\ remote = [t \in Threads |-> <<>>]
  /\ local  = [t \in Threads |-> <<>>]
  /\ anyLocal = [t \in Threads |-> FALSE]

Idle(t) == evt[t] = NoEvent
Unused(a) == owner[a] = Free

\* A lookup walks an array of PEs upwards and keeps some of them.
Lookups(S) ==
  {s \in UNION {[1 .. n -> S] : n \in 0 .. Cardinality(S)} :
     \A i, j \in DOMAIN s : i < j => s[i] < s[j]}

------------------------------------------------------------------------------
Begin(t, a, rs, ls) ==
  /\ owner'  = [owner EXCEPT ![a] = t]
  /\ evt'    = [evt EXCEPT ![t] = a]
  /\ remote' = [remote EXCEPT ![t] = rs]
  /\ local'  = [local EXCEPT ![t] = ls]
  /\ anyLocal' = [anyLocal EXCEPT ![t] = ls # <<>>]

\* push(): an event off the wire goes to the recipients of both matrices,
\* the processed ones first.  A PE that is in both gets it twice.
Push(t) ==
  /\ Idle(t)
  /\ \E a \in Addresses :
       /\ Unused(a)
       /\ \E rp, rr \in Lookups(RemotePEs), lp, lr \in Lookups(LocalPEs) :
            Begin(t, a, rp \o rr, lp \o lr)

\* distribute4processed() or distribute4received(), by a PE, of an event it
\* was given: the recipients of one matrix, less those not in the id set.
Distribute(t) ==
  /\ Idle(t)
  /\ \E a \in Addresses :
       /\ owner[a] \in LocalPEs
       /\ \E rs \in Lookups(RemotePEs), ls \in Lookups(LocalPEs) : Begin(t, a, rs, ls)

\* CEPDispatch::dispatch() serialises the event for another node.
Dispatch(t) ==
  /\ remote[t] # <<>>
  /\ remote' = [remote EXCEPT ![t] = Tail(@)]
  /\ UNCHANGED <<owner, evt, local, anyLocal>>

\* Mutant: the loop hands the event itself over one recipient too early.
IsLast_Early(t) == Len(local[t]) <= 2

\* i == last_idx.
IsLast(t) == Len(local[t]) = 1

\* The next local recipient gets a copy made just now, the last one the
\* event itself: pe::push(*new event(evt)) and pe::push(evt).
Give(t) ==
  /\ remote[t] = <<>> /\ local[t] # <<>>
  /\ \E a \in Addresses :
       /\ IF IsLast(t) THEN a = evt[t] ELSE Unused(a)
       /\ owner' = [owner EXCEPT ![a] = Head(local[t])]
  /\ local' = [local EXCEPT ![t] = Tail(@)]
  /\ UNCHANGED <<evt, remote, anyLocal>>

\* The operation returns, and deletes an event that nobody local wanted.
Return(t) ==
  /\ ~Idle(t) /\ remote[t] = <<>> /\ local[t] = <<>>
  /\ owner' = IF anyLocal[t] THEN owner ELSE [owner EXCEPT ![evt[t]] = Free]
  /\ evt'   = [evt EXCEPT ![t] = NoEvent]
  /\ UNCHANGED <<remote, local, anyLocal>>

\* A PE that wants no more of an event deletes it, at any moment.
Consume(a) ==
  /\ owner[a] \in LocalPEs
  /\ owner' = [owner EXCEPT ![a] = Free]
  /\ UNCHANGED <<evt, remote, local, anyLocal>>

DistributionNext ==
  \/ \E t \in Network : Push(t)
  \/ \E t \in Workers : Distribute(t)
  \/ \E t \in Threads : Dispatch(t) \/ Give(t) \/ Return(t)
  \/ \E a \in Addresses : Consume(a)

DistributionSpec == DistributionInit /\ [][DistributionNext]_distributionVars

------------------------------------------------------------------------------
(* Correctness.                                                            *)

DistributionTypeOK ==
  /\ owner \in [Addresses -> {Free} \cup LocalPEs \cup Threads]
  /\ evt \in [Threads -> Addresses \cup {NoEvent}]
  /\ remote \in [Threads -> Seq(RemotePEs)]
  /\ local \in [Threads -> Seq(LocalPEs)]
  /\ anyLocal \in [Threads -> BOOLEAN]

\* The thread will still serialise, copy, hand over or delete its event.
StillUses(t) ==
  ~Idle(t) /\ (remote[t] # <<>> \/ local[t] # <<>> \/ ~anyLocal[t])

\* While a thread will still touch the event it distributes, that event is
\* its own: no PE can delete it, pass it on or change it under the loop.
\* Conversely an event that a thread owns is the one it distributes and will
\* still hand over or delete, so none is ever forgotten.
OwnershipInv ==
  /\ DistributionTypeOK
  /\ \A t \in Threads : Idle(t) => remote[t] = <<>> /\ local[t] = <<>>
  /\ \A t \in Threads : local[t] # <<>> => anyLocal[t]
  /\ \A t \in Threads : remote[t] # <<>> /\ local[t] = <<>> => ~anyLocal[t]
  /\ \A t \in Threads : StillUses(t) => owner[evt[t]] = t
  /\ \A t \in Threads, a \in Addresses :
       owner[a] = t => StillUses(t) /\ evt[t] = a
=============================================================================
