--------------------------- MODULE ProcessingNode ---------------------------
(***************************************************************************)
(* The life of a processing node: pn::reload(), startup(), shutdown() and  *)
(* destroy() (processing/pn.cpp), run by the main thread over a routing    *)
(* table that other threads look up at any time.                           *)
(*                                                                         *)
(* A configuration lists the PEs and the routes in file order.  Whatever a *)
(* plug-in answers (library missing, init(), reload() or startup() false)  *)
(* is a nondeterministic choice.  reload() may fail in the middle of every *)
(* loop, and then returns at once, leaving behind what it has built.       *)
(***************************************************************************)
EXTENDS Router, Sequences

CONSTANTS
  Configs,     \* [pes : Seq(PeIds), received, processed : Seq(<<begin, end>>)]
  MaxReloads   \* bound: how often reload() is called

\* A route may name ids that no PE has.
ASSUME NodeAssumption ==
  /\ \A c \in Configs :
       c.pes \in Seq(PeIds) /\ \A kind \in Kinds : c[kind] \in Seq(Nat \X Nat)
  /\ MaxReloads \in Nat

VARIABLES
  config,      \* pn_config of the current reload()
  step,        \* where the main thread is
  k,           \* position in the list it walks
  loaded,      \* the PEs in local_pes_ and remote_pes_
  started,     \* PEs between startup() and shutdown()
  running,     \* running_
  reloads      \* calls of reload() so far

pnVars == <<config, step, k, loaded, started, running, reloads>>
vars   == <<routerVars, pnVars>>

NoConfig == [pes |-> <<>>, received |-> <<>>, processed |-> <<>>]

Init ==
  /\ RouterInit
  /\ config = NoConfig /\ step = "idle" /\ k = 1
  /\ loaded = {} /\ started = {}
  /\ running = FALSE /\ reloads = 0

LocalPes  == loaded \cap LocalIds
RemotePes == loaded \ LocalIds

Goto(from, to, pos) ==
  /\ step = from
  /\ step' = to
  /\ k' = pos

\* return false: main gives up, what was built stays.
Fail == step' = "failed" /\ UNCHANGED k

------------------------------------------------------------------------------
(* shutdown() and destroy().                                               *)

\* Mutant: shutdown() forgets the PEs' own shutdown().
StopPes_Forgotten == UNCHANGED started

StopPes == started' = started \ LocalPes

\* destroy(): shutdown() if running_, then both maps are emptied.  The
\* router keeps its pointers: only the next rebuild() forgets them.
Destroy ==
  /\ IF running THEN StopPes ELSE UNCHANGED started
  /\ running' = FALSE
  /\ loaded' = {}

\* shutdown() called by itself does nothing unless running_.
Shutdown ==
  /\ running
  /\ Goto("ready", "idle", 1)
  /\ Destroy
  /\ UNCHANGED <<routerVars, config, reloads>>

\* main() returns after a failure, and the destructor of the singleton runs.
Exit ==
  /\ step \in {"unloaded", "failed"}
  /\ Destroy
  /\ step' = "exited" /\ k' = 1
  /\ UNCHANGED <<routerVars, config, reloads>>

------------------------------------------------------------------------------
(* reload().                                                               *)

\* The parsed configuration replaces the old one after destroy().
Reload ==
  /\ reloads < MaxReloads
  /\ step \in {"idle", "ready"}
  /\ Destroy
  /\ reloads' = reloads + 1
  /\ config' \in Configs
  /\ step' = "load" /\ k' = 1
  /\ UNCHANGED routerVars

\* The file does not parse, a PE is mentioned twice, or its plug-in fails.
LoadFails ==
  /\ k = 1 \/ k <= Len(config.pes)
  /\ Goto("load", "unloaded", 1)
  /\ UNCHANGED <<routerVars, config, loaded, started, running, reloads>>

LoadPe ==
  /\ step = "load" /\ k <= Len(config.pes)
  /\ config.pes[k] \notin loaded
  /\ loaded' = loaded \cup {config.pes[k]}
  /\ Goto("load", "load", k + 1)
  /\ UNCHANGED <<routerVars, config, started, running, reloads>>

Counts == RebuildCounts(Cardinality(LocalPes), Cardinality(RemotePes))

StartRebuild ==
  /\ k > Len(config.pes)
  /\ Goto("load", "tables", 1)
  /\ Counts
  /\ UNCHANGED <<config, loaded, started, running, reloads>>

FinishRebuild ==
  /\ Goto("tables", "received", 1)
  /\ RebuildTables
  /\ UNCHANGED <<config, loaded, started, running, reloads>>

\* The route list of a kind, and what follows it: received routes are set
\* first, then processed ones, then the PEs without routes.
EnrolOrFail(p, next) ==
  IF Refuses(p) THEN Fail /\ UNCHANGED routerVars
                ELSE Enrol(p) /\ step' = next /\ UNCHANGED k

\* Where it stands when a route's source is registered, and when its end is.
EndOf == [received |-> "received_end", processed |-> "processed_end"]
BitOf == [received |-> "received_bit", processed |-> "processed_bit"]

Route(kind) == config[kind][k]
MoreRoutes(kind) == step = kind /\ k <= Len(config[kind])

BadRoute(r) ==
  \/ r[1] # INIT_PE_ID /\ r[1] \notin loaded
  \/ r[2] \notin loaded
  \/ r[2] = INIT_PE_ID

\* An end that no PE has: reload() returns.
RouteFails(kind) ==
  /\ MoreRoutes(kind)
  /\ BadRoute(Route(kind))
  /\ Fail
  /\ UNCHANGED <<routerVars, config, loaded, started, running, reloads>>

\* set_routing_() registers the source; the node's own input needs no index.
RouteSource(kind) ==
  /\ MoreRoutes(kind)
  /\ ~BadRoute(Route(kind))
  /\ IF Route(kind)[1] = INIT_PE_ID
       THEN step' = EndOf[kind] /\ UNCHANGED <<k, routerVars>>
       ELSE EnrolOrFail(Route(kind)[1], EndOf[kind])
  /\ UNCHANGED <<config, loaded, started, running, reloads>>

\* Then the destination; when it is refused, the source stays registered.
RouteEnd(kind) ==
  /\ step = EndOf[kind]
  /\ EnrolOrFail(Route(kind)[2], BitOf[kind])
  /\ UNCHANGED <<config, loaded, started, running, reloads>>

RouteBit(kind) ==
  /\ Goto(BitOf[kind], kind, k + 1)
  /\ SetBit(kind, Route(kind)[1], Route(kind)[2])
  /\ UNCHANGED <<config, loaded, started, running, reloads>>

RoutesDone(kind) ==
  /\ k > Len(config[kind])
  /\ Goto(kind, IF kind = "received" THEN "processed" ELSE "nodes", 1)
  /\ UNCHANGED <<routerVars, config, loaded, started, running, reloads>>

\* set_node() for a PE without routes, local ones first (their own reload()
\* may fail); PEs that routes registered already are only passed over.
SetNode ==
  /\ step = "nodes"
  /\ \E p \in loaded \ Registered :
       /\ p \notin LocalIds => LocalPes \subseteq Registered
       /\ EnrolOrFail(p, "nodes")
  /\ UNCHANGED <<config, loaded, started, running, reloads>>

PeReloadFails ==
  /\ step = "nodes" /\ LocalPes # {}
  /\ Fail
  /\ UNCHANGED <<routerVars, config, loaded, started, running, reloads>>

ReloadDone ==
  /\ loaded \subseteq Registered
  /\ Goto("nodes", "ready", 1)
  /\ UNCHANGED <<routerVars, config, loaded, started, running, reloads>>

------------------------------------------------------------------------------
(* startup().                                                              *)

Startup ==
  /\ ~running
  /\ Goto("ready", "starting", 1)
  /\ UNCHANGED <<routerVars, config, loaded, started, running, reloads>>

StartPe ==
  /\ step = "starting"
  /\ \E p \in LocalPes \ started : started' = started \cup {p}
  /\ UNCHANGED <<routerVars, config, step, k, loaded, running, reloads>>

\* One PE's startup() is false: those started before it stay started.
StartFails ==
  /\ step = "starting"
  /\ LocalPes \ started # {}
  /\ Fail
  /\ UNCHANGED <<routerVars, config, loaded, started, running, reloads>>

Running ==
  /\ LocalPes \subseteq started
  /\ Goto("starting", "ready", 1)
  /\ running' = TRUE
  /\ UNCHANGED <<routerVars, config, loaded, started, reloads>>

Next ==
  \/ Reload \/ LoadFails \/ LoadPe \/ StartRebuild \/ FinishRebuild
  \/ \E kind \in Kinds :
       RouteFails(kind) \/ RouteSource(kind) \/ RouteEnd(kind) \/ RouteBit(kind) \/ RoutesDone(kind)
  \/ SetNode \/ PeReloadFails \/ ReloadDone
  \/ Startup \/ StartPe \/ StartFails \/ Running \/ Shutdown \/ Exit

Spec == Init /\ [][Next]_vars
------------------------------------------------------------------------------
(* Correctness.                                                            *)

RouteSteps(kind) == {kind, EndOf[kind], BitOf[kind]}
Routing == UNION {RouteSteps(kind) : kind \in Kinds}
Steps   == {"idle", "load", "unloaded", "tables", "nodes", "ready", "starting", "failed", "exited"}
             \cup Routing

TypeOK ==
  /\ localCount \in Nat /\ remoteCount \in Nat
  /\ Registered \subseteq PeIds
  /\ config \in Configs \cup {NoConfig} /\ step \in Steps /\ k \in Nat \ {0}
  /\ loaded \subseteq PeIds /\ started \subseteq PeIds
  /\ running \in BOOLEAN /\ reloads \in 0 .. MaxReloads

\* The table is sound at every single step of its construction, and only
\* PEs of this configuration are in it.
NodeInv ==
  /\ TypeOK
  /\ step # "tables" => TableInv
  /\ step \in Routing \cup {"tables", "nodes", "ready", "starting", "failed"} =>
       /\ Registered \subseteq loaded
       /\ localCount = Cardinality(LocalPes)
       /\ remoteCount = Cardinality(RemotePes)

\* The routes of a kind that have been set when the main thread is at step.
RoutesSet(kind) ==
  LET n == IF step \in RouteSteps(kind) THEN k - 1
           ELSE IF kind = "processed" /\ step \in RouteSteps("received") THEN 0
           ELSE Len(config[kind])
  IN  {config[kind][i] : i \in 1 .. n}

\* A lookup that comes in the middle of reload() reaches exactly the PEs of
\* the routes set so far, never an unassigned pointer and never a PE of
\* another row, although one bit is addressed through four counters and two
\* arrays that grow in the order the routes mention the PEs; and rebuild() sized
\* the arrays so that no PE of the configuration is ever refused.
LookupInv ==
  /\ step \in Routing \cup {"nodes", "ready", "starting", "failed"} =>
       \A p \in loaded : ~Refuses(p)
  /\ \A kind \in Kinds, source \in PeIds \cup {INIT_PE_ID} :
    LET reached == Recipients(kind, source)
    IN  /\ step \in Routing \cup {"nodes", "ready", "starting"} =>
             reached = {r[2] : r \in {q \in RoutesSet(kind) : q[1] = source}}
        /\ step = "failed" =>
             \A p \in reached : \E i \in 1 .. Len(config[kind]) : config[kind][i] = <<source, p>>

\* No PE is deleted between its startup() and its shutdown(), except when
\* the failure of another PE's startup() makes main() return; and a node that
\* runs has every local PE started and every PE registered.
StartedInv ==
  /\ step # "exited" => started \subseteq LocalPes
  /\ running => step = "ready" /\ started = LocalPes /\ loaded \subseteq Registered
=============================================================================
