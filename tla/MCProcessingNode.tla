-------------------------- MODULE MCProcessingNode --------------------------
(* Instance of ProcessingNode: two local PEs, one remote PE and PE 0, whose *)
(* id is that of "new to this node".  Of Distribution: a network thread and *)
(* a PE worker, two local PEs, one remote PE, and more addresses than one   *)
(* operation needs, so that copies of two events live at a time and         *)
(* addresses are used again.  What a node looks up in its table is any set  *)
(* of PEs in Distribution, so a behaviour is about the table or about the   *)
(* events, and the other stays as it was at the start.                      *)
EXTENDS ProcessingNode, Distribution, TLC

\* Routes in an order that registers the remote PE first, a PE that routes
\* to itself, an unknown end, a route to PE 0, and a PE mentioned twice.
MCConfigs ==
  LET Lists == {<<>>, <<<<3, 2>>, <<1, 3>>>>, <<<<0, 1>>, <<2, 2>>>>, <<<<2, 1>>, <<0, 3>>, <<1, 2>>>>,
                <<<<1, 3>>, <<7, 1>>>>, <<<<3, 2>>, <<1, 0>>>>}
  IN  [pes : {<<1, 2, 3>>, <<3, 2, 0, 1>>, <<3, 7>>, <<2, 1, 2>>},
       received : Lists, processed : Lists]

Symmetry == Permutations(Addresses)

VARIABLE about      \* what the behaviour is about

\* A node may stop, but one that distributes may not.
Stop == UNCHANGED vars

MCInit == Init /\ DistributionInit /\ about \in {"table", "events"}

MCNext ==
  /\ UNCHANGED about
  /\ \/ about = "table" /\ (Next \/ Stop) /\ UNCHANGED distributionVars
     \/ about = "events" /\ DistributionNext /\ UNCHANGED vars

MCSpec == MCInit /\ [][MCNext]_<<vars, distributionVars, about>>
=============================================================================
