----------------------------- MODULE MCDispatch -----------------------------
(* Instance: the master and two slaves.  Three links are the two to the     *)
(* master and one more: the link between the slaves, or a reconnection      *)
(* while the master still holds the old link.                               *)
EXTENDS Dispatch

\* Slave 1 configured as the server of slave 2, and the other way round.
MCMatrices == {{<<1, 2>>}, {<<2, 1>>}}
\* Slave 2 has events for slave 1.
MCCalls == {<<2, 1>>}
=============================================================================
