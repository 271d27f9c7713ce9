--------------------------- MODULE MCViewerSession ---------------------------
(***************************************************************************)
(* Instances of ViewerSession for TLC.                                     *)
(***************************************************************************)
EXTENDS ViewerSession

CONSTANTS c1, c2, c3, a1, a2, a3

\* Every client keeps its address.
HomeAddrs == [c \in Clients |-> IF c = c1 THEN {a1} ELSE {a2}]

\* Any client may come back from any address.
RoamingAddrs == [c \in Clients |-> Addrs]
=============================================================================
