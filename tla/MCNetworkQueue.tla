--------------------------- MODULE MCNetworkQueue ---------------------------
(***************************************************************************)
(* A thread of the application and the Mesh-Controller thread; two PDUs,   *)
(* one for the direct node, and a request to enable the notifications.     *)
(***************************************************************************)
EXTENDS NetworkQueue

CONSTANTS app, p1, p2, n1

MCCallers  == {app, Mesh}
MCRequests == {p1, p2, n1}
=============================================================================
