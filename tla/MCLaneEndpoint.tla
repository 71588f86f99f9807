--------------------------- MODULE MCLaneEndpoint ---------------------------
(* Model-checking instances of LaneEndpoint: successive owners of one       *)
(* session and the calls of their children.                                 *)
EXTENDS LaneEndpoint

CONSTANTS p1, p2, c1, c2
=============================================================================
