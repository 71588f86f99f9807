--------------------------- MODULE MCSessionLock ---------------------------
(* Model-checking instances of SessionLock: two or three processes, the     *)
(* session name s, the directly acquired name k, a provisional name each.   *)
EXTENDS SessionLock, TLC

CONSTANTS p1, p2, p3, i1, i2, i3, i4, s, k, a1, a2, a3

\* Both rename to s from a name of their own, or share k.
Disciplined == p1 :> {a1, k} @@ p2 :> {a2, k}

\* p2 acquires the session name directly while the others rename to it.
Mixed == p1 :> {a1} @@ p2 :> {s} @@ p3 :> {a3}

\* The passing run is an instance of the theorems.
ASSUME MCAssumption == AcquireNames # Mixed => Discipline
=============================================================================
