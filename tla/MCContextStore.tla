--------------------------- MODULE MCContextStore ---------------------------
(***************************************************************************)
(* ContextStore for TLC: calls of two owners, more than the limits allow.  *)
(***************************************************************************)
EXTENDS ContextStore, TLC

CONSTANTS p1, p2, p3, q1, q2

MCCreates == {p1, p2, p3, q1, q2}
MCOwners == {"p", "q"}
MCOwnerOf == [c \in MCCreates |-> IF c \in {p1, p2, p3} THEN "p" ELSE "q"]

=============================================================================
