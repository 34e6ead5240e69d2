----------------------------- MODULE MCRequests -----------------------------
(***************************************************************************)
(* Requests for TLC.                                                       *)
(***************************************************************************)
EXTENDS Requests, TLC

CONSTANTS r1, r2, r3, r4

(* One exchange, for liveness.                                              *)
One == {r1}
OneId == [r \in One |-> "i"]
OnePartitionOf == [r \in One |-> "p"]

(* Two exchanges that reuse one request id, and two with ids of their own.  *)
Four == {r1, r2, r3, r4}
FourIdOf == r1 :> "i" @@ r2 :> "i" @@ r3 :> "j" @@ r4 :> "k"
FourPartitionOf == [r \in Four |-> "p"]

(* The exchanges that share an id are interchangeable.                      *)
Symmetry == Permutations({r1, r2})

(* Competition needs no upstream and no client: a request comes as far as   *)
(* its slot, and fails there.                                               *)
Contending ==
  /\ serving = "up"
  /\ late = {}
  /\ \A r \in Requests :
       /\ At(r) \notin Executing \ {"waiting", "preparing"}
       /\ resp[r].reader \in {"none", "open"} /\ resp[r].got = <<>>
       /\ ~rec[r].cancelled

New(rs) == \A r \in rs : At(r) = "new"

(* The two that share an id go all the way; or they compete with a third;   *)
(* or three with different ids compete, one more than the registry holds.   *)
Focus ==
  \/ New({r3, r4})
  \/ Contending /\ (New({r4}) \/ New({r1}) \/ New({r2}))

=============================================================================
