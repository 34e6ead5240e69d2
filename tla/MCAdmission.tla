---------------------------- MODULE MCAdmission ----------------------------
(***************************************************************************)
(* Admission for TLC, with the queues that it refines and the history of   *)
(* its round robin.                                                        *)
(***************************************************************************)
EXTENDS AdmissionRefinement, AdmissionBypass, TLC

CONSTANTS a1, a2, a3, b1, c1

MCTickets == {a1, a2, a3, b1, c1}
MCKeys == {"a", "b", "c"}
MCKeyOf == a1 :> "a" @@ a2 :> "a" @@ a3 :> "a" @@ b1 :> "b" @@ c1 :> "c"

(* Three partitions take turns, or one has more callers than its queue      *)
(* holds.  Only entering leaves "idle", which no fairness asks for.         *)
Focus == pc[a3] = "idle" \/ (pc[b1] = "idle" /\ pc[c1] = "idle")

=============================================================================
