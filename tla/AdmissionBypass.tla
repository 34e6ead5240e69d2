-------------------------- MODULE AdmissionBypass ---------------------------
(***************************************************************************)
(* Admission with a history variable: bypass[p][q] counts the starts of    *)
(* partition q while partition p waited and had a slot left.               *)
(***************************************************************************)
EXTENDS Admission

VARIABLE bypass

JustStarted == {KeyOf[t] : t \in {u \in Tickets : pc[u] \notin RunningAt /\ pc'[u] \in RunningAt}}

BypassInit == Init /\ bypass = [p \in Keys |-> [q \in Keys |-> 0]]

BypassNext ==
  /\ Next
  /\ bypass' = [p \in Keys |-> [q \in Keys |->
       IF p \in JustStarted \/ p \notin Elems(order)' THEN 0
       ELSE IF p \in Elems(order) /\ ~Saturated(p) /\ q \in JustStarted
            THEN bypass[p][q] + 1
            ELSE bypass[p][q]]]

BypassSpec == BypassInit /\ [][BypassNext]_<<vars, bypass>>

FairBypassSpec == BypassSpec /\ Fairness

(* Round robin: while a partition waits and could start, every other one    *)
(* goes before it at most once (order.remove and push_back, admission.rs    *)
(* 105-111, and the third condition of can_start, 54-57).                   *)
BypassedAtMostOnce == \A p, q \in Keys : bypass[p][q] <= 1

=============================================================================
