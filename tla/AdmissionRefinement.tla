------------------------ MODULE AdmissionRefinement -------------------------
(***************************************************************************)
(* Admission implements the bounded queues of AdmissionQueue.              *)
(***************************************************************************)
EXTENDS Admission

(* The refinement: a ticket runs while it holds a slot, and the abstract    *)
(* queue of a partition is its waiting deque.                               *)
Abstract == INSTANCE AdmissionQueue WITH
  running <- Running,
  waiting <- [k \in Keys |-> Entry(k).waiting]

(* The implementation behaves as the abstract bounded queues: arrival order *)
(* inside a partition, nobody started past a limit, and no newcomer         *)
(* overtaking a queued ticket that could start.                             *)
RefinesQueue == Abstract!Spec

=============================================================================
