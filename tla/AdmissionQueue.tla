--------------------------- MODULE AdmissionQueue ---------------------------
(***************************************************************************)
(* What admission promises its callers, without the counters, the          *)
(* round-robin deque and the wake-ups that implement it: a set of tickets  *)
(* that run, a first-in first-out queue per partition, and four limits.    *)
(***************************************************************************)
EXTENDS Naturals, Sequences, FiniteSets, Queues

CONSTANTS Tickets, Keys, KeyOf, ActiveLimit, PartitionActiveLimit,
          QueueLimit, PartitionQueueLimit

VARIABLES
  running,  (* the tickets that hold a slot                                 *)
  waiting   (* for each partition, its queued tickets in order of arrival   *)

vars == <<running, waiting>>

Absent(t) == t \notin running /\ t \notin Elems(waiting[KeyOf[t]])

HasSlot(k) == Cardinality({t \in running : KeyOf[t] = k}) < PartitionActiveLimit

Free == Cardinality(running) < ActiveLimit

(* Partitions with somebody to start and a slot to start it in.             *)
Ready(k) == waiting[k] # <<>> /\ HasSlot(k)

Waiters == {t \in Tickets : t \in Elems(waiting[KeyOf[t]])}

Init ==
  /\ running = {}
  /\ waiting = [k \in Keys |-> <<>>]

(* A newcomer takes a slot only if nobody queued could take it, and is      *)
(* refused only if it can neither start nor queue.                          *)
CanAdmit(j) ==
  /\ Free /\ HasSlot(j) /\ waiting[j] = <<>>
  /\ ~\E k \in Keys : Ready(k)

Full(k) ==
  \/ Cardinality(Waiters) >= QueueLimit
  \/ Len(waiting[k]) >= PartitionQueueLimit

Admit(t) ==
  /\ Absent(t)
  /\ CanAdmit(KeyOf[t])
  /\ running' = running \cup {t}
  /\ UNCHANGED waiting

Queue(t) ==
  /\ Absent(t)
  /\ ~CanAdmit(KeyOf[t])
  /\ ~Full(KeyOf[t])
  /\ waiting' = [waiting EXCEPT ![KeyOf[t]] = Append(@, t)]
  /\ UNCHANGED running

Refuse(t) ==
  /\ Absent(t)
  /\ ~CanAdmit(KeyOf[t])
  /\ Full(KeyOf[t])
  /\ UNCHANGED vars

(* Only the oldest ticket of a partition starts.                            *)
Start(k) ==
  /\ Free /\ Ready(k)
  /\ running' = running \cup {Head(waiting[k])}
  /\ waiting' = [waiting EXCEPT ![k] = Tail(@)]

Finish(t) ==
  /\ t \in running
  /\ running' = running \ {t}
  /\ UNCHANGED waiting

(* A queued ticket leaves; the others keep their order.                     *)
GiveUp(t) ==
  /\ t \in Waiters
  /\ waiting' = [waiting EXCEPT ![KeyOf[t]] = Without(@, t)]
  /\ UNCHANGED running

Next ==
  \/ \E t \in Tickets : Admit(t) \/ Queue(t) \/ Refuse(t) \/ Finish(t) \/ GiveUp(t)
  \/ \E k \in Keys : Start(k)

Spec == Init /\ [][Next]_vars

=============================================================================
