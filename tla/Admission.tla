------------------------------ MODULE Admission ------------------------------
(***************************************************************************)
(* The service's admission control (src/admission.rs): bounded queues per  *)
(* partition, round-robin start over the partitions that wait, and release *)
(* of the slot or of the queue position when a ticket is dropped.          *)
(*                                                                         *)
(* State is guarded by one mutex, so each critical section is one action.  *)
(* notify_waiters() runs after the mutex is released and a waiter enables  *)
(* its Notified before it takes the mutex, so both are steps of their own. *)
(*                                                                         *)
(* A queue id is a fresh u64 that is only compared for equality; here the  *)
(* ticket stands for its own id.  Every ticket has a fixed partition key,  *)
(* and is taken, dropped and taken again for as long as the service runs.  *)
(***************************************************************************)
EXTENDS Naturals, Sequences, FiniteSets, Queues

CONSTANTS
  Tickets,               (* callers of enter(), one ticket each at a time   *)
  Keys,                  (* partition keys                                  *)
  KeyOf,                 (* the partition each caller enters                *)
  ActiveLimit,           (* active_limit, from max_concurrent               *)
  PartitionActiveLimit,  (* from max_concurrent_per_partition               *)
  QueueLimit,            (* from max_queued                                 *)
  PartitionQueueLimit    (* from max_queued_per_partition                   *)

(* Config::from_env refuses a limit of zero and a partition limit above the *)
(* corresponding total.                                                     *)
ASSUME AdmissionAssumption ==
  /\ IsFiniteSet(Tickets)
  /\ KeyOf \in [Tickets -> Keys]
  /\ ActiveLimit \in Nat \ {0}
  /\ QueueLimit \in Nat \ {0}
  /\ PartitionActiveLimit \in 1..ActiveLimit
  /\ PartitionQueueLimit \in 1..QueueLimit

VARIABLES
  active,      (* State.active: tickets that hold a slot                    *)
  queued,      (* State.queued: tickets that wait                           *)
  partitions,  (* State.partitions: a function on the keys in use           *)
  order,       (* State.order: the keys that wait, next to be served first  *)
  pc,          (* where each caller is                                      *)
  listening    (* tickets whose enabled Notified has not been notified      *)

state == <<active, queued, partitions, order>>
vars == <<active, queued, partitions, order, pc, listening>>

-----------------------------------------------------------------------------
(* "entered": queued, wait() not polled yet; "trying": Notified enabled,    *)
(* try_start() next; "parked": awaiting the Notified; "started", "dropped": *)
(* critical section left, notify_waiters() next.                            *)
QueuedAt == {"entered", "trying", "parked"}
RunningAt == {"started", "active"}
NotifyAt == {"started", "dropped"}
Locations == QueuedAt \cup RunningAt \cup {"idle", "dropped"}

Queued == {t \in Tickets : pc[t] \in QueuedAt}
Running == {t \in Tickets : pc[t] \in RunningAt}

QueuedIn(k) == {t \in Queued : KeyOf[t] = k}
RunningIn(k) == {t \in Running : KeyOf[t] = k}

Partition == [active : Nat, waiting : Seq(Tickets)]

(* HashMap::entry(k).or_default(), and its insertion.                       *)
Entry(k) == IF k \in DOMAIN partitions
            THEN partitions[k]
            ELSE [active |-> 0, waiting |-> <<>>]

Insert(k, p) == [j \in DOMAIN partitions \cup {k} |-> IF j = k THEN p ELSE partitions[j]]

-----------------------------------------------------------------------------
Init ==
  /\ active = 0
  /\ queued = 0
  /\ partitions = [k \in {} |-> [active |-> 0, waiting |-> <<>>]]
  /\ order = <<>>
  /\ pc = [t \in Tickets |-> "idle"]
  /\ listening = {}

Saturated(k) == partitions[k].active >= PartitionActiveLimit

(* A newcomer starts at once only when no queued partition could start.     *)
CanStartBarging(k) ==
  /\ active < ActiveLimit
  /\ k \in DOMAIN partitions => ~Saturated(k)

CanStart(k) ==
  /\ active < ActiveLimit
  /\ k \in DOMAIN partitions => ~Saturated(k) /\ partitions[k].waiting = <<>>
  /\ \A i \in 1..Len(order) : Saturated(order[i])

Full(k) ==
  \/ queued >= QueueLimit
  \/ k \in DOMAIN partitions /\ Len(partitions[k].waiting) >= PartitionQueueLimit

EnterStart(t) ==
  LET k == KeyOf[t] IN
  /\ pc[t] = "idle"
  /\ CanStart(k)
  /\ active' = active + 1
  /\ partitions' = Insert(k, [Entry(k) EXCEPT !.active = @ + 1])
  /\ pc' = [pc EXCEPT ![t] = "active"]
  /\ UNCHANGED <<queued, order, listening>>

EnterQueue(t) ==
  LET k == KeyOf[t] IN
  /\ pc[t] = "idle"
  /\ ~CanStart(k)
  /\ ~Full(k)
  /\ partitions' = Insert(k, [Entry(k) EXCEPT !.waiting = Append(@, t)])
  /\ order' = IF Entry(k).waiting = <<>> THEN Append(order, k) ELSE order
  /\ queued' = queued + 1
  /\ pc' = [pc EXCEPT ![t] = "entered"]
  /\ UNCHANGED <<active, listening>>

(* Err(Busy): the caller has no ticket and the state is as before.          *)
EnterBusy(t) ==
  /\ pc[t] = "idle"
  /\ ~CanStart(KeyOf[t])
  /\ Full(KeyOf[t])
  /\ UNCHANGED vars

-----------------------------------------------------------------------------
(* wait() creates and enables a Notified, on its first poll and again after *)
(* the previous one was notified.                                           *)
Enable(t) ==
  /\ pc[t] = "entered" \/ (pc[t] = "parked" /\ t \notin listening)
  /\ listening' = listening \cup {t}
  /\ pc' = [pc EXCEPT ![t] = "trying"]
  /\ UNCHANGED state

(* The first key in order whose partition has a slot left.                  *)
SelectedAnywhere(i) == i \in 1..Len(order) /\ ~Saturated(order[i])

Selected(i) ==
  /\ i \in 1..Len(order)
  /\ ~Saturated(order[i])
  /\ \A j \in 1..i - 1 : Saturated(order[j])

(* try_start() succeeds for the ticket at the front of the selected queue.  *)
StartableBehind(t, i) ==
  /\ active < ActiveLimit
  /\ Selected(i)
  /\ order[i] = KeyOf[t]

Startable(t, i) ==
  /\ active < ActiveLimit
  /\ Selected(i)
  /\ order[i] = KeyOf[t]
  /\ partitions[order[i]].waiting # <<>>
  /\ Head(partitions[order[i]].waiting) = t

TryStart(t) ==
  LET k == KeyOf[t] IN
  /\ pc[t] = "trying"
  /\ \E i \in 1..Len(order) :
       /\ Startable(t, i)
       /\ order' = IF Tail(partitions[k].waiting) # <<>>
                   THEN Append(RemoveIndex(order, i), k)
                   ELSE RemoveIndex(order, i)
  /\ partitions' = [partitions EXCEPT ![k].active = @ + 1, ![k].waiting = Tail(@)]
  /\ active' = active + 1
  /\ queued' = queued - 1
  /\ pc' = [pc EXCEPT ![t] = "started"]
  /\ listening' = listening \ {t}

TryFail(t) ==
  /\ pc[t] = "trying"
  /\ ~\E i \in 1..Len(order) : Startable(t, i)
  /\ pc' = [pc EXCEPT ![t] = "parked"]
  /\ UNCHANGED <<active, queued, partitions, order, listening>>

(* The two totals of State, on the branch for a ticket with or without its  *)
(* slot.                                                                    *)
UncountForgetsQueued(t) ==
  /\ active' = IF pc[t] = "active" THEN active - 1 ELSE active
  /\ queued' = queued

Uncount(t) ==
  IF pc[t] = "active"
  THEN active' = active - 1 /\ queued' = queued
  ELSE queued' = queued - 1 /\ active' = active

(* Drop for Ticket.  A queued ticket is dropped with the wait() future it   *)
(* belongs to, so never while that future is being polled.                  *)
Drop(t) ==
  LET k == KeyOf[t]
      p == IF pc[t] = "active"
           THEN [partitions[k] EXCEPT !.active = @ - 1]
           ELSE [partitions[k] EXCEPT !.waiting = Without(@, t)]
  IN
  /\ pc[t] \in {"active", "entered", "parked"}
  /\ order' = IF p.waiting = <<>> THEN Without(order, k) ELSE order
  /\ partitions' = IF p.waiting = <<>> /\ p.active = 0
                   THEN [j \in DOMAIN partitions \ {k} |-> partitions[j]]
                   ELSE [partitions EXCEPT ![k] = p]
  /\ Uncount(t)
  /\ pc' = [pc EXCEPT ![t] = "dropped"]
  /\ listening' = listening \ {t}

(* changed.notify_waiters(): wakes every Notified enabled so far.           *)
Notify(t) ==
  /\ pc[t] \in NotifyAt
  /\ listening' = {}
  /\ pc' = [pc EXCEPT ![t] = IF @ = "started" THEN "active" ELSE "idle"]
  /\ UNCHANGED state

Next ==
  \E t \in Tickets :
    \/ EnterStart(t)
    \/ EnterQueue(t)
    \/ EnterBusy(t)
    \/ Enable(t)
    \/ TryStart(t)
    \/ TryFail(t)
    \/ Drop(t)
    \/ Notify(t)

Spec == Init /\ [][Next]_vars

(* A polled task makes progress, and a ticket that holds a slot is released *)
(* eventually: every request runs under a deadline (handlers.rs:267).  No   *)
(* caller has to enter and no queued ticket has to be cancelled.            *)
Fairness ==
  \A t \in Tickets :
    /\ WF_vars(Enable(t))
    /\ WF_vars(TryStart(t) \/ TryFail(t))
    /\ WF_vars(Notify(t))
    /\ WF_vars(Drop(t) /\ pc[t] = "active")

FairSpec == Spec /\ Fairness

-----------------------------------------------------------------------------
(* The shape of the state behind the mutex and of the callers around it.    *)
TypeOK ==
  /\ active \in Nat
  /\ queued \in Nat
  /\ DOMAIN partitions \subseteq Keys
  /\ \A k \in DOMAIN partitions : partitions[k] \in Partition
  /\ order \in Seq(Keys)
  /\ pc \in [Tickets -> Locations]
  /\ listening \subseteq {t \in Tickets : pc[t] \in {"trying", "parked"}}

(* The three counters agree with the tickets that exist, whatever mix of    *)
(* starts, cancellations and releases led there: a counter that drifted     *)
(* would leak a slot or let one too many through (admission.rs:59-60,       *)
(* 108-113, 147-164).                                                       *)
Accounting ==
  /\ active = Cardinality(Running)
  /\ queued = Cardinality(Queued)
  /\ \A k \in DOMAIN partitions :
       partitions[k].active = Cardinality(RunningIn(k))

(* The queues hold exactly the tickets that wait, once each; order holds    *)
(* exactly the keys with a queue, once each; and a partition has an entry   *)
(* only while a ticket of it is alive, so the map does not grow with the    *)
(* keys ever seen.  The unwrap() and index expressions on the map rely on   *)
(* this (admission.rs:57, 102, 106, 146).                                   *)
QueuesMatchTickets ==
  /\ DOMAIN partitions = {KeyOf[t] : t \in Running \cup Queued}
  /\ \A k \in DOMAIN partitions :
       /\ Elems(partitions[k].waiting) = QueuedIn(k)
       /\ Distinct(partitions[k].waiting)
  /\ Elems(order) = {KeyOf[t] : t \in Queued}
  /\ Distinct(order)

(* No more tickets than the configuration allows hold a slot or wait, in    *)
(* total and in each partition.                                             *)
LimitsRespected ==
  /\ Cardinality(Running) <= ActiveLimit
  /\ Cardinality(Queued) <= QueueLimit
  /\ \A k \in Keys :
       /\ Cardinality(RunningIn(k)) <= PartitionActiveLimit
       /\ Cardinality(QueuedIn(k)) <= PartitionQueueLimit

(* The state behind the mutex is consistent between any two critical        *)
(* sections, in all these respects.                                         *)
Consistent == TypeOK /\ Accounting /\ QueuesMatchTickets /\ LimitsRespected

(* No ticket starves: one that waits, and is not cancelled, gets a slot,    *)
(* however many others keep entering in its own and in other partitions,    *)
(* and sleeps through no wakeup: this is what enable() before try_start()   *)
(* and notify_waiters() are for (admission.rs:130-138).                     *)
(* Callers that keep cancelling queued tickets before they are polled can   *)
(* hold the front of order without starting, so cancellations must cease.   *)
CancelsQueued(t) == Drop(t) /\ pc[t] \in QueuedAt

EventuallyStarts ==
  <>[][\A t \in Tickets : ~CancelsQueued(t)]_vars
  => \A t \in Tickets : pc[t] \in QueuedAt ~> pc[t] \notin QueuedAt

=============================================================================
