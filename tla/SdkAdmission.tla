---------------------------- MODULE SdkAdmission ----------------------------
(***************************************************************************)
(* The Admission class of the TypeScript SDK (concurrency.ts): a pool of   *)
(* permits shared by partitions, with a bounded queue.  The client has one *)
(* for its exchanges, every managed session one of width one.  JavaScript  *)
(* runs a method to completion, so each is an operator from a pool to a    *)
(* pool.  A promise a method resolves or rejects is continued later, in a  *)
(* turn of its own: until then its owner is in "granted" or in "refused".  *)
(***************************************************************************)
EXTENDS Integers, Sequences, FiniteSets, SequencesExt

CONSTANTS
  Exchanges,      \* the requests the caller makes
  Partitions,     \* the partitions they name
  PartOf          \* the partition of each

ASSUME PartOfAssumption == PartOf \in [Exchanges -> Partitions]

Limits == [maxConcurrent : Nat \ {0}, maxConcurrentPerPartition : Nat \ {0},
           maxQueued : Nat, maxQueuedPerPartition : Nat]

None == [p \in Partitions |-> 0]

NewPool(limits) ==
  [limits |-> limits, active |-> 0, byPartition |-> None,
   waiting |-> <<>>, queuedByPartition |-> None,
   reserved |-> 0, reservedByPartition |-> None,
   granted |-> {}, refused |-> {}]

Pools ==
  [limits : Limits, active : Nat, byPartition : [Partitions -> Nat],
   waiting : Seq(Exchanges), queuedByPartition : [Partitions -> Nat],
   reserved : Nat, reservedByPartition : [Partitions -> Nat],
   granted : SUBSET Exchanges, refused : SUBSET Exchanges]

Smaller(m, n) == IF m <= n THEN m ELSE n

constrain(a, l) == [a EXCEPT !.limits = [f \in DOMAIN @ |-> Smaller(@[f], l[f])]]

(* "reserve" bounds the requests that still discover the service's limits. *)
MayReserve(a, p) ==
  /\ a.reserved < a.limits.maxConcurrent + a.limits.maxQueued
  /\ a.reservedByPartition[p] < a.limits.maxConcurrentPerPartition + a.limits.maxQueuedPerPartition

reserve(a, p) == [a EXCEPT !.reserved = @ + 1, !.reservedByPartition[p] = @ + 1]

unreserve(a, p) == [a EXCEPT !.reserved = @ - 1, !.reservedByPartition[p] = @ - 1]

available(a, p) ==
  /\ a.active < a.limits.maxConcurrent
  /\ a.byPartition[p] < a.limits.maxConcurrentPerPartition

occupy(a, e) ==
  [a EXCEPT !.active = @ + 1, !.byPartition[PartOf[e]] = @ + 1, !.granted = @ \cup {e}]

refuse(a, e) == [a EXCEPT !.refused = @ \cup {e}]

remove(a, e) ==
  [a EXCEPT !.waiting = SelectSeq(@, LAMBDA x : x # e),
            !.queuedByPartition[PartOf[e]] = @ - 1]

(* One pass over the queue in its order; "aborted" are the exchanges whose *)
(* deadline has already been aborted.                                      *)
dispatch(a, aborted) ==
  FoldLeft(LAMBDA b, e : IF ~ available(b, PartOf[e]) THEN b
                         ELSE IF e \in aborted THEN refuse(remove(b, e), e)
                         ELSE occupy(remove(b, e), e),
           a, a.waiting)


release(a, e, aborted) ==
  dispatch([a EXCEPT !.active = @ - 1, !.byPartition[PartOf[e]] = @ - 1], aborted)

QueueFull(a, p) ==
  \/ Len(a.waiting) >= a.limits.maxQueued
  \/ a.queuedByPartition[p] >= a.limits.maxQueuedPerPartition

acquire(a, e, aborted) ==
  LET p == PartOf[e]
  IN CASE e \in aborted -> refuse(a, e)
       [] e \notin aborted /\ available(a, p) /\ a.queuedByPartition[p] = 0 -> occupy(a, e)
       [] OTHER -> IF QueueFull(a, p) THEN refuse(a, e)
                   ELSE [a EXCEPT !.waiting = Append(@, e), !.queuedByPartition[p] = @ + 1]

(* The abort listener of a queued item.                                    *)
abort(a, e, aborted) ==
  IF e \in ToSet(a.waiting) THEN dispatch(refuse(remove(a, e), e), aborted) ELSE a

(* The continuation of "await acquire": the caller takes the answer.       *)
Take(a, e) == [a EXCEPT !.granted = @ \ {e}, !.refused = @ \ {e}]
=============================================================================
