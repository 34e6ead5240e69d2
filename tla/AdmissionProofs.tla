-------------------------- MODULE AdmissionProofs --------------------------
(***************************************************************************)
(* The safety of admission for any number of callers and partitions and    *)
(* any limits, and in which order it serves: it implements the abstract    *)
(* bounded queues step by step, and no partition that waits and could      *)
(* start is passed twice by the same other one.                            *)
(***************************************************************************)
EXTENDS AdmissionRefinement, AdmissionBypass, QueueLemmas, TLAPS

(* The counters never pass their limits and a queue is as long as the       *)
(* tickets in it: with the accounting this makes the limits inductive.      *)
CountersBounded ==
  /\ active <= ActiveLimit
  /\ queued <= QueueLimit
  /\ \A k \in DOMAIN partitions :
       /\ partitions[k].active <= PartitionActiveLimit
       /\ Len(partitions[k].waiting) <= PartitionQueueLimit
       /\ Len(partitions[k].waiting) = Cardinality(QueuedIn(k))

IInv == TypeOK /\ Accounting /\ QueuesMatchTickets /\ CountersBounded

-----------------------------------------------------------------------------
(* The sets of tickets.                                                     *)

(* The tickets that run or wait, in all or in one partition, are finitely   *)
(* many, so their numbers can be compared with the counters.                *)
LEMMA FiniteTickets ==
  ASSUME NEW k
  PROVE  /\ IsFiniteSet(Running) /\ IsFiniteSet(Queued)
         /\ IsFiniteSet(RunningIn(k)) /\ IsFiniteSet(QueuedIn(k))
<1>1. /\ Running \in SUBSET Tickets /\ Queued \in SUBSET Tickets
      /\ RunningIn(k) \in SUBSET Tickets /\ QueuedIn(k) \in SUBSET Tickets
  BY DEF Running, Queued, RunningIn, QueuedIn
<1>2. QED
  BY <1>1, FS_Subset, AdmissionAssumption

(* What moving one caller to location l does to the four sets.              *)
LEMMA TicketMoves ==
  ASSUME TypeOK, NEW t \in Tickets, NEW l \in Locations, pc' = [pc EXCEPT ![t] = l]
  PROVE  /\ Running' = IF l \in RunningAt THEN Running \cup {t} ELSE Running \ {t}
         /\ Queued' = IF l \in QueuedAt THEN Queued \cup {t} ELSE Queued \ {t}
         /\ \A k : RunningIn(k)' = IF l \in RunningAt /\ k = KeyOf[t]
                                  THEN RunningIn(k) \cup {t} ELSE RunningIn(k) \ {t}
         /\ \A k : QueuedIn(k)' = IF l \in QueuedAt /\ k = KeyOf[t]
                                 THEN QueuedIn(k) \cup {t} ELSE QueuedIn(k) \ {t}
<1>1. \A u \in Tickets : pc'[u] = IF u = t THEN l ELSE pc[u]
  BY DEF TypeOK
<1>2. /\ Running' = IF l \in RunningAt THEN Running \cup {t} ELSE Running \ {t}
      /\ Queued' = IF l \in QueuedAt THEN Queued \cup {t} ELSE Queued \ {t}
  BY <1>1 DEF Running, Queued
<1>3. QED
  BY <1>2 DEF RunningIn, QueuedIn

(* The same for the number of tickets in them, all four at once: the caller *)
(* leaves location pc[t] for l.                                             *)
LEMMA TicketCounts ==
  ASSUME TypeOK, NEW t \in Tickets, NEW l \in Locations, pc' = [pc EXCEPT ![t] = l]
  PROVE  /\ Cardinality(Running)' = Cardinality(Running)
              + (IF l \in RunningAt /\ pc[t] \notin RunningAt THEN 1 ELSE 0)
              - (IF l \notin RunningAt /\ pc[t] \in RunningAt THEN 1 ELSE 0)
         /\ Cardinality(Queued)' = Cardinality(Queued)
              + (IF l \in QueuedAt /\ pc[t] \notin QueuedAt THEN 1 ELSE 0)
              - (IF l \notin QueuedAt /\ pc[t] \in QueuedAt THEN 1 ELSE 0)
         /\ \A k : Cardinality(RunningIn(k))' = Cardinality(RunningIn(k))
              + (IF k = KeyOf[t] /\ l \in RunningAt /\ pc[t] \notin RunningAt THEN 1 ELSE 0)
              - (IF k = KeyOf[t] /\ l \notin RunningAt /\ pc[t] \in RunningAt THEN 1 ELSE 0)
         /\ \A k : Cardinality(QueuedIn(k))' = Cardinality(QueuedIn(k))
              + (IF k = KeyOf[t] /\ l \in QueuedAt /\ pc[t] \notin QueuedAt THEN 1 ELSE 0)
              - (IF k = KeyOf[t] /\ l \notin QueuedAt /\ pc[t] \in QueuedAt THEN 1 ELSE 0)
<1>1. /\ t \in Running <=> pc[t] \in RunningAt
      /\ t \in Queued <=> pc[t] \in QueuedAt
      /\ \A k : t \in RunningIn(k) <=> k = KeyOf[t] /\ pc[t] \in RunningAt
      /\ \A k : t \in QueuedIn(k) <=> k = KeyOf[t] /\ pc[t] \in QueuedAt
  BY DEF Running, Queued, RunningIn, QueuedIn
<1>2. ASSUME NEW S, IsFiniteSet(S)
      PROVE  /\ Cardinality(S) \in Nat
             /\ Cardinality(S \cup {t}) = Cardinality(S) + (IF t \in S THEN 0 ELSE 1)
             /\ Cardinality(S \ {t}) = Cardinality(S) - (IF t \in S THEN 1 ELSE 0)
  <2>1. Cardinality(S) \in Nat
    BY <1>2, FS_CardinalityType
  <2>2. Cardinality(S \cup {t}) = IF t \in S THEN Cardinality(S) ELSE Cardinality(S) + 1
    BY <1>2, FS_AddElement
  <2>3. Cardinality(S \ {t}) = IF t \in S THEN Cardinality(S) - 1 ELSE Cardinality(S)
    BY <1>2, FS_RemoveElement
  <2>4. QED
    BY <2>1, <2>2, <2>3
<1>3. /\ Cardinality(Running') = Cardinality(Running)
              + (IF l \in RunningAt /\ pc[t] \notin RunningAt THEN 1 ELSE 0)
              - (IF l \notin RunningAt /\ pc[t] \in RunningAt THEN 1 ELSE 0)
      /\ Cardinality(Queued') = Cardinality(Queued)
              + (IF l \in QueuedAt /\ pc[t] \notin QueuedAt THEN 1 ELSE 0)
              - (IF l \notin QueuedAt /\ pc[t] \in QueuedAt THEN 1 ELSE 0)
  <2>1. IsFiniteSet(Running) /\ IsFiniteSet(Queued)
    BY FiniteTickets
  <2>2. /\ Running' = IF l \in RunningAt THEN Running \cup {t} ELSE Running \ {t}
        /\ Queued' = IF l \in QueuedAt THEN Queued \cup {t} ELSE Queued \ {t}
    BY TicketMoves
  <2>3. /\ Cardinality(Running) \in Nat
        /\ Cardinality(Running \cup {t}) = Cardinality(Running) + (IF t \in Running THEN 0 ELSE 1)
        /\ Cardinality(Running \ {t}) = Cardinality(Running) - (IF t \in Running THEN 1 ELSE 0)
    BY <2>1, <1>2
  <2>4. /\ Cardinality(Queued) \in Nat
        /\ Cardinality(Queued \cup {t}) = Cardinality(Queued) + (IF t \in Queued THEN 0 ELSE 1)
        /\ Cardinality(Queued \ {t}) = Cardinality(Queued) - (IF t \in Queued THEN 1 ELSE 0)
    BY <2>1, <1>2
  <2>5. QED
    BY <2>2, <2>3, <2>4, <1>1
<1>4. ASSUME NEW k
      PROVE  Cardinality(RunningIn(k)') = Cardinality(RunningIn(k))
              + (IF k = KeyOf[t] /\ l \in RunningAt /\ pc[t] \notin RunningAt THEN 1 ELSE 0)
              - (IF k = KeyOf[t] /\ l \notin RunningAt /\ pc[t] \in RunningAt THEN 1 ELSE 0)
  <2>1. IsFiniteSet(RunningIn(k))
    BY FiniteTickets
  <2>2. RunningIn(k)' = IF l \in RunningAt /\ k = KeyOf[t]
                       THEN RunningIn(k) \cup {t} ELSE RunningIn(k) \ {t}
    BY TicketMoves
  <2>3. /\ Cardinality(RunningIn(k)) \in Nat
        /\ Cardinality(RunningIn(k) \cup {t}) = Cardinality(RunningIn(k)) + (IF t \in RunningIn(k) THEN 0 ELSE 1)
        /\ Cardinality(RunningIn(k) \ {t}) = Cardinality(RunningIn(k)) - (IF t \in RunningIn(k) THEN 1 ELSE 0)
    BY <2>1, <1>2
  <2>4. t \in RunningIn(k) <=> k = KeyOf[t] /\ pc[t] \in RunningAt
    BY <1>1
  <2>5. QED
    BY <2>2, <2>3, <2>4
<1>5. ASSUME NEW k
      PROVE  Cardinality(QueuedIn(k)') = Cardinality(QueuedIn(k))
              + (IF k = KeyOf[t] /\ l \in QueuedAt /\ pc[t] \notin QueuedAt THEN 1 ELSE 0)
              - (IF k = KeyOf[t] /\ l \notin QueuedAt /\ pc[t] \in QueuedAt THEN 1 ELSE 0)
  <2>1. IsFiniteSet(QueuedIn(k))
    BY FiniteTickets
  <2>2. QueuedIn(k)' = IF l \in QueuedAt /\ k = KeyOf[t]
                       THEN QueuedIn(k) \cup {t} ELSE QueuedIn(k) \ {t}
    BY TicketMoves
  <2>3. /\ Cardinality(QueuedIn(k)) \in Nat
        /\ Cardinality(QueuedIn(k) \cup {t}) = Cardinality(QueuedIn(k)) + (IF t \in QueuedIn(k) THEN 0 ELSE 1)
        /\ Cardinality(QueuedIn(k) \ {t}) = Cardinality(QueuedIn(k)) - (IF t \in QueuedIn(k) THEN 1 ELSE 0)
    BY <2>1, <1>2
  <2>4. t \in QueuedIn(k) <=> k = KeyOf[t] /\ pc[t] \in QueuedAt
    BY <1>1
  <2>5. QED
    BY <2>2, <2>3, <2>4
<1>6. QED
  BY <1>3, <1>4, <1>5

-----------------------------------------------------------------------------
(* The inductive invariant, read one partition at a time.                   *)

PartitionOK(k, p) ==
  /\ p \in Partition
  /\ p.active = Cardinality(RunningIn(k)) /\ p.active <= PartitionActiveLimit
  /\ Elems(p.waiting) = QueuedIn(k) /\ Distinct(p.waiting)
  /\ Len(p.waiting) = Cardinality(QueuedIn(k)) /\ Len(p.waiting) <= PartitionQueueLimit

TotalsOK ==
  /\ active \in Nat /\ active = Cardinality(Running) /\ active <= ActiveLimit
  /\ queued \in Nat /\ queued = Cardinality(Queued) /\ queued <= QueueLimit

OrderOK ==
  /\ order \in Seq(Keys)
  /\ Elems(order) = {KeyOf[t] : t \in Queued}
  /\ Distinct(order)

CallersOK ==
  /\ pc \in [Tickets -> Locations]
  /\ listening \subseteq {t \in Tickets : pc[t] \in {"trying", "parked"}}

DomainOK ==
  /\ DOMAIN partitions \subseteq Keys
  /\ DOMAIN partitions = {KeyOf[t] : t \in Running \cup Queued}

(* The invariant split into what concerns the totals, the order, the        *)
(* callers, the set of partitions, and each partition by itself.            *)
LEMMA IInvShape ==
  IInv <=> /\ TotalsOK /\ OrderOK /\ CallersOK /\ DomainOK
           /\ \A k \in DOMAIN partitions : PartitionOK(k, partitions[k])
BY DEF IInv, TypeOK, Accounting, QueuesMatchTickets, CountersBounded,
       PartitionOK, TotalsOK, OrderOK, CallersOK, DomainOK

(* The same for the next state, to be cited where the parts are proved.     *)
LEMMA IInvNext ==
  ASSUME TotalsOK', OrderOK', CallersOK', DomainOK',
         (\A k \in DOMAIN partitions : PartitionOK(k, partitions[k]))'
  PROVE  IInv'
BY DEF IInv, TypeOK, Accounting, QueuesMatchTickets, CountersBounded,
       PartitionOK, TotalsOK, OrderOK, CallersOK, DomainOK

(* The entry a HashMap::entry().or_default() yields, present or fresh.      *)
LEMMA EntryOK ==
  ASSUME IInv, NEW k \in Keys
  PROVE  PartitionOK(k, Entry(k))
<1>1. CASE k \in DOMAIN partitions
  BY <1>1, IInvShape DEF Entry
<1>2. CASE k \notin DOMAIN partitions
  <2>1. RunningIn(k) = {} /\ QueuedIn(k) = {}
    BY <1>2, IInvShape DEF DomainOK, RunningIn, QueuedIn
  <2>2. Cardinality(RunningIn(k)) = 0 /\ Cardinality(QueuedIn(k)) = 0
    BY <2>1, FS_EmptySet
  <2>3. Entry(k) = [active |-> 0, waiting |-> <<>>]
    BY <1>2 DEF Entry
  <2>4. Elems(<<>>) = {} /\ Distinct(<<>>)
    BY DEF Elems, Distinct
  <2>5. QED
    BY <2>1, <2>2, <2>3, <2>4, AdmissionAssumption DEF PartitionOK, Partition
<1>3. QED
  BY <1>1, <1>2

(* A step of one caller leaves the other partitions' entries right.         *)
LEMMA OtherPartition ==
  ASSUME TypeOK, NEW t \in Tickets, NEW l \in Locations, pc' = [pc EXCEPT ![t] = l],
         NEW k, k # KeyOf[t]
  PROVE  RunningIn(k)' = RunningIn(k) /\ QueuedIn(k)' = QueuedIn(k)
<1>1. t \notin RunningIn(k) /\ t \notin QueuedIn(k)
  BY DEF RunningIn, QueuedIn
<1>2. RunningIn(k)' = RunningIn(k) \ {t} /\ QueuedIn(k)' = QueuedIn(k) \ {t}
  BY TicketMoves
<1>3. QED
  BY <1>1, <1>2

(* So only the entry of the caller's own partition needs an argument.       *)
LEMMA PartitionsStep ==
  ASSUME IInv, NEW t \in Tickets, NEW l \in Locations, pc' = [pc EXCEPT ![t] = l],
         \A j \in DOMAIN partitions' : j # KeyOf[t] =>
            j \in DOMAIN partitions /\ partitions'[j] = partitions[j],
         KeyOf[t] \in DOMAIN partitions' => PartitionOK(KeyOf[t], partitions[KeyOf[t]])'
  PROVE  (\A j \in DOMAIN partitions : PartitionOK(j, partitions[j]))'
<1>1. ASSUME NEW j \in DOMAIN partitions', j # KeyOf[t]
      PROVE  PartitionOK(j, partitions[j])'
  <2>1. PartitionOK(j, partitions[j]) /\ partitions'[j] = partitions[j]
    BY <1>1, IInvShape
  <2>2. RunningIn(j)' = RunningIn(j) /\ QueuedIn(j)' = QueuedIn(j)
    BY <1>1, OtherPartition DEF IInv
  <2>3. QED
    BY <2>1, <2>2 DEF PartitionOK
<1>2. QED
  BY <1>1

-----------------------------------------------------------------------------
(* Each action preserves the inductive invariant.                           *)

(* enter() with a free slot (can_start): the ticket runs at once.           *)
LEMMA EnterStartStep ==
  ASSUME IInv, NEW t \in Tickets, EnterStart(t)
  PROVE  IInv'
<1> DEFINE k == KeyOf[t]
<1>1. k \in Keys /\ TypeOK /\ PartitionOK(k, Entry(k))
  BY AdmissionAssumption, EntryOK DEF IInv
<1>2. /\ pc[t] = "idle" /\ pc' = [pc EXCEPT ![t] = "active"] /\ "active" \in Locations
      /\ active < ActiveLimit /\ active' = active + 1 /\ UNCHANGED <<queued, order, listening>>
      /\ partitions' = Insert(k, [Entry(k) EXCEPT !.active = @ + 1])
  BY DEF EnterStart, CanStart, Locations, RunningAt
<1>3. /\ Running' = Running \cup {t} /\ Queued' = Queued /\ QueuedIn(k)' = QueuedIn(k)
      /\ Cardinality(Running)' = Cardinality(Running) + 1
      /\ Cardinality(RunningIn(k))' = Cardinality(RunningIn(k)) + 1
  <2>1. t \notin Queued /\ t \notin QueuedIn(k) /\ "active" \notin QueuedAt
    BY <1>2 DEF Queued, QueuedIn, QueuedAt
  <2>2. "active" \in RunningAt /\ pc[t] \notin RunningAt
    BY <1>2 DEF RunningAt
  <2>3. /\ Running' = Running \cup {t} /\ Queued' = Queued \ {t} /\ QueuedIn(k)' = QueuedIn(k) \ {t}
    BY <1>1, <1>2, <2>1, <2>2, TicketMoves
  <2>4. /\ Cardinality(Running)' = Cardinality(Running) + 1 - 0
        /\ Cardinality(RunningIn(k))' = Cardinality(RunningIn(k)) + 1 - 0
    BY <1>1, <1>2, <2>2, TicketCounts
  <2>5. Cardinality(Running) \in Nat /\ Cardinality(RunningIn(k)) \in Nat
    BY FiniteTickets, FS_CardinalityType
  <2>6. QED
    BY <2>1, <2>3, <2>4, <2>5
<1>4. Entry(k).active < PartitionActiveLimit
  BY <1>1, AdmissionAssumption DEF EnterStart, CanStart, Saturated, Entry, PartitionOK, Partition
<1>5. /\ DOMAIN partitions' = DOMAIN partitions \cup {k}
      /\ partitions'[k] = [Entry(k) EXCEPT !.active = @ + 1]
      /\ \A j \in DOMAIN partitions : j # k => partitions'[j] = partitions[j]
  BY <1>2 DEF Insert
<1>6. PartitionOK(k, partitions[k])'
  BY <1>1, <1>3, <1>4, <1>5, AdmissionAssumption DEF PartitionOK, Partition
<1>7. (\A j \in DOMAIN partitions : PartitionOK(j, partitions[j]))'
  BY <1>2, <1>5, <1>6, PartitionsStep
<1>8. DomainOK'
  BY <1>1, <1>3, <1>5, IInvShape DEF DomainOK
<1>9. TotalsOK' /\ OrderOK'
  BY <1>2, <1>3, IInvShape, AdmissionAssumption DEF TotalsOK, OrderOK
<1>10. CallersOK'
  BY <1>2, IInvShape DEF CallersOK, Locations
<1>11. QED
  BY <1>7, <1>8, <1>9, <1>10, IInvNext

(* enter() without one: the ticket joins its partition's queue, and the     *)
(* partition joins the order if it was not waiting (admission.rs 73-81).    *)
LEMMA EnterQueueStep ==
  ASSUME IInv, NEW t \in Tickets, EnterQueue(t)
  PROVE  IInv'
<1> DEFINE k == KeyOf[t]
<1>1. k \in Keys /\ TypeOK /\ PartitionOK(k, Entry(k))
  BY AdmissionAssumption, EntryOK DEF IInv
<1>2. /\ pc[t] = "idle" /\ pc' = [pc EXCEPT ![t] = "entered"] /\ "entered" \in Locations
      /\ ~Full(k) /\ queued' = queued + 1 /\ UNCHANGED <<active, listening>>
      /\ partitions' = Insert(k, [Entry(k) EXCEPT !.waiting = Append(@, t)])
      /\ order' = IF Entry(k).waiting = <<>> THEN Append(order, k) ELSE order
  BY DEF EnterQueue, Locations, QueuedAt
<1>3. /\ Queued' = Queued \cup {t} /\ Running' = Running
      /\ RunningIn(k)' = RunningIn(k) /\ QueuedIn(k)' = QueuedIn(k) \cup {t}
      /\ t \notin QueuedIn(k)
      /\ Cardinality(Queued)' = Cardinality(Queued) + 1
      /\ Cardinality(QueuedIn(k))' = Cardinality(QueuedIn(k)) + 1
  <2>1. t \notin Running /\ t \notin RunningIn(k) /\ t \notin QueuedIn(k) /\ "entered" \notin RunningAt
    BY <1>2 DEF Running, RunningIn, RunningAt, Queued, QueuedIn, QueuedAt
  <2>2. "entered" \in QueuedAt /\ pc[t] \notin QueuedAt
    BY <1>2 DEF QueuedAt
  <2>3. /\ Queued' = Queued \cup {t} /\ Running' = Running \ {t}
        /\ RunningIn(k)' = RunningIn(k) \ {t} /\ QueuedIn(k)' = QueuedIn(k) \cup {t}
    BY <1>1, <1>2, <2>1, <2>2, TicketMoves
  <2>4. /\ Cardinality(Queued)' = Cardinality(Queued) + 1 - 0
        /\ Cardinality(QueuedIn(k))' = Cardinality(QueuedIn(k)) + 1 - 0
    BY <1>1, <1>2, <2>2, TicketCounts
  <2>5. Cardinality(Queued) \in Nat /\ Cardinality(QueuedIn(k)) \in Nat
    BY FiniteTickets, FS_CardinalityType
  <2>6. QED
    BY <2>1, <2>3, <2>4, <2>5
<1>4. /\ queued < QueueLimit
      /\ Entry(k).waiting \in Seq(Tickets) /\ Len(Entry(k).waiting) < PartitionQueueLimit
  <2>1. Entry(k).waiting \in Seq(Tickets) /\ queued \in Nat
    BY <1>1, IInvShape DEF PartitionOK, Partition, TotalsOK
  <2>2. k \notin DOMAIN partitions => Len(Entry(k).waiting) = 0
    BY DEF Entry
  <2>3. QED
    BY <1>2, <2>1, <2>2, AdmissionAssumption DEF Full, Entry
<1>5. /\ DOMAIN partitions' = DOMAIN partitions \cup {k}
      /\ partitions'[k] = [Entry(k) EXCEPT !.waiting = Append(@, t)]
      /\ \A j \in DOMAIN partitions : j # k => partitions'[j] = partitions[j]
  BY <1>2 DEF Insert
<1>6. PartitionOK(k, partitions[k])'
  <2> DEFINE w == Append(Entry(k).waiting, t)
  <2>1. Elems(Entry(k).waiting) = QueuedIn(k) /\ Distinct(Entry(k).waiting)
    BY <1>1 DEF PartitionOK
  <2>2. /\ w \in Seq(Tickets) /\ Len(w) = Len(Entry(k).waiting) + 1
        /\ Elems(w) = QueuedIn(k) \cup {t} /\ Distinct(w)
    BY <1>3, <1>4, <2>1, AppendLemma
  <2>3. partitions'[k].active = Entry(k).active /\ partitions'[k].waiting = w
        /\ partitions'[k] \in Partition
    BY <1>1, <1>5, <2>2 DEF PartitionOK, Partition
  <2>4. QED
    BY <1>1, <1>3, <1>4, <2>2, <2>3, AdmissionAssumption DEF PartitionOK
<1>7. (\A j \in DOMAIN partitions : PartitionOK(j, partitions[j]))'
  BY <1>2, <1>5, <1>6, PartitionsStep
<1>8. DomainOK'
  BY <1>1, <1>3, <1>5, IInvShape DEF DomainOK
<1>9. TotalsOK'
  BY <1>2, <1>3, <1>4, IInvShape, AdmissionAssumption DEF TotalsOK
<1>10. OrderOK'
  <2>1. Entry(k).waiting = <<>> <=> QueuedIn(k) = {}
    BY <1>1, <1>4, EmptyLemma DEF PartitionOK
  <2>2. k \in Elems(order) <=> QueuedIn(k) # {}
    BY IInvShape DEF OrderOK, QueuedIn
  <2>3. order \in Seq(Keys) /\ Distinct(order) /\ Elems(order) = {KeyOf[u] : u \in Queued}
    BY IInvShape DEF OrderOK
  <2>4. {KeyOf[u] : u \in Queued'} = {KeyOf[u] : u \in Queued} \cup {k}
    BY <1>3
  <2>5. CASE Entry(k).waiting = <<>>
    <3>1. /\ Append(order, k) \in Seq(Keys) /\ Distinct(Append(order, k))
          /\ Elems(Append(order, k)) = Elems(order) \cup {k}
      BY <1>1, <2>1, <2>2, <2>3, <2>5, AppendLemma
    <3>2. QED
      BY <1>2, <2>3, <2>4, <2>5, <3>1 DEF OrderOK
  <2>6. CASE Entry(k).waiting # <<>>
    BY <1>2, <2>1, <2>2, <2>3, <2>4, <2>6 DEF OrderOK
  <2>7. QED
    BY <2>5, <2>6
<1>11. CallersOK'
  BY <1>2, IInvShape DEF CallersOK, Locations
<1>12. QED
  BY <1>7, <1>8, <1>9, <1>10, <1>11, IInvNext

(* A step that leaves the mutex's state alone and keeps its caller queued,  *)
(* running or neither.                                                      *)
LEMMA QuietStep ==
  ASSUME IInv, NEW t \in Tickets, NEW l \in Locations, pc' = [pc EXCEPT ![t] = l],
         l \in QueuedAt <=> pc[t] \in QueuedAt, l \in RunningAt <=> pc[t] \in RunningAt,
         UNCHANGED state, CallersOK'
  PROVE  IInv'
<1>1. Running' = Running /\ Queued' = Queued
  <2>1. /\ Running' = IF l \in RunningAt THEN Running \cup {t} ELSE Running \ {t}
        /\ Queued' = IF l \in QueuedAt THEN Queued \cup {t} ELSE Queued \ {t}
    BY TicketMoves DEF IInv
  <2>2. (t \in Running <=> pc[t] \in RunningAt) /\ (t \in Queued <=> pc[t] \in QueuedAt)
    BY DEF Running, Queued
  <2>3. QED
    BY <2>1, <2>2
<1>2. \A k : RunningIn(k)' = RunningIn(k) /\ QueuedIn(k)' = QueuedIn(k)
  BY <1>1 DEF RunningIn, QueuedIn
<1>3. (\A k \in DOMAIN partitions : PartitionOK(k, partitions[k]))'
  BY <1>2, IInvShape DEF PartitionOK, state
<1>4. TotalsOK' /\ OrderOK' /\ DomainOK'
  BY <1>1, IInvShape DEF TotalsOK, OrderOK, DomainOK, state
<1>5. QED
  BY <1>3, <1>4, IInvNext

(* Enabling the Notified, failing to start and notify_waiters() touch no    *)
(* counter and no queue.                                                    *)
LEMMA WaitStep ==
  ASSUME IInv, NEW t \in Tickets, Enable(t) \/ TryFail(t) \/ Notify(t)
  PROVE  IInv'
<1>1. CASE Enable(t)
  <2>1. CallersOK'
    BY <1>1, IInvShape DEF CallersOK, Enable, Locations, QueuedAt
  <2>2. QED
    BY <1>1, <2>1, QuietStep DEF Enable, Locations, QueuedAt, RunningAt
<1>2. CASE TryFail(t)
  <2>1. CallersOK'
    BY <1>2, IInvShape DEF CallersOK, TryFail, Locations, QueuedAt
  <2>2. QED
    BY <1>2, <2>1, QuietStep DEF TryFail, Locations, QueuedAt, RunningAt, state
<1>3. CASE Notify(t)
  <2> DEFINE l == IF pc[t] = "started" THEN "active" ELSE "idle"
  <2>1. pc' = [pc EXCEPT ![t] = l] /\ l \in Locations /\ pc[t] \in {"started", "dropped"}
    BY <1>3, IInvShape DEF Notify, NotifyAt, CallersOK, Locations, RunningAt
  <2>2. CallersOK'
    BY <1>3, <2>1, IInvShape DEF CallersOK, Notify
  <2>3. /\ l \in QueuedAt <=> pc[t] \in QueuedAt
        /\ l \in RunningAt <=> pc[t] \in RunningAt
        /\ UNCHANGED state
    BY <1>3, <2>1 DEF Notify, QueuedAt, RunningAt
  <2>4. QED
    BY <2>1, <2>2, <2>3, QuietStep
<1>4. QED
  BY <1>1, <1>2, <1>3

(* try_start(): the ticket leaves the queue for a slot, and its partition   *)
(* goes to the end of the order or leaves it.                               *)
LEMMA TryStartStep ==
  ASSUME IInv, NEW t \in Tickets, TryStart(t)
  PROVE  IInv'
<1> DEFINE k == KeyOf[t]
           w == partitions[k].waiting
<1>1. PICK i \in 1..Len(order) :
        /\ Startable(t, i)
        /\ order' = IF Tail(w) # <<>> THEN Append(RemoveIndex(order, i), k)
                                      ELSE RemoveIndex(order, i)
  BY DEF TryStart
<1>2. /\ pc[t] = "trying" /\ pc' = [pc EXCEPT ![t] = "started"] /\ "started" \in Locations
      /\ active' = active + 1 /\ queued' = queued - 1 /\ listening' = listening \ {t}
      /\ partitions' = [partitions EXCEPT ![k].active = @ + 1, ![k].waiting = Tail(@)]
  BY DEF TryStart, Locations, RunningAt
<1>3. /\ active < ActiveLimit /\ order[i] = k /\ ~Saturated(k)
      /\ w # <<>> /\ Head(w) = t
  BY <1>1 DEF Startable, Selected
<1>4. k \in Keys /\ k \in DOMAIN partitions /\ PartitionOK(k, partitions[k]) /\ TypeOK
  <2>1. t \in Queued
    BY <1>2 DEF Queued, QueuedAt
  <2>2. QED
    BY <2>1, AdmissionAssumption, IInvShape DEF DomainOK, IInv
<1>5. /\ Running' = Running \cup {t} /\ Queued' = Queued \ {t}
      /\ QueuedIn(k)' = QueuedIn(k) \ {t}
      /\ Cardinality(Running)' = Cardinality(Running) + 1
      /\ Cardinality(RunningIn(k))' = Cardinality(RunningIn(k)) + 1
      /\ Cardinality(Queued)' = Cardinality(Queued) - 1
      /\ Cardinality(QueuedIn(k))' = Cardinality(QueuedIn(k)) - 1
  <2>1. /\ "started" \in RunningAt /\ "started" \notin QueuedAt
        /\ pc[t] \notin RunningAt /\ pc[t] \in QueuedAt
    BY <1>2 DEF RunningAt, QueuedAt
  <2>2. /\ Running' = Running \cup {t} /\ Queued' = Queued \ {t}
        /\ QueuedIn(k)' = QueuedIn(k) \ {t}
    BY <1>2, <1>4, <2>1, TicketMoves
  <2>3. /\ Cardinality(Running)' = Cardinality(Running) + 1 - 0
        /\ Cardinality(RunningIn(k))' = Cardinality(RunningIn(k)) + 1 - 0
        /\ Cardinality(Queued)' = Cardinality(Queued) + 0 - 1
        /\ Cardinality(QueuedIn(k))' = Cardinality(QueuedIn(k)) + 0 - 1
    BY <1>2, <1>4, <2>1, TicketCounts
  <2>4. /\ Cardinality(Running) \in Nat /\ Cardinality(RunningIn(k)) \in Nat
        /\ Cardinality(Queued) \in Nat /\ Cardinality(QueuedIn(k)) \in Nat
    BY FiniteTickets, FS_CardinalityType
  <2>5. QED
    BY <2>2, <2>3, <2>4
<1>6. /\ DOMAIN partitions' = DOMAIN partitions
      /\ partitions'[k] = [active |-> partitions[k].active + 1, waiting |-> Tail(w)]
      /\ \A j \in DOMAIN partitions : j # k => partitions'[j] = partitions[j]
  <2>1. /\ DOMAIN partitions' = DOMAIN partitions
        /\ \A j \in DOMAIN partitions : j # k => partitions'[j] = partitions[j]
    BY <1>2
  <2>2. partitions'[k] = [[partitions[k] EXCEPT !.active = @ + 1] EXCEPT !.waiting = Tail(@)]
    BY <1>2, <1>4
  <2>3. QED
    BY <1>4, <2>1, <2>2 DEF PartitionOK, Partition
<1>7. PICK v \in Seq(Tickets) :
        v = Tail(w) /\ Len(v) = Len(w) - 1 /\ Distinct(v) /\ Elems(v) = QueuedIn(k) \ {t}
  <2>1. w \in Seq(Tickets) /\ Distinct(w) /\ Elems(w) = QueuedIn(k)
    BY <1>4 DEF PartitionOK, Partition
  <2>2. QED
    BY <1>3, <2>1, TailLemma
<1>8. PartitionOK(k, partitions[k])'
  <2>1. /\ partitions[k] \in Partition /\ partitions[k].active < PartitionActiveLimit
        /\ partitions[k].active = Cardinality(RunningIn(k))
        /\ Len(w) = Cardinality(QueuedIn(k)) /\ Len(w) <= PartitionQueueLimit
    BY <1>3, <1>4, AdmissionAssumption DEF PartitionOK, Partition, Saturated
  <2>2. /\ partitions'[k] \in Partition
        /\ partitions'[k].active = partitions[k].active + 1
        /\ partitions'[k].waiting = v
    BY <1>6, <1>7, <2>1 DEF Partition
  <2>3. Len(v) \in Nat /\ Len(w) \in Nat /\ partitions[k].active \in Nat
    BY <2>1 DEF Partition
  <2>4. QED
    BY <1>5, <1>7, <2>1, <2>2, <2>3, AdmissionAssumption DEF PartitionOK
<1>9. (\A j \in DOMAIN partitions : PartitionOK(j, partitions[j]))'
  <2>1. \A j \in DOMAIN partitions' : j # k =>
          j \in DOMAIN partitions /\ partitions'[j] = partitions[j]
    BY <1>6
  <2>2. QED
    BY <1>2, <1>8, <2>1, PartitionsStep
<1>10. DomainOK'
  <2>1. Running' \cup Queued' = Running \cup Queued
    <3>1. t \in Queued
      BY <1>2 DEF Queued, QueuedAt
    <3>2. QED
      BY <1>5, <3>1
  <2>2. QED
    BY <1>6, <2>1, IInvShape DEF DomainOK
<1>11. TotalsOK'
  <2>1. Cardinality(Queued') \in Nat
    <3>1. IsFiniteSet(Queued \ {t})
      BY FiniteTickets, FS_RemoveElement
    <3>2. QED
      BY <1>5, <3>1, FS_CardinalityType
  <2>2. QED
    BY <1>2, <1>3, <1>5, <2>1, IInvShape, AdmissionAssumption DEF TotalsOK
<1>12. OrderOK'
  <2>1. order \in Seq(Keys) /\ Distinct(order) /\ Elems(order) = {KeyOf[u] : u \in Queued}
    BY IInvShape DEF OrderOK
  <2>2. /\ RemoveIndex(order, i) \in Seq(Keys) /\ Distinct(RemoveIndex(order, i))
        /\ Elems(RemoveIndex(order, i)) = Elems(order) \ {k}
    <3>1. /\ RemoveIndex(order, i) \in Seq(Keys) /\ Distinct(RemoveIndex(order, i))
          /\ Elems(RemoveIndex(order, i)) = Elems(order) \ {order[i]}
      BY <2>1, RemoveIndexLemma
    <3>2. QED
      BY <1>3, <3>1
  <2>3. Tail(w) = <<>> <=> QueuedIn(k) \ {t} = {}
    <3>1. v = <<>> <=> Elems(v) = {}
      BY EmptyLemma
    <3>2. QED
      BY <1>7, <3>1
  <2>4. CASE Tail(w) # <<>>
    <3>1. /\ order' \in Seq(Keys) /\ Distinct(order') /\ Elems(order') = (Elems(order) \ {k}) \cup {k}
      BY <1>1, <1>4, <2>2, <2>4, AppendLemma
    <3>2. {KeyOf[u] : u \in Queued'} = {KeyOf[u] : u \in Queued} \cup {k}
      BY <1>5, <2>3, <2>4 DEF QueuedIn
    <3>3. QED
      BY <2>1, <3>1, <3>2 DEF OrderOK
  <2>5. CASE Tail(w) = <<>>
    <3>1. {KeyOf[u] : u \in Queued'} = {KeyOf[u] : u \in Queued} \ {k}
      BY <1>5, <2>3, <2>5 DEF QueuedIn
    <3>2. QED
      BY <1>1, <2>1, <2>2, <2>5, <3>1 DEF OrderOK
  <2>6. QED
    BY <2>4, <2>5
<1>13. CallersOK'
  BY <1>2, IInvShape DEF CallersOK, Locations
<1>14. QED
  BY <1>9, <1>10, <1>11, <1>12, <1>13, IInvNext

(* Dropping a ticket, queued or running, gives back exactly what it held    *)
(* and removes a partition that nobody uses any more.                       *)
LEMMA DropStep ==
  ASSUME IInv, NEW t \in Tickets, Drop(t)
  PROVE  IInv'
<1> DEFINE k == KeyOf[t]
           q == partitions[k]
           p == IF pc[t] = "active"
                THEN [q EXCEPT !.active = @ - 1]
                ELSE [q EXCEPT !.waiting = Without(@, t)]
<1>1. /\ pc[t] \in {"active", "entered", "parked"}
      /\ pc' = [pc EXCEPT ![t] = "dropped"] /\ "dropped" \in Locations
      /\ listening' = listening \ {t}
      /\ order' = IF p.waiting = <<>> THEN Without(order, k) ELSE order
      /\ partitions' = IF p.waiting = <<>> /\ p.active = 0
                       THEN [j \in DOMAIN partitions \ {k} |-> partitions[j]]
                       ELSE [partitions EXCEPT ![k] = p]
  BY DEF Drop, Locations
<1>2. k \in Keys /\ k \in DOMAIN partitions /\ PartitionOK(k, q) /\ TypeOK
  <2>1. t \in Running \cup Queued
    BY <1>1 DEF Running, Queued, RunningAt, QueuedAt
  <2>2. QED
    BY <2>1, AdmissionAssumption, IInvShape DEF DomainOK, IInv
<1>3. /\ Running' = Running \ {t} /\ Queued' = Queued \ {t}
      /\ RunningIn(k)' = RunningIn(k) \ {t} /\ QueuedIn(k)' = QueuedIn(k) \ {t}
  <2>1. "dropped" \notin RunningAt /\ "dropped" \notin QueuedAt
    BY DEF RunningAt, QueuedAt
  <2>2. QED
    BY <1>1, <1>2, <2>1, TicketMoves
<1>4. /\ IsFiniteSet(Running') /\ IsFiniteSet(Queued')
      /\ IsFiniteSet(RunningIn(k)') /\ IsFiniteSet(QueuedIn(k)')
  BY <1>3, FiniteTickets, FS_RemoveElement
<1>5. /\ Cardinality(Running') \in Nat /\ Cardinality(Queued') \in Nat
      /\ Cardinality(RunningIn(k)') \in Nat /\ Cardinality(QueuedIn(k)') \in Nat
      /\ Cardinality(Running) \in Nat /\ Cardinality(Queued) \in Nat
      /\ Cardinality(RunningIn(k)) \in Nat /\ Cardinality(QueuedIn(k)) \in Nat
  BY <1>4, FiniteTickets, FS_CardinalityType
<1>6. /\ q \in Partition /\ q.active \in Nat /\ q.waiting \in Seq(Tickets)
      /\ q.active = Cardinality(RunningIn(k)) /\ q.active <= PartitionActiveLimit
      /\ Elems(q.waiting) = QueuedIn(k) /\ Distinct(q.waiting)
      /\ Len(q.waiting) = Cardinality(QueuedIn(k)) /\ Len(q.waiting) <= PartitionQueueLimit
  BY <1>2 DEF PartitionOK, Partition
<1>7. PICK a \in Nat, w \in Seq(Tickets) :
        /\ p = [active |-> a, waiting |-> w]
        /\ a = Cardinality(RunningIn(k)') /\ a <= PartitionActiveLimit
        /\ Elems(w) = QueuedIn(k)' /\ Distinct(w)
        /\ Len(w) = Cardinality(QueuedIn(k)') /\ Len(w) <= PartitionQueueLimit
        /\ TotalsOK'
  <2>1. CASE pc[t] = "active"
    <3>1. p = [active |-> q.active - 1, waiting |-> q.waiting]
      BY <2>1, <1>6 DEF Partition
    <3>2. active' = active - 1 /\ queued' = queued
      BY <2>1 DEF Drop, Uncount
    <3>3. "dropped" \notin RunningAt /\ pc[t] \in RunningAt /\ "dropped" \notin QueuedAt /\ pc[t] \notin QueuedAt
      BY <2>1 DEF RunningAt, QueuedAt
    <3>4. /\ Cardinality(Running)' = Cardinality(Running) + 0 - 1
          /\ Cardinality(RunningIn(k))' = Cardinality(RunningIn(k)) + 0 - 1
      BY <1>1, <1>2, <3>3, TicketCounts
    <3>5. QueuedIn(k)' = QueuedIn(k) /\ Queued' = Queued
      BY <1>3, <3>3 DEF QueuedIn, Queued
    <3>6. TotalsOK'
      BY <1>5, <3>2, <3>4, <3>5, IInvShape, AdmissionAssumption DEF TotalsOK
    <3>7. q.active - 1 \in Nat /\ q.active - 1 = Cardinality(RunningIn(k)') /\ q.active - 1 <= PartitionActiveLimit
      BY <1>5, <1>6, <3>4, AdmissionAssumption
    <3>8. QED
      BY <1>6, <3>1, <3>5, <3>6, <3>7
  <2>2. CASE pc[t] # "active"
    <3>1. p = [active |-> q.active, waiting |-> Without(q.waiting, t)]
      BY <2>2, <1>6 DEF Partition
    <3>2. active' = active /\ queued' = queued - 1
      BY <2>2 DEF Drop, Uncount
    <3>3. "dropped" \notin RunningAt /\ pc[t] \notin RunningAt /\ "dropped" \notin QueuedAt /\ pc[t] \in QueuedAt
      BY <1>1, <2>2 DEF RunningAt, QueuedAt
    <3>4. /\ Cardinality(Queued)' = Cardinality(Queued) + 0 - 1
          /\ Cardinality(QueuedIn(k))' = Cardinality(QueuedIn(k)) + 0 - 1
      BY <1>1, <1>2, <3>3, TicketCounts
    <3>5. RunningIn(k)' = RunningIn(k) /\ Running' = Running /\ t \in QueuedIn(k)
      BY <1>3, <3>3 DEF RunningIn, Running, QueuedIn, Queued
    <3>6. TotalsOK'
      BY <1>5, <3>2, <3>4, <3>5, IInvShape, AdmissionAssumption DEF TotalsOK
    <3>7. /\ Without(q.waiting, t) \in Seq(Tickets) /\ Distinct(Without(q.waiting, t))
          /\ Elems(Without(q.waiting, t)) = QueuedIn(k) \ {t}
          /\ Len(Without(q.waiting, t)) = Len(q.waiting) - 1
      <4>1. q.waiting \in Seq(Tickets) /\ Distinct(q.waiting) /\ t \in Elems(q.waiting)
        BY <1>6, <3>5
      <4>2. /\ Without(q.waiting, t) \in Seq(Tickets) /\ Distinct(Without(q.waiting, t))
            /\ Elems(Without(q.waiting, t)) = Elems(q.waiting) \ {t}
            /\ Len(Without(q.waiting, t)) = Len(q.waiting) - 1
        BY <4>1, WithoutLemma
      <4>3. QED
        BY <1>6, <4>2
    <3>8. /\ Len(Without(q.waiting, t)) = Cardinality(QueuedIn(k)')
          /\ Len(Without(q.waiting, t)) <= PartitionQueueLimit
      BY <1>5, <1>6, <3>4, <3>7, AdmissionAssumption
    <3>9. QED
      BY <1>3, <1>6, <3>1, <3>5, <3>6, <3>7, <3>8
  <2>3. QED
    BY <2>1, <2>2
<1>8. w = <<>> <=> QueuedIn(k)' = {}
  BY <1>7, EmptyLemma
<1>9. a = 0 <=> RunningIn(k)' = {}
  BY <1>4, <1>7, FS_EmptySet
<1>10. order' = IF w = <<>> THEN Without(order, k) ELSE order
  BY <1>1, <1>7
<1>11. ASSUME w = <<>> /\ a = 0
       PROVE  DomainOK' /\ (\A j \in DOMAIN partitions : PartitionOK(j, partitions[j]))'
  <2>1. partitions' = [j \in DOMAIN partitions \ {k} |-> partitions[j]]
    BY <1>1, <1>7, <1>11
  <2>2. (\A j \in DOMAIN partitions : PartitionOK(j, partitions[j]))'
    BY <1>1, <2>1, PartitionsStep
  <2>3. DomainOK'
    <3>1. \A u \in Running' \cup Queued' : KeyOf[u] # k
      BY <1>8, <1>9, <1>11 DEF RunningIn, QueuedIn
    <3>2. {KeyOf[u] : u \in Running' \cup Queued'} = {KeyOf[u] : u \in Running \cup Queued} \ {k}
      BY <1>3, <3>1
    <3>3. QED
      BY <2>1, <3>2, IInvShape DEF DomainOK
  <2>4. QED
    BY <2>2, <2>3
<1>12. ASSUME ~(w = <<>> /\ a = 0)
       PROVE  DomainOK' /\ (\A j \in DOMAIN partitions : PartitionOK(j, partitions[j]))'
  <2>1. partitions' = [partitions EXCEPT ![k] = [active |-> a, waiting |-> w]]
    BY <1>1, <1>7, <1>12
  <2>2. PartitionOK(k, partitions[k])'
    BY <1>2, <1>7, <2>1 DEF PartitionOK, Partition
  <2>3. (\A j \in DOMAIN partitions : PartitionOK(j, partitions[j]))'
    <3>1. \A j \in DOMAIN partitions' : j # k =>
            j \in DOMAIN partitions /\ partitions'[j] = partitions[j]
      BY <2>1
    <3>2. QED
      BY <1>1, <2>2, <3>1, PartitionsStep
  <2>4. DomainOK'
    <3>1. \E u \in Running' \cup Queued' : KeyOf[u] = k
      BY <1>8, <1>9, <1>12 DEF RunningIn, QueuedIn
    <3>2. {KeyOf[u] : u \in Running' \cup Queued'} = {KeyOf[u] : u \in Running \cup Queued}
      BY <1>3, <3>1
    <3>3. QED
      BY <2>1, <3>2, IInvShape DEF DomainOK
  <2>5. QED
    BY <2>3, <2>4
<1>13. OrderOK'
  <2>1. order \in Seq(Keys) /\ Distinct(order) /\ Elems(order) = {KeyOf[u] : u \in Queued}
    BY IInvShape DEF OrderOK
  <2>2. CASE w = <<>>
    <3>1. /\ order' \in Seq(Keys) /\ Distinct(order') /\ Elems(order') = Elems(order) \ {k}
      BY <1>10, <2>1, <2>2, WithoutLemma
    <3>2. {KeyOf[u] : u \in Queued'} = {KeyOf[u] : u \in Queued} \ {k}
      BY <1>3, <1>8, <2>2 DEF QueuedIn
    <3>3. QED
      BY <2>1, <3>1, <3>2 DEF OrderOK
  <2>3. CASE w # <<>>
    <3>1. {KeyOf[u] : u \in Queued'} = {KeyOf[u] : u \in Queued}
      BY <1>3, <1>8, <2>3 DEF QueuedIn
    <3>2. QED
      BY <1>10, <2>1, <2>3, <3>1 DEF OrderOK
  <2>4. QED
    BY <2>2, <2>3
<1>14. CallersOK'
  BY <1>1, IInvShape DEF CallersOK, Locations
<1>15. QED
  BY <1>7, <1>11, <1>12, <1>13, <1>14, IInvNext

-----------------------------------------------------------------------------
(* A new Admission satisfies the invariant.                                 *)
LEMMA InitIInv == Init => IInv
<1> SUFFICES ASSUME Init PROVE IInv
  OBVIOUS
<1>1. Running = {} /\ Queued = {}
  BY DEF Init, Running, Queued, RunningAt, QueuedAt
<1>2. Cardinality(Running) = 0 /\ Cardinality(Queued) = 0
  BY <1>1, FS_EmptySet
<1>3. Elems(order) = {} /\ Distinct(order) /\ order \in Seq(Keys)
  BY DEF Init, Elems, Distinct
<1>4. TotalsOK /\ OrderOK /\ DomainOK
  BY <1>1, <1>2, <1>3, AdmissionAssumption DEF Init, TotalsOK, OrderOK, DomainOK
<1>5. CallersOK
  BY DEF Init, CallersOK, Locations
<1>6. QED
  BY <1>4, <1>5, IInvShape DEF Init

(* Every step keeps the invariant.                                          *)
LEMMA NextIInv == IInv /\ [Next]_vars => IInv'
<1> SUFFICES ASSUME IInv, [Next]_vars PROVE IInv'
  OBVIOUS
<1>1. CASE UNCHANGED vars
  BY <1>1 DEF vars, IInv, TypeOK, Accounting, QueuesMatchTickets, CountersBounded,
              Running, Queued, RunningIn, QueuedIn
<1>2. ASSUME NEW t \in Tickets, EnterBusy(t) PROVE IInv'
  BY <1>1, <1>2 DEF EnterBusy
<1>3. QED
  BY <1>1, <1>2, EnterStartStep, EnterQueueStep, WaitStep, TryStartStep, DropStep DEF Next

(* The inductive invariant holds in every reachable state, for any callers, *)
(* partitions and limits; the theorems below are read off it.               *)
THEOREM Invariance == Spec => []IInv
BY InitIInv, NextIInv, PTL DEF Spec

(* The shape of the state, for any callers, partitions and limits.          *)
THEOREM TypeCorrect == Spec => []TypeOK
<1>1. IInv => TypeOK
  BY DEF IInv
<1>2. QED
  BY <1>1, Invariance, PTL

(* The counters never drift from the tickets that exist (admission.rs:59,   *)
(* 108-113, 147-164).                                                       *)
THEOREM AccountingHolds == Spec => []Accounting
<1>1. IInv => Accounting
  BY DEF IInv
<1>2. QED
  BY <1>1, Invariance, PTL

(* Queues, order and the partition map hold exactly the live tickets, so    *)
(* the map lookups of try_start() and drop() never miss (admission.rs:102,  *)
(* 106, 146) and an idle partition leaves nothing behind.                   *)
THEOREM QueuesHold == Spec => []QueuesMatchTickets
<1>1. IInv => QueuesMatchTickets
  BY DEF IInv
<1>2. QED
  BY <1>1, Invariance, PTL

(* The configured limits are never exceeded.                                *)
THEOREM LimitsHold == Spec => []LimitsRespected
<1>1. IInv => LimitsRespected
  <2> SUFFICES ASSUME IInv PROVE LimitsRespected
    OBVIOUS
  <2>1. Cardinality(Running) <= ActiveLimit /\ Cardinality(Queued) <= QueueLimit
    BY DEF IInv, Accounting, CountersBounded
  <2>2. ASSUME NEW k \in Keys
        PROVE  /\ Cardinality(RunningIn(k)) <= PartitionActiveLimit
               /\ Cardinality(QueuedIn(k)) <= PartitionQueueLimit
    BY EntryOK DEF PartitionOK
  <2>3. QED
    BY <2>1, <2>2 DEF LimitsRespected
<1>2. QED
  BY <1>1, Invariance, PTL

(* Between any two critical sections the state behind the mutex is          *)
(* consistent, for any callers, partitions and limits: counters, queues,    *)
(* order and the partition map describe the same tickets, within the limits *)
(* (admission.rs:46-164).                                                   *)
THEOREM ConsistencyHolds == Spec => []Consistent
<1>1. TypeOK /\ Accounting /\ QueuesMatchTickets /\ LimitsRespected => Consistent
  BY DEF Consistent
<1>2. QED
  BY <1>1, TypeCorrect, AccountingHolds, QueuesHold, LimitsHold, PTL

-----------------------------------------------------------------------------
(* The abstract predicates in terms of the counters and of the deques.      *)

(* The abstract queue of a partition is never more or less than its deque.  *)
LEMMA SameQueues ==
  /\ \A s : Abstract!Elems(s) = Elems(s)
  /\ \A s, e : Abstract!Without(s, e) = Without(s, e)
  /\ \A S : Abstract!Cardinality(S) = Cardinality(S)
<1>1. \A s : Abstract!Elems(s) = Elems(s)
  BY DEF Abstract!Elems, Elems
<1>2. \A s, i : Abstract!RemoveIndex(s, i) = RemoveIndex(s, i)
  BY DEF Abstract!RemoveIndex, RemoveIndex
<1>3. \A s, e : Abstract!Without(s, e) = Without(s, e)
  BY <1>2 DEF Abstract!Without, Without
<1>4. \A S : Abstract!Cardinality(S) = Cardinality(S)
  BY DEF Abstract!Cardinality, Cardinality
<1> QED BY <1>1, <1>3, <1>4

(* A partition has somebody queued exactly when its key is in order.        *)
LEMMA KeyQueued ==
  ASSUME IInv, NEW k \in Keys
  PROVE  /\ Entry(k).waiting \in Seq(Tickets) /\ Distinct(Entry(k).waiting)
         /\ Elems(Entry(k).waiting) = QueuedIn(k)
         /\ Entry(k).waiting # <<>> <=> k \in Elems(order)
         /\ k \in Elems(order) => k \in DOMAIN partitions
<1>1. PartitionOK(k, Entry(k))
  BY EntryOK
<1>2. /\ Entry(k).waiting \in Seq(Tickets) /\ Elems(Entry(k).waiting) = QueuedIn(k)
      /\ Distinct(Entry(k).waiting)
  BY <1>1 DEF PartitionOK, Partition
<1>3. Entry(k).waiting = <<>> <=> QueuedIn(k) = {}
  BY <1>2, EmptyLemma
<1>4. k \in Elems(order) <=> QueuedIn(k) # {}
  BY DEF IInv, QueuesMatchTickets, QueuedIn
<1>5. k \in Elems(order) => k \in DOMAIN partitions
  BY DEF IInv, QueuesMatchTickets
<1> QED BY <1>2, <1>3, <1>4, <1>5

(* The counters decide as the sets would.                                   *)
LEMMA SlotsAgree ==
  ASSUME IInv
  PROVE  /\ Abstract!Free <=> active < ActiveLimit
         /\ \A k \in Keys : Abstract!HasSlot(k) <=> Entry(k).active < PartitionActiveLimit
         /\ \A k \in Keys : Abstract!Ready(k) <=> k \in Elems(order) /\ ~Saturated(k)
         /\ Abstract!Waiters = Queued
<1>1. Abstract!Free <=> active < ActiveLimit
  BY SameQueues DEF Abstract!Free, IInv, Accounting
<1>2. ASSUME NEW k \in Keys
      PROVE  Abstract!HasSlot(k) <=> Entry(k).active < PartitionActiveLimit
  <2>1. {t \in Running : KeyOf[t] = k} = RunningIn(k)
    BY DEF RunningIn
  <2>2. Entry(k).active = Cardinality(RunningIn(k))
    BY EntryOK DEF PartitionOK
  <2> QED BY <2>1, <2>2, SameQueues DEF Abstract!HasSlot
<1>3. ASSUME NEW k \in Keys
      PROVE  Abstract!Ready(k) <=> k \in Elems(order) /\ ~Saturated(k)
  <2>1. Abstract!Ready(k) <=> Entry(k).waiting # <<>> /\ Entry(k).active < PartitionActiveLimit
    BY <1>2 DEF Abstract!Ready
  <2>2. Entry(k).waiting # <<>> <=> k \in Elems(order)
    BY KeyQueued
  <2>3. CASE k \in DOMAIN partitions
    <3>1. Entry(k) = partitions[k]
      BY <2>3 DEF Entry
    <3>2. partitions[k].active \in Nat /\ PartitionActiveLimit \in Nat
      BY <2>3, AdmissionAssumption DEF IInv, TypeOK, Partition
    <3> QED BY <2>1, <2>2, <3>1, <3>2 DEF Saturated
  <2>4. CASE k \notin DOMAIN partitions
    BY <2>1, <2>2, <2>4, KeyQueued
  <2> QED BY <2>3, <2>4
<1>4. Abstract!Waiters = Queued
  <2>1. \A t \in Tickets : KeyOf[t] \in Keys
    BY AdmissionAssumption
  <2>2. \A t \in Tickets : t \in Elems(Entry(KeyOf[t]).waiting) <=> t \in Queued
    BY <2>1, KeyQueued DEF QueuedIn
  <2>3. \A t \in Tickets : [k \in Keys |-> Entry(k).waiting][KeyOf[t]] = Entry(KeyOf[t]).waiting
    BY <2>1
  <2> QED BY <2>2, <2>3, SameQueues DEF Abstract!Waiters, Queued
<1> QED BY <1>1, <1>2, <1>3, <1>4

(* can_start() admits a newcomer, and enter() refuses one, exactly when the *)
(* abstract queues do (admission.rs:49-58, 70-80).                          *)
LEMMA EntryAgrees ==
  ASSUME IInv, NEW k \in Keys
  PROVE  /\ Abstract!CanAdmit(k) <=> CanStart(k)
         /\ Abstract!Full(k) <=> Full(k)
<1>1. (~\E j \in Keys : Abstract!Ready(j)) <=> \A i \in 1..Len(order) : Saturated(order[i])
  <2>1. Elems(order) \subseteq Keys
    BY DEF IInv, TypeOK, Elems
  <2>2. (~\E j \in Keys : Abstract!Ready(j)) <=> \A j \in Elems(order) : Saturated(j)
    BY <2>1, SlotsAgree
  <2> QED BY <2>2 DEF Elems
<1>2. Abstract!HasSlot(k) <=> (k \in DOMAIN partitions => ~Saturated(k))
  <2>1. PartitionActiveLimit \in Nat \ {0}
    BY AdmissionAssumption
  <2>2. CASE k \in DOMAIN partitions
    <3>1. Entry(k) = partitions[k] /\ partitions[k].active \in Nat
      BY <2>2 DEF Entry, IInv, TypeOK, Partition
    <3> QED BY <2>1, <2>2, <3>1, SlotsAgree DEF Saturated
  <2>3. CASE k \notin DOMAIN partitions
    <3>1. Entry(k).active = 0
      BY <2>3 DEF Entry
    <3> QED BY <2>1, <2>3, <3>1, SlotsAgree
  <2> QED BY <2>2, <2>3
<1>3. Entry(k).waiting = <<>> <=> (k \in DOMAIN partitions => partitions[k].waiting = <<>>)
  BY DEF Entry
<1>4. Abstract!CanAdmit(k) <=> CanStart(k)
  BY <1>1, <1>2, <1>3, SlotsAgree DEF Abstract!CanAdmit, CanStart
<1>5. Len(Entry(k).waiting) >= PartitionQueueLimit
        <=> k \in DOMAIN partitions /\ Len(partitions[k].waiting) >= PartitionQueueLimit
  <2>1. CASE k \in DOMAIN partitions
    BY <2>1 DEF Entry
  <2>2. CASE k \notin DOMAIN partitions
    <3>1. Entry(k).waiting = <<>> /\ PartitionQueueLimit \in Nat \ {0}
      BY <2>2, AdmissionAssumption DEF Entry
    <3>2. Len(<<>>) = 0
      OBVIOUS
    <3> QED BY <2>2, <3>1, <3>2
  <2> QED BY <2>1, <2>2
<1>6. Abstract!Full(k) <=> Full(k)
  BY <1>5, SlotsAgree, SameQueues DEF Abstract!Full, Full, IInv, Accounting
<1> QED BY <1>4, <1>6

-----------------------------------------------------------------------------
(* Every critical section is a step of the abstract queues, or no step.     *)

(* The map after an insertion.                                              *)
LEMMA InsertEntry ==
  ASSUME NEW k, NEW p, partitions' = Insert(k, p)
  PROVE  \A j : Entry(j)' = IF j = k THEN p ELSE Entry(j)
BY DEF Entry, Insert

(* A newcomer that starts at once.                                          *)
LEMMA StartsAtOnce ==
  ASSUME IInv, NEW t \in Tickets, EnterStart(t)
  PROVE  Abstract!Admit(t)
<1> DEFINE k == KeyOf[t]
<1>1. k \in Keys /\ pc \in [Tickets -> Locations] /\ pc[t] = "idle" /\ CanStart(k)
  BY AdmissionAssumption DEF EnterStart, IInv, TypeOK
<1>2. t \notin Running /\ t \notin Queued
  BY <1>1 DEF Running, Queued, RunningAt, QueuedAt
<1>3. Running' = Running \cup {t}
  BY <1>1 DEF EnterStart, Running, RunningAt
<1>4. \A j \in Keys : Entry(j)'.waiting = Entry(j).waiting
  <2>1. partitions' = Insert(k, [Entry(k) EXCEPT !.active = @ + 1])
    BY DEF EnterStart
  <2>2. Entry(k) \in Partition
    BY <1>1, EntryOK DEF PartitionOK
  <2>3. [Entry(k) EXCEPT !.active = @ + 1].waiting = Entry(k).waiting
    BY <2>2 DEF Partition
  <2> QED BY <2>1, <2>3, InsertEntry
<1>5. Abstract!Absent(t)
  BY <1>1, <1>2, SameQueues, KeyQueued DEF Abstract!Absent, QueuedIn
<1>6. Abstract!CanAdmit(KeyOf[t])
  BY <1>1, EntryAgrees
<1> QED BY <1>3, <1>4, <1>5, <1>6 DEF Abstract!Admit

(* A newcomer that queues.                                                  *)
LEMMA QueuesUp ==
  ASSUME IInv, NEW t \in Tickets, EnterQueue(t)
  PROVE  Abstract!Queue(t)
<1> DEFINE k == KeyOf[t]
<1>1. k \in Keys /\ pc \in [Tickets -> Locations] /\ pc[t] = "idle" /\ ~CanStart(k) /\ ~Full(k)
  BY AdmissionAssumption DEF EnterQueue, IInv, TypeOK
<1>2. t \notin Running /\ t \notin Queued
  BY <1>1 DEF Running, Queued, RunningAt, QueuedAt
<1>3. Running' = Running
  BY <1>1 DEF EnterQueue, Running, RunningAt
<1>4. \A j \in Keys : Entry(j)'.waiting = IF j = k THEN Append(Entry(k).waiting, t) ELSE Entry(j).waiting
  <2>1. partitions' = Insert(k, [Entry(k) EXCEPT !.waiting = Append(@, t)])
    BY DEF EnterQueue
  <2>2. Entry(k) \in Partition
    BY <1>1, EntryOK DEF PartitionOK
  <2>3. [Entry(k) EXCEPT !.waiting = Append(@, t)].waiting = Append(Entry(k).waiting, t)
    BY <2>2 DEF Partition
  <2> QED BY <2>1, <2>3, InsertEntry
<1>5. Abstract!Absent(t)
  BY <1>1, <1>2, SameQueues, KeyQueued DEF Abstract!Absent, QueuedIn
<1>6. ~Abstract!CanAdmit(KeyOf[t]) /\ ~Abstract!Full(KeyOf[t])
  BY <1>1, EntryAgrees
<1>7. [j \in Keys |-> Entry(j).waiting]'
        = [[j \in Keys |-> Entry(j).waiting] EXCEPT ![KeyOf[t]] = Append(@, t)]
  BY <1>1, <1>4
<1> QED BY <1>3, <1>5, <1>6, <1>7 DEF Abstract!Queue

(* A newcomer that is refused.                                              *)
LEMMA Refused ==
  ASSUME IInv, NEW t \in Tickets, EnterBusy(t)
  PROVE  Abstract!Refuse(t)
<1>1. /\ KeyOf[t] \in Keys /\ pc \in [Tickets -> Locations] /\ pc[t] = "idle"
      /\ ~CanStart(KeyOf[t]) /\ Full(KeyOf[t])
  BY AdmissionAssumption DEF EnterBusy, IInv, TypeOK
<1>2. t \notin Running /\ t \notin Queued
  BY <1>1 DEF Running, Queued, RunningAt, QueuedAt
<1>3. Running' = Running /\ \A j : Entry(j)' = Entry(j)
  BY DEF EnterBusy, vars, Running, Entry
<1>4. Abstract!Absent(t)
  BY <1>1, <1>2, SameQueues, KeyQueued DEF Abstract!Absent, QueuedIn
<1>5. ~Abstract!CanAdmit(KeyOf[t]) /\ Abstract!Full(KeyOf[t])
  BY <1>1, EntryAgrees
<1> QED BY <1>3, <1>4, <1>5 DEF Abstract!Refuse, Abstract!vars

(* try_start() starts the oldest ticket of a partition that has a slot.     *)
LEMMA StartsInTurn ==
  ASSUME IInv, NEW t \in Tickets, TryStart(t)
  PROVE  Abstract!Start(KeyOf[t])
<1> DEFINE k == KeyOf[t]
<1>1. k \in Keys /\ pc \in [Tickets -> Locations] /\ pc[t] = "trying" /\ order \in Seq(Keys)
  BY AdmissionAssumption DEF TryStart, IInv, TypeOK
<1>2. PICK i \in 1..Len(order) : Startable(t, i)
  BY DEF TryStart
<1>3. /\ active < ActiveLimit /\ order[i] = k /\ ~Saturated(k)
      /\ partitions[k].waiting # <<>> /\ Head(partitions[k].waiting) = t
  BY <1>2 DEF Startable, Selected
<1>4. k \in Elems(order)
  BY <1>1, <1>3 DEF Elems
<1>5. k \in DOMAIN partitions /\ Entry(k) = partitions[k]
  BY <1>1, <1>4, KeyQueued DEF Entry
<1>6. Abstract!Free /\ Abstract!Ready(k)
  BY <1>1, <1>3, <1>4, SlotsAgree
<1>7. Running' = Running \cup {t}
  BY <1>1 DEF TryStart, Running, RunningAt
<1>8. \A j \in Keys : Entry(j)'.waiting = IF j = k THEN Tail(Entry(k).waiting) ELSE Entry(j).waiting
  <2>1. partitions[k] \in Partition
    BY <1>5 DEF IInv, TypeOK
  <2>2. partitions' = [partitions EXCEPT ![k].active = @ + 1, ![k].waiting = Tail(@)]
    BY DEF TryStart
  <2>3. /\ DOMAIN partitions' = DOMAIN partitions
        /\ \A j \in DOMAIN partitions : j # k => partitions'[j] = partitions[j]
        /\ partitions'[k].waiting = Tail(partitions[k].waiting)
    BY <1>5, <2>1, <2>2 DEF Partition
  <2> QED BY <1>5, <2>3 DEF Entry
<1>9. [j \in Keys |-> Entry(j).waiting]'
        = [[j \in Keys |-> Entry(j).waiting] EXCEPT ![KeyOf[t]] = Tail(@)]
  BY <1>1, <1>8
<1>10. Head([j \in Keys |-> Entry(j).waiting][KeyOf[t]]) = t
  BY <1>1, <1>3, <1>5
<1> QED BY <1>6, <1>7, <1>9, <1>10 DEF Abstract!Start

(* A ticket that is dropped ends its run, or leaves its queue.              *)
LEMMA Leaves ==
  ASSUME IInv, NEW t \in Tickets, Drop(t)
  PROVE  Abstract!Finish(t) \/ Abstract!GiveUp(t)
<1> DEFINE k == KeyOf[t]
           q == partitions[k]
           p == IF pc[t] = "active" THEN [q EXCEPT !.active = @ - 1]
                                    ELSE [q EXCEPT !.waiting = Without(@, t)]
<1>1. /\ k \in Keys /\ pc \in [Tickets -> Locations] /\ pc[t] \in {"active", "entered", "parked"}
      /\ pc' = [pc EXCEPT ![t] = "dropped"]
  BY AdmissionAssumption DEF Drop, IInv, TypeOK
<1>2. Running' = Running \ {t}
  BY <1>1 DEF Running, RunningAt
<1>3. t \in Running \cup Queued
  BY <1>1 DEF Running, RunningAt, Queued, QueuedAt
<1>4. k \in DOMAIN partitions /\ Entry(k) = q
  BY <1>3 DEF IInv, QueuesMatchTickets, Entry
<1>5. q \in Partition
  BY <1>4 DEF IInv, TypeOK
<1>6. p.waiting = IF pc[t] = "active" THEN q.waiting ELSE Without(q.waiting, t)
  BY <1>5 DEF Partition
<1>7. partitions' = IF p.waiting = <<>> /\ p.active = 0
                    THEN [j \in DOMAIN partitions \ {k} |-> partitions[j]]
                    ELSE [partitions EXCEPT ![k] = p]
  BY DEF Drop
<1> HIDE DEF p, q
<1>8. \A j \in Keys : Entry(j)'.waiting = IF j = k THEN p.waiting ELSE Entry(j).waiting
  <2>1. CASE p.waiting = <<>> /\ p.active = 0
    <3>1. partitions' = [j \in DOMAIN partitions \ {k} |-> partitions[j]]
      BY <1>7, <2>1
    <3> QED BY <2>1, <3>1 DEF Entry
  <2>2. CASE ~(p.waiting = <<>> /\ p.active = 0)
    <3>1. partitions' = [partitions EXCEPT ![k] = p]
      BY <1>7, <2>2
    <3> QED BY <1>4, <3>1 DEF Entry
  <2> QED BY <2>1, <2>2
<1>9. CASE pc[t] = "active"
  <2>1. t \in Running
    BY <1>9 DEF Running, RunningAt
  <2>2. \A j \in Keys : Entry(j)'.waiting = Entry(j).waiting
    BY <1>4, <1>6, <1>8, <1>9
  <2>3. Abstract!Finish(t)
    BY <1>2, <2>1, <2>2 DEF Abstract!Finish
  <2> QED BY <2>3
<1>10. CASE pc[t] # "active"
  <2>1. t \in Queued /\ t \notin Running
    BY <1>1, <1>10 DEF Running, RunningAt, Queued, QueuedAt
  <2>2. Running' = Running
    BY <1>2, <2>1
  <2>3. \A j \in Keys : Entry(j)'.waiting = IF j = k THEN Without(Entry(k).waiting, t) ELSE Entry(j).waiting
    BY <1>4, <1>6, <1>8, <1>10
  <2>4. [j \in Keys |-> Entry(j).waiting]'
          = [[j \in Keys |-> Entry(j).waiting] EXCEPT ![KeyOf[t]] = Without(@, t)]
    BY <1>1, <2>3
  <2>5. Abstract!GiveUp(t)
    BY <2>1, <2>2, <2>4, SameQueues, SlotsAgree DEF Abstract!GiveUp
  <2> QED BY <2>5
<1> QED BY <1>9, <1>10

(* Waiting, waking and notifying are no steps of the abstract queues.       *)
LEMMA NoStep ==
  ASSUME IInv, NEW t \in Tickets, Enable(t) \/ TryFail(t) \/ Notify(t)
  PROVE  UNCHANGED Abstract!vars
<1>1. partitions' = partitions /\ pc \in [Tickets -> Locations]
  BY DEF Enable, TryFail, Notify, state, IInv, TypeOK
<1>2. \A j : Entry(j)' = Entry(j)
  BY <1>1 DEF Entry
<1>3. Running' = Running
  BY <1>1 DEF Enable, TryFail, Notify, NotifyAt, Running, RunningAt
<1> QED BY <1>2, <1>3 DEF Abstract!vars

(* The implementation behaves as the abstract bounded queues, for any       *)
(* callers, partitions and limits.                                          *)
THEOREM Refinement == Spec => RefinesQueue
<1>1. Init => Abstract!Init
  BY DEF Init, Abstract!Init, Running, RunningAt, Entry
<1>2. IInv /\ [Next]_vars => [Abstract!Next]_(Abstract!vars)
  <2> SUFFICES ASSUME IInv, [Next]_vars PROVE [Abstract!Next]_(Abstract!vars)
    OBVIOUS
  <2>1. CASE UNCHANGED vars
    BY <2>1 DEF vars, Abstract!vars, Running, Entry
  <2>2. ASSUME NEW t \in Tickets,
               \/ EnterStart(t) \/ EnterQueue(t) \/ EnterBusy(t) \/ Enable(t)
               \/ TryStart(t) \/ TryFail(t) \/ Drop(t) \/ Notify(t)
        PROVE  [Abstract!Next]_(Abstract!vars)
    <3>1. KeyOf[t] \in Keys
      BY AdmissionAssumption
    <3> QED BY <2>2, <3>1, StartsAtOnce, QueuesUp, Refused, StartsInTurn, Leaves, NoStep
            DEF Abstract!Next
  <2> QED BY <2>1, <2>2 DEF Next
<1> QED BY <1>1, <1>2, Invariance, PTL DEF Spec, RefinesQueue, Abstract!Spec

-----------------------------------------------------------------------------
(* Round robin.                                                             *)

Precedes(s, a, b) == \A i, j \in 1..Len(s) : s[i] = a /\ s[j] = b => i < j

(* What a partition has been passed by has gone to the back of order since. *)
BypassOK ==
  /\ bypass \in [Keys -> [Keys -> 0 .. 1]]
  /\ \A p, q \in Keys : bypass[p][q] = 1 => p \in Elems(order) /\ Precedes(order, p, q)

(* Removing an index of order leaves the others in their order.             *)
LEMMA RemoveKeepsOrder ==
  ASSUME NEW S, NEW s \in Seq(S), NEW i \in 1..Len(s), NEW a, NEW b, Precedes(s, a, b)
  PROVE  Precedes(RemoveIndex(s, i), a, b)
<1>1. Len(RemoveIndex(s, i)) = Len(s) - 1 /\ Len(s) \in Nat
  BY RemoveIndexLemma
<1>2. ASSUME NEW x \in 1..Len(s) - 1, NEW y \in 1..Len(s) - 1,
             RemoveIndex(s, i)[x] = a, RemoveIndex(s, i)[y] = b
      PROVE  x < y
  <2> DEFINE z(n) == IF n < i THEN n ELSE n + 1
  <2>1. z(x) \in 1..Len(s) /\ z(y) \in 1..Len(s) /\ (z(x) < z(y) => x < y)
    BY <1>1
  <2>2. s[z(x)] = a /\ s[z(y)] = b
    BY <1>2 DEF RemoveIndex
  <2> QED BY <2>1, <2>2 DEF Precedes
<1> QED BY <1>1, <1>2 DEF Precedes

(* Who is pushed to the back comes after the others.                        *)
LEMMA AppendKeepsOrder ==
  ASSUME NEW S, NEW s \in Seq(S), NEW e \in S, NEW a, NEW b, Precedes(s, a, b), a # e
  PROVE  Precedes(Append(s, e), a, b)
BY DEF Precedes

(* Only a start changes who just started.                                   *)
LEMMA WhoStarted ==
  ASSUME TypeOK, NEW t \in Tickets, NEW l \in Locations, pc' = [pc EXCEPT ![t] = l]
  PROVE  JustStarted = IF l \in RunningAt /\ pc[t] \notin RunningAt THEN {KeyOf[t]} ELSE {}
<1>1. \A u \in Tickets : pc'[u] = IF u = t THEN l ELSE pc[u]
  BY DEF TypeOK
<1> QED BY <1>1 DEF JustStarted

(* One step and the order of two partitions: p, which waits on, keeps its   *)
(* place before q, unless q starts; and q starts past p, if p could start,  *)
(* only from a place before it, and goes to the back.                       *)
PairOK(p, q) ==
  /\ Precedes(order, p, q) => Precedes(order', p, q)
  /\ ~Saturated(p) /\ q \in JustStarted => ~Precedes(order, p, q) /\ Precedes(order', p, q)

(* A newcomer starts only when nobody in order could.                       *)
LEMMA PairEnterStart ==
  ASSUME IInv, NEW t \in Tickets, EnterStart(t), NEW p \in Elems(order), NEW q
  PROVE  PairOK(p, q)
<1>1. order' = order /\ Saturated(p)
  BY DEF EnterStart, CanStart, Elems
<1> QED BY <1>1 DEF PairOK

(* A partition enters order at the back.                                    *)
LEMMA PairEnterQueue ==
  ASSUME IInv, NEW t \in Tickets, EnterQueue(t), NEW p \in Elems(order), NEW q
  PROVE  PairOK(p, q)
<1>1. KeyOf[t] \in Keys /\ order \in Seq(Keys) /\ pc' = [pc EXCEPT ![t] = "entered"] /\ TypeOK
  BY AdmissionAssumption DEF EnterQueue, IInv, TypeOK
<1>2. q \notin JustStarted
  <2>1. "entered" \in Locations /\ "entered" \notin RunningAt
    BY DEF RunningAt, QueuedAt, Locations
  <2> QED BY <1>1, <2>1, WhoStarted
<1>3. CASE Entry(KeyOf[t]).waiting = <<>>
  <2>1. order' = Append(order, KeyOf[t])
    BY <1>3 DEF EnterQueue
  <2>2. p # KeyOf[t]
    BY <1>1, <1>3, KeyQueued
  <2> QED BY <1>1, <1>2, <2>1, <2>2, AppendKeepsOrder DEF PairOK
<1>4. CASE Entry(KeyOf[t]).waiting # <<>>
  <2>1. order' = order
    BY <1>4 DEF EnterQueue
  <2> QED BY <1>2, <2>1 DEF PairOK
<1> QED BY <1>3, <1>4

(* try_start() serves the first partition in order that could start.        *)
LEMMA PairTryStart ==
  ASSUME IInv, NEW t \in Tickets, TryStart(t), NEW p \in Elems(order), NEW q,
         p \notin JustStarted
  PROVE  PairOK(p, q)
<1> DEFINE k == KeyOf[t]
           w == partitions[k].waiting
<1>1. /\ k \in Keys /\ order \in Seq(Keys) /\ Distinct(order) /\ TypeOK
      /\ pc[t] = "trying" /\ pc' = [pc EXCEPT ![t] = "started"]
  BY AdmissionAssumption DEF TryStart, IInv, TypeOK, QueuesMatchTickets
<1>2. JustStarted = {k}
  BY <1>1, WhoStarted DEF RunningAt, QueuedAt, Locations
<1>3. PICK i \in 1..Len(order) :
        /\ Startable(t, i)
        /\ order' = IF Tail(w) # <<>> THEN Append(RemoveIndex(order, i), k)
                                      ELSE RemoveIndex(order, i)
  BY DEF TryStart
<1>4. order[i] = k /\ \A j \in 1..i - 1 : Saturated(order[j])
  BY <1>3 DEF Startable, Selected
<1> DEFINE s == RemoveIndex(order, i)
<1>5. s \in Seq(Keys) /\ Elems(s) = Elems(order) \ {k}
  BY <1>1, <1>4, RemoveIndexLemma
<1>6. p # k
  BY <1>2
<1>7. order' = s \/ order' = Append(s, k)
  BY <1>3
<1>8. Precedes(order, p, q) => Precedes(s, p, q)
  BY <1>1, RemoveKeepsOrder
<1>9. q = k => Precedes(s, p, q)
  BY <1>5 DEF Precedes, Elems
<1>10. Precedes(s, p, q) => Precedes(order', p, q)
  <2> HIDE DEF s
  <2> QED BY <1>1, <1>5, <1>6, <1>7, AppendKeepsOrder
<1>11. ~Saturated(p) => ~Precedes(order, p, k)
  <2>1. PICK j \in 1..Len(order) : order[j] = p
    BY DEF Elems
  <2>2. ~Saturated(p) => j > i
    BY <1>1, <1>4, <1>6, <2>1
  <2> QED BY <1>1, <1>4, <2>1, <2>2 DEF Precedes
<1> HIDE DEF s
<1> QED BY <1>2, <1>8, <1>9, <1>10, <1>11 DEF PairOK

(* A dropped ticket takes at most its own partition out of order.           *)
LEMMA PairDrop ==
  ASSUME IInv, NEW t \in Tickets, Drop(t), NEW p \in Elems(order), NEW q
  PROVE  PairOK(p, q)
<1>1. order \in Seq(Keys) /\ pc' = [pc EXCEPT ![t] = "dropped"] /\ TypeOK
  BY DEF Drop, IInv, TypeOK
<1>2. q \notin JustStarted
  <2>1. "dropped" \in Locations /\ "dropped" \notin RunningAt
    BY DEF RunningAt, QueuedAt, Locations
  <2> QED BY <1>1, <2>1, WhoStarted
<1>3. order' = order \/ order' = Without(order, KeyOf[t])
  BY DEF Drop
<1>4. Without(order, KeyOf[t]) = order
        \/ \E i \in 1..Len(order) : Without(order, KeyOf[t]) = RemoveIndex(order, i)
  BY DEF Without
<1>5. Precedes(order, p, q) => Precedes(order', p, q)
  BY <1>1, <1>3, <1>4, RemoveKeepsOrder
<1> QED BY <1>2, <1>5 DEF PairOK

(* The other steps leave order alone and start nobody.                      *)
LEMMA PairOther ==
  ASSUME IInv, NEW t \in Tickets, EnterBusy(t) \/ Enable(t) \/ TryFail(t) \/ Notify(t), NEW p, NEW q
  PROVE  PairOK(p, q)
<1>1. order' = order /\ pc \in [Tickets -> Locations]
  BY DEF EnterBusy, Enable, TryFail, Notify, state, vars, IInv, TypeOK
<1>2. \A u \in Tickets : pc'[u] \in RunningAt => pc[u] \in RunningAt
  BY <1>1 DEF EnterBusy, Enable, TryFail, Notify, NotifyAt, RunningAt, vars
<1>3. JustStarted = {}
  BY <1>2 DEF JustStarted
<1> QED BY <1>1, <1>3 DEF PairOK

(* The invariant of the round robin.                                        *)
LEMMA BypassInvariance == BypassSpec => [](IInv /\ BypassOK)
<1>1. BypassInit => IInv /\ BypassOK
  BY InitIInv DEF BypassInit, BypassOK
<1>2. IInv /\ BypassOK /\ [BypassNext]_<<vars, bypass>> => (IInv /\ BypassOK)'
  <2> SUFFICES ASSUME IInv, BypassOK, [BypassNext]_<<vars, bypass>> PROVE (IInv /\ BypassOK)'
    OBVIOUS
  <2>1. CASE UNCHANGED <<vars, bypass>>
    <3>1. IInv'
      BY <2>1, NextIInv
    <3>2. BypassOK'
      BY <2>1 DEF BypassOK, vars, Precedes, Elems
    <3> QED BY <3>1, <3>2
  <2>2. CASE BypassNext
    <3>1. Next
      BY <2>2 DEF BypassNext
    <3>2. IInv'
      BY <3>1, NextIInv
    <3>3. ASSUME NEW p \in Elems(order), NEW q, p \notin JustStarted
          PROVE  PairOK(p, q)
      BY <3>1, <3>3, PairEnterStart, PairEnterQueue, PairTryStart, PairDrop, PairOther DEF Next
    <3>4. ASSUME NEW p \in Keys, NEW q \in Keys
          PROVE  /\ bypass'[p][q] \in 0 .. 1
                 /\ bypass'[p][q] = 1 => p \in Elems(order)' /\ Precedes(order, p, q)'
      <4>1. bypass'[p][q] = IF p \in JustStarted \/ p \notin Elems(order)' THEN 0
                            ELSE IF p \in Elems(order) /\ ~Saturated(p) /\ q \in JustStarted
                            THEN bypass[p][q] + 1 ELSE bypass[p][q]
        BY <2>2 DEF BypassNext
      <4>2. bypass[p][q] \in 0 .. 1 /\ (bypass[p][q] = 1 => p \in Elems(order) /\ Precedes(order, p, q))
        BY DEF BypassOK
      <4>3. Precedes(order, p, q)' <=> Precedes(order', p, q)
        BY DEF Precedes
      <4>4. CASE p \in JustStarted \/ p \notin Elems(order)'
        BY <4>1, <4>4
      <4>5. CASE p \notin JustStarted /\ p \in Elems(order)' /\ p \in Elems(order) /\ ~Saturated(p) /\ q \in JustStarted
        BY <3>3, <4>1, <4>2, <4>3, <4>5 DEF PairOK
      <4>6. CASE p \notin JustStarted /\ p \in Elems(order)' /\ ~(p \in Elems(order) /\ ~Saturated(p) /\ q \in JustStarted)
        BY <3>3, <4>1, <4>2, <4>3, <4>6 DEF PairOK
      <4> QED BY <4>4, <4>5, <4>6
    <3>5. bypass' = [p \in Keys |-> [q \in Keys |-> bypass'[p][q]]]
      BY <2>2 DEF BypassNext
    <3>6. bypass' \in [Keys -> [Keys -> 0 .. 1]]
      BY <3>4, <3>5
    <3>7. BypassOK'
      BY <3>4, <3>6 DEF BypassOK
    <3> QED BY <3>2, <3>7
  <2> QED BY <2>1, <2>2
<1> QED BY <1>1, <1>2, PTL DEF BypassSpec

(* While a partition waits and could start, each other one goes before it   *)
(* at most once, for any callers, partitions and limits (admission.rs:54-57,*)
(* 105-111).                                                                *)
THEOREM RoundRobin == BypassSpec => []BypassedAtMostOnce
<1>1. BypassOK => BypassedAtMostOnce
  BY DEF BypassOK, BypassedAtMostOnce
<1> QED BY <1>1, BypassInvariance, PTL

=============================================================================
