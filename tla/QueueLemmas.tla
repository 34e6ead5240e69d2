----------------------------- MODULE QueueLemmas -----------------------------
(***************************************************************************)
(* What the operations on queues do to length, members and distinctness,   *)
(* and what one member more or less does to the size of a finite set.      *)
(***************************************************************************)
EXTENDS Queues, FiniteSets, FiniteSetTheorems, TLAPS

(* A deque is empty exactly when it holds nothing (VecDeque::is_empty).     *)
LEMMA EmptyLemma ==
  ASSUME NEW S, NEW s \in Seq(S)
  PROVE  s = <<>> <=> Elems(s) = {}
<1>1. CASE s = <<>>
  BY <1>1 DEF Elems
<1>2. CASE s # <<>>
  <2>1. Len(s) \in Nat /\ Len(s) # 0
    BY <1>2
  <2>2. s[1] \in Elems(s)
    BY <2>1 DEF Elems
  <2>3. QED
    BY <1>2, <2>2
<1>3. QED
  BY <1>1, <1>2

(* Removing an index of a queue without duplicates takes away exactly the   *)
(* element there (VecDeque::remove).                                        *)
LEMMA RemoveIndexLemma ==
  ASSUME NEW S, NEW s \in Seq(S), NEW i \in 1..Len(s)
  PROVE  /\ RemoveIndex(s, i) \in Seq(S)
         /\ Len(RemoveIndex(s, i)) = Len(s) - 1
         /\ Distinct(s) => /\ Distinct(RemoveIndex(s, i))
                           /\ Elems(RemoveIndex(s, i)) = Elems(s) \ {s[i]}
<1> DEFINE r == RemoveIndex(s, i)
<1>1. Len(s) - 1 \in Nat
  OBVIOUS
<1>2. r \in [1..Len(s) - 1 -> S]
  BY <1>1 DEF RemoveIndex
<1>3. r \in Seq(S) /\ Len(r) = Len(s) - 1
  BY <1>1, <1>2
<1>4. ASSUME Distinct(s) PROVE Distinct(r)
  BY <1>3, <1>4 DEF RemoveIndex, Distinct
<1>5. ASSUME Distinct(s) PROVE Elems(r) = Elems(s) \ {s[i]}
  <2>1. ASSUME NEW j \in 1..Len(r) PROVE r[j] \in Elems(s) \ {s[i]}
    BY <1>3, <1>5, <2>1 DEF RemoveIndex, Distinct, Elems
  <2>2. ASSUME NEW j \in 1..Len(s), s[j] # s[i] PROVE s[j] \in Elems(r)
    <3>1. CASE j < i
      BY <1>3, <2>2, <3>1 DEF RemoveIndex, Elems
    <3>2. CASE j > i
      <4>1. j - 1 \in 1..Len(r) /\ r[j - 1] = s[j]
        BY <1>3, <3>2 DEF RemoveIndex
      <4>2. QED
        BY <4>1 DEF Elems
    <3>3. QED
      BY <2>2, <3>1, <3>2
  <2>3. QED
    BY <2>1, <2>2 DEF Elems
<1>6. QED
  BY <1>3, <1>4, <1>5

(* retain(|x| x != e) on a queue without duplicates.                        *)
LEMMA WithoutLemma ==
  ASSUME NEW S, NEW s \in Seq(S), NEW e, Distinct(s)
  PROVE  /\ Without(s, e) \in Seq(S)
         /\ Distinct(Without(s, e))
         /\ Elems(Without(s, e)) = Elems(s) \ {e}
         /\ e \in Elems(s) => Len(Without(s, e)) = Len(s) - 1
<1>1. CASE \E i \in 1..Len(s) : s[i] = e
  <2> DEFINE i == CHOOSE i \in 1..Len(s) : s[i] = e
  <2>1. i \in 1..Len(s) /\ s[i] = e
    BY <1>1
  <2>2. Without(s, e) = RemoveIndex(s, i)
    BY <1>1 DEF Without
  <2> HIDE DEF i
  <2>3. QED
    BY <2>1, <2>2, RemoveIndexLemma
<1>2. CASE ~\E i \in 1..Len(s) : s[i] = e
  BY <1>2 DEF Without, Elems
<1>3. QED
  BY <1>1, <1>2

(* push_back.                                                               *)
LEMMA AppendLemma ==
  ASSUME NEW S, NEW s \in Seq(S), NEW e \in S
  PROVE  /\ Append(s, e) \in Seq(S)
         /\ Len(Append(s, e)) = Len(s) + 1
         /\ Elems(Append(s, e)) = Elems(s) \cup {e}
         /\ Distinct(s) /\ e \notin Elems(s) => Distinct(Append(s, e))
<1> DEFINE r == Append(s, e)
<1>1. r \in Seq(S) /\ Len(r) = Len(s) + 1
  OBVIOUS
<1>2. \A j \in 1..Len(r) : r[j] = IF j = Len(s) + 1 THEN e ELSE s[j]
  OBVIOUS
<1> HIDE DEF r
<1>3. Elems(r) = Elems(s) \cup {e}
  <2>1. Len(s) + 1 \in 1..Len(r) /\ \A j \in 1..Len(s) : j \in 1..Len(r) /\ j # Len(s) + 1
    BY <1>1
  <2>2. QED
    BY <1>1, <1>2, <2>1 DEF Elems
<1>4. Distinct(s) /\ e \notin Elems(s) => Distinct(r)
  BY <1>1, <1>2 DEF Distinct, Elems
<1>5. QED
  BY <1>1, <1>3, <1>4 DEF r

(* pop_front.                                                               *)
LEMMA TailLemma ==
  ASSUME NEW S, NEW s \in Seq(S), s # <<>>
  PROVE  /\ Tail(s) \in Seq(S)
         /\ Len(Tail(s)) = Len(s) - 1
         /\ Head(s) \in Elems(s)
         /\ Distinct(s) => Distinct(Tail(s)) /\ Elems(Tail(s)) = Elems(s) \ {Head(s)}
<1> DEFINE r == Tail(s)
<1>1. r \in Seq(S) /\ Len(r) = Len(s) - 1 /\ Len(s) >= 1 /\ Head(s) = s[1]
  OBVIOUS
<1>2. \A j \in 1..Len(r) : r[j] = s[j + 1]
  OBVIOUS
<1> HIDE DEF r
<1>3. Head(s) \in Elems(s)
  BY <1>1 DEF Elems
<1>4. Distinct(s) => Distinct(r)
  BY <1>1, <1>2 DEF Distinct
<1>5. ASSUME Distinct(s) PROVE Elems(r) = Elems(s) \ {Head(s)}
  <2>1. ASSUME NEW j \in 1..Len(r) PROVE r[j] \in Elems(s) \ {s[1]}
    BY <1>1, <1>2, <1>5, <2>1 DEF Distinct, Elems
  <2>2. ASSUME NEW j \in 1..Len(s), s[j] # s[1] PROVE s[j] \in Elems(r)
    <3>1. j - 1 \in 1..Len(r) /\ r[j - 1] = s[j]
      BY <1>1, <1>2, <2>2
    <3>2. QED
      BY <3>1 DEF Elems
  <2>3. QED
    BY <1>1, <2>1, <2>2 DEF Elems
<1>6. QED
  BY <1>1, <1>3, <1>4, <1>5 DEF r

(* One member more or less: what a counter kept beside a set has to follow. *)
LEMMA CountOne ==
  ASSUME NEW S, IsFiniteSet(S), NEW e
  PROVE  /\ Cardinality(S) \in Nat
         /\ Cardinality(S \cup {e}) = IF e \in S THEN Cardinality(S) ELSE Cardinality(S) + 1
         /\ Cardinality(S \ {e}) = IF e \in S THEN Cardinality(S) - 1 ELSE Cardinality(S)
<1>1. Cardinality(S) \in Nat
  BY FS_CardinalityType
<1>2. Cardinality(S \cup {e}) = IF e \in S THEN Cardinality(S) ELSE Cardinality(S) + 1
  BY FS_AddElement
<1>3. Cardinality(S \ {e}) = IF e \in S THEN Cardinality(S) - 1 ELSE Cardinality(S)
  BY FS_RemoveElement
<1>4. QED
  BY <1>1, <1>2, <1>3

=============================================================================
