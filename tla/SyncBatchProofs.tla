-------------------------- MODULE SyncBatchProofs ---------------------------
(***************************************************************************)
(* Proofs about the batch of the synchronous bridge, for any number of     *)
(* requests, lanes and bytes: the two budgets, the lanes' requests and the *)
(* answers stay in step through every turn of a lane.                      *)
(***************************************************************************)
EXTENDS SyncBridgeProofs

(***************************************************************************)
(* The bytes of a batch.                                                   *)
(***************************************************************************)

(* Finitely many members hold finitely many bytes.                          *)
LEMMA BytesFinite ==
  ASSUME NEW S, IsFiniteSet(S), NEW f, \A x \in S : f[x] \in Nat
  PROVE  IsFiniteSet(Bytes(S, f)) /\ Cardinality(Bytes(S, f)) \in Nat
<1>1. PICK T : T = {{x} \X (1..f[x]) : x \in S}
  BY Zenon
<1>2. PICK g : g = [x \in S |-> {x} \X (1..f[x])]
  BY Zenon
<1>3. g \in Surjection(S, T)
  BY <1>1, <1>2, Zenon DEF Surjection, Range
<1>4. IsFiniteSet(T)
  BY <1>3, FS_Surjection DEF ExistsSurjection
<1>5. ASSUME NEW x \in S PROVE IsFiniteSet({x} \X (1..f[x]))
  <2>1. 1 \in Int /\ f[x] \in Int
    OBVIOUS
  <2>2. IsFiniteSet({x}) /\ IsFiniteSet(1..f[x])
    BY <2>1, FS_Singleton, FS_Interval, Zenon
  <2>3. QED
    BY <2>2, FS_Product
<1>6. \A t \in T : IsFiniteSet(t)
  BY <1>1, <1>5
<1>7. IsFiniteSet(Bytes(S, f))
  BY <1>1, <1>4, <1>6, FS_UNION, Zenon DEF Bytes
<1>8. QED
  BY <1>7, FS_CardinalityType

(* The bytes of one member are counted apart from those of the others.      *)
LEMMA BytesApart ==
  ASSUME NEW S, IsFiniteSet(S), NEW f, NEW x \in S, \A y \in S : f[y] \in Nat
  PROVE  Cardinality(Bytes(S, f)) = Cardinality(Bytes(S \ {x}, f)) + f[x]
<1>1. PICK R : R = Bytes(S \ {x}, f)
  OBVIOUS
<1>2. PICK O : O = {x} \X (1..f[x])
  BY Zenon
<1>3. IsFiniteSet(S \ {x})
  BY FS_RemoveElement
<1>4. IsFiniteSet(R) /\ Cardinality(R) \in Nat
  BY <1>1, <1>3, BytesFinite
<1>5. IsFiniteSet(O) /\ Cardinality(O) = f[x]
  <2>1. IsFiniteSet({x}) /\ Cardinality({x}) = 1
    BY FS_Singleton, Zenon
  <2>2. IsFiniteSet(1..f[x]) /\ Cardinality(1..f[x]) = f[x]
    BY FS_Interval
  <2>3. IsFiniteSet(O) /\ Cardinality(O) = Cardinality({x}) * Cardinality(1..f[x])
    BY <1>2, <2>1, <2>2, FS_Product
  <2>4. QED
    BY <2>1, <2>2, <2>3
<1>6. Bytes(S, f) = R \cup O
  BY <1>1, <1>2 DEF Bytes
<1>7. R \cap O = {}
  BY <1>1, <1>2 DEF Bytes
<1>8. Cardinality(R \cap O) = 0
  BY <1>7, FS_EmptySet
<1>9. Cardinality(R \cup O) = Cardinality(R) + Cardinality(O) - 0
  BY <1>4, <1>5, <1>8, FS_Union
<1>10. QED
  BY <1>1, <1>4, <1>5, <1>6, <1>9

(* The bytes depend on what is counted for the members only.                *)
LEMMA BytesSame ==
  ASSUME NEW S, NEW f, NEW g, \A x \in S : f[x] = g[x]
  PROVE  Bytes(S, f) = Bytes(S, g)
BY DEF Bytes

(* One member gets another count: the number of bytes changes by as much.   *)
LEMMA BytesChanged ==
  ASSUME NEW S, IsFiniteSet(S), NEW f, NEW g, NEW x \in S, \A y \in S : f[y] \in Nat /\ g[y] \in Nat,
         \A y \in S \ {x} : g[y] = f[y]
  PROVE  /\ Cardinality(Bytes(S, g)) + f[x] = Cardinality(Bytes(S, f)) + g[x]
         /\ f[x] <= Cardinality(Bytes(S, f))
         /\ Cardinality(Bytes(S, f)) \in Nat /\ Cardinality(Bytes(S, g)) \in Nat
<1>1. PICK r : r = Cardinality(Bytes(S \ {x}, f))
  OBVIOUS
<1>2. r \in Nat
  <2>1. IsFiniteSet(S \ {x})
    BY FS_RemoveElement
  <2>2. QED
    BY <1>1, <2>1, BytesFinite
<1>3. Cardinality(Bytes(S, f)) = r + f[x]
  BY <1>1, BytesApart
<1>4. Bytes(S \ {x}, f) = Bytes(S \ {x}, g)
  BY BytesSame
<1>5. Cardinality(Bytes(S, g)) = r + g[x]
  BY <1>1, <1>4, BytesApart
<1>6. QED
  BY <1>2, <1>3, <1>5

(* Nothing is counted.                                                      *)
LEMMA BytesNone ==
  ASSUME NEW S, NEW f, \A x \in S : f[x] = 0
  PROVE  Cardinality(Bytes(S, f)) = 0
<1>1. Bytes(S, f) = {}
  BY DEF Bytes
<1>2. QED
  BY <1>1, FS_EmptySet

(***************************************************************************)
(* A batch in order.                                                       *)
(***************************************************************************)
LaneStates ==
  [phase : Phases, index : 0..BatchSize, bytes : Nat, reserved : Nat, chunks : Nat,
   answer : {"none", "value", "error"}]

Batches ==
  [next : Nat, payload : Nat, working : Nat, lane : [Lanes -> LaneStates],
   output : [1..BatchSize -> Answers], body : [1..BatchSize -> Nat]]

(* A lane reserves what it has read, and has taken a request nobody has     *)
(* answered.                                                                *)
LaneOK(b, x) ==
  /\ x.reserved = x.bytes
  /\ x.phase = "done" => x.bytes = 0
  /\ x.phase = "closing" => x.answer # "none"
  /\ x.phase # "done" => x.index \in 1..BatchSize /\ x.index < b.next /\ b.output[x.index] = "none"

DistinctRequests(b) ==
  \A l, k \in Lanes : b.lane[l].phase # "done" /\ b.lane[k].phase # "done" /\ l # k
                        => b.lane[l].index # b.lane[k].index

LaneBytes(b) == Cardinality(Bytes(Lanes, [l \in Lanes |-> b.lane[l].bytes]))
BodyBytes(b) == Cardinality(Bytes(1..BatchSize, b.body))

DoneLanes(b) == {l \in Lanes : b.lane[l].phase = "done"}

BatchOK(b) ==
  /\ b \in Batches
  /\ \A l \in Lanes : LaneOK(b, b.lane[l])
  /\ DistinctRequests(b)
  /\ \A i \in 1..BatchSize : /\ b.output[i] = "none" => b.body[i] = 0
                             /\ i >= b.next => b.output[i] = "none"
  /\ b.payload = LaneBytes(b) + BodyBytes(b) /\ b.working = b.payload /\ b.payload <= MaxTotalBytes
  /\ 1 <= b.next /\ b.next <= BatchSize + 1 + Cardinality(DoneLanes(b))

(* A batch under way: a lane ends only past the last request, and a request *)
(* that was taken is answered or in a lane.                                 *)
UnderWayOK(b) ==
  /\ (\E l \in Lanes : b.lane[l].phase = "done") => b.next > BatchSize
  /\ \A i \in 1..BatchSize : i < b.next =>
       b.output[i] # "none" \/ \E l \in Lanes : b.lane[l].phase # "done" /\ b.lane[l].index = i

(* The number of lanes.                                                     *)
LEMMA LaneNumbers ==
  /\ LaneCount \in Nat /\ LaneCount <= BatchSize /\ LaneCount <= Concurrency
  /\ BatchSize # 0 => LaneCount # 0
  /\ BatchSize \in Nat /\ MaxTotalBytes \in Nat /\ Concurrency \in Nat
  /\ IsFiniteSet(Lanes) /\ Cardinality(Lanes) = LaneCount
  /\ IsFiniteSet(1..BatchSize)
<1>1. /\ LaneCount \in Nat /\ LaneCount <= BatchSize /\ LaneCount <= Concurrency
      /\ BatchSize # 0 => LaneCount # 0
      /\ BatchSize \in Nat /\ MaxTotalBytes \in Nat /\ Concurrency \in Nat
  BY BatchAssumption DEF LaneCount
<1>2. 1 \in Int /\ LaneCount \in Int /\ BatchSize \in Int
  BY <1>1
<1>3. IsFiniteSet(Lanes) /\ Cardinality(Lanes) = IF 1 > LaneCount THEN 0 ELSE LaneCount - 1 + 1
  BY <1>2, FS_Interval DEF Lanes
<1>4. IsFiniteSet(1..BatchSize)
  BY <1>2, FS_Interval
<1>5. QED
  BY <1>1, <1>3, <1>4

(* The lanes that have ended, counted.                                      *)
LEMMA DoneCount ==
  ASSUME NEW b
  PROVE  /\ IsFiniteSet(DoneLanes(b)) /\ Cardinality(DoneLanes(b)) \in Nat
         /\ Cardinality(DoneLanes(b)) <= LaneCount
<1>1. DoneLanes(b) \in SUBSET Lanes
  BY DEF DoneLanes
<1>2. QED
  BY <1>1, LaneNumbers, FS_Subset, FS_CardinalityType

(* A lane that is not done ends, or another one takes its place.            *)
LEMMA DoneMoves ==
  ASSUME NEW b, NEW c, NEW l \in Lanes, \A k \in Lanes \ {l} : c.lane[k] = b.lane[k]
  PROVE  /\ b.lane[l].phase # "done" /\ c.lane[l].phase = "done"
              => Cardinality(DoneLanes(c)) = Cardinality(DoneLanes(b)) + 1
         /\ b.lane[l].phase # "done" /\ c.lane[l].phase # "done"
              => Cardinality(DoneLanes(c)) = Cardinality(DoneLanes(b))
<1>1. ASSUME b.lane[l].phase # "done", c.lane[l].phase = "done"
      PROVE  Cardinality(DoneLanes(c)) = Cardinality(DoneLanes(b)) + 1
  <2>1. DoneLanes(c) = DoneLanes(b) \cup {l} /\ l \notin DoneLanes(b)
    BY <1>1 DEF DoneLanes
  <2>2. IsFiniteSet(DoneLanes(b))
    BY DoneCount
  <2>3. QED
    BY <2>1, <2>2, FS_AddElement, Zenon
<1>2. ASSUME b.lane[l].phase # "done", c.lane[l].phase # "done"
      PROVE  DoneLanes(c) = DoneLanes(b)
  BY <1>2 DEF DoneLanes
<1>3. QED
  BY <1>1, <1>2

(* A batch in order satisfies the two predicates of the model.              *)
LEMMA InOrder ==
  ASSUME NEW b, BatchOK(b)
  PROVE  BatchTypeOK(b) /\ BudgetsMatch(b)
<1>1. /\ b \in Batches /\ b.next \in Nat /\ b.payload \in Nat /\ b.working \in Nat
      /\ b.output \in [1..BatchSize -> Answers] /\ b.lane \in [Lanes -> LaneStates]
  BY DEF BatchOK, Batches
<1>2. Cardinality(DoneLanes(b)) \in Nat /\ Cardinality(DoneLanes(b)) <= LaneCount
  BY DoneCount
<1>3. b.next \in 1..(BatchSize + 1 + Concurrency)
  <2>1. 1 <= b.next /\ b.next <= BatchSize + 1 + Cardinality(DoneLanes(b))
    BY DEF BatchOK
  <2>2. PICK d \in Nat : d = Cardinality(DoneLanes(b)) /\ d <= LaneCount
    BY <1>2
  <2>3. QED
    BY <1>1, <2>1, <2>2, LaneNumbers
<1>4. b.payload \in 0..MaxTotalBytes /\ b.working \in 0..MaxWorkingBytes
  <2>1. b.payload <= MaxTotalBytes /\ b.working = b.payload
    BY DEF BatchOK
  <2>2. QED
    BY <1>1, <2>1, LaneNumbers DEF MaxWorkingBytes
<1>5. \A l \in Lanes : b.lane[l].phase \in Phases
  BY <1>1 DEF LaneStates
<1>6. BatchTypeOK(b)
  BY <1>1, <1>3, <1>4, <1>5 DEF BatchTypeOK
<1>7. BudgetsMatch(b)
  BY DEF BatchOK, BudgetsMatch, LaneBytes, BodyBytes, LaneOK, DistinctRequests
<1>8. QED
  BY <1>6, <1>7

(***************************************************************************)
(* The turns of a batch.                                                   *)
(***************************************************************************)

(* The fields of a batch.                                                   *)
LEMMA BatchFields ==
  ASSUME NEW b, b \in Batches, NEW l \in Lanes
  PROVE  /\ b.next \in Nat /\ b.payload \in Nat /\ b.working \in Nat
         /\ b.lane \in [Lanes -> LaneStates] /\ b.output \in [1..BatchSize -> Answers]
         /\ b.body \in [1..BatchSize -> Nat]
         /\ b.lane[l] \in LaneStates /\ b.lane[l].phase \in Phases /\ b.lane[l].index \in 0..BatchSize
         /\ b.lane[l].bytes \in Nat /\ b.lane[l].reserved \in Nat /\ b.lane[l].chunks \in Nat
         /\ b.lane[l].answer \in {"none", "value", "error"}
<1>1. /\ b.next \in Nat /\ b.payload \in Nat /\ b.working \in Nat
      /\ b.lane \in [Lanes -> LaneStates] /\ b.output \in [1..BatchSize -> Answers]
      /\ b.body \in [1..BatchSize -> Nat]
  BY DEF Batches
<1>2. b.lane[l] \in LaneStates
  BY <1>1
<1>3. QED
  BY <1>1, <1>2 DEF LaneStates

(* One lane changes: the bytes held change by what it holds.                *)
LEMMA LaneWritten ==
  ASSUME NEW b, b \in Batches, NEW c, NEW l \in Lanes, NEW x \in LaneStates,
         c.lane = [b.lane EXCEPT ![l] = x]
  PROVE  /\ c.lane \in [Lanes -> LaneStates] /\ c.lane[l] = x
         /\ \A k \in Lanes \ {l} : c.lane[k] = b.lane[k]
         /\ LaneBytes(c) + b.lane[l].bytes = LaneBytes(b) + x.bytes
         /\ b.lane[l].bytes <= LaneBytes(b)
         /\ LaneBytes(b) \in Nat /\ LaneBytes(c) \in Nat
<1>1. b.lane \in [Lanes -> LaneStates]
  BY DEF Batches
<1>2. /\ c.lane \in [Lanes -> LaneStates] /\ c.lane[l] = x
      /\ \A k \in Lanes \ {l} : c.lane[k] = b.lane[k]
  BY <1>1
<1>3. PICK f : f = [k \in Lanes |-> b.lane[k].bytes]
  BY Zenon
<1>4. PICK g : g = [k \in Lanes |-> c.lane[k].bytes]
  BY Zenon
<1>5. \A k \in Lanes : f[k] \in Nat /\ g[k] \in Nat
  BY <1>1, <1>2, <1>3, <1>4 DEF LaneStates
<1>6. (\A k \in Lanes \ {l} : g[k] = f[k]) /\ f[l] = b.lane[l].bytes /\ g[l] = x.bytes
  BY <1>2, <1>3, <1>4
<1>7. /\ Cardinality(Bytes(Lanes, g)) + f[l] = Cardinality(Bytes(Lanes, f)) + g[l]
      /\ f[l] <= Cardinality(Bytes(Lanes, f))
      /\ Cardinality(Bytes(Lanes, f)) \in Nat /\ Cardinality(Bytes(Lanes, g)) \in Nat
  <2>1. IsFiniteSet(Lanes)
    BY LaneNumbers
  <2>2. QED
    BY <1>5, <1>6, <2>1, BytesChanged
<1>8. QED
  BY <1>2, <1>3, <1>4, <1>6, <1>7 DEF LaneBytes

(* The bodies that are kept.                                                *)
LEMMA BodiesCounted ==
  ASSUME NEW b, b \in Batches
  PROVE  BodyBytes(b) \in Nat
<1>1. \A i \in 1..BatchSize : b.body[i] \in Nat
  BY Zenon DEF Batches
<1>2. QED
  BY <1>1, LaneNumbers, BytesFinite DEF BodyBytes

(* A lane goes on with its request, and the budgets with its bytes.         *)
LEMMA LaneGoesOn ==
  ASSUME NEW b, BatchOK(b), NEW l \in Lanes, b.lane[l].phase # "done",
         NEW x \in LaneStates, x.phase # "done", x.index = b.lane[l].index, x.reserved = x.bytes,
         x.phase = "closing" => x.answer # "none",
         NEW c, c \in Batches, c.lane = [b.lane EXCEPT ![l] = x],
         c.next = b.next, c.output = b.output, c.body = b.body,
         c.payload + b.lane[l].bytes = b.payload + x.bytes, c.working = c.payload, c.payload <= MaxTotalBytes
  PROVE  BatchOK(c) /\ (UnderWayOK(b) => UnderWayOK(c))
<1>1. b \in Batches
  BY DEF BatchOK
<1>2. /\ c.lane[l] = x /\ \A k \in Lanes \ {l} : c.lane[k] = b.lane[k]
      /\ LaneBytes(c) + b.lane[l].bytes = LaneBytes(b) + x.bytes
      /\ LaneBytes(b) \in Nat /\ LaneBytes(c) \in Nat
  BY <1>1, LaneWritten
<1>3. b.lane[l].bytes \in Nat /\ b.payload \in Nat /\ x.bytes \in Nat /\ c.payload \in Nat
  <2>1. b.lane[l].bytes \in Nat /\ b.payload \in Nat
    BY <1>1, BatchFields
  <2>2. x.bytes \in Nat
    BY DEF LaneStates
  <2>3. c.payload \in Nat
    BY BatchFields
  <2>4. QED
    BY <2>1, <2>2, <2>3
<1>4. BodyBytes(c) = BodyBytes(b) /\ BodyBytes(b) \in Nat
  BY <1>1, BodiesCounted DEF BodyBytes
<1>5. c.payload = LaneBytes(c) + BodyBytes(c)
  <2>1. b.payload = LaneBytes(b) + BodyBytes(b)
    BY DEF BatchOK
  <2>2. PICK p, q, r, s, t, u : p = LaneBytes(c) /\ q = LaneBytes(b) /\ r = BodyBytes(b) /\ s = b.lane[l].bytes
                             /\ t = x.bytes /\ u = c.payload
    OBVIOUS
  <2>3. /\ p \in Nat /\ q \in Nat /\ r \in Nat /\ s \in Nat /\ t \in Nat /\ u \in Nat
        /\ p + s = q + t /\ u + s = q + r + t
    BY <1>2, <1>3, <1>4, <2>1, <2>2
  <2>4. u = p + r
    BY ONLY <2>3
  <2>5. QED
    BY <1>4, <2>2, <2>4
<1>6. LaneOK(c, x)
  <2>1. x.index \in 1..BatchSize /\ x.index < b.next /\ b.output[x.index] = "none"
    BY DEF BatchOK, LaneOK
  <2>2. QED
    BY <2>1 DEF LaneOK
<1>7. \A k \in Lanes : LaneOK(c, c.lane[k])
  <2>1. ASSUME NEW k \in Lanes \ {l} PROVE LaneOK(c, c.lane[k])
    <3>1. LaneOK(b, b.lane[k])
      BY DEF BatchOK
    <3>2. QED
      BY <1>2, <3>1 DEF LaneOK
  <2>2. QED
    BY <1>2, <1>6, <2>1
<1>8. \A k \in Lanes : c.lane[k].index = b.lane[k].index /\ (c.lane[k].phase = "done" <=> b.lane[k].phase = "done")
  BY <1>2
<1>9. DistinctRequests(c)
  BY <1>8 DEF BatchOK, DistinctRequests
<1>10. DoneLanes(c) = DoneLanes(b)
  BY <1>8 DEF DoneLanes
<1>11. BatchOK(c)
  BY <1>5, <1>7, <1>9, <1>10 DEF BatchOK
<1>12. UnderWayOK(b) => UnderWayOK(c)
  BY <1>8 DEF UnderWayOK
<1>13. QED
  BY <1>11, <1>12

(* client.stream() settles.                                                 *)
LEMMA OpenedOK ==
  ASSUME NEW b, BatchOK(b), NEW l \in Lanes, b.lane[l].phase = "opening"
  PROVE  BatchOK(Opened(b, l)) /\ (UnderWayOK(b) => UnderWayOK(Opened(b, l)))
<1>1. b \in Batches /\ b.working = b.payload /\ b.payload <= MaxTotalBytes /\ LaneOK(b, b.lane[l])
  BY DEF BatchOK
<1>2. /\ b.lane \in [Lanes -> LaneStates] /\ b.lane[l] \in LaneStates /\ b.lane[l].reserved = b.lane[l].bytes
  BY <1>1, BatchFields DEF LaneOK
<1>3. PICK x : x = [b.lane[l] EXCEPT !.phase = "reading"]
  BY Zenon
<1>4. x \in LaneStates /\ x.phase = "reading" /\ x.index = b.lane[l].index /\ x.bytes = b.lane[l].bytes /\ x.reserved = x.bytes
  BY <1>2, <1>3 DEF LaneStates, Phases
<1>5. PICK c : c = Opened(b, l)
  OBVIOUS
<1>6. c = [b EXCEPT !.lane = [b.lane EXCEPT ![l] = x]]
  BY <1>3, <1>5 DEF Opened
<1>7. [b.lane EXCEPT ![l] = x] \in [Lanes -> LaneStates]
  BY <1>2, <1>4
<1>8. /\ c \in Batches /\ c.lane = [b.lane EXCEPT ![l] = x] /\ c.next = b.next /\ c.output = b.output
      /\ c.body = b.body /\ c.payload = b.payload /\ c.working = b.working
  BY <1>1, <1>6, <1>7 DEF Batches
<1>9. BatchOK(c) /\ (UnderWayOK(b) => UnderWayOK(c))
  BY <1>1, <1>4, <1>8, LaneGoesOn
<1>10. QED
  BY <1>5, <1>9

(* catch: the budgets get back what the request had reserved.               *)
LEMMA RefundOK ==
  ASSUME NEW b, BatchOK(b), NEW l \in Lanes, b.lane[l].phase # "done"
  PROVE  BatchOK(Refund(b, l)) /\ (UnderWayOK(b) => UnderWayOK(Refund(b, l)))
<1>1. /\ b \in Batches /\ b.working = b.payload /\ b.payload <= MaxTotalBytes /\ LaneOK(b, b.lane[l])
      /\ b.payload = LaneBytes(b) + BodyBytes(b)
  BY DEF BatchOK
<1>2. /\ b.lane \in [Lanes -> LaneStates] /\ b.lane[l] \in LaneStates /\ b.lane[l].reserved = b.lane[l].bytes
      /\ b.lane[l].bytes \in Nat /\ b.payload \in Nat /\ MaxTotalBytes \in Nat
  BY <1>1, BatchFields, LaneNumbers DEF LaneOK
<1>3. PICK x : x = [b.lane[l] EXCEPT !.phase = "closing", !.bytes = 0, !.reserved = 0, !.answer = "error"]
  OBVIOUS
<1>4. /\ x \in LaneStates /\ x.phase = "closing" /\ x.index = b.lane[l].index /\ x.bytes = 0 /\ x.reserved = 0
      /\ x.answer = "error"
  BY <1>2, <1>3, Zenon DEF LaneStates, Phases
<1>5. PICK c : c = Refund(b, l)
  OBVIOUS
<1>6. PICK p : p = b.payload - b.lane[l].bytes
  OBVIOUS
<1>7. b.lane[l].bytes <= b.payload
  <2>1. PICK d : d.lane = [b.lane EXCEPT ![l] = x]
    <3>1. PICK d : d = [lane |-> [b.lane EXCEPT ![l] = x]]
      BY Zenon
    <3>2. QED
      BY <3>1
  <2>2. b.lane[l].bytes <= LaneBytes(b) /\ LaneBytes(b) \in Nat
    BY <1>1, <1>4, <2>1, LaneWritten
  <2>3. BodyBytes(b) \in Nat
    BY <1>1, BodiesCounted
  <2>4. QED
    BY <1>1, <1>2, <2>2, <2>3
<1>8. p \in Nat /\ p + b.lane[l].bytes = b.payload + x.bytes /\ p <= MaxTotalBytes
  BY <1>1, <1>2, <1>4, <1>6, <1>7
<1>9. c = [b EXCEPT !.payload = p, !.working = p, !.lane = [b.lane EXCEPT ![l] = x]]
  BY <1>1, <1>2, <1>3, <1>5, <1>6, Zenon DEF Refund
<1>10. [b.lane EXCEPT ![l] = x] \in [Lanes -> LaneStates]
  BY <1>2, <1>4
<1>11. /\ c \in Batches /\ c.lane = [b.lane EXCEPT ![l] = x] /\ c.next = b.next /\ c.output = b.output
       /\ c.body = b.body /\ c.payload = p /\ c.working = p
  BY <1>1, <1>8, <1>9, <1>10, Zenon DEF Batches
<1>12. BatchOK(c) /\ (UnderWayOK(b) => UnderWayOK(c))
  BY <1>4, <1>8, <1>11, LaneGoesOn
<1>13. QED
  BY <1>5, <1>12

(* A chunk is reserved, or the request fails.                               *)
LEMMA ReadChunkOK ==
  ASSUME NEW b, BatchOK(b), NEW l \in Lanes, b.lane[l].phase = "reading", NEW size \in Nat
  PROVE  BatchOK(ReadChunk(b, l, size)) /\ (UnderWayOK(b) => UnderWayOK(ReadChunk(b, l, size)))
<1>1. CASE b.payload + size > MaxTotalBytes \/ b.working + size > MaxWorkingBytes
  <2>1. ReadChunk(b, l, size) = Refund(b, l)
    BY <1>1 DEF ReadChunk
  <2>2. QED
    BY <2>1, RefundOK
<1>2. CASE ~(b.payload + size > MaxTotalBytes \/ b.working + size > MaxWorkingBytes)
  <2>1. b \in Batches /\ b.working = b.payload /\ LaneOK(b, b.lane[l])
    BY DEF BatchOK
  <2>2. /\ b.lane \in [Lanes -> LaneStates] /\ b.lane[l] \in LaneStates /\ b.lane[l].reserved = b.lane[l].bytes
        /\ b.lane[l].bytes \in Nat /\ b.payload \in Nat /\ MaxTotalBytes \in Nat /\ b.lane[l].chunks \in Nat
    BY <2>1, BatchFields, LaneNumbers DEF LaneOK
  <2>3. PICK n, m, p : n = b.lane[l].bytes + size /\ m = b.lane[l].chunks + 1 /\ p = b.payload + size
    OBVIOUS
  <2>4. n \in Nat /\ m \in Nat /\ p \in Nat /\ p <= MaxTotalBytes /\ p + b.lane[l].bytes = b.payload + n
    BY <1>2, <2>2, <2>3
  <2>5. PICK x : x = Grown(b.lane[l], size)
    OBVIOUS
  <2>6. x \in LaneStates /\ x.phase = "reading" /\ x.index = b.lane[l].index /\ x.bytes = n /\ x.reserved = n
    <3>1. x = [b.lane[l] EXCEPT !.bytes = n, !.reserved = n, !.chunks = m]
      BY <2>2, <2>3, <2>5 DEF Grown
    <3>2. QED
      BY <2>2, <2>4, <3>1, Zenon DEF LaneStates
  <2>7. PICK c : c = ReadChunk(b, l, size)
    OBVIOUS
  <2>8. c = [b EXCEPT !.payload = p, !.working = p, !.lane = [b.lane EXCEPT ![l] = x]]
    <3>1. ReadChunk(b, l, size) = [b EXCEPT !.payload = @ + size, !.working = @ + size,
                 !.lane[l] = Grown(@, size)]
      BY <1>2 DEF ReadChunk
    <3>2. ReadChunk(b, l, size) = [b EXCEPT !.payload = b.payload + size, !.working = b.working + size,
                                            !.lane = [b.lane EXCEPT ![l] = x]]
      BY <2>1, <2>2, <2>5, <3>1 DEF Batches
    <3>3. QED
      BY <2>1, <2>3, <2>7, <3>2
  <2>9. [b.lane EXCEPT ![l] = x] \in [Lanes -> LaneStates]
    BY <2>2, <2>6
  <2>10. /\ c \in Batches /\ c.lane = [b.lane EXCEPT ![l] = x] /\ c.next = b.next /\ c.output = b.output
         /\ c.body = b.body /\ c.payload = p /\ c.working = p
    BY <2>1, <2>4, <2>8, <2>9, Zenon DEF Batches
  <2>11. BatchOK(c) /\ (UnderWayOK(b) => UnderWayOK(c))
    BY <2>4, <2>6, <2>10, LaneGoesOn
  <2>12. QED
    BY <2>7, <2>11
<1>3. QED
  BY <1>1, <1>2

(* The body is assembled, or does not fit.                                  *)
LEMMA AssembleOK ==
  ASSUME NEW b, BatchOK(b), NEW l \in Lanes, b.lane[l].phase = "reading", NEW compact
  PROVE  BatchOK(Assemble(b, l, compact)) /\ (UnderWayOK(b) => UnderWayOK(Assemble(b, l, compact)))
<1>1. CASE Assemble(b, l, compact) = Refund(b, l)
  BY <1>1, RefundOK
<1>2. CASE Assemble(b, l, compact) = [b EXCEPT !.lane[l].phase = "closing", !.lane[l].answer = "value"]
  <2>1. b \in Batches /\ b.working = b.payload /\ b.payload <= MaxTotalBytes /\ LaneOK(b, b.lane[l])
    BY DEF BatchOK
  <2>2. /\ b.lane \in [Lanes -> LaneStates] /\ b.lane[l] \in LaneStates /\ b.lane[l].reserved = b.lane[l].bytes
    BY <2>1, BatchFields DEF LaneOK
  <2>3. PICK x : x = [b.lane[l] EXCEPT !.phase = "closing", !.answer = "value"]
    OBVIOUS
  <2>4. /\ x \in LaneStates /\ x.phase = "closing" /\ x.index = b.lane[l].index /\ x.bytes = b.lane[l].bytes
        /\ x.reserved = x.bytes /\ x.answer = "value"
    BY <2>2, <2>3, Zenon DEF LaneStates, Phases
  <2>5. PICK c : c = Assemble(b, l, compact)
    OBVIOUS
  <2>6. c = [b EXCEPT !.lane = [b.lane EXCEPT ![l] = x]]
    BY <1>2, <2>1, <2>2, <2>3, <2>5, Zenon DEF Batches, LaneStates
  <2>7. [b.lane EXCEPT ![l] = x] \in [Lanes -> LaneStates]
    BY <2>2, <2>4
  <2>8. /\ c \in Batches /\ c.lane = [b.lane EXCEPT ![l] = x] /\ c.next = b.next /\ c.output = b.output
        /\ c.body = b.body /\ c.payload = b.payload /\ c.working = b.working
    BY <2>1, <2>6, <2>7 DEF Batches
  <2>9. BatchOK(c) /\ (UnderWayOK(b) => UnderWayOK(c))
    BY <2>1, <2>4, <2>8, LaneGoesOn
  <2>10. QED
    BY <2>5, <2>9
<1>3. QED
  BY <1>1, <1>2 DEF Assemble

(* The request of a lane is answered, and the lane takes another one or     *)
(* ends.                                                                    *)
LEMMA LaneSettles ==
  ASSUME NEW b, BatchOK(b), NEW l \in Lanes, b.lane[l].phase # "done",
         NEW x \in LaneStates, x.bytes = 0, x.reserved = 0, x.phase \in {"done", "opening"},
         NEW d, d \in Batches, d.lane = [b.lane EXCEPT ![l] = x],
         d.payload = b.payload, d.working = b.working,
         NEW i, i = b.lane[l].index, d.body = [b.body EXCEPT ![i] = b.lane[l].bytes],
         d.output[i] # "none",
         \A j \in (1..BatchSize) \ {i} : j < b.next => d.output[j] = b.output[j],
         \A j \in (1..BatchSize) \ {i} : j >= d.next => d.output[j] = "none",
         x.phase = "opening" => /\ b.next <= BatchSize /\ x.index = b.next /\ d.next = b.next + 1
                                /\ d.output[b.next] = "none",
         x.phase = "done" => /\ b.next < d.next /\ BatchSize < d.next
                             /\ d.next <= b.next + 1 \/ d.next <= BatchSize + 2
                             /\ \A j \in 1..BatchSize : j >= b.next => d.output[j] # "none"
  PROVE  BatchOK(d) /\ (UnderWayOK(b) => UnderWayOK(d))
<1>1. /\ b \in Batches /\ b.next \in Nat /\ 1 <= b.next /\ d.next \in Nat
      /\ i \in 1..BatchSize /\ i < b.next /\ b.output[i] = "none" /\ b.body[i] = 0
      /\ b.lane[l].bytes \in Nat /\ b.payload \in Nat /\ BatchSize \in Nat
  <2>1. b \in Batches /\ LaneOK(b, b.lane[l]) /\ 1 <= b.next
    BY DEF BatchOK
  <2>2. i \in 1..BatchSize /\ i < b.next /\ b.output[i] = "none"
    BY <2>1 DEF LaneOK
  <2>3. b.body[i] = 0
    BY <2>2 DEF BatchOK
  <2>4. b.next \in Nat /\ b.lane[l].bytes \in Nat /\ b.payload \in Nat
    BY <2>1, BatchFields
  <2>5. d.next \in Nat
    BY BatchFields
  <2>6. QED
    BY <2>1, <2>2, <2>3, <2>4, <2>5, LaneNumbers
<1>2. /\ d.lane[l] = x /\ \A k \in Lanes \ {l} : d.lane[k] = b.lane[k]
      /\ LaneBytes(d) + b.lane[l].bytes = LaneBytes(b) + x.bytes
      /\ LaneBytes(b) \in Nat /\ LaneBytes(d) \in Nat
  BY <1>1, LaneWritten
<1>3. b.next < d.next
  BY <1>1
<1>4. BodyBytes(d) = BodyBytes(b) + b.lane[l].bytes /\ BodyBytes(b) \in Nat
  <2>1. b.body \in [1..BatchSize -> Nat] /\ d.body \in [1..BatchSize -> Nat]
    BY <1>1 DEF Batches
  <2>2. /\ \A j \in 1..BatchSize : b.body[j] \in Nat /\ d.body[j] \in Nat
        /\ \A j \in (1..BatchSize) \ {i} : d.body[j] = b.body[j]
        /\ d.body[i] = b.lane[l].bytes
    BY <1>1, <2>1
  <2>3. IsFiniteSet(1..BatchSize)
    BY LaneNumbers
  <2>4. PICK S, f, g : S = 1..BatchSize /\ f = b.body /\ g = d.body
    OBVIOUS
  <2>5. /\ IsFiniteSet(S) /\ i \in S /\ (\A j \in S : f[j] \in Nat /\ g[j] \in Nat)
        /\ \A j \in S \ {i} : g[j] = f[j]
    BY <1>1, <2>2, <2>3, <2>4
  <2>6. /\ Cardinality(Bytes(S, g)) + f[i] = Cardinality(Bytes(S, f)) + g[i]
        /\ Cardinality(Bytes(S, f)) \in Nat /\ Cardinality(Bytes(S, g)) \in Nat
    BY ONLY <2>5, BytesChanged
  <2>7. BodyBytes(d) = Cardinality(Bytes(S, g)) /\ BodyBytes(b) = Cardinality(Bytes(S, f))
    BY <2>4, Zenon DEF BodyBytes
  <2>8. f[i] = 0 /\ g[i] = b.lane[l].bytes /\ b.lane[l].bytes \in Nat
    BY <1>1, <2>2, <2>4
  <2>9. PICK m, n, y : m = Cardinality(Bytes(S, g)) /\ n = Cardinality(Bytes(S, f)) /\ y = b.lane[l].bytes
    BY Zenon
  <2>10. m \in Nat /\ n \in Nat /\ y \in Nat /\ m + 0 = n + y
    BY <2>6, <2>8, <2>9
  <2>11. m = n + y
    BY ONLY <2>10
  <2>12. QED
    BY <2>7, <2>9, <2>10, <2>11
<1>5. d.payload = LaneBytes(d) + BodyBytes(d) /\ d.working = d.payload /\ d.payload <= MaxTotalBytes
  <2>1. b.payload = LaneBytes(b) + BodyBytes(b) /\ b.working = b.payload /\ b.payload <= MaxTotalBytes
    BY DEF BatchOK
  <2>2. QED
    BY <1>1, <1>2, <1>4, <2>1
<1>6. ASSUME NEW k \in Lanes \ {l} PROVE LaneOK(d, d.lane[k]) /\ (d.lane[k].phase # "done" => d.lane[k].index # i)
  <2>1. LaneOK(b, b.lane[k]) /\ DistinctRequests(b)
    BY DEF BatchOK
  <2>2. b.lane[k].phase # "done" => b.lane[k].index # i
    BY <2>1 DEF DistinctRequests
  <2>3. ASSUME b.lane[k].phase # "done"
        PROVE  b.lane[k].index \in 1..BatchSize /\ b.lane[k].index < d.next /\ d.output[b.lane[k].index] = "none"
    <3>1. PICK j : j = b.lane[k].index
      OBVIOUS
    <3>2. j \in (1..BatchSize) \ {i} /\ j < b.next /\ b.output[j] = "none"
      BY <2>1, <2>2, <2>3, <3>1 DEF LaneOK
    <3>3. QED
      BY <1>1, <1>3, <3>1, <3>2
  <2>4. QED
    BY <1>2, <2>1, <2>2, <2>3 DEF LaneOK
<1>7. LaneOK(d, x)
  BY <1>1 DEF LaneOK
<1>8. \A k \in Lanes : LaneOK(d, d.lane[k])
  BY <1>2, <1>6, <1>7
<1>9. ASSUME NEW k \in Lanes \ {l}, x.phase # "done", d.lane[k].phase # "done" PROVE d.lane[k].index # x.index
  <2>1. LaneOK(b, b.lane[k]) /\ b.lane[k].phase # "done"
    BY <1>2, <1>9 DEF BatchOK
  <2>2. b.lane[k].index < b.next /\ b.lane[k].index \in 1..BatchSize
    BY <2>1 DEF LaneOK
  <2>3. QED
    BY <1>1, <1>2, <1>9, <2>2
<1>10. DistinctRequests(d)
  BY <1>2, <1>9 DEF BatchOK, DistinctRequests
<1>11. ASSUME NEW j \in 1..BatchSize
       PROVE  /\ d.output[j] = "none" => d.body[j] = 0
              /\ j >= d.next => d.output[j] = "none"
  <2>1. CASE j = i
    BY <1>1, <1>3, <2>1
  <2>2. CASE j # i
    <3>1. b.body \in [1..BatchSize -> Nat]
      BY <1>1 DEF Batches
    <3>2. d.body[j] = b.body[j]
      BY <1>1, <2>2, <3>1
    <3>3. b.output[j] = "none" => b.body[j] = 0
      BY DEF BatchOK
    <3>4. j >= b.next => b.output[j] = "none"
      BY DEF BatchOK
    <3>5. j < b.next => d.output[j] = b.output[j]
      BY <2>2
    <3>6. QED
      BY <1>1, <2>2, <3>2, <3>3, <3>4, <3>5
  <2>3. QED
    BY <2>1, <2>2
<1>12. 1 <= d.next /\ d.next <= BatchSize + 1 + Cardinality(DoneLanes(d))
  <2>1. b.next <= BatchSize + 1 + Cardinality(DoneLanes(b))
    BY DEF BatchOK
  <2>2. Cardinality(DoneLanes(b)) \in Nat /\ Cardinality(DoneLanes(d)) \in Nat
    BY DoneCount
  <2>3. CASE x.phase = "done"
    <3>1. Cardinality(DoneLanes(d)) = Cardinality(DoneLanes(b)) + 1
      <4>1. /\ l \in Lanes /\ b.lane[l].phase # "done" /\ d.lane[l].phase = "done"
            /\ \A k \in Lanes \ {l} : d.lane[k] = b.lane[k]
        BY <1>2, <2>3
      <4>2. QED
        BY ONLY <4>1, DoneMoves
    <3>2. PICK m, n, p : m = Cardinality(DoneLanes(b)) /\ n = b.next /\ p = d.next
      OBVIOUS
    <3>3. /\ m \in Nat /\ n \in Nat /\ p \in Nat /\ BatchSize \in Nat /\ 1 <= n /\ n < p
          /\ n <= BatchSize + 1 + m /\ (p <= n + 1 \/ p <= BatchSize + 2)
      BY <1>1, <1>3, <2>1, <2>2, <2>3, <3>2
    <3>4. 1 <= p /\ p <= BatchSize + 1 + (m + 1)
      BY ONLY <3>3
    <3>5. QED
      BY <3>1, <3>2, <3>4
  <2>4. CASE x.phase = "opening"
    BY <1>1, <2>2, <2>4
  <2>5. QED
    BY <2>3, <2>4
<1>13. BatchOK(d)
  BY <1>5, <1>8, <1>10, <1>11, <1>12 DEF BatchOK
<1>14. ASSUME UnderWayOK(b) PROVE UnderWayOK(d)
  <2>1. ASSUME NEW k \in Lanes, d.lane[k].phase = "done" PROVE d.next > BatchSize
    <3>1. CASE x.phase = "done"
      BY <1>1, <3>1
    <3>2. CASE x.phase # "done"
      <4>1. k # l /\ b.lane[k].phase = "done"
        BY <1>2, <2>1, <3>2
      <4>2. b.next > BatchSize
        BY <1>14, <4>1 DEF UnderWayOK
      <4>3. QED
        BY <1>1, <3>2, <4>2
    <3>3. QED
      BY <3>1, <3>2
  <2>2. ASSUME NEW j \in 1..BatchSize, j < d.next
        PROVE  d.output[j] # "none" \/ \E k \in Lanes : d.lane[k].phase # "done" /\ d.lane[k].index = j
    <3>1. CASE j = i
      BY <3>1
    <3>2. CASE j # i /\ j < b.next
      <4>1. d.output[j] = b.output[j]
        BY <3>2
      <4>2. ASSUME b.output[j] = "none" PROVE \E k \in Lanes : d.lane[k].phase # "done" /\ d.lane[k].index = j
        <5>1. PICK k \in Lanes : b.lane[k].phase # "done" /\ b.lane[k].index = j
          BY <1>14, <3>2, <4>2 DEF UnderWayOK
        <5>2. k # l
          BY <3>2, <5>1
        <5>3. QED
          BY <1>2, <5>1, <5>2
      <4>3. QED
        BY <4>1, <4>2
    <3>3. CASE j >= b.next /\ x.phase = "done"
      BY <3>3
    <3>4. CASE j >= b.next /\ x.phase = "opening"
      <4>1. j = x.index
        BY <1>1, <2>2, <3>4
      <4>2. QED
        BY <1>2, <3>4, <4>1
    <3>5. QED
      BY <1>1, <3>1, <3>2, <3>3, <3>4, SMTT(30)
  <2>3. QED
    BY <2>1, <2>2 DEF UnderWayOK
<1>15. QED
  BY <1>13, <1>14

(* A lane that starts on a request.                                         *)
LEMMA OpeningFields ==
  ASSUME NEW i \in 1..BatchSize, NEW x, x = OpeningLane(i)
  PROVE  /\ x \in LaneStates /\ x.bytes = 0 /\ x.reserved = 0 /\ x.phase = "opening" /\ x.index = i
<1>1. x = [phase |-> "opening", index |-> i, bytes |-> 0, reserved |-> 0, chunks |-> 0, answer |-> "none"]
  BY Zenon DEF OpeningLane, IdleLane
<1>2. i \in 0..BatchSize /\ 0 \in Nat
  BY BatchAssumption
<1>3. x \in LaneStates
  BY <1>1, <1>2 DEF LaneStates, Phases
<1>4. QED
  BY <1>1, <1>3

(* A batch with other lanes, another cursor and other answers.              *)
Moved(c, f, n, o) == [c EXCEPT !.lane = f, !.next = n, !.output = o]

(* Such a batch is of its type, and the rest of it is unchanged.            *)
LEMMA BatchMoved ==
  ASSUME NEW c, c \in Batches, NEW f \in [Lanes -> LaneStates], NEW n \in Nat,
         NEW o \in [1..BatchSize -> Answers],
         NEW d, d = Moved(c, f, n, o)
  PROVE  /\ d \in Batches /\ d.lane = f /\ d.next = n /\ d.output = o
         /\ d.body = c.body /\ d.payload = c.payload /\ d.working = c.working
<1>1. d = [next |-> n, payload |-> c.payload, working |-> c.working, lane |-> f, output |-> o, body |-> c.body]
  BY Zenon DEF Batches, Moved
<1>2. c.payload \in Nat /\ c.working \in Nat /\ c.body \in [1..BatchSize -> Nat]
  BY DEF Batches
<1>3. d \in Batches
  BY <1>1, <1>2 DEF Batches
<1>4. QED
  BY <1>1, <1>3

(* output[index] is written and the lane goes round: lane().                *)
LEMMA SettleOK ==
  ASSUME NEW b, BatchOK(b), NEW l \in Lanes, b.lane[l].phase # "done",
         NEW answer \in {"value", "error"}, NEW aborted
  PROVE  /\ BatchOK(Settle(b, l, answer, aborted))
         /\ UnderWayOK(b) => UnderWayOK(Settle(b, l, answer, aborted))
<1>1. PICK i, n : i = b.lane[l].index /\ n = b.lane[l].bytes
  OBVIOUS
<1>2. b \in Batches /\ LaneOK(b, b.lane[l])
  BY DEF BatchOK
<1>3. /\ b.next \in Nat /\ b.output \in [1..BatchSize -> Answers] /\ b.body \in [1..BatchSize -> Nat]
      /\ b.lane \in [Lanes -> LaneStates] /\ n \in Nat /\ BatchSize \in Nat
  BY <1>1, <1>2, BatchFields, LaneNumbers
<1>4. i \in 1..BatchSize /\ i < b.next /\ \A j \in 1..BatchSize : j >= b.next => b.output[j] = "none"
  <2>1. i \in 1..BatchSize /\ i < b.next
    BY <1>1, <1>2 DEF LaneOK
  <2>2. QED
    BY <2>1 DEF BatchOK
<1>5. PICK out, bod : out = [b.output EXCEPT ![i] = answer] /\ bod = [b.body EXCEPT ![i] = n]
  BY Zenon
<1>6. /\ out \in [1..BatchSize -> Answers] /\ bod \in [1..BatchSize -> Nat]
      /\ out[i] = answer /\ \A j \in (1..BatchSize) \ {i} : out[j] = b.output[j]
  BY <1>3, <1>4, <1>5 DEF Answers
<1>7. PICK c : c = [b EXCEPT !.output = out, !.body = bod]
  OBVIOUS
<1>8. Settle(b, l, answer, aborted) = TakeNext(c, l, aborted)
  BY <1>1, <1>5, <1>7 DEF Settle
<1>9. /\ c \in Batches /\ c.next = b.next /\ c.output = out /\ c.body = bod /\ c.lane = b.lane
      /\ c.payload = b.payload /\ c.working = b.working
  BY <1>2, <1>6, <1>7, Zenon DEF Batches
<1>10. IdleLane \in LaneStates /\ IdleLane.bytes = 0 /\ IdleLane.reserved = 0 /\ IdleLane.phase = "done"
  BY <1>3 DEF IdleLane, LaneStates, Phases
<1>11. PICK d : d = TakeNext(c, l, aborted)
  OBVIOUS
<1>15. b.next + 1 \in Nat /\ BatchSize + 2 \in Nat
  BY <1>3
<1>12. CASE b.next > BatchSize
  <2>1. d = Moved(c, [b.lane EXCEPT ![l] = IdleLane], b.next + 1, out)
    BY <1>9, <1>11, <1>12, Zenon DEF TakeNext, Batches, Moved
  <2>2. [b.lane EXCEPT ![l] = IdleLane] \in [Lanes -> LaneStates]
    BY <1>3, <1>10
  <2>3. /\ d \in Batches /\ d.lane = [b.lane EXCEPT ![l] = IdleLane] /\ d.next = b.next + 1
        /\ d.output = out /\ d.body = bod /\ d.payload = b.payload /\ d.working = b.working
    <3>1. PICK f, m : f = [b.lane EXCEPT ![l] = IdleLane] /\ m = b.next + 1
      BY Zenon
    <3>2. d = Moved(c, f, m, out) /\ f \in [Lanes -> LaneStates] /\ m \in Nat
      BY <2>1, <2>2, <1>15, <3>1
    <3>3. /\ d \in Batches /\ d.lane = f /\ d.next = m /\ d.output = out
          /\ d.body = c.body /\ d.payload = c.payload /\ d.working = c.working
      BY <1>6, <1>9, <3>2, BatchMoved
    <3>4. QED
      BY <1>9, <3>1, <3>3
  <2>4. /\ d.output[i] # "none" /\ d.body = [b.body EXCEPT ![i] = b.lane[l].bytes]
        /\ \A j \in (1..BatchSize) \ {i} : j < b.next => d.output[j] = b.output[j]
        /\ \A j \in (1..BatchSize) \ {i} : j >= d.next => d.output[j] = "none"
        /\ b.next < d.next /\ BatchSize < d.next /\ d.next <= b.next + 1
        /\ \A j \in 1..BatchSize : j >= b.next => d.output[j] # "none"
    BY <1>1, <1>3, <1>5, <1>6, <1>12, <2>3, SMTT(30)
  <2>5. BatchOK(d) /\ (UnderWayOK(b) => UnderWayOK(d))
    BY <1>1, <1>10, <2>3, <2>4, LaneSettles, SMTT(30)
  <2>6. QED
    BY <1>8, <1>11, <2>5
<1>13. CASE b.next <= BatchSize /\ aborted
  <2>1. PICK o : o = [j \in DOMAIN out |-> IF j >= b.next THEN "timeout" ELSE out[j]]
    BY Zenon
  <2>2. d = Moved(c, [b.lane EXCEPT ![l] = IdleLane], BatchSize + 2, o)
    BY <1>3, <1>9, <1>11, <1>13, <2>1 DEF TakeNext, Moved
  <2>3. [b.lane EXCEPT ![l] = IdleLane] \in [Lanes -> LaneStates]
    BY <1>3, <1>10
  <2>4. o \in [1..BatchSize -> Answers] /\ \A j \in 1..BatchSize : o[j] = IF j >= b.next THEN "timeout" ELSE out[j]
    BY <1>6, <2>1 DEF Answers
  <2>5. /\ d \in Batches /\ d.lane = [b.lane EXCEPT ![l] = IdleLane] /\ d.next = BatchSize + 2
        /\ d.output = o /\ d.body = bod /\ d.payload = b.payload /\ d.working = b.working
    <3>1. PICK f, m : f = [b.lane EXCEPT ![l] = IdleLane] /\ m = BatchSize + 2
      BY Zenon
    <3>2. d = Moved(c, f, m, o) /\ f \in [Lanes -> LaneStates] /\ m \in Nat
      BY <2>2, <2>3, <1>15, <3>1
    <3>3. /\ d \in Batches /\ d.lane = f /\ d.next = m /\ d.output = o
          /\ d.body = c.body /\ d.payload = c.payload /\ d.working = c.working
      BY <1>9, <2>4, <3>2, BatchMoved
    <3>4. QED
      BY <1>9, <3>1, <3>3
  <2>6. /\ d.output[i] # "none" /\ d.body = [b.body EXCEPT ![i] = b.lane[l].bytes]
        /\ \A j \in (1..BatchSize) \ {i} : j < b.next => d.output[j] = b.output[j]
        /\ \A j \in (1..BatchSize) \ {i} : j >= d.next => d.output[j] = "none"
        /\ b.next < d.next /\ BatchSize < d.next /\ d.next <= BatchSize + 2
        /\ \A j \in 1..BatchSize : j >= b.next => d.output[j] # "none"
    BY <1>1, <1>3, <1>4, <1>5, <1>6, <1>13, <2>4, <2>5, SMTT(30)
  <2>7. BatchOK(d) /\ (UnderWayOK(b) => UnderWayOK(d))
    BY <1>1, <1>10, <2>5, <2>6, LaneSettles, SMTT(30)
  <2>8. QED
    BY <1>8, <1>11, <2>7
<1>14. CASE b.next <= BatchSize /\ ~aborted
  <2>0. b.next \in 1..BatchSize
    BY <1>3, <1>4, <1>14
  <2>1. PICK x : x = OpeningLane(b.next)
    OBVIOUS
  <2>2. x \in LaneStates /\ x.bytes = 0 /\ x.reserved = 0 /\ x.phase = "opening" /\ x.index = b.next
    BY <1>3, <1>14, <2>0, <2>1, OpeningFields
  <2>3. d = Moved(c, [b.lane EXCEPT ![l] = x], b.next + 1, out)
    <3>1. ~(c.next > BatchSize) /\ ~aborted
      BY <1>3, <1>9, <1>14
    <3>2. d = [c EXCEPT !.lane[l] = x, !.next = @ + 1]
      BY <1>9, <1>11, <2>1, <3>1 DEF TakeNext
    <3>3. QED
      BY <1>9, <3>2, Zenon DEF Batches, Moved
  <2>4. [b.lane EXCEPT ![l] = x] \in [Lanes -> LaneStates]
    BY <1>3, <2>2
  <2>5. /\ d \in Batches /\ d.lane = [b.lane EXCEPT ![l] = x] /\ d.next = b.next + 1
        /\ d.output = out /\ d.body = bod /\ d.payload = b.payload /\ d.working = b.working
    <3>1. PICK f, m : f = [b.lane EXCEPT ![l] = x] /\ m = b.next + 1
      BY Zenon
    <3>2. d = Moved(c, f, m, out) /\ f \in [Lanes -> LaneStates] /\ m \in Nat
      BY <2>3, <2>4, <1>15, <3>1
    <3>3. /\ d \in Batches /\ d.lane = f /\ d.next = m /\ d.output = out
          /\ d.body = c.body /\ d.payload = c.payload /\ d.working = c.working
      BY <1>6, <1>9, <3>2, BatchMoved
    <3>4. QED
      BY <1>9, <3>1, <3>3
  <2>6. b.next \in (1..BatchSize) \ {i}
    BY <1>3, <1>4, <1>14
  <2>7. /\ d.output[i] # "none" /\ d.body = [b.body EXCEPT ![i] = b.lane[l].bytes]
        /\ \A j \in (1..BatchSize) \ {i} : j < b.next => d.output[j] = b.output[j]
        /\ \A j \in (1..BatchSize) \ {i} : j >= d.next => d.output[j] = "none"
        /\ d.output[b.next] = "none"
    BY <1>1, <1>3, <1>4, <1>5, <1>6, <2>5, <2>6, SMTT(30)
  <2>8. BatchOK(d) /\ (UnderWayOK(b) => UnderWayOK(d))
    BY <1>1, <1>14, <2>2, <2>5, <2>7, LaneSettles, SMTT(30)
  <2>9. QED
    BY <1>8, <1>11, <2>8
<1>16. QED
  BY <1>3, <1>12, <1>13, <1>14

(* Without requests under way nothing is held.                              *)
LEMMA NoBatchOK ==
  BatchOK(NoBatch)
<1>1. IdleLane \in LaneStates /\ IdleLane.bytes = 0 /\ IdleLane.reserved = 0 /\ IdleLane.phase = "done"
  BY LaneNumbers DEF IdleLane, LaneStates, Phases
<1>2. PICK b : b = NoBatch
  OBVIOUS
<1>3. /\ b \in Batches /\ b.next = 1 /\ b.payload = 0 /\ b.working = 0
      /\ b.lane = [l \in Lanes |-> IdleLane] /\ b.output = [i \in 1..BatchSize |-> "none"]
      /\ b.body = [i \in 1..BatchSize |-> 0]
  BY <1>1, <1>2 DEF NoBatch, Batches, Answers
<1>4. LaneBytes(b) = 0
  BY <1>1, <1>3, BytesNone DEF LaneBytes
<1>5. BodyBytes(b) = 0
  BY <1>3, BytesNone, Zenon DEF BodyBytes
<1>6. \A l \in Lanes : LaneOK(b, b.lane[l]) /\ b.lane[l].phase = "done"
  BY <1>1, <1>3 DEF LaneOK
<1>7. Cardinality(DoneLanes(b)) \in Nat
  BY DoneCount
<1>8. 1 <= b.next /\ b.next <= BatchSize + 1 + Cardinality(DoneLanes(b))
  BY <1>3, <1>7, LaneNumbers
<1>9. BatchOK(b)
  BY <1>3, <1>4, <1>5, <1>6, <1>8, LaneNumbers DEF BatchOK, DistinctRequests
<1>10. QED
  BY <1>2, <1>9

(* Every lane starts with a request of its own.                             *)
LEMMA StartBatchOK ==
  BatchOK(StartBatch) /\ UnderWayOK(StartBatch)
<1>1. ASSUME NEW l \in Lanes
      PROVE  /\ OpeningLane(l) \in LaneStates /\ OpeningLane(l).bytes = 0 /\ OpeningLane(l).reserved = 0
             /\ OpeningLane(l).phase = "opening" /\ OpeningLane(l).index = l /\ l \in 1..BatchSize /\ l < LaneCount + 1
  <2>1. l \in 1..LaneCount /\ l \in 1..BatchSize
    BY LaneNumbers DEF Lanes
  <2>2. QED
    BY <2>1, LaneNumbers, OpeningFields
<1>2. PICK b : b = StartBatch
  OBVIOUS
<1>3. /\ b \in Batches /\ b.next = LaneCount + 1 /\ b.payload = 0 /\ b.working = 0
      /\ b.lane = [l \in Lanes |-> OpeningLane(l)] /\ b.output = [i \in 1..BatchSize |-> "none"]
      /\ b.body = [i \in 1..BatchSize |-> 0]
  <2>1. PICK c : c = NoBatch
    OBVIOUS
  <2>2. c \in Batches /\ c.payload = 0 /\ c.working = 0 /\ c.output = [i \in 1..BatchSize |-> "none"] /\ c.body = [i \in 1..BatchSize |-> 0]
    BY <2>1, NoBatchOK DEF NoBatch, BatchOK
  <2>3. PICK f, o : f = [l \in Lanes |-> OpeningLane(l)] /\ o = [i \in 1..BatchSize |-> "none"]
    BY Zenon
  <2>4. f \in [Lanes -> LaneStates] /\ o \in [1..BatchSize -> Answers] /\ LaneCount + 1 \in Nat
    BY <1>1, <2>3, LaneNumbers DEF Answers
  <2>5. b = Moved(c, f, LaneCount + 1, o)
    BY <1>2, <2>1, <2>2, <2>3, Zenon DEF StartBatch, Batches, Moved
  <2>6. QED
    BY <2>2, <2>3, <2>4, <2>5, BatchMoved
<1>4. LaneBytes(b) = 0
  BY <1>1, <1>3, BytesNone DEF LaneBytes
<1>5. BodyBytes(b) = 0
  BY <1>3, BytesNone, Zenon DEF BodyBytes
<1>6. \A l \in Lanes : LaneOK(b, b.lane[l]) /\ b.lane[l].phase = "opening" /\ b.lane[l].index = l
  BY <1>1, <1>3 DEF LaneOK
<1>7. Cardinality(DoneLanes(b)) \in Nat
  BY DoneCount
<1>8. 1 <= b.next /\ b.next <= BatchSize + 1 + Cardinality(DoneLanes(b))
  BY <1>3, <1>7, LaneNumbers
<1>9. BatchOK(b)
  BY <1>3, <1>4, <1>5, <1>6, <1>8, LaneNumbers DEF BatchOK, DistinctRequests
<1>10. ASSUME NEW i \in 1..BatchSize, i < b.next PROVE i \in Lanes
  BY <1>3, <1>10, LaneNumbers DEF Lanes
<1>11. UnderWayOK(b)
  BY <1>6, <1>10 DEF UnderWayOK
<1>12. QED
  BY <1>2, <1>9, <1>11

(* A batch whose lanes have all ended has an answer for every request.      *)
LEMMA AllAnswered ==
  ASSUME NEW b, BatchOK(b), UnderWayOK(b), AllDone(b)
  PROVE  \A i \in 1..BatchSize : b.output[i] # "none"
<1> SUFFICES ASSUME NEW i \in 1..BatchSize PROVE b.output[i] # "none"
  OBVIOUS
<1>1. 1 \in Lanes
  BY LaneNumbers DEF Lanes
<1>2. b.next > BatchSize
  BY <1>1 DEF UnderWayOK, AllDone
<1>3. b.next \in Nat
  BY DEF BatchOK, Batches
<1>4. i < b.next
  BY <1>2, <1>3, LaneNumbers
<1>5. QED
  BY <1>4 DEF UnderWayOK, AllDone

(***************************************************************************)
(* The batch in the bridge.                                                *)
(***************************************************************************)

(* The batch is in order, and while it runs no request of it is dropped.    *)
BatchInv == BatchOK(batch) /\ (worker.run.op = "requestMany" => UnderWayOK(batch))

(* A turn of a lane keeps the batch in order.                               *)
LEMMA BatchTurnKeeps == IInv /\ BatchInv /\ BatchTurn => BatchInv'
<1> SUFFICES ASSUME IInv, BatchInv, BatchTurn PROVE BatchInv'
  OBVIOUS
<1>1. BatchOK(batch) /\ UnderWayOK(batch) /\ worker' = worker
  BY DEF BatchInv, BatchTurn
<1>2. PICK l \in Lanes :
        LET phase == batch.lane[l].phase
        IN \/ phase = "opening" /\ ~worker.abort /\ batch' = Opened(batch, l)
           \/ phase = "opening" /\ batch' = Settle(batch, l, "error", worker.abort)
           \/ phase = "reading" /\ ~worker.abort
              /\ \/ \E size \in ChunkSizes : batch' = ReadChunk(batch, l, size)
                 \/ \E compact \in BOOLEAN : batch' = Assemble(batch, l, compact)
           \/ phase = "reading" /\ batch' = Refund(batch, l)
           \/ phase = "closing" /\ batch' = Closed(batch, l, worker.abort)
  BY DEF BatchTurn
<1>3. CASE batch.lane[l].phase = "opening" /\ batch' = Opened(batch, l)
  <2>1. BatchOK(Opened(batch, l)) /\ UnderWayOK(Opened(batch, l))
    BY <1>1, <1>3, OpenedOK
  <2>2. QED
    BY <1>1, <1>3, <2>1 DEF BatchInv
<1>4. CASE batch.lane[l].phase = "opening" /\ batch' = Settle(batch, l, "error", worker.abort)
  <2>1. BatchOK(Settle(batch, l, "error", worker.abort)) /\ UnderWayOK(Settle(batch, l, "error", worker.abort))
    BY <1>1, <1>4, SettleOK
  <2>2. QED
    BY <1>1, <1>4, <2>1 DEF BatchInv
<1>5. ASSUME batch.lane[l].phase = "reading", NEW size \in ChunkSizes, batch' = ReadChunk(batch, l, size)
      PROVE  BatchInv'
  <2>1. size \in Nat
    BY BridgeAssumption
  <2>2. BatchOK(ReadChunk(batch, l, size)) /\ UnderWayOK(ReadChunk(batch, l, size))
    BY <1>1, <1>5, <2>1, ReadChunkOK
  <2>3. QED
    BY <1>1, <1>5, <2>2 DEF BatchInv
<1>6. ASSUME batch.lane[l].phase = "reading", NEW compact \in BOOLEAN, batch' = Assemble(batch, l, compact)
      PROVE  BatchInv'
  <2>1. BatchOK(Assemble(batch, l, compact)) /\ UnderWayOK(Assemble(batch, l, compact))
    BY <1>1, <1>6, AssembleOK
  <2>2. QED
    BY <1>1, <1>6, <2>1 DEF BatchInv
<1>7. CASE batch.lane[l].phase = "reading" /\ batch' = Refund(batch, l)
  <2>1. BatchOK(Refund(batch, l)) /\ UnderWayOK(Refund(batch, l))
    BY <1>1, <1>7, RefundOK
  <2>2. QED
    BY <1>1, <1>7, <2>1 DEF BatchInv
<1>8. CASE batch.lane[l].phase = "closing" /\ batch' = Closed(batch, l, worker.abort)
  <2>1. PICK answer : answer = batch.lane[l].answer
    OBVIOUS
  <2>2. LaneOK(batch, batch.lane[l]) /\ batch \in Batches
    BY <1>1 DEF BatchOK
  <2>3. answer \in {"value", "error"}
    BY <1>8, <2>1, <2>2 DEF LaneOK, Batches, LaneStates
  <2>4. BatchOK(Settle(batch, l, answer, worker.abort)) /\ UnderWayOK(Settle(batch, l, answer, worker.abort))
    BY <1>1, <1>8, <2>3, SettleOK
  <2>5. batch' = Settle(batch, l, answer, worker.abort)
    BY <1>8, <2>1 DEF Closed
  <2>6. QED
    BY <1>1, <2>4, <2>5 DEF BatchInv
<1>9. QED
  BY <1>2, <1>3, <1>4, <1>5, <1>6, <1>7, <1>8

(* A command that the worker takes starts its batch afresh.                 *)
LEMMA ReceiveKeeps == IInv /\ BatchInv /\ Receive => BatchInv'
<1> SUFFICES ASSUME IInv, BatchInv, Receive PROVE BatchInv'
  OBVIOUS
<1>1. worker \in Workers /\ toWorker \in Seq(Messages) /\ toWorker # <<>>
  BY DEF IInv, Typed, Receive
<1>2. PICK c : c = Head(toWorker)
  OBVIOUS
<1>3. c \in Messages
  BY <1>1, <1>2
<1>4. CASE worker.stopped
  BY <1>4 DEF Receive, BatchInv
<1>5. CASE ~worker.stopped /\ worker.busy
  <2>1. batch' = batch /\ worker'.run = worker.run
    BY <1>1, <1>5 DEF Receive, Workers
  <2>2. QED
    BY <2>1 DEF BatchInv
<1>6. CASE ~worker.stopped /\ ~worker.busy
  <2>1. worker'.run = c /\ batch' = IF c.op = "requestMany" THEN StartBatch ELSE NoBatch
    BY <1>1, <1>2, <1>3, <1>6, Zenon DEF Receive, Workers
  <2>2. QED
    BY <2>1, StartBatchOK, NoBatchOK DEF BatchInv
<1>7. QED
  BY <1>4, <1>5, <1>6

(* No other step touches a batch under way.                                 *)
LEMMA BatchKept == IInv /\ BatchInv /\ [Next]_vars => BatchInv'
<1> SUFFICES ASSUME IInv, BatchInv, [Next]_vars PROVE BatchInv'
  OBVIOUS
<1>1. worker \in Workers
  BY DEF IInv, Typed
<1>2. ASSUME batch' = batch, worker'.run = worker.run PROVE BatchInv'
  BY <1>2 DEF BatchInv
<1>3. ASSUME batch' = NoBatch, worker'.run = NoRun PROVE BatchInv'
  BY <1>3, NoBatchOK DEF BatchInv, NoRun
<1>4. ASSUME NEW op \in Operations, Call(op) \/ CallNotCloned(op) PROVE BatchInv'
  BY <1>2, <1>4 DEF Call, CallNotCloned
<1>5. CASE CloseSessionLocally \/ Receiving \/ Expire
  BY <1>2, <1>5 DEF CloseSessionLocally, Receiving, LoadGeneration, Poll, DecodeForeign, DecodeValue,
     DecodeError, CheckFailed, CheckDeadline, CheckWaits, Wait, Expire
<1>6. ASSUME NEW errored \in BOOLEAN, WorkerGone(errored) PROVE BatchInv'
  BY <1>1, <1>2, <1>6 DEF WorkerGone, Workers
<1>7. CASE Step
  BY <1>1, <1>2, <1>7 DEF Step, Workers
<1>8. ASSUME NEW ok \in BOOLEAN, Boot(ok) PROVE BatchInv'
  BY <1>1, <1>2, <1>8 DEF Boot, Workers
<1>9. CASE AbortTimer \/ Uncaught
  BY <1>1, <1>2, <1>9 DEF AbortTimer, Uncaught, Workers
<1>10. CASE Finish
  BY <1>1, <1>3, <1>10 DEF Finish, Workers
<1>11. CASE WorkerEnds
  BY <1>1, <1>3, <1>11 DEF WorkerEnds, Workers
<1>12. CASE UNCHANGED vars
  BY <1>2, <1>12 DEF vars
<1>13. QED
  BY <1>4, <1>5, <1>6, <1>7, <1>8, <1>9, <1>10, <1>11, <1>12, ReceiveKeeps, BatchTurnKeeps DEF Next

(* The two byte budgets of a batch count exactly what its lanes and its     *)
(* answers hold, whatever the chunks, the failures and the moment the timer *)
(* aborts; no two lanes handle one request, and a batch that replies has an *)
(* answer for every request.  The rest of the bridge stays well formed, and *)
(* the worker never meets a second command (batch() and port.on,            *)
(* sync/worker.ts).                                                         *)
THEOREM BatchHolds == Spec => []BatchAccounted
<1>1. Init => BatchInv
  <2> SUFFICES ASSUME Init PROVE BatchInv
    OBVIOUS
  <2>1. batch = NoBatch /\ worker.run = NoRun
    BY DEF Init
  <2>2. QED
    BY <2>1, NoBatchOK DEF BatchInv, NoRun
<1>2. IInv /\ BatchInv => BatchAccounted
  <2> SUFFICES ASSUME IInv, BatchInv PROVE BatchAccounted
    OBVIOUS
  <2>1. /\ parent.pc \in {"idle", "load", "poll", "decode", "check", "wait", "asleep"}
        /\ parent.id \in 0..MaxCalls /\ worker.life \in {"boot", "up", "gone"} /\ signal.state \in 0..2
        /\ dispatched \subseteq Ids
        /\ report \in [Ids -> {"pending", "value", "error", LocalError, UncertainError}]
    BY DEF IInv, Typed, Parents, Workers
  <2>2. BatchTypeOK(batch) /\ BudgetsMatch(batch)
    BY InOrder DEF BatchInv
  <2>3. AllDone(batch) /\ worker.run.op = "requestMany" => \A i \in 1..BatchSize : batch.output[i] # "none"
    BY AllAnswered DEF BatchInv
  <2>4. WorkerIdle /\ ~worker.stopped /\ toWorker # <<>> => ~worker.busy
    BY NoOverlap
  <2>5. QED
    BY <2>1, <2>2, <2>3, <2>4 DEF BatchAccounted
<1>3. IInv /\ BatchInv /\ [Next]_vars => BatchInv'
  BY BatchKept
<1>4. QED
  BY <1>1, <1>2, <1>3, Invariance, PTL DEF Spec

=============================================================================
