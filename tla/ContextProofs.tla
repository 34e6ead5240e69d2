--------------------------- MODULE ContextProofs ----------------------------
(***************************************************************************)
(* Proofs about src/contexts.rs: the jar of a managed context, for any     *)
(* number of exchanges and editors and any lifetimes (who holds its lock,  *)
(* what the holder may rely on, what is left of the cookies when the       *)
(* context is gone), and the accounting of the registry, for any number of *)
(* calls of create(), any owners and any limits.  The two modules have no  *)
(* variable in common.                                                     *)
(***************************************************************************)
EXTENDS ContextStore, CookieJar, QueueLemmas, TLAPS

(***************************************************************************)
(* The registry.                                                           *)
(***************************************************************************)

(* Counting.                                                                *)

(* Sets of creations are finite, so that their size is a number.            *)
LEMMA FiniteCreates ==
  ASSUME NEW S, S \subseteq Creates
  PROVE  /\ IsFiniteSet(S) /\ Cardinality(S) \in Nat
         /\ \A o : IsFiniteSet(Of(S, o)) /\ Cardinality(Of(S, o)) \in Nat
<1>1. ASSUME NEW T, T \subseteq Creates
      PROVE  IsFiniteSet(T) /\ Cardinality(T) \in Nat
  BY <1>1, ContextStoreAssumption, FS_Subset, FS_CardinalityType
<1>2. \A o : Of(S, o) \subseteq Creates
  BY DEF Of
<1>3. QED
  BY <1>1, <1>2

(* Subsets are not larger.                                                  *)
LEMMA CountSubset ==
  ASSUME NEW S, NEW T, T \subseteq Creates, S \subseteq T
  PROVE  Cardinality(S) <= Cardinality(T)
BY FiniteCreates, FS_Subset

(* What a set gains or loses, its members of one owner gain or lose.        *)
LEMMA OfOne ==
  ASSUME NEW S, NEW c \in Creates, NEW o
  PROVE  /\ Of(S \cup {c}, o) = IF o = OwnerOf[c] THEN Of(S, o) \cup {c} ELSE Of(S, o)
         /\ Of(S \ {c}, o) = Of(S, o) \ {c}
BY DEF Of

(* The room that HasRoom tests is room for the contexts that exist, those   *)
(* being built and one more: every creation that builds holds one of the    *)
(* reservations counted (contexts.rs:137-161).                              *)
LEMMA RoomForOne ==
  ASSUME NEW S, NEW H, NEW B, NEW c, NEW n \in Nat,
         S \subseteq Creates, H \subseteq Creates, B \subseteq H, c \in Creates,
         Cardinality(S) + Cardinality(H) < n
  PROVE  Cardinality(S \cup (B \cup {c})) <= n
<1>1. /\ IsFiniteSet(S) /\ Cardinality(S) \in Nat
      /\ IsFiniteSet(B) /\ Cardinality(B) \in Nat
      /\ IsFiniteSet(H) /\ Cardinality(H) \in Nat
  BY FiniteCreates
<1>2. Cardinality(B) <= Cardinality(H)
  BY CountSubset
<1>3. IsFiniteSet(B \cup {c}) /\ Cardinality(B \cup {c}) <= Cardinality(B) + 1
  <2>1. IsFiniteSet(B \cup {c})
    BY FiniteCreates
  <2>2. Cardinality(B \cup {c}) = IF c \in B THEN Cardinality(B) ELSE Cardinality(B) + 1
    BY <1>1, CountOne
  <2>3. QED
    BY <1>1, <2>1, <2>2
<1>4. IsFiniteSet(S \cap (B \cup {c}))
  BY <1>1, FS_Subset
<1>5. /\ Cardinality(B \cup {c}) \in Nat
      /\ Cardinality(S \cap (B \cup {c})) \in Nat
  BY <1>3, <1>4, FS_CardinalityType
<1>6. Cardinality(S \cup (B \cup {c}))
        = Cardinality(S) + Cardinality(B \cup {c}) - Cardinality(S \cap (B \cup {c}))
  BY <1>1, <1>3, FS_Union
<1>7. QED
  BY <1>1, <1>2, <1>3, <1>5, <1>6

-----------------------------------------------------------------------------
(* The parts of the invariant, by what an action can disturb.               *)

CountersOK ==
  /\ pendingCount = Cardinality(Holders)
  /\ \A o \in Owners : PendingOf(o) = Cardinality(Of(Holders, o))

LimitsOK ==
  /\ Cardinality(contexts \cup Building) <= MaxContexts
  /\ \A o \in Owners :
       Cardinality(Of(contexts \cup Building, o)) <= MaxContextsPerPartition

ClientsOK ==
  /\ open = contexts
  /\ stopped => contexts = {}

(* RegistryAccounted is these three parts and the type invariant.           *)
LEMMA Shape == RegistryAccounted <=> RegistryTypeOK /\ CountersOK /\ LimitsOK /\ ClientsOK
BY DEF RegistryAccounted, CountersOK, LimitsOK, ClientsOK

(* The same in the next state: what is proved of each step, put together.   *)
LEMMA NextShape ==
  ASSUME RegistryTypeOK', CountersOK', LimitsOK', ClientsOK'
  PROVE  RegistryAccounted'
BY DEF RegistryAccounted, CountersOK, LimitsOK, ClientsOK

(* What one call's move to location l does to the holders of reservations   *)
(* and to the creations under construction.                                 *)
LEMMA CallMoves ==
  ASSUME RegistryTypeOK, NEW c \in Creates, NEW l, creation' = [creation EXCEPT ![c] = l]
  PROVE  /\ Holders' = IF l \in Holding THEN Holders \cup {c} ELSE Holders \ {c}
         /\ Building' = IF l = "building" THEN Building \cup {c} ELSE Building \ {c}
<1>1. \A d \in Creates : creation'[d] = IF d = c THEN l ELSE creation[d]
  BY DEF RegistryTypeOK
<1>2. QED
  BY <1>1 DEF Holders, Building

(* Contexts leave the map and reservations stay or go: the limits hold on.  *)
LEMMA LimitsShrink ==
  ASSUME RegistryTypeOK, LimitsOK, (contexts \cup Building)' \subseteq contexts \cup Building
  PROVE  LimitsOK'
<1>1. contexts \cup Building \subseteq Creates
  BY DEF RegistryTypeOK, Building
<1>2. ASSUME NEW S, NEW T, S \subseteq Creates, T \subseteq S, NEW n \in Nat, Cardinality(S) <= n
      PROVE  Cardinality(T) <= n
  <2>1. Cardinality(S) \in Nat /\ Cardinality(T) \in Nat
    BY <1>2, FiniteCreates
  <2>2. Cardinality(T) <= Cardinality(S)
    BY <1>2, CountSubset
  <2>3. QED
    BY <1>2, <2>1, <2>2
<1>3. Cardinality((contexts \cup Building)') <= MaxContexts
  BY <1>1, <1>2, ContextStoreAssumption DEF LimitsOK
<1>4. ASSUME NEW o \in Owners
      PROVE  Cardinality(Of(contexts \cup Building, o)') <= MaxContextsPerPartition
  <2>1. /\ Of(contexts \cup Building, o) \subseteq Creates
        /\ Of(contexts \cup Building, o)' \subseteq Of(contexts \cup Building, o)
    BY <1>1 DEF Of
  <2>2. QED
    BY <1>2, <2>1, ContextStoreAssumption DEF LimitsOK
<1>5. QED
  BY <1>3, <1>4 DEF LimitsOK

(* Drop for Reservation takes back exactly what the call reserved, and      *)
(* forgets an owner with its last one (contexts.rs:80-91).                  *)
LEMMA UnreserveCounts ==
  ASSUME RegistryAccounted, NEW c \in Holders, Unreserve(c), Holders' = Holders \ {c}
  PROVE  /\ CountersOK' /\ pendingCount' \in Nat
         /\ DOMAIN pending' \subseteq Owners
         /\ \A o \in DOMAIN pending' : pending'[o] \in Nat \ {0}
<1> DEFINE o == OwnerOf[c]
<1>1. /\ Holders \subseteq Creates /\ c \in Creates /\ o \in Owners
      /\ c \in Of(Holders, o)
  BY ContextStoreAssumption DEF Holders, Of
<1>2. /\ IsFiniteSet(Holders) /\ Cardinality(Holders) \in Nat
      /\ \A q : IsFiniteSet(Of(Holders, q)) /\ Cardinality(Of(Holders, q)) \in Nat
  BY <1>1, FiniteCreates
<1>3. Cardinality(Holders') = Cardinality(Holders) - 1 /\ Cardinality(Holders) # 0
  <2>1. Cardinality(Holders \ {c}) = Cardinality(Holders) - 1
    BY <1>2, CountOne
  <2>2. Cardinality(Holders) # 0
    BY <1>2, FS_EmptySet
  <2>3. QED
    BY <2>1, <2>2
<1>4. ASSUME NEW q \in Owners
      PROVE  Cardinality(Of(Holders, q)') =
               IF q = o THEN Cardinality(Of(Holders, q)) - 1 ELSE Cardinality(Of(Holders, q))
  <2>1. Of(Holders, q)' = Of(Holders, q) \ {c}
    BY <1>1, OfOne DEF Of
  <2>2. c \in Of(Holders, q) <=> q = o
    BY <1>1 DEF Of
  <2>3. Cardinality(Of(Holders, q) \ {c}) =
          IF c \in Of(Holders, q) THEN Cardinality(Of(Holders, q)) - 1 ELSE Cardinality(Of(Holders, q))
    BY <1>2, CountOne
  <2>4. QED
    BY <2>1, <2>2, <2>3
<1>5. Cardinality(Of(Holders, o)) # 0
  BY <1>1, <1>2, FS_EmptySet
<1>6. o \in DOMAIN pending /\ pending[o] \in Nat \ {0}
  BY <1>1, <1>5 DEF RegistryAccounted, PendingOf, RegistryTypeOK
<1>7. \A q \in Owners : PendingOf(q)' = IF q = o THEN PendingOf(q) - 1 ELSE PendingOf(q)
  BY <1>1, <1>6 DEF Unreserve, PendingOf
<1>8. CountersOK'
  BY <1>3, <1>4, <1>7 DEF CountersOK, RegistryAccounted, Unreserve
<1>9. pendingCount' \in Nat
  BY <1>2, <1>3 DEF RegistryAccounted, Unreserve
<1>10. DOMAIN pending' \subseteq Owners /\ \A q \in DOMAIN pending' : pending'[q] \in Nat \ {0}
  BY <1>6 DEF RegistryAccounted, Unreserve, RegistryTypeOK
<1>11. QED
  BY <1>8, <1>9, <1>10

-----------------------------------------------------------------------------
(* The steps.                                                               *)

(* The first critical section reserves one place for the call, in total and *)
(* for its owner (contexts.rs:137-161).                                     *)
LEMMA ReserveStep ==
  ASSUME RegistryAccounted, NEW c \in Creates, Reserve(c)
  PROVE  RegistryAccounted'
<1> DEFINE o == OwnerOf[c]
<1>1. RegistryTypeOK /\ CountersOK /\ LimitsOK /\ ClientsOK
  BY Shape
<1>2. Holders' = Holders \cup {c} /\ Building' = Building \cup {c} /\ contexts' = contexts
  BY <1>1, CallMoves DEF Reserve, Holding
<1>3. /\ Holders \subseteq Creates /\ Building \subseteq Holders /\ contexts \subseteq Creates
      /\ c \notin Holders /\ o \in Owners
  BY <1>1, ContextStoreAssumption DEF Holders, Building, Holding, RegistryTypeOK, Reserve
<1>4. RegistryTypeOK'
  <2>1. DOMAIN pending' = DOMAIN pending \cup {o} /\ PendingOf(o) \in Nat
    BY <1>1 DEF Reserve, RegistryTypeOK, PendingOf
  <2>2. \A q \in DOMAIN pending' : pending'[q] \in Nat \ {0}
    BY <1>1, <2>1 DEF Reserve, RegistryTypeOK
  <2>3. creation' \in [Creates -> Holding \cup {"idle", "swept", "created", "failed"}]
    BY <1>1 DEF Reserve, RegistryTypeOK, Holding
  <2>4. QED
    BY <1>1, <1>3, <2>1, <2>2, <2>3 DEF Reserve, RegistryTypeOK
<1>5. CountersOK'
  <2>1. IsFiniteSet(Holders) /\ \A q : IsFiniteSet(Of(Holders, q))
    BY <1>3, FiniteCreates
  <2>2. Cardinality(Holders') = Cardinality(Holders) + 1
    BY <1>2, <1>3, <2>1, CountOne
  <2>3. ASSUME NEW q \in Owners
        PROVE  Cardinality(Of(Holders, q)') =
                 IF q = o THEN Cardinality(Of(Holders, q)) + 1 ELSE Cardinality(Of(Holders, q))
    <3>1. Of(Holders, q)' = IF q = o THEN Of(Holders, q) \cup {c} ELSE Of(Holders, q)
      BY <1>2, OfOne DEF Of
    <3>2. c \notin Of(Holders, q)
      BY <1>3 DEF Of
    <3>3. Cardinality(Of(Holders, q) \cup {c}) = Cardinality(Of(Holders, q)) + 1
      BY <2>1, <3>2, CountOne
    <3>4. QED
      BY <3>1, <3>3
  <2>4. \A q \in Owners : PendingOf(q)' = IF q = o THEN PendingOf(q) + 1 ELSE PendingOf(q)
    BY DEF Reserve, PendingOf
  <2>5. QED
    BY <1>1, <2>2, <2>3, <2>4 DEF CountersOK, Reserve
<1>6. LimitsOK'
  <2>1. Cardinality((contexts \cup Building)') <= MaxContexts
    <3>1. Cardinality(contexts) + Cardinality(Holders) < MaxContexts
      BY <1>1 DEF CountersOK, Reserve, HasRoom
    <3>2. (contexts \cup Building)' = contexts \cup (Building \cup {c})
      BY <1>2
    <3>3. QED
      BY <1>3, <3>1, <3>2, RoomForOne, ContextStoreAssumption
  <2>2. ASSUME NEW q \in Owners
        PROVE  Cardinality(Of(contexts \cup Building, q)') <= MaxContextsPerPartition
    <3>1. CASE q = o
      <4>1. Cardinality(Of(contexts, o)) + Cardinality(Of(Holders, o)) < MaxContextsPerPartition
        BY <1>1, <1>3 DEF CountersOK, Reserve, HasRoom
      <4>2. /\ Of(contexts, o) \subseteq Creates /\ Of(Holders, o) \subseteq Creates
            /\ Of(Building, o) \subseteq Of(Holders, o)
            /\ Of(contexts \cup Building, o)' = Of(contexts, o) \cup (Of(Building, o) \cup {c})
        BY <1>2, <1>3 DEF Of
      <4>3. QED
        BY <3>1, <4>1, <4>2, RoomForOne, ContextStoreAssumption
    <3>2. CASE q # o
      <4>1. Of(contexts \cup Building, q)' = Of(contexts \cup Building, q)
        BY <1>2, <3>2 DEF Of
      <4>2. QED
        BY <1>1, <4>1 DEF LimitsOK
    <3>3. QED
      BY <3>1, <3>2
  <2>3. QED
    BY <2>1, <2>2 DEF LimitsOK
<1>7. ClientsOK'
  BY <1>1 DEF ClientsOK, Reserve
<1>8. QED
  BY <1>4, <1>5, <1>6, <1>7, NextShape

(* The construction fails or times out, or the call returns: the guard is   *)
(* dropped (contexts.rs:80-91).                                             *)
LEMMA UnreserveSteps ==
  ASSUME RegistryAccounted, NEW c \in Creates, BuildFails(c) \/ Return(c)
  PROVE  RegistryAccounted'
<1>1. RegistryTypeOK /\ CountersOK /\ LimitsOK /\ ClientsOK
  BY Shape
<1>2. PICK l \in {"created", "failed"} : creation' = [creation EXCEPT ![c] = l]
  BY DEF BuildFails, Return
<1>3. Holders' = Holders \ {c} /\ Building' = Building \ {c}
  BY <1>1, <1>2, CallMoves DEF Holding
<1>4. /\ c \in Holders /\ Unreserve(c)
      /\ UNCHANGED <<contexts, stopped, open, expired>>
  BY DEF BuildFails, Return, Holders, Holding
<1>5. /\ CountersOK' /\ pendingCount' \in Nat
      /\ DOMAIN pending' \subseteq Owners
      /\ \A o \in DOMAIN pending' : pending'[o] \in Nat \ {0}
  BY <1>3, <1>4, UnreserveCounts
<1>6. RegistryTypeOK'
  BY <1>1, <1>2, <1>4, <1>5 DEF RegistryTypeOK
<1>7. LimitsOK'
  BY <1>1, <1>3, <1>4, LimitsShrink
<1>8. ClientsOK'
  BY <1>1, <1>4 DEF ClientsOK
<1>9. QED
  BY <1>5, <1>6, <1>7, <1>8, NextShape

(* The last critical section moves a creation from those being built to the *)
(* map, or drops it when the store has stopped meanwhile: its reservation   *)
(* stays until the guard is dropped (contexts.rs:175-186).                  *)
LEMMA InsertSteps ==
  ASSUME RegistryAccounted, NEW c \in Creates, Insert(c) \/ InsertRejected(c)
  PROVE  RegistryAccounted'
<1>1. RegistryTypeOK /\ CountersOK /\ LimitsOK /\ ClientsOK
  BY Shape
<1>2. PICK l \in {"inserted", "rejected"} : creation' = [creation EXCEPT ![c] = l]
  BY DEF Insert, InsertRejected
<1>3. Holders' = Holders /\ Building' = Building \ {c} /\ c \in Building
  BY <1>1, <1>2, CallMoves DEF Holding, Holders, Building, Insert, InsertRejected
<1>4. RegistryTypeOK'
  <2>1. creation' \in [Creates -> Holding \cup {"idle", "swept", "created", "failed"}]
    BY <1>1, <1>2 DEF RegistryTypeOK, Holding
  <2>2. QED
    BY <1>1, <2>1 DEF RegistryTypeOK, Insert, InsertRejected
<1>5. CountersOK'
  <2>1. pending' = pending /\ pendingCount' = pendingCount
    BY DEF Insert, InsertRejected
  <2>2. QED
    BY <1>1, <1>3, <2>1 DEF CountersOK, PendingOf, Of
<1>6. LimitsOK'
  <2>1. (contexts \cup Building)' \subseteq contexts \cup Building
    BY <1>3 DEF Insert, InsertRejected
  <2>2. QED
    BY <1>1, <2>1, LimitsShrink
<1>7. ClientsOK'
  BY <1>1 DEF ClientsOK, Insert, InsertRejected
<1>8. QED
  BY <1>4, <1>5, <1>6, <1>7, NextShape

(* Every step that only lets contexts go, or turns a call away: sweeps,     *)
(* lookups of expired contexts, close, shutdown (contexts.rs:223-267).      *)
LEMMA OtherSteps ==
  ASSUME RegistryAccounted,
         \/ \E c \in Creates : \/ CreateSweeps(c) \/ ReserveRefused(c)
                               \/ GetRemoves(c) \/ CloseContext(c) \/ Expire(c)
         \/ CleanupRegistry \/ Shutdown
         \/ UNCHANGED registry
  PROVE  RegistryAccounted'
<1>1. RegistryTypeOK /\ CountersOK /\ LimitsOK /\ ClientsOK
  BY Shape
<1>2. /\ pending' = pending /\ pendingCount' = pendingCount
      /\ stopped' \in BOOLEAN /\ (stopped' => stopped \/ contexts' = {})
      /\ contexts' \subseteq contexts /\ open' = contexts'
      /\ expired' \subseteq Creates
  <2> USE DEF CreateSweeps, ReserveRefused, GetRemoves, CloseContext, Expire, CleanupRegistry, Shutdown,
              Sweep, Retire, registry
  <2>1. /\ pending' = pending /\ pendingCount' = pendingCount
        /\ contexts' \subseteq contexts /\ open' = contexts'
        /\ expired' \subseteq Creates
    BY <1>1 DEF RegistryTypeOK, ClientsOK
  <2>2. UNCHANGED stopped \/ (stopped' = TRUE /\ contexts' = {})
    OBVIOUS
  <2> HIDE DEF CreateSweeps, ReserveRefused, GetRemoves, CloseContext, Expire, CleanupRegistry, Shutdown,
               Sweep, Retire, registry
  <2>3. stopped' \in BOOLEAN
    BY <1>1, <2>2 DEF RegistryTypeOK
  <2>4. stopped' => stopped \/ contexts' = {}
    BY <2>2, Zenon
  <2>5. QED
    BY <2>1, <2>3, <2>4
<1>3. /\ Holders' = Holders /\ Building' = Building
      /\ creation' \in [Creates -> Holding \cup {"idle", "swept", "created", "failed"}]
  <2>1. CASE UNCHANGED creation
    BY <1>1, <2>1 DEF Holders, Building, RegistryTypeOK
  <2>2. ASSUME NEW c \in Creates, CreateSweeps(c) \/ ReserveRefused(c)
        PROVE  <1>3
    <3>1. PICK l \in {"swept", "failed"} : creation' = [creation EXCEPT ![c] = l]
      BY <2>2 DEF CreateSweeps, ReserveRefused
    <3>2. creation[c] \in {"idle", "swept"}
      BY <2>2 DEF CreateSweeps, ReserveRefused
    <3>3. Holders' = Holders \ {c} /\ Building' = Building \ {c}
      BY <1>1, <3>1, CallMoves DEF Holding
    <3>4. c \notin Holders /\ c \notin Building
      BY <3>2 DEF Holders, Building, Holding
    <3>5. QED
      BY <1>1, <3>1, <3>3, <3>4 DEF RegistryTypeOK
  <2>3. QED
    BY <2>1, <2>2 DEF GetRemoves, CloseContext, Expire, CleanupRegistry, Shutdown, registry
<1>4. RegistryTypeOK'
  BY <1>1, <1>2, <1>3 DEF RegistryTypeOK
<1>5. CountersOK'
  BY <1>1, <1>2, <1>3 DEF CountersOK, PendingOf, Of
<1>6. LimitsOK'
  <2>1. (contexts \cup Building)' \subseteq contexts \cup Building
    BY <1>2, <1>3
  <2>2. QED
    BY <1>1, <2>1, LimitsShrink
<1>7. ClientsOK'
  BY <1>1, <1>2 DEF ClientsOK
<1>8. QED
  BY <1>4, <1>5, <1>6, <1>7, NextShape

(* ContextStore::new starts with an empty registry.                         *)
LEMMA InitAccounted == RegistryInit => RegistryAccounted
<1> SUFFICES ASSUME RegistryInit PROVE RegistryAccounted
  OBVIOUS
<1>1. RegistryTypeOK
  BY DEF RegistryInit, RegistryTypeOK
<1>2. Holders = {} /\ Building = {} /\ contexts = {} /\ \A o : Of({}, o) = {}
  BY DEF RegistryInit, Holders, Building, Holding, Of
<1>3. Cardinality({}) = 0
  BY FS_EmptySet
<1>4. CountersOK
  BY <1>2, <1>3 DEF CountersOK, PendingOf, RegistryInit
<1>5. LimitsOK
  BY <1>2, <1>3, ContextStoreAssumption DEF LimitsOK
<1>6. ClientsOK
  BY DEF ClientsOK, RegistryInit
<1>7. QED
  BY <1>1, <1>4, <1>5, <1>6, Shape

(* The pending counters are exactly the reservations in flight, the         *)
(* contexts that exist and those being built fit the limits, and clients    *)
(* are open exactly for the contexts in the map, whatever creations fail,   *)
(* time out, are rejected or race expiry, close and shutdown                *)
(* (contexts.rs:80-91, 137-186, 223-267).                                   *)
THEOREM RegistryHolds == RegistrySpec => []RegistryAccounted
<1>1. RegistryInit => RegistryAccounted
  BY InitAccounted
<1>2. RegistryAccounted /\ [RegistryNext]_registry => RegistryAccounted'
  BY ReserveStep, UnreserveSteps, InsertSteps, OtherSteps DEF RegistryNext
<1>3. QED
  BY <1>1, <1>2, PTL DEF RegistrySpec

(***************************************************************************)
(* The jar.                                                                *)
(***************************************************************************)

(* Every waiter is in the queue or was handed the lock, and the owner is    *)
(* the only user in the guarded section.                                    *)
LockOK ==
  /\ queue # <<>> => owner # None
  /\ \A u \in Users : pc[u] \in Guarded => owner = u
  /\ owner # None => pc[owner] \in Guarded \cup {"waiting"}
  /\ \A u \in Elems(queue) : pc[u] = "waiting" /\ u # owner
  /\ \A u \in Users : pc[u] = "waiting" => owner = u \/ u \in Elems(queue)

(* get() decides with the registry's mutex held: nobody retires the context *)
(* meanwhile.                                                               *)
MapOK == \A u \in Users : pc[u] = "getting" => map = u /\ life = "live"

(* A cleared jar belongs to a context whose time is over, and is in use     *)
(* only if a late touch() gave it more.                                     *)
WipedOK ==
  /\ wiped => revived \/ Expired(clock)
  /\ \A u \in Users : pc[u] = "use" /\ wiped => revived

(* An exchange counts the revision only after it has changed the jar.       *)
Uncounted == \E u \in Requests : pc[u] \in {"check", "checking"}

InFlight == {"upstream", "absorb", "absorbing"}

(* The jar is what was committed last, and every export what was committed  *)
(* at its revision; an exchange on its way sees the jar that it selected    *)
(* from.                                                                    *)
ContentOK ==
  /\ ~wiped /\ ~Uncounted => jar = log[revision + 1]
  /\ \A u \in Users : ~wiped /\ seen[u] # Unseen => seen[u][2] = log[seen[u][1] + 1]
  /\ \A u \in Users : pc[u] \in InFlight => u \in Requests /\ seen[u] = <<revision, jar>>

(* What is still in a retired jar is for its present user to clear.         *)
RetiredOK ==
  life = "retired" /\ ~missed /\ jar # {} => \E u \in Users : pc[u] \in Guarded

IInv == TypeOK /\ LockOK /\ MapOK /\ WipedOK /\ ContentOK /\ RetiredOK

(* The same without the lock, which the other parts need only for this: at  *)
(* most one user is in the guarded section.                                 *)
Typed ==
  /\ clock \in 0 .. MaxTime /\ touched \in 0 .. clock
  /\ life \in {"live", "closed", "cancelled", "retired"}
  /\ map \in Users \cup {None}
  /\ jar \subseteq Users /\ {wiped, missed, revived} \subseteq BOOLEAN
  /\ revision \in Nat /\ log \in Seq(SUBSET Users) /\ Len(log) = revision + 1
  /\ pc \in [Users -> Locations]
  /\ now \in [Users -> 0 .. clock]
  /\ seen \in [Users -> Observations]

Rest == Typed /\ MapOK /\ WipedOK /\ ContentOK /\ RetiredOK

Alone == \A u, v \in Users : pc[u] \in Guarded /\ pc[v] \in Guarded => u = v

-----------------------------------------------------------------------------
(* The lock.                                                                *)

(* An unlock hands the lock to the first waiter, or leaves it free when     *)
(* nobody waits (contexts.rs:473-492).                                      *)
LEMMA HandOver ==
  ASSUME TypeOK, LockOK, Unlock
  PROVE  /\ owner' \in Users \cup {None}
         /\ queue' \in Seq(Users) /\ Distinct(queue')
         /\ Elems(queue') = Elems(queue) \ {owner'}
         /\ owner' = None => queue' = <<>> /\ Elems(queue) = {}
         /\ owner' # None => owner' \in Elems(queue)
<1>1. queue \in Seq(Users) /\ Distinct(queue) /\ \A v \in Users : v # None
  BY CookieJarAssumption DEF TypeOK
<1>2. CASE queue = <<>>
  <2>1. owner' = None /\ queue' = queue
    BY <1>2 DEF Unlock
  <2>2. Elems(queue) = {}
    BY <1>1, <1>2, EmptyLemma
  <2> QED BY <1>1, <1>2, <2>1, <2>2
<1>3. CASE queue # <<>>
  <2>1. owner' = Head(queue) /\ queue' = Tail(queue)
    BY <1>3 DEF Unlock
  <2>2. /\ Tail(queue) \in Seq(Users) /\ Distinct(Tail(queue))
        /\ Head(queue) \in Elems(queue) /\ Elems(Tail(queue)) = Elems(queue) \ {Head(queue)}
    BY <1>1, <1>3, TailLemma
  <2>3. Elems(queue) \subseteq Users
    BY <1>1 DEF Elems
  <2> QED BY <1>1, <2>1, <2>2, <2>3
<1> QED BY <1>2, <1>3

(* A user that stays in its section leaves the lock alone.                  *)
LEMMA LockStays ==
  ASSUME TypeOK, LockOK, NEW u \in Users, NEW p, Goto(u, p), UNCHANGED lock,
         p \in Guarded <=> pc[u] \in Guarded,
         p = "waiting" <=> pc[u] = "waiting"
  PROVE  LockOK'
<1>1. pc \in [Users -> Locations] /\ owner \in Users \cup {None} /\ Elems(queue) \subseteq Users
  BY DEF TypeOK, Elems
<1>2. /\ pc' = [pc EXCEPT ![u] = p] /\ owner' = owner /\ queue' = queue
      /\ Elems(queue)' = Elems(queue)
  BY DEF Goto, lock
<1>3. \A v \in Users : /\ pc'[v] \in Guarded <=> pc[v] \in Guarded
                       /\ pc'[v] = "waiting" <=> pc[v] = "waiting"
  BY <1>1, <1>2
<1> QED BY <1>1, <1>2, <1>3 DEF LockOK

(* Whoever leaves the guarded section, or the wait after the hand-over,     *)
(* gives the lock back.                                                     *)
LEMMA LockLeft ==
  ASSUME TypeOK, LockOK, NEW u \in Users, NEW p, Goto(u, p), owner = u, Unlock,
         p \notin Guarded, p # "waiting"
  PROVE  LockOK'
<1>1. /\ pc \in [Users -> Locations] /\ Elems(queue) \subseteq Users
      /\ \A v \in Users : v # None
  BY CookieJarAssumption DEF TypeOK, Elems
<1>2. pc' = [pc EXCEPT ![u] = p]
  BY DEF Goto
<1>3. Elems(queue)' = Elems(queue')
  BY DEF Elems
<1>4. u \notin Elems(queue)
  BY DEF LockOK
<1>5. \A v \in Users : pc'[v] = IF v = u THEN p ELSE pc[v]
  BY <1>1, <1>2
<1>6. \A v \in Users : v # u => pc[v] \notin Guarded
  BY DEF LockOK
<1> QED BY <1>1, <1>3, <1>4, <1>5, <1>6, HandOver DEF LockOK

(* The first poll of lock(): the free lock, or a place in the queue.        *)
LEMMA LockPolled ==
  ASSUME TypeOK, LockOK, NEW u \in Users, Lock(u)
  PROVE  LockOK' /\ queue' \in Seq(Users) /\ Distinct(queue') /\ owner' \in Users \cup {None}
<1>1. /\ pc \in [Users -> Locations] /\ Elems(queue) \subseteq Users
      /\ queue \in Seq(Users) /\ Distinct(queue) /\ owner \in Users \cup {None}
      /\ \A v \in Users : v # None
      /\ pc[u] = "lock"
  BY CookieJarAssumption DEF TypeOK, Elems, Lock
<1>2. CASE Cancelled
  <2>1. Goto(u, "done") /\ UNCHANGED lock
    BY <1>2 DEF Lock
  <2>2. LockOK'
    BY <1>1, <2>1, LockStays DEF Guarded
  <2> QED BY <1>1, <2>1, <2>2 DEF lock
<1>3. CASE ~Cancelled /\ owner = None
  <2>1. Goto(u, "locked") /\ owner' = u /\ queue' = queue
    BY <1>3 DEF Lock
  <2>2. queue = <<>> /\ Elems(queue) = {}
    BY <1>1, <1>3, EmptyLemma DEF LockOK
  <2>3. \A v \in Users : pc'[v] = IF v = u THEN "locked" ELSE pc[v]
    BY <1>1, <2>1 DEF Goto
  <2>4. Elems(queue)' = {}
    BY <2>1, <2>2 DEF Elems
  <2>5. \A v \in Users : pc[v] \notin Guarded /\ pc[v] # "waiting"
    BY <1>1, <1>3, <2>2 DEF LockOK
  <2>6. LockOK'
    BY <1>1, <2>1, <2>2, <2>3, <2>4, <2>5 DEF LockOK, Guarded
  <2> QED BY <1>1, <2>1, <2>6
<1>4. CASE ~Cancelled /\ owner # None
  <2>1. Goto(u, "waiting") /\ owner' = owner /\ queue' = Append(queue, u)
    BY <1>4 DEF Lock
  <2>2. u \notin Elems(queue) /\ owner # u
    BY <1>1 DEF LockOK, Guarded
  <2>3. /\ queue' \in Seq(Users) /\ Distinct(queue')
        /\ Elems(queue') = Elems(queue) \cup {u}
    BY <1>1, <2>1, <2>2, AppendLemma
  <2>4. \A v \in Users : pc'[v] = IF v = u THEN "waiting" ELSE pc[v]
    BY <1>1, <2>1 DEF Goto
  <2>5. Elems(queue)' = Elems(queue')
    BY DEF Elems
  <2>6. LockOK'
    BY <1>1, <1>4, <2>1, <2>2, <2>3, <2>4, <2>5 DEF LockOK, Guarded
  <2> QED BY <1>1, <2>1, <2>3, <2>6
<1> QED BY <1>2, <1>3, <1>4

(* A waiter that gives up leaves the queue, or hands the lock on.           *)
LEMMA WaitLeft ==
  ASSUME TypeOK, LockOK, NEW u \in Users, LeaveWait(u)
  PROVE  LockOK' /\ queue' \in Seq(Users) /\ Distinct(queue') /\ owner' \in Users \cup {None}
<1>1. /\ pc \in [Users -> Locations] /\ Elems(queue) \subseteq Users
      /\ queue \in Seq(Users) /\ Distinct(queue) /\ owner \in Users \cup {None}
      /\ pc[u] = "waiting" /\ Goto(u, "done")
  BY DEF TypeOK, Elems, LeaveWait
<1>2. CASE owner = u
  <2>1. Unlock
    BY <1>2 DEF LeaveWait
  <2>2. LockOK'
    BY <1>1, <1>2, <2>1, LockLeft DEF Guarded
  <2> QED BY <2>1, <2>2, HandOver
<1>3. CASE owner # u
  <2>1. queue' = Without(queue, u) /\ owner' = owner
    BY <1>3 DEF LeaveWait
  <2>2. /\ queue' \in Seq(Users) /\ Distinct(queue')
        /\ Elems(queue') = Elems(queue) \ {u}
    BY <1>1, <2>1, WithoutLemma
  <2>3. \A v \in Users : pc'[v] = IF v = u THEN "done" ELSE pc[v]
    BY <1>1 DEF Goto
  <2>4. Elems(queue)' = Elems(queue')
    BY DEF Elems
  <2>5. queue' # <<>> => queue # <<>>
    BY <1>1, <2>2, EmptyLemma
  <2>6. LockOK'
    BY <1>1, <1>3, <2>1, <2>2, <2>3, <2>4, <2>5 DEF LockOK, Guarded
  <2> QED BY <1>1, <2>1, <2>2, <2>6
<1> QED BY <1>2, <1>3

-----------------------------------------------------------------------------
(* The rest of the invariant, one part at a time.                           *)

(* The lock through every step.                                             *)
LEMMA LockStep ==
  ASSUME TypeOK, LockOK, Next
  PROVE  /\ LockOK' /\ queue' \in Seq(Users) /\ Distinct(queue')
         /\ owner' \in Users \cup {None}
<1>1. queue \in Seq(Users) /\ Distinct(queue) /\ owner \in Users \cup {None}
  BY DEF TypeOK
<1>2. ASSUME NEW u \in Users, NEW p, Goto(u, p), UNCHANGED lock,
             p \in Guarded <=> pc[u] \in Guarded, p = "waiting" <=> pc[u] = "waiting"
      PROVE  /\ LockOK' /\ queue' \in Seq(Users) /\ Distinct(queue')
             /\ owner' \in Users \cup {None}
  <2>1. LockOK'
    BY <1>2, LockStays
  <2> QED BY <1>1, <1>2, <2>1 DEF lock
<1>3. ASSUME NEW u \in Users, NEW p, Goto(u, p), Unlock, pc[u] \in Guarded,
             p \in {"done", "idle"}
      PROVE  /\ LockOK' /\ queue' \in Seq(Users) /\ Distinct(queue')
             /\ owner' \in Users \cup {None}
  <2>1. owner = u /\ p \notin Guarded /\ p # "waiting"
    BY <1>3 DEF LockOK, Guarded
  <2>2. LockOK'
    BY <1>3, <2>1, LockLeft
  <2> QED BY <1>3, <2>2, HandOver
<1>4. ASSUME NEW u \in Users, Get(u) \/ GetMissing(u) \/ Step(u) \/ WaitTimesOut(u)
      PROVE  /\ LockOK' /\ queue' \in Seq(Users) /\ Distinct(queue')
             /\ owner' \in Users \cup {None}
  <2>1. CASE Get(u)
    BY <1>2, <2>1 DEF Get, Guarded
  <2>2. CASE GetMissing(u)
    BY <1>2, <2>2 DEF GetMissing, Guarded
  <2>3. CASE Got(u)
    BY <1>2, <2>3 DEF Got, Guarded
  <2>4. CASE GetExpired(u)
    BY <1>2, <2>4 DEF GetExpired, Guarded
  <2>5. CASE ReadClock(u, "access", "accessing")
    BY <1>2, <2>5 DEF ReadClock, Guarded
  <2>6. CASE Access(u)
    BY <1>2, <2>6 DEF Access, Guarded
  <2>7. CASE Lock(u)
    BY <2>7, LockPolled
  <2>8. CASE Granted(u)
    <3>1. /\ pc[u] = "waiting" /\ owner = u /\ pc' = [pc EXCEPT ![u] = "locked"]
          /\ owner' = owner /\ queue' = queue
      BY <2>8 DEF Granted, Goto, lock
    <3>2. \A v \in Users : pc'[v] = IF v = u THEN "locked" ELSE pc[v]
      BY <3>1 DEF TypeOK
    <3>3. Elems(queue)' = Elems(queue) /\ Elems(queue) \subseteq Users
      BY <1>1, <3>1 DEF Elems
    <3>4. LockOK'
      BY <1>1, <3>1, <3>2, <3>3 DEF LockOK, Guarded
    <3> QED BY <1>1, <3>1, <3>4
  <2>9. CASE WaitCancelled(u) \/ WaitTimesOut(u)
    BY <2>9, WaitLeft DEF WaitCancelled, WaitTimesOut
  <2>10. CASE ReadClock(u, "locked", "locking")
    BY <1>2, <2>10 DEF ReadClock, Guarded
  <2>11. CASE Locked(u)
    <3>1. CASE UNCHANGED lock /\ Goto(u, "use")
      BY <1>2, <2>11, <3>1 DEF Locked, Guarded
    <3>2. CASE Unlock /\ Goto(u, "done")
      BY <1>3, <2>11, <3>2 DEF Locked, Guarded
    <3> QED BY <2>11, <3>1, <3>2 DEF Locked
  <2>12. CASE Select(u)
    BY <1>2, <2>12 DEF Select, Guarded
  <2>13. CASE Upstream(u)
    BY <1>2, <2>13 DEF Upstream, Guarded
  <2>14. CASE UseFails(u)
    BY <1>2, <2>14 DEF UseFails, Guarded
  <2>15. CASE Set(u)
    BY <1>2, <2>15 DEF Set, Guarded
  <2>16. CASE ReadClock(u, "absorb", "absorbing")
    BY <1>2, <2>16 DEF ReadClock, Guarded
  <2>17. CASE Absorb(u)
    BY <1>2, <2>17 DEF Absorb, Guarded
  <2>18. CASE ReadClock(u, "check", "checking")
    BY <1>2, <2>18 DEF ReadClock, Guarded
  <2>19. CASE Check(u)
    BY <1>2, <2>19 DEF Check, Guarded
  <2>20. CASE ReadClock(u, "export", "exporting")
    BY <1>2, <2>20 DEF ReadClock, Guarded
  <2>21. CASE CheckExport(u)
    BY <1>2, <2>21 DEF CheckExport, Guarded
  <2>22. CASE DropGuard(u)
    BY <1>3, <2>22 DEF DropGuard, Dropping, Guarded
  <2> QED BY <1>4, <2>1, <2>2, <2>3, <2>4, <2>5, <2>6, <2>7, <2>8, <2>9, <2>10, <2>11, <2>12,
             <2>13, <2>14, <2>15, <2>16, <2>17, <2>18, <2>19, <2>20, <2>21, <2>22 DEF Step
<1>5. CASE Close \/ Cleanup \/ Cancel \/ TryClear \/ Tick
  <2>1. owner' = owner /\ queue' = queue /\ pc' = pc /\ Elems(queue)' = Elems(queue)
    BY <1>5 DEF Close, Cleanup, Cancel, TryClear, Tick, lock, Elems
  <2> QED BY <1>1, <2>1 DEF LockOK
<1> QED BY <1>4, <1>5 DEF Next, Retiring

(* A user moves on, with or without a touch(), and leaves the jar alone.    *)
LEMMA Walks ==
  ASSUME Rest, NEW u \in Users, NEW p \in Locations, Goto(u, p), UNCHANGED <<content, seen>>,
         Touch(u) \/ (UNCHANGED lifetime /\ p # "use"),
         now' \in [Users -> 0 .. clock],
         map' = map \/ (pc[u] = "getting" /\ map' = None),
         p # "getting", pc[u] = "getting" => map' = None,
         p \in InFlight => pc[u] \in InFlight,
         pc[u] \in {"check", "checking"} /\ u \in Requests => p \in {"check", "checking"},
         pc[u] \in Guarded => p \in Guarded \/ life = "live"
  PROVE  Rest'
<1>1. pc \in [Users -> Locations] /\ pc' = [pc EXCEPT ![u] = p]
  BY DEF Rest, Typed, Goto
<1>2. \A v \in Users : pc'[v] = IF v = u THEN p ELSE pc[v]
  BY <1>1
<1>3. /\ clock' = clock /\ life' = life /\ jar' = jar /\ revision' = revision /\ log' = log
      /\ wiped' = wiped /\ missed' = missed /\ seen' = seen
  BY DEF content, lifetime, Touch
<1>4. clock \in Nat /\ touched \in 0 .. clock /\ now \in [Users -> 0 .. clock]
  BY CookieJarAssumption DEF Rest, Typed
<1>5. touched' \in 0 .. clock
  BY <1>4 DEF Touch, lifetime
<1>6. revived' \in BOOLEAN
  BY DEF Touch, lifetime, Rest, Typed
<1>7. Typed'
  BY <1>1, <1>3, <1>5, <1>6, CookieJarAssumption DEF Rest, Typed, Observations
<1>8. MapOK'
  BY <1>2, <1>3 DEF Rest, MapOK
<1>9. WipedOK'
  <2>1. CASE UNCHANGED lifetime /\ p # "use"
    BY <1>2, <1>3, <2>1 DEF Rest, WipedOK, lifetime, Expired, Closed, Deadline
  <2>2. CASE Touch(u)
    <3>1. wiped => revived'
      BY <2>2 DEF Rest, WipedOK, Touch, Typed
    <3> QED BY <1>3, <3>1 DEF WipedOK
  <2> QED BY <2>1, <2>2
<1>10. ContentOK'
  <2>1. Uncounted => Uncounted'
    BY <1>2 DEF Uncounted, Users
  <2> QED BY <1>2, <1>3, <2>1 DEF Rest, ContentOK, Users
<1>11. RetiredOK'
  BY <1>2, <1>3 DEF Rest, RetiredOK
<1> QED BY <1>7, <1>8, <1>9, <1>10, <1>11 DEF Rest

(* The holder of the guard finds the context expired and clears the jar     *)
(* (contexts.rs:418-421, 325-330, 473-492, 519-524).                        *)
LEMMA Clears ==
  ASSUME Rest, Alone, NEW u \in Users, NEW p \in {"release", "done", "idle"}, Goto(u, p), Cleared,
         UNCHANGED <<lifetime, map, seen>>, now' \in [Users -> 0 .. clock],
         pc[u] \in Guarded, Expired(clock)
  PROVE  Rest'
<1>1. pc \in [Users -> Locations] /\ pc' = [pc EXCEPT ![u] = p]
  BY DEF Rest, Typed, Goto
<1>2. \A v \in Users : pc'[v] = IF v = u THEN p ELSE pc[v]
  BY <1>1
<1>3. /\ clock' = clock /\ life' = life /\ touched' = touched /\ revived' = revived
      /\ jar' = {} /\ wiped' = TRUE /\ revision' = revision /\ log' = log
      /\ missed' = missed /\ seen' = seen /\ map' = map
  BY DEF Cleared, lifetime
<1>4. Typed'
  BY <1>1, <1>3 DEF Rest, Typed, Observations, Locations
<1>5. MapOK'
  BY <1>2, <1>3 DEF Rest, MapOK
<1>6. WipedOK'
  <2>1. Expired(clock)'
    BY <1>3 DEF Expired, Closed, Deadline
  <2>2. \A v \in Users : pc'[v] # "use"
    BY <1>2 DEF Alone, Guarded
  <2> QED BY <2>1, <2>2 DEF WipedOK
<1>7. ContentOK'
  <2>1. \A v \in Users : pc'[v] \notin InFlight
    BY <1>2 DEF Alone, Guarded, InFlight
  <2> QED BY <1>3, <2>1 DEF ContentOK, Users
<1>8. RetiredOK'
  BY <1>3 DEF RetiredOK
<1> QED BY <1>4, <1>5, <1>6, <1>7, <1>8 DEF Rest

(* get() takes the registry's mutex, and lets go of it with the context     *)
(* removed when it has expired.                                             *)
LEMMA GetSteps ==
  ASSUME Rest, NEW u \in Users, Get(u) \/ GetExpired(u)
  PROVE  Rest'
<1>1. pc \in [Users -> Locations] /\ \A v \in Users : v # None
  BY CookieJarAssumption DEF Rest, Typed
<1>2. /\ clock' = clock /\ touched' = touched /\ revived' = revived /\ jar' = jar
      /\ revision' = revision /\ log' = log /\ wiped' = wiped /\ missed' = missed /\ seen' = seen
  BY DEF Get, GetExpired, content, lifetime
<1>3. clock \in Nat /\ now' \in [Users -> 0 .. clock]
  BY CookieJarAssumption DEF Get, GetExpired, Forget, Rest, Typed
<1>4. \E p \in {"getting", "done"} :
         /\ pc' = [pc EXCEPT ![u] = p] /\ pc[u] \notin Guarded
         /\ p = "getting" => map = None /\ map' = u /\ life = "live" /\ life' = life
         /\ p = "done" => pc[u] = "getting" /\ map' = None /\ life' = "closed"
  BY DEF Get, GetExpired, Goto, Guarded, lifetime
<1>5. PICK p \in {"getting", "done"} :
         /\ pc' = [pc EXCEPT ![u] = p] /\ pc[u] \notin Guarded
         /\ p = "getting" => map = None /\ map' = u /\ life = "live" /\ life' = life
         /\ p = "done" => pc[u] = "getting" /\ map' = None /\ life' = "closed"
  BY <1>4
<1>6. \A v \in Users : pc'[v] = IF v = u THEN p ELSE pc[v]
  BY <1>1, <1>5
<1>7. Typed'
  BY <1>1, <1>2, <1>3, <1>5 DEF Rest, Typed, Observations, Locations
<1>8. MapOK'
  BY <1>1, <1>5, <1>6 DEF Rest, MapOK
<1>9. WipedOK'
  BY <1>2, <1>5, <1>6 DEF Rest, WipedOK, Expired, Closed, Deadline
<1>10. ContentOK'
  <2>1. Uncounted => Uncounted'
    BY <1>5, <1>6 DEF Uncounted, Users, Guarded
  <2> QED BY <1>2, <1>5, <1>6, <2>1 DEF Rest, ContentOK, Users, InFlight
<1>11. RetiredOK'
  BY <1>5 DEF RetiredOK, Rest
<1> QED BY <1>7, <1>8, <1>9, <1>10, <1>11 DEF Rest

(* The guarded user selects cookies or exports them: what it sees is what   *)
(* was committed last.                                                      *)
LEMMA Selects ==
  ASSUME Rest, Alone, NEW u \in Users, Select(u)
  PROVE  Rest'
<1>1. pc \in [Users -> Locations] /\ seen \in [Users -> Observations] /\ revision \in Nat
  BY DEF Rest, Typed
<1>2. PICK p \in {"upstream", "export"} :
        pc' = [pc EXCEPT ![u] = p] /\ (p = "upstream" => u \in Requests)
  BY DEF Select, Goto
<1>3. /\ clock' = clock /\ touched' = touched /\ revived' = revived /\ life' = life /\ map' = map
      /\ jar' = jar /\ revision' = revision /\ log' = log /\ wiped' = wiped /\ missed' = missed
      /\ now' = now /\ seen' = [seen EXCEPT ![u] = <<revision, jar>>] /\ pc[u] = "use"
  BY DEF Select, content, lifetime
<1>4. \A v \in Users : /\ pc'[v] = IF v = u THEN p ELSE pc[v]
                       /\ seen'[v] = IF v = u THEN <<revision, jar>> ELSE seen[v]
  BY <1>1, <1>2, <1>3
<1>5. <<revision, jar>> \in Observations
  BY DEF Rest, Typed, Observations
<1>6. Typed'
  <2>1. Observations' = Observations
    BY <1>3 DEF Observations
  <2>2. seen' \in [Users -> Observations]
    BY <1>1, <1>3, <1>5
  <2> QED BY <1>1, <1>2, <1>3, <2>1, <2>2 DEF Rest, Typed, Locations
<1>7. MapOK'
  BY <1>2, <1>3, <1>4 DEF Rest, MapOK
<1>8. WipedOK'
  BY <1>2, <1>3, <1>4 DEF Rest, WipedOK, Expired, Closed, Deadline
<1>9. ContentOK'
  <2>1. ~Uncounted /\ ~Uncounted'
    BY <1>2, <1>3, <1>4 DEF Uncounted, Users, Alone, Guarded
  <2>2. \A v \in Users : v # u => pc[v] \notin InFlight
    BY <1>3 DEF Users, Alone, Guarded, InFlight
  <2>3. ~wiped => jar = log[revision + 1]
    BY <2>1 DEF Rest, ContentOK
  <2>4. \A v \in Users : ~wiped' /\ seen'[v] # Unseen => seen'[v][2] = log'[seen'[v][1] + 1]
    BY <1>3, <1>4, <2>3 DEF Rest, ContentOK
  <2>5. \A v \in Users : pc'[v] \in InFlight => v \in Requests /\ seen'[v] = <<revision', jar'>>
    BY <1>2, <1>3, <1>4, <2>2 DEF InFlight
  <2> QED BY <1>3, <2>3, <2>4, <2>5 DEF ContentOK
<1>10. RetiredOK'
  BY <1>2, <1>3, <1>4 DEF Rest, RetiredOK, Guarded
<1> QED BY <1>6, <1>7, <1>8, <1>9, <1>10 DEF Rest

(* absorb() stores cookies: until the check that follows, the jar is ahead  *)
(* of its revision, and only its holder knows.                              *)
LEMMA Stores ==
  ASSUME Rest, Alone, NEW u \in Requests, pc[u] = "absorbing", Touch(u), Goto(u, "check"),
         jar' = jar \cup {u}, UNCHANGED <<revision, log, wiped, missed, map, seen>>,
         now' \in [Users -> 0 .. clock]
  PROVE  Rest'
<1>1. u \in Users /\ pc \in [Users -> Locations] /\ pc' = [pc EXCEPT ![u] = "check"]
  BY DEF Rest, Typed, Goto, Users
<1>2. \A v \in Users : pc'[v] = IF v = u THEN "check" ELSE pc[v]
  BY <1>1
<1>3. clock' = clock /\ life' = life /\ touched' = now[u]
  BY DEF Touch
<1>4. now[u] \in 0 .. clock
  BY <1>1 DEF Rest, Typed
<1>5. Typed'
  <2>1. revived' \in BOOLEAN
    BY DEF Rest, Typed, Touch
  <2> QED BY <1>1, <1>3, <1>4, <2>1 DEF Rest, Typed, Observations, Locations
<1>6. MapOK'
  BY <1>2, <1>3 DEF Rest, MapOK
<1>7. WipedOK'
  <2>1. wiped => revived'
    BY DEF Rest, WipedOK, Touch, Typed
  <2> QED BY <2>1 DEF WipedOK
<1>8. ContentOK'
  <2>1. Uncounted'
    BY <1>1, <1>2 DEF Uncounted
  <2>2. \A v \in Users : pc'[v] \notin InFlight
    BY <1>1, <1>2 DEF Users, Alone, Guarded, InFlight
  <2> QED BY <2>1, <2>2 DEF Rest, ContentOK, Users
<1>9. RetiredOK'
  BY <1>1, <1>2 DEF RetiredOK, Guarded
<1> QED BY <1>5, <1>6, <1>7, <1>8, <1>9 DEF Rest

(* A revision is counted for the content that the holder of the guard has   *)
(* in the jar; earlier exports stay what was committed at their revisions.  *)
LEMMA Commits ==
  ASSUME Rest, Alone, NEW u \in Users, NEW p \in {"check", "release"}, Goto(u, p),
         pc[u] \in Guarded, jar' \subseteq Users, Commit(jar'),
         UNCHANGED <<wiped, missed, lifetime, map, seen>>, now' \in [Users -> 0 .. clock]
  PROVE  Rest'
<1>1. /\ pc \in [Users -> Locations] /\ pc' = [pc EXCEPT ![u] = p]
      /\ revision \in Nat /\ log \in Seq(SUBSET Users) /\ Len(log) = revision + 1
      /\ seen \in [Users -> Observations]
  BY DEF Rest, Typed, Goto
<1>2. \A v \in Users : pc'[v] = IF v = u THEN p ELSE pc[v]
  BY <1>1
<1>3. /\ clock' = clock /\ touched' = touched /\ revived' = revived /\ life' = life /\ map' = map
      /\ wiped' = wiped /\ missed' = missed /\ seen' = seen
      /\ revision' = revision + 1 /\ log' = Append(log, jar')
  BY DEF lifetime, Commit
<1>4. /\ log' \in Seq(SUBSET Users) /\ Len(log') = revision' + 1
      /\ log'[revision' + 1] = jar'
      /\ \A i \in 0 .. revision : log'[i + 1] = log[i + 1]
  BY <1>1, <1>3
<1>5. Observations \subseteq Observations'
  BY <1>1, <1>3 DEF Observations
<1>6. \A v \in Users : seen[v][1] \in 0 .. revision
  BY <1>1 DEF Observations
<1>7. Typed'
  <2>1. seen' \in [Users -> Observations']
    BY <1>1, <1>3, <1>5
  <2>2. pc' \in [Users -> Locations]
    BY <1>1 DEF Locations
  <2>3. revision' \in Nat
    BY <1>1, <1>3
  <2>4. now' \in [Users -> 0 .. clock']
    BY <1>3, Zenon
  <2>5. /\ clock' \in 0 .. MaxTime /\ touched' \in 0 .. clock'
        /\ life' \in {"live", "closed", "cancelled", "retired"}
        /\ map' \in Users \cup {None}
        /\ {wiped', missed', revived'} \subseteq BOOLEAN
    BY <1>3, Zenon DEF Rest, Typed
  <2> QED BY <1>4, <2>1, <2>2, <2>3, <2>4, <2>5, Zenon DEF Typed, Locations, Observations
<1>8. MapOK'
  BY <1>2, <1>3 DEF Rest, MapOK
<1>9. WipedOK'
  BY <1>2, <1>3 DEF Rest, WipedOK, Expired, Closed, Deadline
<1>10. ContentOK'
  <2>1. \A v \in Users : pc'[v] \notin InFlight
    BY <1>2 DEF Users, Alone, Guarded, InFlight
  <2>2. ASSUME NEW v \in Users, ~wiped', seen'[v] # Unseen
        PROVE  seen'[v][2] = log'[seen'[v][1] + 1]
    <3>1. ~wiped /\ seen[v] # Unseen
      BY <1>3, <2>2
    <3>2. seen[v][2] = log[seen[v][1] + 1]
      BY <3>1 DEF Rest, ContentOK
    <3>3. log'[seen[v][1] + 1] = log[seen[v][1] + 1]
      BY <1>4, <1>6
    <3> QED BY <1>3, <3>2, <3>3
  <2> QED BY <1>4, <2>1, <2>2 DEF ContentOK
<1>11. RetiredOK'
  BY <1>2 DEF RetiredOK, Guarded
<1> QED BY <1>7, <1>8, <1>9, <1>10, <1>11 DEF Rest

(* retire() marks the lifetime, cancels, and clears the jar that it finds   *)
(* unlocked; time passes.                                                   *)
LEMMA RetireSteps ==
  ASSUME IInv, Rest, Close \/ Cleanup \/ Cancel \/ TryClear \/ Tick
  PROVE  Rest'
<1>1. /\ pc' = pc /\ now' = now /\ seen' = seen /\ map' = map /\ touched' = touched
      /\ revived' = revived /\ revision' = revision /\ log' = log
      /\ Observations' = Observations /\ Uncounted' = Uncounted
  BY DEF Close, Cleanup, Cancel, TryClear, Tick, Cleared, content, Observations, Uncounted
<1>2. \A v \in Users : v # None
  BY CookieJarAssumption
<1>3. ASSUME Closed', jar' = jar, wiped' = wiped, missed' = missed, clock' = clock,
             life' \in {"closed", "cancelled", "retired"},
             life = "live" => map = None,
             RetiredOK'
      PROVE  Rest'
  <2>1. Typed'
    BY <1>1, <1>3 DEF Rest, Typed
  <2>2. MapOK'
    BY <1>1, <1>2, <1>3 DEF Rest, MapOK
  <2>3. WipedOK'
    BY <1>1, <1>3 DEF Rest, WipedOK, Expired
  <2>4. ContentOK'
    BY <1>1, <1>3 DEF Rest, ContentOK
  <2> QED BY <1>3, <2>1, <2>2, <2>3, <2>4 DEF Rest
<1>4. CASE Close \/ Cleanup \/ Cancel
  <2>1. life' \in {"closed", "cancelled"}
    BY <1>4 DEF Close, Cleanup, Cancel
  <2>2. Closed' /\ RetiredOK'
    BY <2>1 DEF Closed, RetiredOK
  <2>3. jar' = jar /\ wiped' = wiped /\ missed' = missed /\ clock' = clock
    BY <1>4 DEF Close, Cleanup, Cancel, content
  <2>4. life = "live" => map = None
    BY <1>4 DEF Close, Cleanup, Cancel
  <2> QED BY <1>3, <2>1, <2>2, <2>3, <2>4
<1>5. CASE TryClear
  <2>1. life = "cancelled" /\ life' = "retired" /\ clock' = clock /\ Closed'
    BY <1>5 DEF TryClear, Closed
  <2>2. MapOK'
    BY <1>1, <2>1 DEF Rest, MapOK
  <2>3. CASE owner = None
    <3>1. jar' = {} /\ wiped' = TRUE /\ missed' = missed
      BY <1>5, <2>3 DEF TryClear, Cleared
    <3>2. \A v \in Users : pc[v] \notin Guarded
      BY <1>2, <2>3 DEF IInv, LockOK
    <3>3. Typed'
      BY <1>1, <2>1, <3>1 DEF Rest, Typed
    <3>4. WipedOK'
      BY <1>1, <2>1, <3>2 DEF WipedOK, Expired, Guarded
    <3>5. ContentOK'
      BY <1>1, <3>1, <3>2 DEF ContentOK, Users, Guarded, InFlight
    <3>6. RetiredOK'
      BY <3>1 DEF RetiredOK
    <3> QED BY <2>2, <3>3, <3>4, <3>5, <3>6 DEF Rest
  <2>4. CASE owner # None
    <3>1. jar' = jar /\ wiped' = wiped /\ missed' = (pc[owner] = "waiting")
      BY <1>5, <2>4 DEF TryClear
    <3>2. owner \in Users /\ pc[owner] \in Guarded \cup {"waiting"}
      BY <2>4 DEF IInv, LockOK, TypeOK
    <3>3. missed' \in BOOLEAN
      BY <3>1
    <3>4. Typed'
      BY <1>1, <2>1, <3>1, <3>3 DEF Rest, Typed
    <3>5. WipedOK'
      BY <1>1, <2>1, <3>1 DEF Rest, WipedOK, Expired
    <3>6. ContentOK'
      BY <1>1, <3>1 DEF Rest, ContentOK
    <3>7. RetiredOK'
      BY <1>1, <3>1, <3>2 DEF RetiredOK
    <3> QED BY <2>2, <3>4, <3>5, <3>6, <3>7 DEF Rest
  <2> QED BY <2>3, <2>4
<1>6. CASE Tick
  <2>1. /\ life' = life /\ jar' = jar /\ wiped' = wiped /\ missed' = missed
        /\ clock' = clock + 1 /\ clock < MaxTime
    BY <1>6 DEF Tick, content
  <2>2. clock \in Nat /\ MaxTime \in Nat /\ touched \in Nat /\ MaxAge \in Nat /\ IdleTtl \in Nat
    BY CookieJarAssumption DEF Rest, Typed
  <2>3. 0 .. clock \subseteq 0 .. clock'
    BY <2>1, <2>2
  <2>4. now' \in [Users -> 0 .. clock'] /\ touched' \in 0 .. clock' /\ clock' \in 0 .. MaxTime
    BY <1>1, <2>1, <2>2, <2>3 DEF Rest, Typed
  <2>5. Typed'
    BY <1>1, <2>1, <2>4 DEF Rest, Typed
  <2>6. MapOK'
    BY <1>1, <2>1 DEF Rest, MapOK
  <2>7. Expired(clock) => Expired(clock)'
    BY <1>1, <2>1, <2>2 DEF Expired, Closed, Deadline
  <2>8. WipedOK'
    BY <1>1, <2>1, <2>7 DEF Rest, WipedOK
  <2>9. ContentOK'
    BY <1>1, <2>1 DEF Rest, ContentOK
  <2>10. RetiredOK'
    BY <1>1, <2>1 DEF Rest, RetiredOK
  <2> QED BY <2>5, <2>6, <2>8, <2>9, <2>10 DEF Rest
<1> QED BY <1>4, <1>5, <1>6

-----------------------------------------------------------------------------
(* The steps of a user, each one of the moves above.                        *)
LEMMA UserStep ==
  ASSUME IInv, Rest, Alone, NEW u \in Users,
         Get(u) \/ GetMissing(u) \/ Step(u) \/ WaitTimesOut(u)
  PROVE  Rest'
<1>1. /\ clock \in Nat /\ now \in [Users -> 0 .. clock]
      /\ [now EXCEPT ![u] = clock] \in [Users -> 0 .. clock]
      /\ [now EXCEPT ![u] = 0] \in [Users -> 0 .. clock]
  BY CookieJarAssumption DEF Rest, Typed
<1>2. Expired(now[u]) => Expired(clock)
  <2>1. now[u] \in 0 .. clock /\ touched \in Nat /\ IdleTtl \in Nat /\ MaxAge \in Nat
    BY <1>1, CookieJarAssumption DEF Rest, Typed
  <2> QED BY <1>1, <2>1 DEF Expired, Deadline
<1>3. CASE Get(u) \/ GetExpired(u)
  BY <1>3, GetSteps
<1>4. ASSUME NEW p \in Locations, Goto(u, p), UNCHANGED <<lifetime, content, seen, map>>,
             now' \in [Users -> 0 .. clock], pc[u] # "getting", p \notin {"getting", "use"},
             p \in InFlight => pc[u] \in InFlight,
             pc[u] \in {"check", "checking"} /\ u \in Requests => p \in {"check", "checking"},
             pc[u] \in Guarded => p \in Guarded \/ life = "live"
      PROVE  Rest'
  BY <1>4, Walks
<1>5. CASE GetMissing(u)
  BY <1>1, <1>4, <1>5 DEF GetMissing, Locations, Guarded, InFlight
<1>6. CASE Got(u)
  <2>1. PICK p \in {"access", "lock"} : Goto(u, p)
    BY <1>6 DEF Got
  <2>2. pc[u] = "getting" /\ Touch(u) /\ map' = None /\ UNCHANGED <<content, seen>>
    BY <1>6 DEF Got
  <2>3. now' \in [Users -> 0 .. clock]
    BY <1>1, <1>6 DEF Got, Forget
  <2> QED BY <2>1, <2>2, <2>3, Walks DEF Locations, Guarded, InFlight
<1>7. CASE \/ ReadClock(u, "access", "accessing") \/ ReadClock(u, "locked", "locking")
           \/ ReadClock(u, "absorb", "absorbing") \/ ReadClock(u, "check", "checking")
           \/ ReadClock(u, "export", "exporting")
  <2>1. UNCHANGED <<lifetime, content, seen, map>> /\ now' \in [Users -> 0 .. clock]
    BY <1>1, <1>7 DEF ReadClock
  <2> QED BY <1>4, <1>7, <2>1 DEF ReadClock, Locations, Guarded, InFlight
<1>8. CASE Access(u)
  <2>1. UNCHANGED <<content, seen, map>> /\ now' \in [Users -> 0 .. clock] /\ pc[u] = "accessing"
    BY <1>1, <1>8 DEF Access, Forget
  <2>2. CASE Touch(u) /\ Goto(u, "lock")
    BY <2>1, <2>2, Walks DEF Locations, Guarded, InFlight
  <2>3. CASE UNCHANGED lifetime /\ Goto(u, "done")
    BY <1>4, <2>1, <2>3 DEF Locations, Guarded, InFlight
  <2> QED BY <1>8, <2>2, <2>3 DEF Access
<1>9. CASE Lock(u) \/ Granted(u) \/ WaitCancelled(u) \/ WaitTimesOut(u)
  <2>1. UNCHANGED <<lifetime, content, seen, map>> /\ now' \in [Users -> 0 .. clock]
    BY <1>1, <1>9 DEF Lock, Granted, WaitCancelled, WaitTimesOut, LeaveWait
  <2>2. pc[u] \in {"lock", "waiting"} /\ \E p \in {"done", "locked", "waiting"} : Goto(u, p)
    BY <1>9 DEF Lock, Granted, WaitCancelled, WaitTimesOut, LeaveWait
  <2> QED BY <1>4, <2>1, <2>2 DEF Locations, Guarded, InFlight
<1>10. CASE Locked(u)
  <2>1. UNCHANGED <<seen, map>> /\ now' \in [Users -> 0 .. clock] /\ pc[u] = "locking"
    BY <1>1, <1>10 DEF Locked, Forget
  <2>2. CASE Touch(u) /\ Goto(u, "use") /\ UNCHANGED content
    BY <2>1, <2>2, Walks DEF Locations, Guarded, InFlight
  <2>3. CASE Expired(now[u]) /\ Cleared /\ Goto(u, "done") /\ UNCHANGED lifetime
    BY <1>2, <2>1, <2>3, Clears DEF Guarded
  <2> QED BY <1>10, <2>2, <2>3 DEF Locked
<1>11. CASE Select(u)
  BY <1>11, Selects
<1>12. CASE Upstream(u) \/ UseFails(u)
  <2>1. UNCHANGED <<lifetime, content, seen, map>> /\ now' \in [Users -> 0 .. clock]
    BY <1>1, <1>12 DEF Upstream, UseFails
  <2> QED BY <1>4, <1>12, <2>1 DEF Upstream, UseFails, Locations, Guarded, InFlight
<1>13. CASE Set(u)
  <2>1. /\ Goto(u, "check") /\ pc[u] = "use" /\ jar' = jar \cup {u} /\ Commit(jar')
        /\ UNCHANGED <<wiped, missed, lifetime, map, seen>> /\ now' \in [Users -> 0 .. clock]
    BY <1>1, <1>13 DEF Set
  <2>2. jar' \subseteq Users
    BY <2>1 DEF Rest, Typed
  <2> QED BY <2>1, <2>2, Commits DEF Guarded
<1>14. CASE Absorb(u)
  <2>1. UNCHANGED <<seen, map>> /\ now' \in [Users -> 0 .. clock] /\ pc[u] = "absorbing"
    BY <1>1, <1>14 DEF Absorb, Forget
  <2>2. CASE Touch(u) /\ Goto(u, "check") /\ jar' = jar \cup {u} /\ UNCHANGED <<revision, log, wiped, missed>>
    <3>1. u \in Requests
      BY <2>1 DEF Rest, ContentOK, InFlight
    <3> QED BY <2>1, <2>2, <3>1, Stores
  <2>3. CASE Touch(u) /\ Goto(u, "release") /\ UNCHANGED content
    BY <2>1, <2>3, Walks DEF Locations, Guarded, InFlight
  <2>4. CASE Goto(u, "release") /\ UNCHANGED <<lifetime, content>>
    BY <1>4, <2>1, <2>4 DEF Locations, Guarded, InFlight
  <2> QED BY <1>14, <2>2, <2>3, <2>4 DEF Absorb
<1>15. CASE Check(u)
  <2>1. /\ UNCHANGED <<seen, map, lifetime>> /\ now' \in [Users -> 0 .. clock]
        /\ pc[u] = "checking" /\ Goto(u, "release")
    BY <1>1, <1>15 DEF Check, Forget
  <2>2. CASE Expired(now[u])
    <3>1. Cleared
      BY <1>15, <2>2 DEF Check
    <3> QED BY <1>2, <2>1, <2>2, <3>1, Clears DEF Guarded
  <2>3. CASE ~Expired(now[u]) /\ u \in Requests
    <3>1. Commit(jar) /\ UNCHANGED <<jar, wiped, missed>>
      BY <1>15, <2>3 DEF Check
    <3>2. Commit(jar') /\ jar' \subseteq Users
      BY <3>1 DEF Rest, Typed
    <3> QED BY <2>1, <3>1, <3>2, Commits DEF Guarded
  <2>4. CASE ~Expired(now[u]) /\ u \notin Requests
    <3>1. UNCHANGED content
      BY <1>15, <2>4 DEF Check
    <3> QED BY <1>4, <2>1, <2>4, <3>1 DEF Locations, Guarded, InFlight
  <2> QED BY <2>2, <2>3, <2>4
<1>16. CASE CheckExport(u)
  <2>1. /\ UNCHANGED <<seen, map, lifetime>> /\ now' \in [Users -> 0 .. clock]
        /\ pc[u] = "exporting"
    BY <1>1, <1>16 DEF CheckExport, Forget
  <2>2. CASE Expired(now[u]) /\ Cleared /\ Goto(u, "release")
    BY <1>2, <2>1, <2>2, Clears DEF Guarded
  <2>3. CASE UNCHANGED content /\ Goto(u, "answered")
    BY <1>4, <2>1, <2>3 DEF Locations, Guarded, InFlight
  <2> QED BY <1>16, <2>2, <2>3 DEF CheckExport
<1>17. CASE DropGuard(u)
  <2>1. /\ UNCHANGED <<seen, map, lifetime>> /\ now' \in [Users -> 0 .. clock]
        /\ pc[u] \in {"release", "answered"}
    BY <1>1, <1>17 DEF DropGuard, Dropping
  <2>2. PICK p \in {"done", "idle"} : Goto(u, p)
    BY <1>17 DEF DropGuard
  <2>3. CASE Expired(clock)
    <3>1. Cleared
      BY <1>17, <2>3 DEF DropGuard, DropCheck
    <3> QED BY <2>1, <2>2, <2>3, <3>1, Clears DEF Guarded
  <2>4. CASE ~Expired(clock)
    <3>1. UNCHANGED content /\ life = "live"
      BY <1>17, <2>4 DEF DropGuard, DropCheck, Expired, Closed
    <3> QED BY <1>4, <2>1, <2>2, <3>1 DEF Locations, Guarded, InFlight
  <2> QED BY <2>3, <2>4
<1> QED BY <1>3, <1>5, <1>6, <1>7, <1>8, <1>9, <1>10, <1>11, <1>12, <1>13, <1>14, <1>15,
           <1>16, <1>17 DEF Step

(* The guard is exclusive.                                                  *)
LEMMA Exclusive ==
  ASSUME IInv
  PROVE  Rest /\ Alone
<1>1. Rest
  BY DEF IInv, Rest, Typed, TypeOK
<1>2. Alone
  BY DEF IInv, LockOK, Alone
<1> QED BY <1>1, <1>2

(* The invariant holds in every reachable state of a context.               *)
THEOREM Invariance == Spec => []IInv
<1>1. Init => IInv
  <2> SUFFICES ASSUME Init PROVE IInv
    OBVIOUS
  <2>1. TypeOK
    <3>1. <<>> \in Seq(Users) /\ <<{}>> \in Seq(SUBSET Users) /\ Len(<<{}>>) = 1
      OBVIOUS
    <3>2. Distinct(<<>>) /\ 0 \in 0 .. 0 /\ 0 \in 0 .. MaxTime
      BY CookieJarAssumption DEF Distinct
    <3>3. <<0, Users>> \in (0 .. 0) \X SUBSET Users
      OBVIOUS
    <3>4. seen \in [Users -> Observations]
      BY <3>3 DEF Init, Observations, Unseen
    <3>5. pc \in [Users -> Locations] /\ now \in [Users -> 0 .. clock]
      BY <3>2 DEF Init, Locations
    <3>6. revision \in Nat /\ log \in Seq(SUBSET Users) /\ Len(log) = revision + 1
      BY <3>1 DEF Init
    <3>7. queue \in Seq(Users) /\ Distinct(queue)
      BY <3>1, <3>2 DEF Init
    <3>8. {wiped, missed, revived} \subseteq BOOLEAN /\ jar \subseteq Users
      BY DEF Init
    <3>9. clock \in 0 .. MaxTime /\ touched \in 0 .. clock
      BY <3>2 DEF Init
    <3> QED BY <3>4, <3>5, <3>6, <3>7, <3>8, <3>9 DEF Init, TypeOK
  <2>2. LockOK
    BY DEF Init, LockOK, Elems, Guarded
  <2>3. MapOK /\ WipedOK /\ RetiredOK
    BY DEF Init, MapOK, WipedOK, RetiredOK
  <2>4. ContentOK
    BY DEF Init, ContentOK, InFlight
  <2> QED BY <2>1, <2>2, <2>3, <2>4 DEF IInv
<1>2. IInv /\ [Next]_vars => IInv'
  <2> SUFFICES ASSUME IInv, [Next]_vars PROVE IInv'
    OBVIOUS
  <2>1. Rest /\ Alone
    BY Exclusive
  <2>2. CASE Next
    <3>1. /\ LockOK' /\ queue' \in Seq(Users) /\ Distinct(queue')
          /\ owner' \in Users \cup {None}
      BY <2>2, LockStep DEF IInv
    <3>2. Rest'
      BY <2>1, <2>2, UserStep, RetireSteps DEF Next, Retiring
    <3>3. TypeOK'
      BY <3>1, <3>2 DEF Rest, Typed, TypeOK, Distinct
    <3> QED BY <3>1, <3>2, <3>3 DEF IInv, Rest
  <2>3. CASE UNCHANGED vars
    <3>1. TypeOK'
      BY <2>3 DEF vars, IInv, TypeOK, Observations, Distinct
    <3>2. LockOK'
      BY <2>3 DEF vars, IInv, LockOK
    <3>3. MapOK' /\ WipedOK'
      BY <2>3 DEF vars, IInv, MapOK, WipedOK, Closed, Expired, Deadline
    <3>4. ContentOK'
      BY <2>3 DEF vars, IInv, ContentOK, Uncounted
    <3>5. RetiredOK'
      BY <2>3 DEF vars, IInv, RetiredOK
    <3> QED BY <3>1, <3>2, <3>3, <3>4, <3>5 DEF IInv
  <2> QED BY <2>2, <2>3
<1> QED BY <1>1, <1>2, PTL DEF Spec

(* The lock is never lost, its owner is alone in the guarded section, an    *)
(* exchange stores its cookies in the jar that it selected from, and an     *)
(* unlocked jar is the committed one: for any number of users.              *)
THEOREM LockHolds == Spec => []LockAccounted
<1>1. IInv => LockAccounted
  <2> SUFFICES ASSUME IInv PROVE LockAccounted
    OBVIOUS
  <2>1. owner = None => ~Uncounted
    BY CookieJarAssumption DEF IInv, LockOK, Uncounted, Users, Guarded
  <2>2. \A u \in Requests : pc[u] \in {"upstream", "absorb", "absorbing"} => seen[u] = <<revision, jar>>
    BY DEF IInv, ContentOK, InFlight, Users
  <2>3. owner = None /\ ~wiped => jar = log[revision + 1]
    BY <2>1 DEF IInv, ContentOK
  <2> QED BY <2>2, <2>3 DEF IInv, LockOK, LockAccounted
<1> QED BY <1>1, Invariance, PTL

(* Nothing is left in a retired jar that nobody holds, unless retire() met  *)
(* a lock on its way to a waiter (contexts.rs:430-441, 473-492).            *)
THEOREM RetiredHolds == Spec => []RetiredJarClearedIfSeen
<1>1. IInv => RetiredJarClearedIfSeen
  <2> SUFFICES ASSUME IInv, ~missed, life = "retired", owner = None PROVE jar = {}
    BY DEF RetiredJarClearedIfSeen, RetiredJarCleared
  <2>1. \A u \in Users : pc[u] \notin Guarded
    BY CookieJarAssumption DEF IInv, LockOK
  <2> QED BY <2>1 DEF IInv, RetiredOK
<1> QED BY <1>1, Invariance, PTL

(* Cookies are set only on the content that was exported, and a cleared jar *)
(* is not used again unless a late touch() revived it: docs/api.md:273,     *)
(* docs/api.md:244.                                                         *)
THEOREM UseHolds == Spec => UsedAsSeen
<1>1. ASSUME IInv, NEW u \in Users
      PROVE  /\ u \in Editors /\ Set(u) => wiped \/ jar = seen[u][2]
             /\ Select(u) \/ Set(u) => revived \/ ~wiped
  <2>1. ASSUME Set(u), ~wiped
        PROVE  jar = seen[u][2]
    <3>1. pc[u] = "use" /\ seen[u] # Unseen /\ revision = seen[u][1]
      BY <2>1 DEF Set
    <3>2. ~Uncounted
      BY <1>1, <3>1, Exclusive DEF Uncounted, Alone, Guarded, Users
    <3>3. jar = log[revision + 1] /\ seen[u][2] = log[seen[u][1] + 1]
      BY <1>1, <2>1, <3>1, <3>2 DEF IInv, ContentOK
    <3> QED BY <3>1, <3>3
  <2>2. Select(u) \/ Set(u) => revived \/ ~wiped
    BY <1>1 DEF IInv, WipedOK, Select, Set
  <2> QED BY <2>1, <2>2
<1>2. IInv => [\A u \in Users :
                 /\ u \in Editors /\ Set(u) => wiped \/ jar = seen[u][2]
                 /\ Select(u) \/ Set(u) => revived \/ ~wiped]_vars
  BY <1>1
<1> QED BY <1>2, Invariance, PTL DEF UsedAsSeen

=============================================================================
