---------------------------- MODULE ContextStore ----------------------------
(***************************************************************************)
(* The map of contexts (src/contexts.rs, ContextStore): creation with a    *)
(* reservation held across the asynchronous construction of the network    *)
(* client, lookup, close, expiry and shutdown.                             *)
(*                                                                         *)
(* The registry is behind one mutex; create() takes it four times, each    *)
(* time for one action here.  A member of Creates is a call of create(),   *)
(* and stands for the context that the call makes under a fresh UUID.      *)
(* Requests that are refused by validation touch nothing and are left out; *)
(* what happens inside a context is in module CookieJar.                   *)
(***************************************************************************)
EXTENDS Naturals, FiniteSets

CONSTANTS
  Creates, Owners, OwnerOf,   (* owner: (principal, partition)              *)
  MaxContexts, MaxContextsPerPartition

ASSUME ContextStoreAssumption ==
  /\ IsFiniteSet(Creates)
  /\ OwnerOf \in [Creates -> Owners]
  /\ MaxContexts \in Nat
  /\ MaxContextsPerPartition \in Nat

VARIABLES
  contexts,      (* Registry.contexts                                       *)
  pending,       (* Registry.pending: a function on owners with creations   *)
  pendingCount,  (* Registry.pending_count                                  *)
  stopped,       (* Registry.stopped                                        *)
  open,          (* contexts whose network client is not closed             *)
  expired,       (* contexts past their idle or absolute lifetime           *)
  creation             (* where each create() is                                  *)

registry == <<contexts, pending, pendingCount, stopped, open, expired, creation>>

-----------------------------------------------------------------------------
(* "swept": cleanup() done; "building": reservation held, client being      *)
(* built; "inserted", "rejected": registry unlocked, reservation still held.*)
Holding == {"building", "inserted", "rejected"}
Holders == {c \in Creates : creation[c] \in Holding}
Building == {c \in Creates : creation[c] = "building"}

Of(S, o) == {c \in S : OwnerOf[c] = o}

PendingOf(o) == IF o \in DOMAIN pending THEN pending[o] ELSE 0

RegistryInit ==
  /\ contexts = {}
  /\ pending = [o \in {} |-> 0]
  /\ pendingCount = 0
  /\ stopped = FALSE
  /\ open = {}
  /\ expired = {}
  /\ creation = [c \in Creates |-> "idle"]

(* Context::retire() of the contexts S that leave the map.                  *)
Retire(S) ==
  /\ contexts' = contexts \ S
  /\ open' = open \ S

(* cleanup(): by every create(), and by the task that runs each second.     *)
SweepNothing == Retire({})

Sweep == Retire(contexts \cap expired)

-----------------------------------------------------------------------------
CreateSweeps(c) ==
  /\ creation[c] = "idle"
  /\ Sweep
  /\ creation' = [creation EXCEPT ![c] = "swept"]
  /\ UNCHANGED <<pending, pendingCount, stopped, expired>>

HasRoomIgnoringPending(o) ==
  /\ Cardinality(contexts) < MaxContexts
  /\ Cardinality(Of(contexts, o)) < MaxContextsPerPartition

HasRoom(o) ==
  /\ Cardinality(contexts) + pendingCount < MaxContexts
  /\ Cardinality(Of(contexts, o)) + PendingOf(o) < MaxContextsPerPartition

Reserve(c) ==
  /\ creation[c] = "swept"
  /\ ~stopped
  /\ HasRoom(OwnerOf[c])
  /\ pendingCount' = pendingCount + 1
  /\ pending' = [o \in DOMAIN pending \cup {OwnerOf[c]} |->
       IF o = OwnerOf[c] THEN PendingOf(o) + 1 ELSE pending[o]]
  /\ creation' = [creation EXCEPT ![c] = "building"]
  /\ UNCHANGED <<contexts, stopped, open, expired>>

(* ContextNotFound when stopped, ContextLimit for want of room.             *)
ReserveRefused(c) ==
  /\ creation[c] = "swept"
  /\ stopped \/ ~HasRoom(OwnerOf[c])
  /\ creation' = [creation EXCEPT ![c] = "failed"]
  /\ UNCHANGED <<contexts, pending, pendingCount, stopped, open, expired>>

(* Drop for Reservation.                                                    *)
Unreserve(c) ==
  LET o == OwnerOf[c] IN
  /\ pendingCount' = pendingCount - 1
  /\ pending' = IF pending[o] = 1
                THEN [q \in DOMAIN pending \ {o} |-> pending[q]]
                ELSE [pending EXCEPT ![o] = @ - 1]

(* NetworkClient::new fails, or the handler's timeout drops the future.     *)
BuildFails(c) ==
  /\ creation[c] = "building"
  /\ Unreserve(c)
  /\ creation' = [creation EXCEPT ![c] = "failed"]
  /\ UNCHANGED <<contexts, stopped, open, expired>>

Insert(c) ==
  /\ creation[c] = "building"
  /\ ~stopped
  /\ contexts' = contexts \cup {c}
  /\ open' = open \cup {c}
  /\ creation' = [creation EXCEPT ![c] = "inserted"]
  /\ UNCHANGED <<pending, pendingCount, stopped, expired>>

(* Stopped while the client was built: it is closed at once.                *)
InsertRejected(c) ==
  /\ creation[c] = "building"
  /\ stopped
  /\ creation' = [creation EXCEPT ![c] = "rejected"]
  /\ UNCHANGED <<contexts, pending, pendingCount, stopped, open, expired>>

Return(c) ==
  /\ creation[c] \in {"inserted", "rejected"}
  /\ Unreserve(c)
  /\ creation' = [creation EXCEPT ![c] = IF @ = "inserted" THEN "created" ELSE "failed"]
  /\ UNCHANGED <<contexts, stopped, open, expired>>

-----------------------------------------------------------------------------
(* get() of an expired context removes it; of a live one it only touches.   *)
(* A context's id is known once create() has returned.                      *)
GetRemoves(c) ==
  /\ creation[c] = "created"
  /\ c \in contexts \cap expired
  /\ Retire({c})
  /\ UNCHANGED <<pending, pendingCount, stopped, expired, creation>>

CloseContext(c) ==
  /\ creation[c] = "created"
  /\ c \in contexts
  /\ Retire({c})
  /\ UNCHANGED <<pending, pendingCount, stopped, expired, creation>>

CleanupRegistry ==
  /\ Sweep
  /\ UNCHANGED <<pending, pendingCount, stopped, expired, creation>>

Shutdown ==
  /\ stopped' = TRUE
  /\ Retire(contexts)
  /\ UNCHANGED <<pending, pendingCount, expired, creation>>

(* A context's idle time or age runs out.                                   *)
Expire(c) ==
  /\ c \in contexts \ expired
  /\ expired' = expired \cup {c}
  /\ UNCHANGED <<contexts, pending, pendingCount, stopped, open, creation>>

RegistryNext ==
  \/ \E c \in Creates :
       \/ CreateSweeps(c) \/ Reserve(c) \/ ReserveRefused(c) \/ BuildFails(c)
       \/ Insert(c) \/ InsertRejected(c) \/ Return(c)
       \/ GetRemoves(c) \/ CloseContext(c) \/ Expire(c)
  \/ CleanupRegistry
  \/ Shutdown

RegistrySpec == RegistryInit /\ [][RegistryNext]_registry

(* main() runs cleanup() every second until the service has stopped.        *)
RegistryFairSpec == RegistrySpec /\ WF_registry(CleanupRegistry)

-----------------------------------------------------------------------------
(* The shape of the registry: no owner without pending creations is kept in *)
(* "pending", and pending_count does not go below zero (contexts.rs:80-91). *)
RegistryTypeOK ==
  /\ contexts \subseteq Creates
  /\ DOMAIN pending \subseteq Owners
  /\ \A o \in DOMAIN pending : pending[o] \in Nat \ {0}
  /\ pendingCount \in Nat
  /\ stopped \in BOOLEAN
  /\ open \subseteq Creates
  /\ expired \subseteq Creates
  /\ creation \in [Creates -> Holding \cup {"idle", "swept", "created", "failed"}]

(* Whatever mix of creations succeeds, fails, times out or is rejected, and *)
(* whatever expires, closes or shuts down meanwhile: the pending counters   *)
(* are exactly the reservations in flight, so nothing leaks capacity; the   *)
(* contexts that exist and those being built fit, in total and per owner;   *)
(* and a network client is open exactly while its context is in the map,    *)
(* which stays empty after shutdown (contexts.rs:80-91, 137-161, 175-179,   *)
(* 223-226, 242-244, 251-256, 261-267).                                     *)
RegistryAccounted ==
  /\ RegistryTypeOK
  /\ pendingCount = Cardinality(Holders)
  /\ \A o \in Owners : PendingOf(o) = Cardinality(Of(Holders, o))
  /\ Cardinality(contexts \cup Building) <= MaxContexts
  /\ \A o \in Owners :
       Cardinality(Of(contexts \cup Building, o)) <= MaxContextsPerPartition
  /\ open = contexts
  /\ stopped => contexts = {}

(* A context that outlives its time is collected although nobody asks for   *)
(* it (contexts.rs:248 "there is no access-only expiry leak").              *)
ExpiredCollected == \A c \in Creates : c \in expired ~> c \notin contexts

=============================================================================
