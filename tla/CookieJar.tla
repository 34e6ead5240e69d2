----------------------------- MODULE CookieJar ------------------------------
(***************************************************************************)
(* One managed context (src/contexts.rs: Context, ManagedGuard,            *)
(* CookieAccess, ContextStore::cookies) used by exchanges and by cookie    *)
(* commands while it is closed, or its time runs out.                      *)
(*                                                                         *)
(* The jar is behind a tokio Mutex: FIFO, and an unlock hands the lock to  *)
(* the first waiter before that waiter runs.  The lifetime is behind a     *)
(* synchronous mutex, the map of contexts behind another one.  Every read  *)
(* of the clock that the code makes before it takes the lifetime's lock is *)
(* a step of its own, so the time may be old when it is used.              *)
(*                                                                         *)
(* Requests are exchanges; an editor exports the cookies and then sets     *)
(* cookies, expecting the revision that it saw.  The jar is the set of the *)
(* users whose cookies were stored in it.                                  *)
(***************************************************************************)
EXTENDS Naturals, Sequences, Queues

CONSTANTS Requests, Editors, IdleTtl, MaxAge, MaxTime, None

Users == Requests \cup Editors

ASSUME CookieJarAssumption ==
  /\ Requests \cap Editors = {}
  /\ None \notin Users
  /\ IdleTtl \in Nat \ {0}
  /\ MaxAge \in Nat \ {0}
  /\ MaxTime \in Nat

VARIABLES
  clock,      (* Instant::now(), with the context created at 0              *)
  touched,    (* Lifetime.touched                                           *)
  life,       (* "live": in the map; then the steps of retire()             *)
  map,        (* who holds the registry's mutex in get()                    *)
  owner,      (* who holds, or was handed, the jar's lock                   *)
  queue,      (* who waits for it                                           *)
  jar,        (* Context.jar                                                *)
  revision,   (* Context.revision                                           *)
  log,        (* history: the content at each revision                      *)
  wiped,      (* history: the jar was cleared                               *)
  missed,     (* history: retire() met a lock on its way to a waiter        *)
  revived,    (* history: a touch of a cleared jar came after its deadline  *)
  pc, now,    (* each user's place, and its reading of the clock            *)
  seen        (* revision and content that each user selected or exported   *)

vars == <<clock, touched, life, map, owner, queue, jar, revision, log, wiped,
          missed, revived, pc, now, seen>>

lifetime == <<clock, touched, life, revived>>
lock == <<owner, queue>>
content == <<jar, revision, log, wiped, missed>>

-----------------------------------------------------------------------------
Unseen == <<0, Users>>

Init ==
  /\ clock = 0 /\ touched = 0 /\ life = "live"
  /\ map = None /\ owner = None /\ queue = <<>>
  /\ jar = {} /\ revision = 0 /\ log = <<{}>> /\ wiped = FALSE
  /\ missed = FALSE /\ revived = FALSE
  /\ pc = [u \in Users |-> "idle"]
  /\ now = [u \in Users |-> 0]
  /\ seen = [u \in Users |-> Unseen]

Closed == life # "live"
Cancelled == life \in {"cancelled", "retired"}

Deadline == IF touched + IdleTtl < MaxAge THEN touched + IdleTtl ELSE MaxAge

Expired(t) == Closed \/ t >= Deadline

Goto(u, p) == pc' = [pc EXCEPT ![u] = p]

Cleared == jar' = {} /\ wiped' = TRUE /\ UNCHANGED <<revision, log, missed>>

(* Dropping the tokio guard: the next waiter owns the lock at once.         *)
Unlock ==
  IF queue = <<>> THEN owner' = None /\ UNCHANGED queue
                  ELSE owner' = Head(queue) /\ queue' = Tail(queue)

(* Reading the clock, then deciding with it: touch() and expired() after it.*)
ReadClock(u, p, q) ==
  /\ pc[u] = p
  /\ Goto(u, q)
  /\ now' = [now EXCEPT ![u] = clock]
  /\ UNCHANGED <<lifetime, map, lock, content, seen>>

Forget(u) == now' = [now EXCEPT ![u] = 0]

(* touch() succeeds.                                                        *)
Touch(u) ==
  /\ ~Expired(now[u])
  /\ touched' = now[u]
  /\ revived' = (revived \/ (wiped /\ Expired(clock)))
  /\ UNCHANGED <<clock, life>>

-----------------------------------------------------------------------------
(* ContextStore::get, under the registry's mutex.                           *)
Get(u) ==
  /\ map = None /\ life = "live"
  /\ map' = u
  /\ pc[u] = "idle"
  /\ Goto(u, "getting")
  /\ now' = [now EXCEPT ![u] = clock]
  /\ UNCHANGED <<lifetime, lock, content, seen>>

GetMissing(u) ==
  /\ pc[u] = "idle"
  /\ map = None /\ life = "retired"
  /\ Goto(u, "done")
  /\ UNCHANGED <<lifetime, map, lock, content, now, seen>>

Got(u) ==
  /\ pc[u] = "getting"
  /\ Touch(u)
  /\ map' = None
  /\ Goto(u, IF u \in Requests THEN "access" ELSE "lock")
  /\ Forget(u)
  /\ UNCHANGED <<lock, content, seen>>

(* The context has expired: get() removes it and goes on to retire it.      *)
GetExpired(u) ==
  /\ pc[u] = "getting"
  /\ Expired(now[u])
  /\ life' = "closed"
  /\ map' = None
  /\ Goto(u, "done")
  /\ Forget(u)
  /\ UNCHANGED <<clock, touched, revived, lock, content, seen>>

(* cookie_access(): touch() before it waits for the jar.                    *)
Access(u) ==
  /\ pc[u] = "accessing"
  /\ \/ Touch(u) /\ Goto(u, "lock")
     \/ Expired(now[u]) /\ UNCHANGED lifetime /\ Goto(u, "done")
  /\ Forget(u)
  /\ UNCHANGED <<map, lock, content, seen>>

(* lock_jar(), first poll: cancellation comes first in the biased select.   *)
Lock(u) ==
  /\ pc[u] = "lock"
  /\ \/ Cancelled /\ Goto(u, "done") /\ UNCHANGED lock
     \/ ~Cancelled /\ owner = None
        /\ owner' = u /\ Goto(u, "locked") /\ UNCHANGED queue
     \/ ~Cancelled /\ owner # None
        /\ queue' = Append(queue, u) /\ Goto(u, "waiting") /\ UNCHANGED owner
  /\ UNCHANGED <<lifetime, map, content, now, seen>>

Granted(u) ==
  /\ pc[u] = "waiting" /\ owner = u /\ ~Cancelled
  /\ Goto(u, "locked")
  /\ UNCHANGED <<lifetime, map, lock, content, now, seen>>

(* A waiter that gives up leaves the queue; a lock that was handed to it is *)
(* handed on, and the jar is left as it is.                                 *)
LeaveWait(u) ==
  /\ pc[u] = "waiting"
  /\ IF owner = u THEN Unlock
                  ELSE queue' = Without(queue, u) /\ UNCHANGED owner
  /\ Goto(u, "done")
  /\ UNCHANGED <<lifetime, map, content, now, seen>>

WaitCancelled(u) == Cancelled /\ LeaveWait(u)

(* The caller's deadline, or the cancellation of the exchange.              *)
WaitTimesOut(u) == LeaveWait(u)

(* lock_jar(): touch() with the lock held.                                  *)
LockedLeaks(u) ==
  /\ pc[u] = "locking"
  /\ \/ Touch(u) /\ Goto(u, "use") /\ UNCHANGED content
     \/ Expired(now[u]) /\ Cleared /\ Goto(u, "done") /\ UNCHANGED lifetime
  /\ Forget(u)
  /\ UNCHANGED <<map, lock, seen>>

Locked(u) ==
  /\ pc[u] = "locking"
  /\ \/ Touch(u) /\ Goto(u, "use") /\ UNCHANGED <<lock, content>>
     \/ Expired(now[u]) /\ Cleared /\ Unlock /\ Goto(u, "done") /\ UNCHANGED lifetime
  /\ Forget(u)
  /\ UNCHANGED <<map, seen>>

-----------------------------------------------------------------------------
(* Using the jar with a ManagedGuard.                                       *)

(* A request's header(), an editor's export.                                *)
SelectUnlocked(u) ==
  /\ pc[u] = "use" /\ seen[u] = Unseen
  /\ seen' = [seen EXCEPT ![u] = <<revision, jar>>]
  /\ IF u \in Requests THEN Goto(u, "upstream") /\ Unlock
                       ELSE Goto(u, "export") /\ UNCHANGED lock
  /\ UNCHANGED <<lifetime, map, content, now>>

Select(u) ==
  /\ pc[u] = "use" /\ seen[u] = Unseen
  /\ seen' = [seen EXCEPT ![u] = <<revision, jar>>]
  /\ Goto(u, IF u \in Requests THEN "upstream" ELSE "export")
  /\ UNCHANGED <<lifetime, map, lock, content, now>>

(* The exchange: a response, or an error, a timeout, a cancellation.        *)
Upstream(u) ==
  /\ pc[u] = "upstream"
  /\ \E p \in {"absorb", "release"} : Goto(u, p)
  /\ UNCHANGED <<lifetime, map, lock, content, now, seen>>

(* CookieAccess::absorb: touch(), then the jar's absorb(), which may refuse *)
(* the cookies; a response without Set-Cookie changes nothing.              *)
Absorb(u) ==
  /\ pc[u] = "absorbing"
  /\ \/ Touch(u) /\ Goto(u, "check") /\ jar' = jar \cup {u} /\ UNCHANGED <<revision, log, wiped, missed>>
     \/ Touch(u) /\ Goto(u, "release") /\ UNCHANGED content
     \/ Expired(now[u]) /\ Goto(u, "release") /\ UNCHANGED <<lifetime, content>>
  /\ Forget(u)
  /\ UNCHANGED <<map, lock, seen>>

Commit(new) ==
  /\ revision' = revision + 1
  /\ log' = Append(log, new)

(* Set or Import: the comparison of revisions, then the jar and its         *)
(* revision; the jar's own checks refuse all of it or nothing.              *)
SetUnchecked(u) ==
  /\ pc[u] = "use" /\ seen[u] # Unseen
  /\ jar' = jar \cup {u} /\ Commit(jar \cup {u}) /\ UNCHANGED <<wiped, missed>>
  /\ Goto(u, "check")
  /\ UNCHANGED <<lifetime, map, lock, now, seen>>

Set(u) ==
  /\ pc[u] = "use" /\ seen[u] # Unseen
  /\ revision = seen[u][1]
  /\ jar' = jar \cup {u} /\ Commit(jar \cup {u}) /\ UNCHANGED <<wiped, missed>>
  /\ Goto(u, "check")
  /\ UNCHANGED <<lifetime, map, lock, now, seen>>

(* A conflict of revisions, an origin that is not allowed, a cookie that is *)
(* refused; for a request an address that is refused, or its cancellation.  *)
UseFails(u) ==
  /\ pc[u] = "use"
  /\ Goto(u, "release")
  /\ UNCHANGED <<lifetime, map, lock, content, now, seen>>

(* The check that ends absorb() and cookies(): an expired jar is cleared.   *)
(* absorb() counts the revision only after it.                              *)
Check(u) ==
  /\ pc[u] = "checking"
  /\ IF Expired(now[u]) THEN Cleared
     ELSE IF u \in Requests THEN Commit(jar) /\ UNCHANGED <<jar, wiped, missed>>
     ELSE UNCHANGED content
  /\ Goto(u, "release")
  /\ Forget(u)
  /\ UNCHANGED <<lifetime, map, lock, seen>>

(* The same check after an export, which is answered if it passes.          *)
CheckExport(u) ==
  /\ pc[u] = "exporting"
  /\ IF Expired(now[u]) THEN Cleared /\ Goto(u, "release")
                        ELSE UNCHANGED content /\ Goto(u, "answered")
  /\ Forget(u)
  /\ UNCHANGED <<lifetime, map, lock, seen>>

(* Drop for ManagedGuard: check, clear and unlock under the lifetime's lock.*)
(* An editor that has its export goes on to set.                            *)
Dropping(u) == pc[u] \in {"release", "answered"}

DropCheck == IF Expired(clock) THEN Cleared ELSE UNCHANGED content

DropGuardInTwoSteps(u) ==
  \/ /\ Dropping(u)
     /\ DropCheck
     /\ IF pc[u] = "answered" THEN Goto(u, "idle") /\ Unlock
                              ELSE Goto(u, "unlock") /\ UNCHANGED lock
     /\ UNCHANGED <<lifetime, map, now, seen>>
  \/ /\ pc[u] = "unlock"
     /\ Unlock
     /\ Goto(u, "done")
     /\ UNCHANGED <<lifetime, map, content, now, seen>>

DropGuard(u) ==
  /\ Dropping(u)
  /\ DropCheck
  /\ Unlock
  /\ Goto(u, IF pc[u] = "answered" THEN "idle" ELSE "done")
  /\ UNCHANGED <<lifetime, map, now, seen>>

-----------------------------------------------------------------------------
(* retire(), by close(), cleanup() or get(): the registry's mutex is held   *)
(* until its last step, and nobody in get() holds it.                       *)
Close ==
  /\ life = "live" /\ map = None
  /\ life' = "closed"
  /\ UNCHANGED <<clock, touched, revived, map, lock, content, pc, now, seen>>

Cleanup ==
  /\ life = "live" /\ map = None
  /\ Expired(clock)
  /\ life' = "closed"
  /\ UNCHANGED <<clock, touched, revived, map, lock, content, pc, now, seen>>

Cancel ==
  /\ life = "closed"
  /\ life' = "cancelled"
  /\ UNCHANGED <<clock, touched, revived, map, lock, content, pc, now, seen>>

(* try_lock(): a jar in use is left to its user.                            *)
TryClear ==
  /\ life = "cancelled"
  /\ life' = "retired"
  /\ IF owner = None THEN Cleared
     ELSE missed' = (pc[owner] = "waiting") /\ UNCHANGED <<jar, revision, log, wiped>>
  /\ UNCHANGED <<clock, touched, revived, map, lock, pc, now, seen>>

Tick ==
  /\ clock < MaxTime
  /\ clock' = clock + 1
  /\ UNCHANGED <<touched, life, revived, map, lock, content, pc, now, seen>>

-----------------------------------------------------------------------------
Step(u) ==
  \/ Got(u) \/ GetExpired(u)
  \/ ReadClock(u, "access", "accessing") \/ Access(u)
  \/ Lock(u) \/ Granted(u) \/ WaitCancelled(u)
  \/ ReadClock(u, "locked", "locking") \/ Locked(u)
  \/ Select(u) \/ Upstream(u) \/ UseFails(u) \/ Set(u)
  \/ ReadClock(u, "absorb", "absorbing") \/ Absorb(u)
  \/ ReadClock(u, "check", "checking") \/ Check(u)
  \/ ReadClock(u, "export", "exporting") \/ CheckExport(u)
  \/ DropGuard(u)

Retiring == Cancel \/ TryClear

Next ==
  \/ \E u \in Users : Get(u) \/ GetMissing(u) \/ Step(u) \/ WaitTimesOut(u)
  \/ Close \/ Cleanup \/ Retiring \/ Tick

Spec == Init /\ [][Next]_vars

(* Tasks are polled and an exchange ends by its deadline at the latest; the *)
(* deadline of a wait for the lock is not relied on.                        *)
FairSpec ==
  /\ Spec
  /\ \A u \in Users : WF_vars(Step(u))
  /\ WF_vars(Retiring)

-----------------------------------------------------------------------------
Locations ==
  {"idle", "getting", "access", "accessing", "lock", "waiting", "locked", "locking",
   "use", "upstream", "absorb", "absorbing", "check", "checking", "export",
   "exporting", "release", "answered", "done"}

Observations == (0 .. revision) \X SUBSET Users

(* The shape of a context and of its users: touched is a reading of the     *)
(* clock, and nobody has seen a revision that was not yet made.             *)
TypeOK ==
  /\ clock \in 0 .. MaxTime /\ touched \in 0 .. clock
  /\ life \in {"live", "closed", "cancelled", "retired"}
  /\ map \in Users \cup {None} /\ owner \in Users \cup {None}
  /\ queue \in Seq(Users) /\ Distinct(queue)
  /\ jar \subseteq Users /\ {wiped, missed, revived} \subseteq BOOLEAN
  /\ revision \in Nat /\ log \in Seq(SUBSET Users) /\ Len(log) = revision + 1
  /\ pc \in [Users -> Locations]
  /\ now \in [Users -> 0 .. clock]
  /\ seen \in [Users -> Observations]

Guarded == {"locked", "locking", "use", "upstream", "absorb", "absorbing", "check",
            "checking", "export", "exporting", "release", "answered"}

(* The lock has an owner whenever it has waiters, and the owner is the one  *)
(* user inside the guarded section: an owner that fails, expires or gives   *)
(* up after the hand-over never takes the lock with it (contexts.rs:406).   *)
(* From the Cookie header that an exchange sends to the Set-Cookie that it  *)
(* stores nobody else changes the jar, and nobody clears it, whatever       *)
(* closes or expires meanwhile (contexts.rs:494, handlers.rs:409-474); and  *)
(* an unlocked jar that was never cleared holds what was committed at its   *)
(* revision (contexts.rs:292-323, 511-525).                                 *)
LockAccounted ==
  /\ TypeOK
  /\ queue # <<>> => owner # None
  /\ \A u \in Users : pc[u] \in Guarded => owner = u
  /\ owner # None => pc[owner] \in Guarded \cup {"waiting"}
  /\ \A u \in Requests :
       pc[u] \in {"upstream", "absorb", "absorbing"} => seen[u] = <<revision, jar>>
  /\ owner = None /\ ~wiped => jar = log[revision + 1]

(* contexts.rs:435 "Every active managed guard clears on drop", and 487     *)
(* "Close either marks the lifetime before this check, or observes an       *)
(* unlocked jar": nothing is left in a retired jar that nobody holds.       *)
RetiredJarCleared == life = "retired" /\ owner = None => jar = {}

(* What is true of it: a close that meets the end of a use leaves nothing   *)
(* behind, unless its try_lock() met a lock that an unlock had handed to a  *)
(* waiter (contexts.rs:430-441, 473-492).                                   *)
RetiredJarClearedIfSeen == missed \/ RetiredJarCleared

(* Cookies are set only on the content that the editor exported, no matter  *)
(* what other editors and exchanges did in between, unless the jar was      *)
(* cleared: docs/api.md:273 "compare `expectedRevision` against the current *)
(* revision".  And a jar that was cleared is not used again, as long as     *)
(* every touch() comes before the deadline that it extends: docs/api.md:244 *)
(* "A missing/expired managed context is not silently recreated"            *)
(* (contexts.rs:394-404, 418-421).                                          *)
UsedAsSeen ==
  [][\A u \in Users :
       /\ u \in Editors /\ Set(u) => wiped \/ jar = seen[u][2]
       /\ Select(u) \/ Set(u) => revived \/ ~wiped]_vars

(* A user that waits for the jar gets it or is told that the context is     *)
(* gone, without the help of its deadline (contexts.rs:413-417).            *)
WaitersServed == \A u \in Users : pc[u] = "waiting" ~> pc[u] # "waiting"

=============================================================================
