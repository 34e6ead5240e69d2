----------------------------- MODULE SdkClient ------------------------------
(***************************************************************************)
(* The asynchronous client of the TypeScript SDK: exchanges made directly  *)
(* (client.ts, executeStream) or through a managed session (sessions.ts,   *)
(* stream), the permits they hold, and the closing of the client with all  *)
(* that is still running.                                                  *)
(*                                                                         *)
(* Code runs in turns of one event loop.  An action is the code between    *)
(* two awaits, with every listener it runs on the way: aborting a deadline *)
(* finishes its exchange, which releases a permit, which resolves the      *)
(* promise of a waiting exchange, whose own code continues only in a later *)
(* turn.  Everything may have happened to that exchange in between.        *)
(*                                                                         *)
(*  pc        what the coroutine of an exchange is awaiting                *)
(*  ex[e]     the local variables of executeStream, and the deadline's     *)
(*            signal (aborted)                                             *)
(*  pool      the client's Admission,   ops   its Lifetime's operations    *)
(*  serial    the session's Admission,  sops  its Lifetime's operations    *)
(*  life      the two Lifetimes themselves                                 *)
(*  closing   the close of the client                                      *)
(***************************************************************************)
EXTENDS SdkAdmission

CONSTANTS
  ViaSession,     \* the exchanges made through the managed session
  ClientLimits,   \* the limits the client was created with
  ServiceLimits   \* the limits the service may advertise

ASSUME LimitsAssumption ==
  ViaSession \subseteq Exchanges /\ ClientLimits \in Limits /\ ServiceLimits \subseteq Limits

VARIABLES ex, pool, serial, ops, sops, life, closing

vars == <<ex, pool, serial, ops, sops, life, closing>>

Awaiting == {"caps", "response"}

Pcs == Awaiting \cup {"idle", "serial", "capsKnown", "acquire", "ready", "headed", "body", "settled"}

Fresh == [pc |-> "idle", finished |-> FALSE, aborted |-> FALSE, sent |-> FALSE,
          reserved |-> FALSE, held |-> FALSE, serial |-> FALSE]

SerialLimits(l) == [l EXCEPT !.maxConcurrent = 1, !.maxConcurrentPerPartition = 1]

Init ==
  /\ ex = [e \in Exchanges |-> Fresh]
  /\ pool = NewPool(ClientLimits)
  /\ \E l \in ServiceLimits : serial = NewPool(SerialLimits(l))
  /\ ops = <<>> /\ sops = <<>>
  /\ life = [o \in {"client", "session"} |-> [closed |-> FALSE, state |-> "open", pending |-> {}]]
  /\ \E s \in BOOLEAN : closing = [stage |-> "open", drain |-> FALSE, expired |-> FALSE,
                                   owned |-> s, remote |-> s]

(***************************************************************************)
(* The part of the state that listeners change, passed through them.       *)
(***************************************************************************)
Core == [ex |-> ex, pool |-> pool, serial |-> serial, ops |-> ops, sops |-> sops]

Becomes(c) == ex' = c.ex /\ pool' = c.pool /\ serial' = c.serial /\ ops' = c.ops /\ sops' = c.sops

Aborted(c) == {e \in Exchanges : c.ex[e].aborted}

Without(s, e) == SelectSeq(s, LAMBDA x : x # e)

(* finish: once; gives back what the exchange holds and settles it.        *)
finish(c, e, ok) ==
  LET x == c.ex[e]
      d == [c EXCEPT !.ex[e] = [x EXCEPT !.finished = TRUE, !.aborted = @ \/ ~ ok,
                                         !.held = FALSE, !.reserved = FALSE,
                                         !.pc = IF @ = "body" THEN "settled" ELSE @],
                     !.ops = Without(@, e)]
      r == [d EXCEPT !.pool = IF x.held THEN release(@, e, Aborted(d)) ELSE @]
  IN IF x.finished THEN c
     ELSE [r EXCEPT !.pool = IF x.reserved THEN unreserve(@, PartOf[e]) ELSE @]

(* The deadline's signal is aborted; its listeners run in the order they   *)
(* were added: the queue of the session, onAbort, the queue of the client. *)
AbortOne(c, e) ==
  LET a == [c EXCEPT !.ex[e].aborted = TRUE]
      s == [a EXCEPT !.serial = abort(@, e, Aborted(a))]
      f == IF e \in ToSet(s.ops) THEN finish(s, e, FALSE) ELSE s
  IN IF c.ex[e].aborted THEN c
     ELSE [f EXCEPT !.pool = abort(@, e, Aborted(f))]

(* The catch block: finish unless a listener did, and throw.               *)
Throw(c, e) == LET f == finish(c, e, FALSE) IN [f EXCEPT !.ex[e].pc = "settled"]

At(e, p) == ex[e].pc = p

Operations(o) == IF o = "client" THEN ops ELSE sops

Pending(o) == life[o].pending \cap ToSet(Operations(o))

(***************************************************************************)
(* The session's stream, up to the call of executeStream.                  *)
(***************************************************************************)
Accept(e) ==
  /\ At(e, "idle") /\ e \in ViaSession /\ closing.owned
  /\ IF life["session"].closed
     THEN /\ ex' = [ex EXCEPT ![e].pc = "settled"]
          /\ UNCHANGED <<serial, sops>>
     ELSE /\ ex' = [ex EXCEPT ![e].pc = "serial"]
          /\ sops' = Append(sops, e)
          /\ serial' = acquire(serial, e, {})
  /\ UNCHANGED <<pool, ops, life, closing>>

(* The finally of a stream that threw.                                     *)
Abandon(c, e) ==
  [c EXCEPT !.ex[e].pc = "settled", !.ex[e].serial = FALSE, !.sops = Without(@, e),
            !.serial = IF c.ex[e].serial THEN release(@, e, Aborted(c)) ELSE @]

Refused(e) ==
  /\ At(e, "serial") /\ e \in serial.refused
  /\ Becomes(Abandon([Core EXCEPT !.serial = Take(@, e)], e))
  /\ UNCHANGED <<life, closing>>

(***************************************************************************)
(* executeStream, from its call to the await of the capabilities.  It may  *)
(* throw at once: invalid input, a deadline aborted by the caller before   *)
(* the call or by an observer during it, or no place left to reserve.      *)
(***************************************************************************)
Execute(c, e) ==
  [c EXCEPT !.ex[e].pc = "caps", !.ex[e].reserved = TRUE, !.ops = Append(@, e),
            !.pool = reserve(@, PartOf[e])]

Call(e) ==
  /\ At(e, "idle") /\ e \notin ViaSession
  /\ \/ /\ ~ life["client"].closed /\ MayReserve(pool, PartOf[e])
        /\ Becomes(Execute(Core, e))
     \/ ex' = [ex EXCEPT ![e].pc = "settled"] /\ UNCHANGED <<pool, serial, ops, sops>>
  /\ UNCHANGED <<life, closing>>

SessionCall(e) ==
  LET c == [Core EXCEPT !.serial = Take(@, e), !.ex[e].serial = TRUE]
  IN /\ At(e, "serial") /\ e \in serial.granted
     /\ \/ /\ ~ ex[e].aborted /\ MayReserve(pool, PartOf[e])
           /\ ~ life["client"].closed \/ closing.drain
           /\ Becomes(Execute(c, e))
        \/ Becomes(Abandon(c, e))
     /\ UNCHANGED <<life, closing>>

(***************************************************************************)
(* The rest of executeStream.                                              *)
(***************************************************************************)
CapsKnown(e) ==
  /\ At(e, "caps") /\ ~ ex[e].finished
  /\ ex' = [ex EXCEPT ![e].pc = "capsKnown"]
  /\ UNCHANGED <<pool, serial, ops, sops, life, closing>>

Acquire(e) ==
  /\ At(e, "capsKnown")
  /\ \E l \in ServiceLimits : pool' = acquire(constrain(pool, l), e, Aborted(Core))
  /\ ex' = [ex EXCEPT ![e].pc = "acquire"]
  /\ UNCHANGED <<serial, ops, sops, life, closing>>

AcquireRefused(e) ==
  /\ At(e, "acquire") /\ e \in pool.refused
  /\ Becomes(Throw([Core EXCEPT !.pool = Take(@, e)], e))
  /\ UNCHANGED <<life, closing>>

AcquiredUnchecked(e) ==
  LET c == [Core EXCEPT !.pool = Take(@, e)]
      h == [c EXCEPT !.ex[e].held = TRUE, !.ex[e].pc = "ready"]
  IN /\ At(e, "acquire") /\ e \in pool.granted
     /\ IF ex[e].finished THEN Becomes(Throw(c, e))
        ELSE Becomes(h) \/ Becomes(Throw(h, e))
     /\ UNCHANGED <<life, closing>>

(* The permit may arrive after the exchange was finished; otherwise the    *)
(* request is checked against the service's limits.                        *)
Acquired(e) ==
  LET c == [Core EXCEPT !.pool = Take(@, e)]
      h == [c EXCEPT !.ex[e].held = TRUE, !.ex[e].pc = "ready"]
  IN /\ At(e, "acquire") /\ e \in pool.granted
     /\ IF ex[e].finished
        THEN Becomes(Throw([c EXCEPT !.pool = release(@, e, Aborted(c))], e))
        ELSE Becomes(h) \/ Becomes(Throw(h, e))
     /\ UNCHANGED <<life, closing>>

(* observation.run calls the sending code in a turn of its own.            *)
Send(e) ==
  /\ At(e, "ready")
  /\ Becomes(IF ex[e].aborted THEN Throw(Core, e)
             ELSE [Core EXCEPT !.ex[e].sent = TRUE, !.ex[e].pc = "response"])
  /\ UNCHANGED <<life, closing>>

(* A drain whose operations have settled goes on in the same turn of the   *)
(* event loop, before anything more is read from the network.              *)
DrainDue == \E o \in {"client", "session"} : life[o].state = "draining" /\ Pending(o) = {}

Headed(e) ==
  /\ At(e, "response") /\ ~ ex[e].finished /\ ~ DrainDue
  /\ ex' = [ex EXCEPT ![e].pc = "headed"]
  /\ UNCHANGED <<pool, serial, ops, sops, life, closing>>

(* An observer of the headers may have aborted the exchange.               *)
Return(e) ==
  /\ At(e, "headed")
  /\ ex' = [ex EXCEPT ![e].pc = IF ex[e].finished THEN "settled" ELSE "body"]
  /\ UNCHANGED <<pool, serial, ops, sops, life, closing>>

(* What is awaited fails, or is outrun by the deadline.                    *)
Fails(e) ==
  /\ ex[e].pc \in Awaiting /\ ~ ex[e].finished
  /\ Becomes(Throw(Core, e))
  /\ UNCHANGED <<life, closing>>

UnwindSent(e) ==
  /\ ex[e].pc = "response" /\ ex[e].finished
  /\ Becomes(Throw(Core, e))
  /\ UNCHANGED <<life, closing>>

Unwind(e) ==
  /\ ex[e].pc \in Awaiting /\ ex[e].finished
  /\ Becomes(Throw(Core, e))
  /\ UNCHANGED <<life, closing>>

(* The consumer reads the body to its end, or the body fails, is too large *)
(* or is cancelled, or the session refuses its revision.                   *)
Complete(e) ==
  /\ At(e, "body") /\ ~ ex[e].serial
  /\ Becomes(finish(Core, e, TRUE))
  /\ UNCHANGED <<life, closing>>

Break(e) ==
  /\ At(e, "body")
  /\ Becomes(finish(Core, e, FALSE))
  /\ UNCHANGED <<life, closing>>

(* The deadline's timer fires, or the caller aborts.                       *)
Abort(e) ==
  /\ ex[e].pc \notin {"idle", "settled"} /\ ~ ex[e].aborted
  /\ Becomes(AbortOne(Core, e))
  /\ UNCHANGED <<life, closing>>

(* The finally of the session's stream, and its completion handler.        *)
SessionReturns(e) ==
  /\ ex[e].serial /\ ex[e].pc \in {"body", "settled"}
  /\ serial' = release(serial, e, Aborted(Core))
  /\ ex' = [ex EXCEPT ![e].serial = FALSE]
  /\ sops' = IF At(e, "settled") THEN Without(sops, e) ELSE sops
  /\ UNCHANGED <<pool, ops, life, closing>>

SessionDoneIfOk(e) ==
  /\ At(e, "settled") /\ ~ ex[e].serial /\ e \in ToSet(sops) /\ ~ ex[e].aborted
  /\ sops' = Without(sops, e)
  /\ UNCHANGED <<ex, pool, serial, ops, life, closing>>

SessionDone(e) ==
  /\ At(e, "settled") /\ ~ ex[e].serial /\ e \in ToSet(sops)
  /\ sops' = Without(sops, e)
  /\ UNCHANGED <<ex, pool, serial, ops, life, closing>>

(***************************************************************************)
(* Lifetime.close: no more operations; with "drain", wait for the ones     *)
(* registered now or for the timer; abort all that are registered then;    *)
(* wait for the ones registered at the start.                              *)
(***************************************************************************)
AbortAll(c, s) == FoldLeft(LAMBDA d, e : AbortOne(d, e), c, s)

LifetimeClosed(l, drain, s) ==
  IF l.state # "open" THEN l
  ELSE [closed |-> TRUE, state |-> IF drain THEN "draining" ELSE "settling", pending |-> ToSet(s)]

DrainEnds(o) ==
  /\ life[o].state = "draining"    \* Pending(o) = {}, or the timer has elapsed
  /\ life' = [life EXCEPT ![o].state = "settling"]
  /\ Becomes(AbortAll(Core, Operations(o)))
  /\ UNCHANGED closing

Settled(o) ==
  /\ life[o].state = "settling" /\ Pending(o) = {}
  /\ life' = [life EXCEPT ![o].state = "stopped"]
  /\ UNCHANGED <<ex, pool, serial, ops, sops, closing>>

(***************************************************************************)
(* The client's close.  It fails when a session cannot be deleted in time, *)
(* keeps the session and may then be called again.                         *)
(***************************************************************************)
Close(drain) ==
  /\ closing.stage \in {"open", "failed"}
  /\ closing' = [closing EXCEPT !.stage = "stopping", !.drain = drain, !.expired = FALSE]
  /\ life' = [life EXCEPT !["client"] = LifetimeClosed(@, drain, ops),
                          !["session"].closed = @ \/ closing.owned]
  /\ Becomes(IF life["client"].state = "open" /\ ~ drain THEN AbortAll(Core, ops) ELSE Core)

Expire ==
  /\ closing.stage \in {"stopping", "sessions", "deleting"} /\ ~ closing.expired
  /\ closing' = [closing EXCEPT !.expired = TRUE]
  /\ UNCHANGED <<ex, pool, serial, ops, sops, life>>

CloseSessions ==
  /\ closing.stage = "stopping"
  /\ life["client"].state = "stopped" \/ (closing.expired /\ closing.owned)
  /\ IF closing.owned
     THEN /\ closing' = [closing EXCEPT !.stage = "sessions"]
          /\ life' = [life EXCEPT !["session"] = LifetimeClosed(@, closing.drain, sops)]
          /\ Becomes(IF life["session"].state = "open" /\ ~ closing.drain
                     THEN AbortAll(Core, sops) ELSE Core)
     ELSE closing' = [closing EXCEPT !.stage = "closed"] /\ Becomes(Core) /\ UNCHANGED life

SessionsStopped ==
  /\ closing.stage = "sessions" /\ life["session"].state = "stopped"
  /\ closing' = [closing EXCEPT !.stage = IF closing.expired THEN "failed" ELSE "deleting"]
  /\ UNCHANGED <<ex, pool, serial, ops, sops, life>>

(* The service deletes the context and says so, or the answer is an error  *)
(* or is lost.  A context that is already gone counts as deleted.          *)
Delete ==
  /\ closing.stage = "deleting"
  /\ \/ closing' = [closing EXCEPT !.stage = "closed", !.owned = FALSE, !.remote = FALSE]
     \/ \E r \in {closing.remote, FALSE} :
          closing' = [closing EXCEPT !.stage = "failed", !.remote = r]
  /\ UNCHANGED <<ex, pool, serial, ops, sops, life>>

(***************************************************************************)
Continue(e) ==
  \/ Refused(e) \/ SessionCall(e) \/ Acquire(e) \/ AcquireRefused(e) \/ Acquired(e)
  \/ Send(e) \/ Return(e) \/ Unwind(e) \/ SessionReturns(e) \/ SessionDone(e)

Wind(o) == DrainEnds(o) \/ Settled(o)

CloseSteps == CloseSessions \/ SessionsStopped \/ Delete

Next ==
  \/ \E e \in Exchanges :
       \/ Accept(e) \/ Call(e) \/ CapsKnown(e) \/ Headed(e) \/ Fails(e)
       \/ Complete(e) \/ Break(e) \/ Abort(e) \/ Continue(e)
  \/ \E o \in {"client", "session"} : Wind(o)
  \/ \E drain \in BOOLEAN : Close(drain)
  \/ Expire \/ CloseSteps

Spec == Init /\ [][Next]_vars

(* The event loop runs every continuation whose promise is settled; timers *)
(* fire; a control request ends at its own deadline.                       *)
Fairness ==
  /\ \A e \in Exchanges : WF_vars(Continue(e)) /\ WF_vars(Abort(e))
  /\ \A o \in {"client", "session"} : WF_vars(Wind(o))
  /\ WF_vars(CloseSteps)

FairSpec == Spec /\ Fairness

(***************************************************************************)
(* Every variable has its type; in particular no counter of the two pools  *)
(* goes below zero, however releases, removals and aborts are interleaved. *)
(***************************************************************************)
TypeOK ==
  /\ ex \in [Exchanges -> [pc : Pcs, finished : BOOLEAN, aborted : BOOLEAN, sent : BOOLEAN,
                           reserved : BOOLEAN, held : BOOLEAN, serial : BOOLEAN]]
  /\ pool \in Pools /\ serial \in Pools
  /\ ops \in Seq(Exchanges) /\ sops \in Seq(Exchanges)
  /\ life \in [{"client", "session"} ->
                [closed : BOOLEAN, state : {"open", "draining", "settling", "stopped"},
                 pending : SUBSET Exchanges]]
  /\ closing \in [stage : {"open", "stopping", "sessions", "deleting", "failed", "closed"},
                  drain : BOOLEAN, expired : BOOLEAN, owned : BOOLEAN, remote : BOOLEAN]

CountsMatch(a, holders) ==
  /\ a.active = Cardinality(holders \cup a.granted)
  /\ \A p \in Partitions :
       /\ a.byPartition[p] = Cardinality({e \in holders \cup a.granted : PartOf[e] = p})
       /\ a.queuedByPartition[p] = Cardinality({e \in ToSet(a.waiting) : PartOf[e] = p})

(* Every permit of both pools, every queue place and every reservation     *)
(* belongs to an exchange that is still running: none is lost when an      *)
(* exchange ends while its permit is on the way to it.  When close has     *)
(* succeeded nothing is running, nothing is held, and the session's        *)
(* context is gone from the service.                                       *)
PermitsAccounted ==
  /\ TypeOK
  /\ CountsMatch(pool, {e \in Exchanges : ex[e].held})
  /\ CountsMatch(serial, {e \in Exchanges : ex[e].serial})
  /\ pool.reserved = Cardinality({e \in Exchanges : ex[e].reserved})
  /\ \A e \in Exchanges : ex[e].reserved \/ ex[e].held => e \in ToSet(ops)
  /\ closing.stage = "closed" =>
       /\ ops = <<>> /\ sops = <<>> /\ ~ closing.remote
       /\ pool.reserved = 0 /\ serial.active = 0

AwaitedIn(a, awaiting) ==
  /\ awaiting = a.granted \cup a.refused \cup ToSet(a.waiting)
  /\ a.granted \cap a.refused = {} /\ (a.granted \cup a.refused) \cap ToSet(a.waiting) = {}
  /\ IsInjective(a.waiting)
  /\ \A e \in ToSet(a.waiting) : ~ available(a, PartOf[e])


(* Every exchange settles and leaves both lifetimes, by its deadline.      *)
ExchangesSettle ==
  \A e \in Exchanges :
    ~ At(e, "idle") ~> At(e, "settled") /\ e \notin ToSet(ops) \cup ToSet(sops)

(* A close ends, with success or with an error to the caller.              *)
CloseEnds == closing.stage = "stopping" ~> closing.stage \in {"failed", "closed"}
====
