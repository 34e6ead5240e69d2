----------------------------- MODULE SdkSession ----------------------------
(***************************************************************************)
(* A managed session of the TypeScript SDK (sessions.ts) and the contexts  *)
(* it owns at the service: cookie operations, exchanges, the change of     *)
(* identity (rebindIdentity) and the close that deletes what is owned.     *)
(*                                                                         *)
(* A control call is a request the service executes at some later time,    *)
(* and an answer the SDK takes at some time after that.  The SDK may give  *)
(* up on the call in between: the answer is lost, or the request is still  *)
(* under way and is executed late.  Operations hold the session's serial   *)
(* permit one at a time; the queue for it is part of SdkClient.            *)
(***************************************************************************)
EXTENDS Naturals, FiniteSets

CONSTANTS
  MaxContexts,    \* bound: contexts the service creates
  MaxOperations,  \* bound: operations the application starts
  MaxBodies,      \* bound: exchanges whose body is read at the same time
  MaxLate,        \* bound: abandoned requests under way at the same time
  MaxCloses       \* bound: attempts to close the session

ASSUME SdkSessionAssumption ==
  /\ MaxContexts \in Nat /\ MaxOperations \in Nat /\ MaxLate \in Nat /\ MaxCloses \in Nat
  /\ MaxBodies \in Nat

VARIABLES
  op,        \* the operation that holds the serial permit
  sess,      \* info, cleanup and lost of the session, and its lifetime
  closing,   \* the close of the session
  bodies,    \* per context, the exchanges whose body is being read
  late,      \* requests the SDK gave up on that the service may still execute
  service,   \* the contexts at the service
  ghost      \* history: acknowledged writes, known contexts, what went wrong

vars == <<op, sess, closing, bodies, late, service, ghost>>

Contexts == 1..MaxContexts
NoContext == 0

NoRequest == [verb |-> "none", ctx |-> NoContext, expected |-> 0, content |-> {}]
NoAnswer == [code |-> "none", revision |-> 0, jar |-> {}, ctx |-> NoContext]
Free == [kind |-> "none", request |-> NoRequest, answer |-> NoAnswer,
         next |-> NoContext, error |-> "none"]

Request(verb, ctx, expected, content) ==
  [verb |-> verb, ctx |-> ctx, expected |-> expected, content |-> content]

Failure(code) == [NoAnswer EXCEPT !.code = code]

Init ==
  /\ op = [Free EXCEPT !.kind = "open", !.request = Request("create", NoContext, 0, {})]
  /\ sess = [state |-> "opening", ctx |-> NoContext, revision |-> 0, cleanup |-> {}, lost |-> FALSE]
  /\ closing = [stage |-> "none", drain |-> FALSE, expired |-> FALSE, pending |-> {}, failed |-> FALSE, tries |-> 0]
  /\ bodies = [c \in Contexts |-> 0]
  /\ late = {}
  /\ service = [c \in Contexts |-> [state |-> "none", revision |-> 0, jar |-> {}]]
  /\ ghost = [acked |-> {}, known |-> {}, started |-> 0, alarm |-> FALSE, misjudged |-> FALSE]

(***************************************************************************)
(* The service, as the SDK sees it: revision-checked writes, an import     *)
(* that replaces the jar, contexts that disappear.                         *)
(***************************************************************************)
Fresh == {c \in Contexts : service[c].state = "none"}
Alive(c) == c \in Contexts /\ service[c].state = "alive"

Put(c, jar) == [service EXCEPT ![c].jar = jar, ![c].revision = @ + 1]

(* Pairs of the contexts after a request and its answer.                    *)
Executions(r) ==
  LET now == service[r.ctx]
      Ok(s, c) == <<s, [code |-> "ok", revision |-> s[c].revision, jar |-> s[c].jar, ctx |-> c]>>
      refused == {<<service, Failure("other")>>}
  IN IF r.verb = "create" THEN
       refused \cup {Ok([service EXCEPT ![c].state = "alive"], c) :
                       c \in {d \in Fresh : \A e \in Fresh : d <= e}}
     ELSE IF ~ Alive(r.ctx) THEN {<<service, Failure("not_found")>>}
     ELSE CASE r.verb = "select" -> {Ok(service, r.ctx)} \cup refused
            [] r.verb \in {"set", "import"} ->
                 IF r.expected # now.revision THEN {<<service, Failure("conflict")>>}
                 ELSE {Ok(Put(r.ctx, IF r.verb = "set" THEN now.jar \cup r.content ELSE r.content), r.ctx)} \cup refused
            [] r.verb = "exchange" -> {Ok(service, r.ctx), Ok(Put(r.ctx, now.jar \cup r.content), r.ctx)} \cup refused
            [] r.verb = "delete" -> {Ok([service EXCEPT ![r.ctx].state = "gone"], r.ctx)} \cup refused

(* The service executes the request of the running operation.               *)
Execute ==
  /\ op.request.verb # "none" /\ op.answer.code = "none"
  /\ \E x \in Executions(op.request) : service' = x[1] /\ op' = [op EXCEPT !.answer = x[2]]
  /\ UNCHANGED <<sess, closing, bodies, late, ghost>>

(* It executes a request on which the SDK has given up; nobody waits.       *)
ExecuteLate(r) ==
  /\ \E x \in Executions(r) : service' = x[1]
  /\ late' = late \ {r}
  /\ UNCHANGED <<op, sess, closing, bodies, ghost>>

(* A context expires or is evicted.                                         *)
ContextEnds(c) ==
  /\ Alive(c)
  /\ service' = [service EXCEPT ![c].state = "gone"]
  /\ UNCHANGED <<op, sess, closing, bodies, late, ghost>>

(***************************************************************************)
(* The session.                                                            *)
(***************************************************************************)

(* Mutant: an error about any context counts.                               *)
MarkLostAnyContext(s, code, ctx) == [s EXCEPT !.lost = @ \/ code = "not_found"]

(* markLost: only an error about the context the session uses now counts.   *)
MarkLost(s, code, ctx) ==
  [s EXCEPT !.lost = @ \/ (code = "not_found" /\ s.ctx = ctx)]

(* applyRevision: a revision about another context is ignored; a smaller    *)
(* one is an error.                                                         *)
Regresses(revision, ctx) == ctx = sess.ctx /\ revision < sess.revision
ApplyRevision(s, revision, ctx) == IF s.ctx = ctx THEN [s EXCEPT !.revision = revision] ELSE s

Await(request) == [op EXCEPT !.request = request, !.answer = NoAnswer]

(* The write an operation carries is named by the operation's number.       *)
Write == {ghost.started + 1}

(* mutate and stream start: assertUsable, then the first call.              *)
Start(kind) ==
  /\ op = Free
  /\ sess.state = "open" /\ ~ sess.lost
  /\ ghost.started < MaxOperations
  /\ op' = [Free EXCEPT !.kind = kind,
              !.request = CASE kind \in {"get", "rebind"} -> Request("select", sess.ctx, 0, {})
                            [] kind = "set" -> Request("set", sess.ctx, sess.revision, Write)
                            [] kind = "import" -> Request("import", sess.ctx, sess.revision, Write)
                            [] kind = "stream" -> Request("exchange", sess.ctx, 0, Write)]
  /\ ghost' = [ghost EXCEPT !.started = @ + 1, !.acked = IF kind = "import" THEN {} ELSE @]
  /\ UNCHANGED <<sess, closing, bodies, late, service>>

Answered(kind, verb) ==
  op.kind = kind /\ op.request.verb = verb /\ op.answer.code # "none"

Good(kind, verb) == Answered(kind, verb) /\ op.answer.code = "ok"

(* The context exists and is owned from now on.  openSession closes it      *)
(* again when its own signal was aborted in the meantime (unwanted).        *)
Opened(unwanted) ==
  /\ Good("open", "create")
  /\ op' = Free
  /\ sess' = [sess EXCEPT !.state = IF unwanted THEN "closed" ELSE "open", !.ctx = op.answer.ctx,
                          !.revision = op.answer.revision, !.cleanup = {op.answer.ctx}]
  /\ closing' = IF unwanted THEN [closing EXCEPT !.stage = "stopping", !.tries = @ + 1] ELSE closing
  /\ ghost' = [ghost EXCEPT !.known = @ \cup {op.answer.ctx}]
  /\ UNCHANGED <<bodies, late, service>>

(* getCookies, exportCookies.                                               *)
Got ==
  /\ Good("get", "select")
  /\ op' = Free
  /\ sess' = ApplyRevision(sess, op.answer.revision, op.request.ctx)
  /\ ghost' = [ghost EXCEPT !.alarm = @ \/ Regresses(op.answer.revision, op.request.ctx)]
  /\ UNCHANGED <<closing, bodies, late, service>>

(* setCookies, importCookies: the reply has to be the next revision.        *)
Written(kind) ==
  /\ Good(kind, kind)
  /\ op' = Free
  /\ sess' = ApplyRevision(sess, op.answer.revision, op.request.ctx)
  /\ ghost' = [ghost EXCEPT !.alarm = @ \/ op.answer.revision # op.request.expected + 1,
                            !.acked = @ \cup op.request.content]
  /\ UNCHANGED <<closing, bodies, late, service>>

(* stream: the revision is applied, the permit is released, the body and    *)
(* its operation go on.                                                     *)
Headed ==
  /\ Good("stream", "exchange")
  /\ bodies[op.request.ctx] < MaxBodies
  /\ op' = Free
  /\ sess' = ApplyRevision(sess, op.answer.revision, op.request.ctx)
  /\ bodies' = [bodies EXCEPT ![op.request.ctx] = @ + 1]
  /\ ghost' = [ghost EXCEPT !.alarm = @ \/ Regresses(op.answer.revision, op.request.ctx),
                            !.acked = IF op.request.content \subseteq op.answer.jar
                                      THEN @ \cup op.request.content ELSE @]
  /\ UNCHANGED <<closing, late, service>>

(* rebindIdentity: export, create the next context, import into it.         *)
RebindExported ==
  /\ Good("rebind", "select")
  /\ op' = Await(Request("create", NoContext, 0, op.answer.jar))
  /\ sess' = ApplyRevision(sess, op.answer.revision, op.request.ctx)
  /\ ghost' = [ghost EXCEPT !.alarm = @ \/ Regresses(op.answer.revision, op.request.ctx)]
  /\ UNCHANGED <<closing, bodies, late, service>>

(* Mutant: the staged context is owned only after the cutover.              *)
RebindCreatedUnowned ==
  /\ Good("rebind", "create")
  /\ op' = [Await(Request("import", op.answer.ctx, op.answer.revision, op.request.content))
              EXCEPT !.next = op.answer.ctx]
  /\ ghost' = [ghost EXCEPT !.known = @ \cup {op.answer.ctx}]
  /\ UNCHANGED <<sess, closing, bodies, late, service>>

RebindCreated ==
  /\ Good("rebind", "create")
  /\ op' = [Await(Request("import", op.answer.ctx, op.answer.revision, op.request.content))
              EXCEPT !.next = op.answer.ctx]
  /\ sess' = [sess EXCEPT !.cleanup = @ \cup {op.answer.ctx}]
  /\ ghost' = [ghost EXCEPT !.known = @ \cup {op.answer.ctx}]
  /\ UNCHANGED <<closing, bodies, late, service>>

(* The cutover; the previous context is deleted afterwards.                 *)
RebindImported ==
  /\ Good("rebind", "import")
  /\ op' = Await(Request("delete", sess.ctx, 0, {}))
  /\ sess' = [sess EXCEPT !.ctx = op.next, !.revision = op.answer.revision, !.cleanup = @ \cup {sess.ctx}]
  /\ ghost' = [ghost EXCEPT !.alarm = @ \/ op.answer.revision # op.request.expected + 1,
                            !.misjudged = @ \/ sess.lost]
  /\ UNCHANGED <<closing, bodies, late, service>>

(* removeContext, within a rebind: the previous context after the cutover,  *)
(* or the next one after a failed import, whose error is then thrown.       *)
Removed(s, code, ctx) ==
  IF code \in {"ok", "not_found"} THEN [s EXCEPT !.cleanup = @ \ {ctx}]
  ELSE [s EXCEPT !.cleanup = @ \cup {ctx}]

(* mutate's catch: the error of the operation counts for the context that   *)
(* the session used when the operation began.                               *)
Thrown(s, code) == MarkLost(s, code, s.ctx)

RebindRemoved ==
  /\ Answered("rebind", "delete")
  /\ op' = Free
  /\ sess' = Thrown(Removed(sess, op.answer.code, op.request.ctx), op.error)
  /\ ghost' = [ghost EXCEPT !.misjudged = @ \/ op.error = "not_found"]
  /\ UNCHANGED <<closing, bodies, late, service>>

(* Mutant: a failed staging import does not prevent the cutover.            *)
FailedCutsOver ==
  /\ op.answer.code \in {"not_found", "conflict", "other"}
  /\ ~ Answered("rebind", "delete")
  /\ IF Answered("rebind", "import")
     THEN /\ op' = Await(Request("delete", sess.ctx, 0, {}))
          /\ sess' = [sess EXCEPT !.ctx = op.next, !.revision = 0]
     ELSE /\ op' = Free
          /\ sess' = [Thrown(sess, op.answer.code) EXCEPT !.state = IF op.kind = "open" THEN "failed" ELSE @]
  /\ UNCHANGED <<closing, bodies, late, service, ghost>>

(* A call of the operation failed.  A failed staging import first tries to  *)
(* delete the staged context; every other failure ends the operation.       *)
Failed ==
  /\ op.answer.code \in {"not_found", "conflict", "other"}
  /\ ~ Answered("rebind", "delete")
  /\ IF Answered("rebind", "import")
     THEN op' = [Await(Request("delete", op.next, 0, {})) EXCEPT !.error = op.answer.code] /\ UNCHANGED sess
     ELSE /\ op' = Free
          /\ sess' = [Thrown(sess, op.answer.code) EXCEPT !.state = IF op.kind = "open" THEN "failed" ELSE @]
  /\ UNCHANGED <<closing, bodies, late, service, ghost>>

(***************************************************************************)
(* The deadline of the operation fires, its caller cancels it, or the      *)
(* close aborts it: the call in progress rejects, and no further call is   *)
(* sent.  What the service has not executed yet it may execute late.       *)
(***************************************************************************)
Aborting(o, s) ==
  CASE o.kind = "open" -> [s EXCEPT !.state = "failed"]
    [] o.kind = "rebind" /\ o.request.verb = "import" -> Removed(s, "other", o.next)
    [] o.kind = "rebind" /\ o.request.verb = "delete" -> Thrown(Removed(s, "other", o.request.ctx), o.error)
    [] OTHER -> s

Underway(o) == IF o.answer.code = "none" /\ o.request.verb # "none" THEN {o.request} ELSE {}

(* A request abandoned beyond the bound never reaches the service.          *)
Abandon(requests) ==
  late' = IF Cardinality(late \cup requests) > MaxLate THEN late ELSE late \cup requests

StagingLost(o) == o.kind = "rebind" /\ o.error = "not_found"

(* Mutant: the deletion after the cutover does not obey the deadline.       *)
AbortExceptCleanup ==
  /\ op # Free
  /\ op.request.verb # "delete"
  /\ op' = Free
  /\ sess' = Aborting(op, sess)
  /\ Abandon(Underway(op))
  /\ UNCHANGED <<closing, bodies, service, ghost>>

Abort ==
  /\ op # Free
  /\ op' = Free
  /\ sess' = Aborting(op, sess)
  /\ Abandon(Underway(op))
  /\ ghost' = [ghost EXCEPT !.misjudged = @ \/ StagingLost(op)]
  /\ UNCHANGED <<closing, bodies, service>>

(* The connection fails: the call rejects, the operation is not aborted.    *)
ConnectionLost ==
  /\ op.request.verb # "none" /\ op.answer.code \in {"none", "ok"}
  /\ op' = [op EXCEPT !.answer = Failure("other")]
  /\ Abandon(Underway(op))
  /\ UNCHANGED <<sess, closing, bodies, service, ghost>>

(* The completion of an exchange: a context that ended under it ends it     *)
(* with CONTEXT_NOT_FOUND.                                                  *)
BodyEnds(c, code) ==
  /\ bodies[c] > 0
  /\ code = "not_found" => ~ Alive(c)
  /\ bodies' = [bodies EXCEPT ![c] = @ - 1]
  /\ sess' = MarkLost(sess, code, c)
  /\ UNCHANGED <<op, closing, late, service, ghost>>

(***************************************************************************)
(* close().                                                                *)
(***************************************************************************)
NoBodies == \A c \in Contexts : bodies[c] = 0

(* The lifetime stops accepting; without a drain what runs is aborted.  A   *)
(* close after a failed one finds the lifetime closed already.              *)
Close(drain) ==
  /\ sess.state \in {"open", "closed"}
  /\ closing.stage \in {"none", "failed"}
  /\ closing.tries < MaxCloses
  /\ closing' = [stage |-> "stopping", drain |-> drain, expired |-> FALSE, pending |-> {},
                 failed |-> FALSE, tries |-> closing.tries + 1]
  /\ LET s == [sess EXCEPT !.state = "closed"]
     IN IF drain THEN sess' = s /\ UNCHANGED <<op, bodies, late, ghost>>
        ELSE /\ sess' = Aborting(op, s)
             /\ op' = Free
             /\ Abandon(Underway(op))
             /\ bodies' = [c \in Contexts |-> 0]
             /\ ghost' = [ghost EXCEPT !.misjudged = @ \/ StagingLost(op)]
  /\ UNCHANGED service

(* The drain's time is over.                                                *)
DrainEnds ==
  /\ closing.stage = "stopping" /\ closing.drain
  /\ closing' = [closing EXCEPT !.drain = FALSE]
  /\ sess' = Aborting(op, sess)
  /\ op' = Free
  /\ Abandon(Underway(op))
  /\ bodies' = [c \in Contexts |-> 0]
  /\ ghost' = [ghost EXCEPT !.misjudged = @ \/ StagingLost(op)]
  /\ UNCHANGED service

(* The close's own deadline passes.                                         *)
CloseExpires ==
  /\ closing.stage \in {"stopping", "removing"} /\ ~ closing.expired
  /\ closing' = [closing EXCEPT !.expired = TRUE]
  /\ UNCHANGED <<op, sess, bodies, late, service, ghost>>

(* Everything settled: every owned context is deleted, in parallel.         *)
Stopped ==
  /\ closing.stage = "stopping"
  /\ op = Free /\ NoBodies
  /\ closing' = IF closing.expired THEN [closing EXCEPT !.stage = "failed"]
                ELSE [closing EXCEPT !.stage = "removing", !.pending = sess.cleanup]
  /\ UNCHANGED <<op, sess, bodies, late, service, ghost>>

Deletion(c) == Request("delete", c, 0, {})

(* A deletion is answered: done, or refused by the service.                 *)
CloseRemoves(c) ==
  /\ closing.stage = "removing" /\ c \in closing.pending
  /\ \E x \in Executions(Deletion(c)) :
       /\ service' = x[1]
       /\ sess' = Removed(sess, x[2].code, c)
       /\ closing' = [closing EXCEPT !.pending = @ \ {c},
                                     !.failed = @ \/ x[2].code \notin {"ok", "not_found"}]
  /\ UNCHANGED <<op, bodies, late, ghost>>

(* Its answer is lost or comes too late: executed now, later or never.      *)
CloseLosesAnswer(c) ==
  /\ closing.stage = "removing" /\ c \in closing.pending
  /\ sess' = Removed(sess, "other", c)
  /\ closing' = [closing EXCEPT !.pending = @ \ {c}, !.failed = TRUE]
  /\ Abandon({Deletion(c)})
  /\ UNCHANGED <<op, bodies, service, ghost>>

CloseDone ==
  /\ closing.stage = "removing" /\ closing.pending = {}
  /\ closing' = [closing EXCEPT !.stage = IF closing.failed THEN "failed" ELSE "done"]
  /\ UNCHANGED <<op, sess, bodies, late, service, ghost>>

Turn == \/ \E unwanted \in BOOLEAN : Opened(unwanted)
        \/ Got \/ Written("set") \/ Written("import") \/ Headed
        \/ RebindExported \/ RebindCreated \/ RebindImported \/ RebindRemoved
        \/ Failed

Closing == Stopped \/ CloseDone \/ \E c \in Contexts : CloseRemoves(c) \/ CloseLosesAnswer(c)

Next ==
  \/ \E kind \in {"get", "set", "import", "stream", "rebind"} : Start(kind)
  \/ Turn
  \/ Abort
  \/ ConnectionLost
  \/ Execute
  \/ \E r \in late : ExecuteLate(r)
  \/ \E c \in Contexts : ContextEnds(c)
  \/ \E c \in Contexts, code \in {"ok", "not_found", "other"} : BodyEnds(c, code)
  \/ \E drain \in BOOLEAN : Close(drain)
  \/ DrainEnds
  \/ CloseExpires
  \/ Closing

Spec == Init /\ [][Next]_vars

(* Deadlines fire: the operation's, the drain's and the one of each         *)
(* deletion; the event loop runs.                                           *)
FairSpec == Spec /\ WF_vars(Abort) /\ WF_vars(DrainEnds) /\ WF_vars(Closing)

(***************************************************************************)
(* Properties.                                                             *)
(***************************************************************************)

(* Every context the SDK has ever been told of and that still exists is in  *)
(* the cleanup set, through failed rebinds, lost answers and failed closes; *)
(* a close that succeeded left none (sessions.ts, cleanup; README.md:187).  *)
KnownContextsOwned ==
  /\ sess.cleanup \subseteq ghost.known
  /\ \A c \in ghost.known : Alive(c) => c \in sess.cleanup
  /\ closing.stage = "done" => \A c \in ghost.known : ~ Alive(c)
  /\ \A c \in Contexts : bodies[c] \in 0..MaxBodies

(* A cookie write the application was told of, since it last asked for the  *)
(* jar to be replaced, is in the jar of the context the session uses, also  *)
(* after a change of identity: no write given up earlier is applied over it *)
(* later.  The session never runs ahead of the service's revision, and an   *)
(* answer of a correct service never trips its revision checks              *)
(* (expectedRevision, applyRevision, rebindIdentity).                       *)
AcknowledgedSurvive ==
  /\ Alive(sess.ctx) => ghost.acked \subseteq service[sess.ctx].jar
  /\ sess.ctx \in Contexts => sess.revision <= service[sess.ctx].revision
  /\ ~ ghost.alarm

(* The session calls itself lost only when the context it uses is gone: an  *)
(* exchange of the previous context that ends after a rebind does not count *)
(* (markLost).  The two exceptions are a staged context that vanished       *)
(* before its import, an error mutate attributes to the context in use, and *)
(* a context lost while it was being replaced: the cutover keeps the mark.  *)
LostMeansGone == sess.lost => ~ Alive(sess.ctx) \/ ghost.misjudged

(* Every operation gives the permit back and every close ends, done or      *)
(* ready for another attempt, whatever the service answers or loses.        *)
OperationsSettle ==
  /\ (op # Free) ~> (op = Free)
  /\ (closing.stage \in {"stopping", "removing"}) ~> (closing.stage \in {"failed", "done"})
=============================================================================
