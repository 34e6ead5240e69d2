----------------------------- MODULE SyncBridge ----------------------------
(***************************************************************************)
(* The synchronous client (sync/index.ts) and its worker (sync/worker.ts). *)
(* The parent thread blocks in Atomics.wait on a shared generation word;   *)
(* commands and replies cross a MessageChannel.  Every access to shared    *)
(* memory is a step of its own.  The worker runs event-loop turns: a turn  *)
(* is a list (todo) of the shared accesses it still has to make, and no    *)
(* other event of the worker is handled before the list is empty.          *)
(***************************************************************************)
EXTENDS SyncBatch

CONSTANTS
  MaxCalls,    \* bound: calls the application makes
  MaxBatches,  \* bound: only the first MaxBatches calls may be batches
  ChunkSizes,  \* sizes of a chunk of a response body
  Operations   \* the operations the application uses

(* The operations the two sides treat differently: request stands for every *)
(* plain operation, sessionRequest for every one of an open session.        *)
Commands == {"request", "requestMany", "createSession", "sessionRequest", "sessionClose", "close"}

ASSUME BridgeAssumption ==
  /\ MaxCalls \in Nat
  /\ ChunkSizes \subseteq Nat
  /\ Operations \subseteq Commands

VARIABLES
  parent,      \* the parent thread: where it is in #receive, the call it makes
  client,      \* the fields of Ja3ProxySyncClient
  signal,      \* the shared Int32Array: generation and worker state
  toWorker,    \* commands in the channel
  toParent,    \* replies in the channel
  worker,      \* the worker thread
  batch,       \* the local state of batch()
  session,     \* a session: the application's handle, the remote context
  dispatched,  \* history: ids of the commands the worker handed to the core
  report       \* history: what each call told the application

vars == <<parent, client, signal, toWorker, toParent, worker, batch, session, dispatched, report>>

Ids == 1..MaxCalls
NoRun == [id |-> 0, op |-> "none"]
Start == [id |-> 0, op |-> "start"]

(* An error of the bridge itself says whether the call may have had effects: *)
(* localError reports not_started, uncertainError possibly_sent.             *)
LocalError == "not_started"
UncertainError == "possibly_sent"

Init ==
  /\ parent = [pc |-> "load", id |-> 0, op |-> "start", gen |-> 0, due |-> FALSE, packet |-> <<>>]
  /\ client = [closing |-> FALSE, closed |-> FALSE, complete |-> FALSE, failure |-> "none"]
  /\ signal = [gen |-> 0, state |-> 0]
  /\ toWorker = <<>>
  /\ toParent = <<>>
  /\ worker = [life |-> "boot", todo |-> <<>>, stopped |-> FALSE, busy |-> FALSE, active |-> 0,
               run |-> NoRun, abort |-> FALSE, port |-> TRUE, seen |-> FALSE]
  /\ batch = NoBatch
  /\ session = [handle |-> "none", remote |-> "none"]
  /\ dispatched = {}
  /\ report = [i \in Ids |-> "pending"]

(***************************************************************************)
(* The parent thread.                                                      *)
(***************************************************************************)

(* A closed port, or one whose other end is gone, drops what is posted.     *)
Send(op) ==
  /\ parent' = [parent EXCEPT !.pc = "load", !.id = @ + 1, !.op = op, !.due = FALSE]
  /\ toWorker' = IF worker.port /\ worker.life # "gone"
                 THEN Append(toWorker, [id |-> parent.id + 1, op |-> op]) ELSE toWorker

(* #call: a closed client and, once closing, every operation but the two    *)
(* closes are refused before anything is posted.                            *)
CallAllowed(op) ==
  /\ ~client.closed
  /\ client.closing => op \in {"close", "sessionClose"}

(* The guards of RemoteSession.invoke; a session has to exist first.        *)
SessionAllowed(op) ==
  /\ op = "createSession" => session.handle = "none"
  /\ op = "sessionRequest" => session.handle = "open"
  /\ op = "sessionClose" => session.handle \in {"open", "closing"}

WithinBounds(op) == parent.id < MaxCalls /\ (op = "requestMany" => parent.id < MaxBatches)

(* close() and a session's close() set their closing flag before the call.  *)
Call(op) ==
  /\ parent.pc = "idle"
  /\ WithinBounds(op)
  /\ CallAllowed(op)
  /\ SessionAllowed(op)
  /\ Send(op)
  /\ client' = [client EXCEPT !.closing = @ \/ op = "close"]
  /\ session' = IF op = "sessionClose" THEN [session EXCEPT !.handle = "closing"] ELSE session
  /\ UNCHANGED <<signal, toParent, worker, batch, dispatched, report>>

(* postMessage threw: the client is given up before anything was posted.    *)
CallNotCloned(op) ==
  /\ parent.pc = "idle"
  /\ WithinBounds(op)
  /\ op \in {"request", "requestMany", "createSession"}
  /\ CallAllowed(op)
  /\ SessionAllowed(op)
  /\ parent' = [parent EXCEPT !.id = @ + 1, !.op = op]
  /\ client' = [client EXCEPT !.closed = TRUE, !.failure = LocalError]
  /\ report' = [report EXCEPT ![parent.id + 1] = LocalError]
  /\ UNCHANGED <<signal, toWorker, toParent, worker, batch, session, dispatched>>

(* A session closed after a successful close of the client needs no call;   *)
(* after a failed one the call throws, with the handle left closing.        *)
CloseSessionLocally ==
  /\ parent.pc = "idle"
  /\ client.closed
  /\ session.handle \in {"open", "closing"}
  /\ session' = [session EXCEPT !.handle = IF client.complete THEN "closed" ELSE "closing"]
  /\ UNCHANGED <<parent, client, signal, toWorker, toParent, worker, batch, dispatched, report>>

(* What the call in progress tells the application; id 0 is the constructor.*)
Return(what) ==
  /\ parent' = [parent EXCEPT !.pc = "idle", !.gen = 0, !.due = FALSE, !.packet = <<>>]
  /\ report' = IF parent.id = 0 THEN report ELSE [report EXCEPT ![parent.id] = what]

Fail(failure) ==
  /\ client' = [client EXCEPT !.closed = TRUE, !.failure = failure]
  /\ Return(failure)

LoadGeneration ==
  /\ parent.pc = "load"
  /\ parent' = [parent EXCEPT !.pc = "poll", !.gen = signal.gen]
  /\ UNCHANGED <<client, signal, toWorker, toParent, worker, batch, session, dispatched, report>>

(* receiveMessageOnPort.                                                    *)
Poll ==
  /\ parent.pc = "poll"
  /\ IF toParent = <<>>
     THEN parent' = [parent EXCEPT !.pc = "check"] /\ UNCHANGED toParent
     ELSE /\ parent' = [parent EXCEPT !.pc = "decode", !.packet = <<Head(toParent)>>]
          /\ toParent' = Tail(toParent)
  /\ UNCHANGED <<client, signal, toWorker, worker, batch, session, dispatched, report>>

(* A packet with another id ends the bridge.                                *)
DecodeForeign ==
  /\ parent.pc = "decode"
  /\ parent.packet[1].id # parent.id
  /\ Fail(LocalError)
  /\ UNCHANGED <<signal, toWorker, toParent, worker, batch, session, dispatched>>

(* Mutant: a failed close of a session is taken for a successful one.       *)
HandleAfterAnyReply(op, kind) ==
  CASE op = "createSession" -> "open"
    [] op = "sessionClose" -> "closed"
    [] OTHER -> session.handle

(* What a session's handle becomes with a reply: a close that failed leaves *)
(* it closing.                                                              *)
HandleAfter(op, kind) ==
  CASE op = "createSession" -> "open"
    [] op = "sessionClose" /\ kind = "value" -> "closed"
    [] OTHER -> session.handle

(* A value; what close, createSession and sessionClose do with it follows   *)
(* in the same turn.                                                        *)
DecodeValue ==
  /\ parent.pc = "decode"
  /\ parent.packet[1].id = parent.id
  /\ parent.packet[1].kind \in {"value", "sessionError"}
  /\ LET kind == parent.packet[1].kind
         op == parent.op
     IN /\ client' = IF op = "close" THEN [client EXCEPT !.complete = TRUE, !.closed = TRUE] ELSE client
        /\ session' = [session EXCEPT !.handle = HandleAfter(op, kind)]
        /\ Return(IF kind = "value" THEN "value" ELSE "error")
  /\ UNCHANGED <<signal, toWorker, toParent, worker, batch, dispatched>>

(* An error; it ends the bridge when the worker stopped or could not start. *)
DecodeError ==
  /\ parent.pc = "decode"
  /\ parent.packet[1].id = parent.id
  /\ parent.packet[1].kind \in {"error", "fatal"}
  /\ LET failure == IF parent.packet[1].kind = "fatal" THEN UncertainError ELSE "error"
     IN /\ client' = IF signal.state = 2 \/ parent.op = "start"
                     THEN [client EXCEPT !.closed = TRUE, !.failure = failure] ELSE client
        /\ Return(failure)
  /\ UNCHANGED <<signal, toWorker, toParent, worker, batch, session, dispatched>>

(* Nothing received: a failure recorded by an event handler, the worker's   *)
(* state word and the deadline are looked at, in this order.                *)
CheckFailed ==
  /\ parent.pc = "check"
  /\ client.failure # "none" \/ signal.state = 2
  /\ Fail(IF client.failure # "none" THEN client.failure
          ELSE IF parent.op = "start" THEN LocalError ELSE UncertainError)
  /\ UNCHANGED <<signal, toWorker, toParent, worker, batch, session, dispatched>>

(* Mutant: a timeout reports not_started for a call already posted.         *)
CheckDeadlineLocal ==
  /\ parent.pc = "check"
  /\ client.failure = "none" /\ signal.state # 2
  /\ parent.due
  /\ Fail(LocalError)
  /\ UNCHANGED <<signal, toWorker, toParent, worker, batch, session, dispatched>>

CheckDeadline ==
  /\ parent.pc = "check"
  /\ client.failure = "none" /\ signal.state # 2
  /\ parent.due
  /\ Fail(IF parent.op = "start" THEN LocalError ELSE UncertainError)
  /\ UNCHANGED <<signal, toWorker, toParent, worker, batch, session, dispatched>>

CheckWaits ==
  /\ parent.pc = "check"
  /\ client.failure = "none" /\ signal.state # 2
  /\ ~parent.due
  /\ parent' = [parent EXCEPT !.pc = "wait"]
  /\ UNCHANGED <<client, signal, toWorker, toParent, worker, batch, session, dispatched, report>>

(* Atomics.wait compares and sleeps in one step, until the deadline.        *)
Wait ==
  /\ parent.pc = "wait"
  /\ parent' = [parent EXCEPT !.pc = IF signal.gen = parent.gen /\ ~parent.due THEN "asleep" ELSE "load"]
  /\ UNCHANGED <<client, signal, toWorker, toParent, worker, batch, session, dispatched, report>>

(* Mutant: the wait has no timeout.                                         *)
ExpireUnseen ==
  /\ parent.pc # "idle"
  /\ ~parent.due
  /\ parent' = [parent EXCEPT !.due = TRUE]
  /\ UNCHANGED <<client, signal, toWorker, toParent, worker, batch, session, dispatched, report>>

(* The deadline of the call passes; a sleeping parent wakes up for it.      *)
Expire ==
  /\ parent.pc # "idle"
  /\ ~parent.due
  /\ parent' = [parent EXCEPT !.due = TRUE, !.pc = IF @ = "asleep" THEN "load" ELSE @]
  /\ UNCHANGED <<client, signal, toWorker, toParent, worker, batch, session, dispatched, report>>

(* The parent's 'exit' handler, with an 'error' before it when the thread   *)
(* died of an exception.  It runs only while no call blocks the parent.     *)
WorkerGone(errored) ==
  /\ parent.pc = "idle"
  /\ worker.life = "gone" /\ ~worker.seen
  /\ worker' = [worker EXCEPT !.seen = TRUE]
  /\ client' = IF client.failure = "none" /\ (errored \/ ~client.closed)
               THEN [client EXCEPT !.failure = UncertainError] ELSE client
  /\ signal' = [gen |-> signal.gen + 1, state |-> 2]
  /\ UNCHANGED <<parent, toWorker, toParent, batch, session, dispatched, report>>

(***************************************************************************)
(* The worker thread.                                                      *)
(***************************************************************************)
Act(what) == [do |-> what, packet |-> <<>>]

(* Mutant: the parent is notified before the message is posted.             *)
ReplyNotifiesFirst(id, kind) ==
  <<Act("add"), Act("notify"), [do |-> "post", packet |-> <<[id |-> id, kind |-> kind]>>]>>

(* reply(): post, then advance the generation, then notify.                 *)
Reply(id, kind) == <<[do |-> "post", packet |-> <<[id |-> id, kind |-> kind]>>], Act("add"), Act("notify")>>

Stop == <<Act("stop"), Act("add"), Act("notify"), Act("close")>>

(* fatal(): once stopped it does nothing.                                   *)
Fatal(id) == IF worker.stopped THEN <<>> ELSE Reply(id, "fatal") \o Stop

(* One access to shared state; a notification wakes a sleeping parent.      *)
Step ==
  /\ worker.todo # <<>>
  /\ LET a == Head(worker.todo)
         w == [worker EXCEPT !.todo = Tail(@)]
     IN /\ worker' = CASE a.do = "stop" -> [w EXCEPT !.stopped = TRUE]
                       [] a.do = "close" -> [w EXCEPT !.port = FALSE]
                       [] a.do = "free" -> [w EXCEPT !.busy = FALSE, !.abort = FALSE]
                       [] OTHER -> w
        /\ toParent' = IF a.do = "post" /\ worker.port /\ ~client.closed
                       THEN Append(toParent, a.packet[1]) ELSE toParent
        /\ signal' = CASE a.do = "ready" -> [signal EXCEPT !.state = 1]
                       [] a.do = "stop" -> [signal EXCEPT !.state = 2]
                       [] a.do = "add" -> [signal EXCEPT !.gen = @ + 1]
                       [] OTHER -> signal
        /\ parent' = IF a.do = "notify" /\ parent.pc = "asleep"
                     THEN [parent EXCEPT !.pc = "load"] ELSE parent
  /\ UNCHANGED <<client, toWorker, batch, session, dispatched, report>>

WorkerIdle == worker.life = "up" /\ worker.todo = <<>>

(* The module body of the worker: the client is built, or it could not be.  *)
Boot(ok) ==
  /\ worker.life = "boot"
  /\ worker' = [worker EXCEPT !.life = "up",
                  !.todo = IF ok THEN <<Act("ready")>> \o Reply(0, "value") ELSE Reply(0, "error") \o Stop]
  /\ UNCHANGED <<parent, client, signal, toWorker, toParent, batch, session, dispatched, report>>

(* port.on('message').                                                      *)
Receive ==
  /\ WorkerIdle
  /\ toWorker # <<>>
  /\ LET c == Head(toWorker)
     IN IF worker.stopped THEN UNCHANGED <<worker, batch, dispatched>>
        ELSE IF worker.busy THEN
          worker' = [worker EXCEPT !.todo = Fatal(worker.active)] /\ UNCHANGED <<batch, dispatched>>
        ELSE /\ worker' = [worker EXCEPT !.busy = TRUE, !.active = c.id, !.run = c]
             /\ batch' = IF c.op = "requestMany" THEN StartBatch ELSE NoBatch
             /\ dispatched' = dispatched \cup {c.id}
  /\ toWorker' = Tail(toWorker)
  /\ UNCHANGED <<parent, client, signal, toParent, session, report>>

(* The worker's own timer aborts the operation of the core.                 *)
AbortTimer ==
  /\ WorkerIdle
  /\ worker.run # NoRun /\ ~worker.abort
  /\ worker' = [worker EXCEPT !.abort = TRUE]
  /\ UNCHANGED <<parent, client, signal, toWorker, toParent, batch, session, dispatched, report>>

(* A turn of batch().                                                       *)
BatchTurn ==
  /\ WorkerIdle
  /\ worker.run.op = "requestMany"
  /\ \E l \in Lanes :
       LET phase == batch.lane[l].phase
       IN \/ phase = "opening" /\ ~worker.abort /\ batch' = Opened(batch, l)
          \/ phase = "opening" /\ batch' = Settle(batch, l, "error", worker.abort)
          \/ phase = "reading" /\ ~worker.abort
             /\ \/ \E size \in ChunkSizes : batch' = ReadChunk(batch, l, size)
                \/ \E compact \in BOOLEAN : batch' = Assemble(batch, l, compact)
          \/ phase = "reading" /\ batch' = Refund(batch, l)
          \/ phase = "closing" /\ batch' = Closed(batch, l, worker.abort)
  /\ UNCHANGED <<parent, client, signal, toWorker, toParent, worker, session, dispatched, report>>

(* What dispatch() settles with.  A session operation wraps its error into  *)
(* a result; every other error is an error reply.                           *)
Outcomes(op) ==
  CASE op = "requestMany" -> IF AllDone(batch) THEN {"value"} ELSE {}
    [] op \in {"sessionRequest", "sessionClose"} -> {"value", "sessionError"}
    [] OTHER -> {"value", "error"}

(* The turn in which the promise settles: the reply, the stop after a       *)
(* close, and the finally that frees the worker.                            *)
Settlement(run, kind) ==
  Reply(run.id, kind)
    \o (IF run.op = "close" /\ kind = "value" /\ ~worker.stopped THEN Stop ELSE <<>>)
    \o <<Act("free")>>

(* The promise of dispatch() settles.                                       *)
Finish ==
  /\ WorkerIdle
  /\ worker.run # NoRun
  /\ \E kind \in Outcomes(worker.run.op) :
       LET op == worker.run.op
       IN /\ worker' = [worker EXCEPT !.run = NoRun, !.todo = Settlement(worker.run, kind)]
          /\ session' = IF kind # "value" THEN session
                        ELSE [session EXCEPT !.remote =
                                CASE op = "createSession" -> "live"
                                  [] op \in {"sessionClose", "close"} /\ @ = "live" -> "deleted"
                                  [] OTHER -> @]
  /\ batch' = NoBatch
  /\ UNCHANGED <<parent, client, signal, toWorker, toParent, dispatched, report>>

(* An uncaught exception, an unhandled rejection or a message error.        *)
Uncaught ==
  /\ WorkerIdle
  /\ ~worker.stopped
  /\ worker' = [worker EXCEPT !.todo = Fatal(worker.active)]
  /\ UNCHANGED <<parent, client, signal, toWorker, toParent, batch, session, dispatched, report>>

(* The thread ends: it crashed, was terminated by #release, or has nothing  *)
(* left to do.  It may end between any two accesses.                        *)
WorkerEnds ==
  /\ worker.life # "gone"
  /\ worker' = [worker EXCEPT !.life = "gone", !.todo = <<>>, !.run = NoRun]
  /\ batch' = NoBatch
  /\ UNCHANGED <<parent, client, signal, toWorker, toParent, session, dispatched, report>>

Receiving == LoadGeneration \/ Poll \/ DecodeForeign \/ DecodeValue \/ DecodeError
             \/ CheckFailed \/ CheckDeadline \/ CheckWaits \/ Wait

Next ==
  \/ \E op \in Operations : Call(op) \/ CallNotCloned(op)
  \/ CloseSessionLocally
  \/ Receiving
  \/ Expire
  \/ \E errored \in BOOLEAN : WorkerGone(errored)
  \/ Step
  \/ \E ok \in BOOLEAN : Boot(ok)
  \/ Receive
  \/ AbortTimer
  \/ BatchTurn
  \/ Finish
  \/ Uncaught
  \/ WorkerEnds

Spec == Init /\ [][Next]_vars

(* The parent's thread runs and its clock advances; nothing is assumed of   *)
(* the worker.                                                              *)
FairSpec == Spec /\ WF_vars(Receiving) /\ WF_vars(Expire)

(***************************************************************************)
(* Properties.                                                             *)
(***************************************************************************)

(* The state is well formed, and the two byte budgets of a batch count      *)
(* exactly what its lanes and its answers hold; a batch that replies has an *)
(* answer for every request (batch(), worker.ts).  The worker never meets a *)
(* command while it is busy with another one, so its overlap check never    *)
(* ends a healthy bridge (port.on('message'), worker.ts).                   *)
BatchAccounted ==
  /\ parent.pc \in {"idle", "load", "poll", "decode", "check", "wait", "asleep"}
  /\ parent.id \in 0..MaxCalls
  /\ worker.life \in {"boot", "up", "gone"}
  /\ signal.state \in 0..2
  /\ dispatched \subseteq Ids
  /\ report \in [Ids -> {"pending", "value", "error", LocalError, UncertainError}]
  /\ BatchTypeOK(batch)
  /\ BudgetsMatch(batch)
  /\ AllDone(batch) /\ worker.run.op = "requestMany" => \A i \in 1..BatchSize : batch.output[i] # "none"
  /\ WorkerIdle /\ ~worker.stopped /\ toWorker # <<>> => ~worker.busy

(* A call that told the application not_started was not, and will not be,   *)
(* handed to the core by the worker; one that returned a value was.  The    *)
(* caller repeats a call on the strength of it (#receive, uncertainError).  *)
DeliveryHonest ==
  \A i \in Ids : /\ report[i] = LocalError => i \notin dispatched
                 /\ report[i] = "value" => i \in dispatched

(* The parent never sleeps on a reply, or on a worker that stopped, unless  *)
(* the worker is about to notify it or has died before it could (the        *)
(* comment above Atomics.wait in #receive).                                 *)
NoLostWakeup ==
  parent.pc = "asleep" /\ worker.life # "gone" /\ (toParent # <<>> \/ signal.state = 2)
    => \E k \in DOMAIN worker.todo : worker.todo[k].do = "notify"

(* A close that returned to the application, of the session or of the       *)
(* client, left no remote context behind; a failed one keeps the handle     *)
(* open for another close (cleanupComplete, RemoteSession.close).           *)
CloseMeansClean ==
  /\ client.complete => session.remote # "live"
  /\ session.handle = "closed" => session.remote = "deleted"
  /\ session.handle = "open" /\ ~client.closed /\ ~client.closing => session.remote = "live"

(* Every call returns, whatever the worker does: it is killed, hangs or     *)
(* dies between a reply and its notification (the deadline in #receive).    *)
CallsReturn == (parent.pc # "idle") ~> (parent.pc = "idle")
=============================================================================
