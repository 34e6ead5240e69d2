------------------------------ MODULE Requests ------------------------------
(***************************************************************************)
(* The life of POST /request in the service: the handler that reads the    *)
(* envelope and registers the request (handlers.rs), the worker task that  *)
(* executes it under cancellation and a deadline, the response stream the  *)
(* client reads, and the registry that keeps statuses (registry.rs).       *)
(*                                                                         *)
(* A member of Requests is one HTTP exchange; IdOf gives its registry key  *)
(* (principal, partition, request id), so two exchanges may reuse an id.   *)
(* Admission is present through what it promises, module AdmissionQueue.   *)
(*                                                                         *)
(* The worker is a future that is polled.  select! is biased: a poll looks *)
(* at the cancellation token, then at the deadline, and only then runs     *)
(* execute() until it has to wait; a token set or a deadline passed in the *)
(* middle of a poll is seen by the next one.                               *)
(***************************************************************************)
EXTENDS Naturals, Sequences, FiniteSets

CONSTANTS
  Requests, Ids, IdOf, Partitions, PartitionOf,
  ActiveLimit, PartitionActiveLimit, QueueLimit, PartitionQueueLimit,
  Capacity,       (* Registry::capacity                                     *)
  EnvelopeLimit,  (* permits of the envelopes semaphore                     *)
  MaxChunks       (* bound: data frames of one response                     *)

(* Config::from_env: positive limits, and a registry with room for every    *)
(* request that may run or wait.                                            *)
ASSUME RequestsAssumption ==
  /\ IsFiniteSet(Requests)
  /\ IdOf \in [Requests -> Ids]
  /\ PartitionOf \in [Requests -> Partitions]
  /\ ActiveLimit \in Nat \ {0} /\ PartitionActiveLimit \in 1..ActiveLimit
  /\ QueueLimit \in Nat \ {0} /\ PartitionQueueLimit \in 1..QueueLimit
  /\ Capacity \in Nat /\ Capacity >= ActiveLimit + QueueLimit
  /\ EnvelopeLimit \in Nat \ {0}
  /\ MaxChunks \in Nat

VARIABLES
  rec,      (* each request's RequestRecord                                 *)
  records,  (* Registry.records: the requests whose record is kept          *)
  worker,   (* where the handler, then the worker task, of a request is     *)
  resp,     (* the channel, the terminal slot and the client reading them   *)
  late,     (* executing requests whose deadline has passed                 *)
  sent,     (* requests the HTTP client may have put on the wire            *)
  permits,  (* free permits of AppState.envelopes                           *)
  running, waiting,  (* admission                                           *)
  serving   (* how far main() is with its shutdown                          *)

vars == <<rec, records, worker, resp, late, sent, permits, running, waiting, serving>>

Admission == INSTANCE AdmissionQueue WITH
  Tickets <- Requests, Keys <- Partitions, KeyOf <- PartitionOf

-----------------------------------------------------------------------------
(* worker[r].at.  In Executing the future execute() exists; polled says     *)
(* that it is being polled.                                                 *)
Executing == {"waiting", "preparing", "upstream", "head", "body", "chunk"}
Ending == {"ending", "finished", "published"}
Locations == {"new", "envelope", "registered", "refused", "closed"} \cup Executing \cup Ending

Errors == {"Cancelled", "Timeout", "Busy", "Failed"}
Outcomes == {"none", "complete"} \cup Errors

At(r) == worker[r].at
Polled(r) == At(r) \in Executing /\ worker[r].polled
Registered(r) == rec[r].phase # "absent"
Unfinished(r) == Registered(r) /\ rec[r].outcome = "none"

NoRecord == [phase |-> "absent", delivery |-> "not_started", outcome |-> "none",
             cancelled |-> FALSE, aged |-> FALSE]

Idle == [at |-> "new", polled |-> FALSE, joined |-> {}, chunks |-> 0, result |-> "none"]

Init ==
  /\ rec = [r \in Requests |-> NoRecord]
  /\ records = {}
  /\ worker = [r \in Requests |-> Idle]
  /\ resp = [r \in Requests |->
       [chan |-> <<>>, terminal |-> "none", reader |-> "none", got |-> <<>>]]
  /\ late = {}
  /\ sent = {}
  /\ permits = EnvelopeLimit
  /\ Admission!Init
  /\ serving = "up"

(* RequestRecord::finish: only the first call has an effect.                *)
FinishedAgain(p, outcome) ==
  [p EXCEPT !.outcome = outcome, !.phase = IF outcome = "complete" THEN "complete" ELSE @]

Finished(p, outcome) ==
  IF p.outcome # "none" THEN p
  ELSE [p EXCEPT !.outcome = outcome, !.phase = IF outcome = "complete" THEN "complete" ELSE @]

(* RequestRecord::update: no effect once finished.                          *)
Updated(p, phase, delivery) ==
  IF p.outcome # "none" THEN p ELSE [p EXCEPT !.phase = phase, !.delivery = delivery]

(* Registry::retain_recent.                                                 *)
RecentFinished == {r \in records : rec[r].outcome # "none" /\ ~rec[r].aged}

Recent == {r \in records : ~rec[r].aged}

-----------------------------------------------------------------------------
(* request_handler, up to the spawn.                                        *)

AcquirePermit == permits' = permits - 1

KeepPermit == UNCHANGED permits
ReleasePermit == permits' = permits + 1

Arrive(r) ==
  /\ At(r) = "new"
  /\ serving \in {"up", "cancelling"}
  /\ IF permits > 0
     THEN AcquirePermit /\ worker' = [worker EXCEPT ![r].at = "envelope"]
     ELSE permits' = permits /\ worker' = [worker EXCEPT ![r].at = "refused"]
  /\ UNCHANGED <<rec, records, resp, late, sent, running, waiting, serving>>

(* An error response, or a client gone, before the request is registered.   *)
EnvelopeFails(r) ==
  /\ At(r) = "envelope"
  /\ worker' = [worker EXCEPT ![r].at = "refused"]
  /\ ReleasePermit
  /\ UNCHANGED <<rec, records, resp, late, sent, running, waiting, serving>>

Duplicate(r) == \E s \in Recent : IdOf[s] = IdOf[r]

HasRoom == Cardinality(Recent) < Capacity

Register(r) ==
  /\ At(r) = "envelope"
  /\ ~Duplicate(r)
  /\ HasRoom
  /\ records' = Recent \cup {r}
  /\ rec' = [rec EXCEPT ![r].phase = "queued"]
  /\ worker' = [worker EXCEPT ![r].at = "registered"]
  /\ UNCHANGED <<resp, late, sent, permits, running, waiting, serving>>

(* DuplicateRequest, or Busy for want of room.                              *)
RegisterRefused(r) ==
  /\ At(r) = "envelope"
  /\ Duplicate(r) \/ ~HasRoom
  /\ records' = Recent
  /\ worker' = [worker EXCEPT ![r].at = "refused"]
  /\ ReleasePermit
  /\ UNCHANGED <<rec, resp, late, sent, running, waiting, serving>>

(* Admission::enter, drop(envelope), spawn of the worker, response returned.*)
Enter(r) ==
  /\ At(r) = "registered"
  /\ Admission!Admit(r) \/ Admission!Queue(r)
  /\ ReleasePermit
  /\ worker' = [worker EXCEPT ![r].at = "waiting"]
  /\ resp' = [resp EXCEPT ![r].reader = "open"]
  /\ UNCHANGED <<rec, records, late, sent, serving>>

EnterRefused(r) ==
  /\ At(r) = "registered"
  /\ Admission!Refuse(r)
  /\ rec' = [rec EXCEPT ![r] = Finished(@, "Busy")]
  /\ ReleasePermit
  /\ worker' = [worker EXCEPT ![r].at = "refused"]
  /\ UNCHANGED <<records, resp, late, sent, serving>>

-----------------------------------------------------------------------------
(* The worker.  The end of execute() drops the ticket with everything else  *)
(* the future owns.                                                         *)

Release(r) ==
  IF r \in running THEN Admission!Finish(r) ELSE Admission!GiveUp(r)

Ends(r, result) ==
  /\ worker' = [worker EXCEPT ![r] = [Idle EXCEPT !.at = "ending", !.result = result]]
  /\ late' = late \ {r}
  /\ Release(r)

(* One poll of the select!.                                                 *)
Poll(r) ==
  /\ At(r) \in Executing /\ ~worker[r].polled
  /\ ~rec[r].cancelled
  /\ r \notin late
  /\ worker' = [worker EXCEPT ![r].polled = TRUE]
  /\ UNCHANGED <<rec, records, resp, late, sent, permits, running, waiting, serving>>

PollCancelled(r) ==
  /\ At(r) \in Executing /\ ~worker[r].polled
  /\ rec[r].cancelled
  /\ Ends(r, "Cancelled")
  /\ UNCHANGED <<rec, records, resp, sent, permits, serving>>

PollWithoutDeadline(r) == FALSE

PollLate(r) ==
  /\ At(r) \in Executing /\ ~worker[r].polled
  /\ ~rec[r].cancelled
  /\ r \in late
  /\ Ends(r, "Timeout")
  /\ UNCHANGED <<rec, records, resp, sent, permits, serving>>

(* Poll::Pending: admission, a context, an upstream, the client or the      *)
(* upload is not ready.                                                     *)
Pending(r) ==
  /\ Polled(r)
  /\ worker' = [worker EXCEPT ![r].polled = FALSE]
  /\ UNCHANGED <<rec, records, resp, late, sent, permits, running, waiting, serving>>

(* ticket.wait() gets its slot ...                                          *)
Start(r) ==
  /\ Polled(r) /\ At(r) = "waiting" /\ r \notin running
  /\ Head(waiting[PartitionOf[r]]) = r
  /\ Admission!Start(PartitionOf[r])
  /\ UNCHANGED <<rec, records, worker, resp, late, sent, permits, serving>>

(* ... and execute() goes on to find a context or to build a client.        *)
Prepare(r) ==
  /\ Polled(r) /\ At(r) = "waiting" /\ r \in running
  /\ rec' = [rec EXCEPT ![r] = Updated(@, "preparing", @.delivery)]
  /\ worker' = [worker EXCEPT ![r].at = "preparing"]
  /\ UNCHANGED <<records, resp, late, sent, permits, running, waiting, serving>>

(* An error of execute() or transfer(), a closed context included.          *)
Fail(r) ==
  /\ Polled(r) /\ At(r) \in Executing \ {"waiting"}
  /\ Ends(r, "Failed")
  /\ UNCHANGED <<rec, records, resp, sent, permits, serving>>

(* The diagnostics say possibly_sent before the first poll of send().       *)
DispatchSilently(r) ==
  /\ Polled(r) /\ At(r) = "preparing"
  /\ rec' = [rec EXCEPT ![r] = Updated(@, "upstream", @.delivery)]
  /\ worker' = [worker EXCEPT ![r].at = "upstream"]
  /\ UNCHANGED <<records, resp, late, sent, permits, running, waiting, serving>>

Dispatch(r) ==
  /\ Polled(r) /\ At(r) = "preparing"
  /\ rec' = [rec EXCEPT ![r] = Updated(@, "upstream", "possibly_sent")]
  /\ worker' = [worker EXCEPT ![r].at = "upstream"]
  /\ UNCHANGED <<records, resp, late, sent, permits, running, waiting, serving>>

(* builder.send() connects and writes: from here the upstream may see it.   *)
Send(r) ==
  /\ Polled(r) /\ At(r) = "upstream" /\ r \notin sent
  /\ sent' = sent \cup {r}
  /\ UNCHANGED <<rec, records, worker, resp, late, permits, running, waiting, serving>>

(* The two branches of try_join!: the upload is complete; the response has  *)
(* begun.  Either may be first.                                             *)
Uploaded(r) ==
  /\ Polled(r) /\ At(r) = "upstream" /\ "upload" \notin worker[r].joined
  /\ worker' = [worker EXCEPT ![r].joined = @ \cup {"upload"}]
  /\ UNCHANGED <<rec, records, resp, late, sent, permits, running, waiting, serving>>

Responded(r) ==
  /\ Polled(r) /\ At(r) = "upstream" /\ r \in sent /\ "response" \notin worker[r].joined
  /\ rec' = [rec EXCEPT ![r] = Updated(@, @.phase, "response_started")]
  /\ worker' = [worker EXCEPT ![r].joined = @ \cup {"response"}]
  /\ UNCHANGED <<records, resp, late, sent, permits, running, waiting, serving>>

Joined(r) ==
  /\ Polled(r) /\ At(r) = "upstream" /\ worker[r].joined = {"upload", "response"}
  /\ rec' = [rec EXCEPT ![r] = Updated(@, "body", @.delivery)]
  /\ worker' = [worker EXCEPT ![r].at = "head"]
  /\ UNCHANGED <<records, resp, late, sent, permits, running, waiting, serving>>

(* send() on the channel of capacity one: waits for room, fails once the    *)
(* receiver is gone.                                                        *)
ChannelRoom(r) == resp[r].chan = <<>>

Offer(r) ==
  /\ Polled(r) /\ At(r) \in {"head", "chunk"}
  /\ resp[r].reader = "open" /\ ChannelRoom(r)
  /\ resp' = [resp EXCEPT ![r].chan = <<IF At(r) = "head" THEN "metadata" ELSE "data">>]
  /\ worker' = [worker EXCEPT ![r].at = "body"]
  /\ UNCHANGED <<rec, records, late, sent, permits, running, waiting, serving>>

OfferFails(r) ==
  /\ Polled(r) /\ At(r) \in {"head", "chunk"}
  /\ resp[r].reader # "open"
  /\ Ends(r, "Cancelled")
  /\ UNCHANGED <<rec, records, resp, sent, permits, serving>>

Chunk(r) ==
  /\ Polled(r) /\ At(r) = "body" /\ worker[r].chunks < MaxChunks
  /\ worker' = [worker EXCEPT ![r].at = "chunk", ![r].chunks = @ + 1]
  /\ UNCHANGED <<rec, records, resp, late, sent, permits, running, waiting, serving>>

Complete(r) ==
  /\ Polled(r) /\ At(r) = "body"
  /\ Ends(r, "complete")
  /\ UNCHANGED <<rec, records, resp, sent, permits, serving>>

(* After the select!: finish the record, fill the terminal slot, and let    *)
(* the end of the task drop the sender and the ExecutionGuard.              *)
Finish(r) ==
  /\ At(r) = "ending"
  /\ rec' = [rec EXCEPT ![r] = Finished(@, worker[r].result)]
  /\ worker' = [worker EXCEPT ![r] = [Idle EXCEPT !.at = "finished"]]
  /\ UNCHANGED <<records, resp, late, sent, permits, running, waiting, serving>>

Publish(r) ==
  /\ At(r) = "finished"
  /\ resp' = [resp EXCEPT ![r].terminal = rec[r].outcome]
  /\ worker' = [worker EXCEPT ![r].at = "published"]
  /\ UNCHANGED <<rec, records, late, sent, permits, running, waiting, serving>>

Guarded(p) == Finished([p EXCEPT !.cancelled = TRUE], "Cancelled")

Close(r) ==
  /\ At(r) = "published"
  /\ rec' = [rec EXCEPT ![r] = Guarded(@)]
  /\ worker' = [worker EXCEPT ![r].at = "closed"]
  /\ UNCHANGED <<records, resp, late, sent, permits, running, waiting, serving>>

(* The runtime is dropped with the task unfinished: its future is dropped,  *)
(* the ExecutionGuard last.                                                 *)
Abort(r) ==
  /\ serving = "stopped"
  /\ At(r) \in Executing \cup Ending
  /\ IF At(r) \in Executing THEN Release(r) ELSE UNCHANGED <<running, waiting>>
  /\ rec' = [rec EXCEPT ![r] = Guarded(@)]
  /\ worker' = [worker EXCEPT ![r] = [Idle EXCEPT !.at = "closed"]]
  /\ late' = late \ {r}
  /\ UNCHANGED <<records, resp, sent, permits, serving>>

-----------------------------------------------------------------------------
(* The response stream, as the client's reading drives it.                  *)

Read(r) ==
  /\ resp[r].reader = "open" /\ resp[r].chan # <<>>
  /\ resp' = [resp EXCEPT ![r].got = @ \o resp[r].chan, ![r].chan = <<>>]
  /\ UNCHANGED <<rec, records, worker, late, sent, permits, running, waiting, serving>>

(* The sender lives in the worker's future, not in execute().               *)
SenderEndsWithExecute(r) == At(r) \in Ending \cup {"closed"}
SenderGone(r) == At(r) = "closed"

(* All senders are gone: take the terminal slot, end, drop ResponseGuard.   *)
ReadEnd(r) ==
  /\ resp[r].reader = "open" /\ resp[r].chan = <<>> /\ SenderGone(r)
  /\ resp' = [resp EXCEPT ![r].reader = "ended", ![r].terminal = "none",
       ![r].got = IF resp[r].terminal = "none" THEN @ ELSE Append(@, resp[r].terminal)]
  /\ rec' = [rec EXCEPT ![r].cancelled = TRUE]
  /\ UNCHANGED <<records, worker, late, sent, permits, running, waiting, serving>>

(* The connection goes away: the stream is dropped with its ResponseGuard.  *)
Disconnect(r) ==
  /\ resp[r].reader = "open"
  /\ resp' = [resp EXCEPT ![r].reader = "gone", ![r].chan = <<>>]
  /\ rec' = [rec EXCEPT ![r].cancelled = TRUE]
  /\ UNCHANGED <<records, worker, late, sent, permits, running, waiting, serving>>

-----------------------------------------------------------------------------
(* The other users of the registry.                                         *)

(* DELETE /requests/{id}: get() evicts, then the token is cancelled.        *)
Cancel(r) ==
  /\ serving # "stopped" /\ permits > 0
  /\ r \in Recent
  /\ records' = Recent
  /\ rec' = [rec EXCEPT ![r].cancelled = TRUE]
  /\ UNCHANGED <<worker, resp, late, sent, permits, running, waiting, serving>>

(* The cleanup task, and the get() of a status request.                     *)
Cleanup ==
  /\ serving # "stopped"
  /\ records' = Recent
  /\ UNCHANGED <<rec, worker, resp, late, sent, permits, running, waiting, serving>>

(* Time: a request's deadline passes; a finished record outlives the TTL.   *)
DeadlinePasses(r) ==
  /\ At(r) \in Executing /\ r \notin late
  /\ late' = late \cup {r}
  /\ UNCHANGED <<rec, records, worker, resp, sent, permits, running, waiting, serving>>

Ages(r) ==
  /\ rec[r].outcome # "none" /\ ~rec[r].aged
  /\ rec' = [rec EXCEPT ![r].aged = TRUE]
  /\ UNCHANGED <<records, worker, resp, late, sent, permits, running, waiting, serving>>

(* main(): Registry::shutdown(), then contexts.shutdown() while connections *)
(* are still accepted; then no new ones; serve() returns when none is left. *)
Shutdown ==
  /\ serving = "up"
  /\ rec' = [r \in Requests |-> IF r \in records THEN [rec[r] EXCEPT !.cancelled = TRUE] ELSE rec[r]]
  /\ serving' = "cancelling"
  /\ UNCHANGED <<records, worker, resp, late, sent, permits, running, waiting>>

Drain ==
  /\ serving = "cancelling"
  /\ serving' = "draining"
  /\ UNCHANGED <<rec, records, worker, resp, late, sent, permits, running, waiting>>

Drained ==
  \A r \in Requests : At(r) \notin {"envelope", "registered"} /\ resp[r].reader # "open"

Stop ==
  /\ serving = "draining"
  /\ Drained
  /\ serving' = "stopped"
  /\ UNCHANGED <<rec, records, worker, resp, late, sent, permits, running, waiting>>

-----------------------------------------------------------------------------
Handler(r) ==
  \/ Arrive(r) \/ EnvelopeFails(r)
  \/ Register(r) \/ RegisterRefused(r)
  \/ Enter(r) \/ EnterRefused(r)

Step(r) ==
  \/ Start(r) \/ Prepare(r) \/ Dispatch(r) \/ Send(r)
  \/ Uploaded(r) \/ Responded(r) \/ Joined(r)
  \/ Offer(r) \/ OfferFails(r) \/ Chunk(r) \/ Complete(r) \/ Fail(r)
  \/ Pending(r)

Wind(r) == Finish(r) \/ Publish(r) \/ Close(r)

Polls(r) == Poll(r) \/ PollCancelled(r) \/ PollLate(r)

Client(r) == Read(r) \/ ReadEnd(r) \/ Disconnect(r)

Next ==
  \/ \E r \in Requests :
       \/ Handler(r) \/ Polls(r) \/ Step(r) \/ Wind(r) \/ Abort(r)
       \/ Client(r) \/ Cancel(r) \/ DeadlinePasses(r) \/ Ages(r)
  \/ Cleanup \/ Shutdown \/ Drain \/ Stop

Spec == Init /\ [][Next]_vars
(* Tasks that can run are run, handlers return, time passes and the runtime *)
(* drops what is left when it stops.  Nothing is assumed of upstreams, of   *)
(* admission's other users, or of clients.                                  *)
Fairness ==
  \A r \in Requests :
    /\ WF_vars(EnvelopeFails(r) \/ Register(r) \/ RegisterRefused(r))
    /\ WF_vars(Enter(r) \/ EnterRefused(r))
    /\ WF_vars(Polls(r))
    /\ WF_vars(Pending(r))
    /\ WF_vars(Wind(r))
    /\ WF_vars(DeadlinePasses(r))

FairSpec == Spec /\ Fairness

(* In addition, clients read what there is, and serve() returns once it can.*)
Served ==
  /\ \A r \in Requests : WF_vars(Read(r) \/ ReadEnd(r))
  /\ WF_vars(Drain)
  /\ WF_vars(Stop)

-----------------------------------------------------------------------------
Frames == {"metadata", "data"}

Record ==
  [phase : {"absent", "queued", "preparing", "upstream", "body", "complete"},
   delivery : {"not_started", "possibly_sent", "response_started"},
   outcome : Outcomes, cancelled : BOOLEAN, aged : BOOLEAN]

Worker ==
  [at : Locations, polled : BOOLEAN, joined : SUBSET {"upload", "response"},
   chunks : 0..MaxChunks, result : Outcomes]

Response ==
  [chan : {<<>>} \cup {<<f>> : f \in Frames}, terminal : Outcomes,
   reader : {"none", "open", "ended", "gone"}, got : Seq(Frames \cup Outcomes)]

(* The shape of records, channels and permits: a channel holds frames only, *)
(* and permits stay between zero and the semaphore's size.                  *)
TypeOK ==
  /\ rec \in [Requests -> Record]
  /\ records \subseteq Requests
  /\ worker \in [Requests -> Worker]
  /\ resp \in [Requests -> Response]
  /\ late \subseteq Requests
  /\ sent \subseteq Requests
  /\ permits \in 0..EnvelopeLimit
  /\ serving \in {"up", "cancelling", "draining", "stopped"}

(* The registry never outgrows its capacity and never forgets a request     *)
(* that is still executing, whatever others register, age and are evicted   *)
(* meanwhile.  An id is executed again only after its first execution has   *)
(* finished and its retention time is over: two exchanges with the same id  *)
(* never run side by side (registry.rs:124-168).                            *)
RegistrySound ==
  /\ TypeOK
  /\ Cardinality(records) <= Capacity
  /\ \A r \in Requests : Unfinished(r) => r \in records
  /\ \A r, s \in Requests :
       r # s /\ IdOf[r] = IdOf[s] /\ Registered(r) /\ Registered(s)
       => rec[r].aged \/ rec[s].aged

(* A permit of the envelopes semaphore is held exactly while an envelope is *)
(* read and registered, on every exit of the handler; a slot or a queue     *)
(* position exactly while the request executes, and a request past the      *)
(* queue has its slot until execute() ends: when the final status is        *)
(* visible, its resources are released (handlers.rs:184-254, 278-279).      *)
ResourcesOwned ==
  /\ permits + Cardinality({r \in Requests : At(r) \in {"envelope", "registered"}}) = EnvelopeLimit
  /\ \A r \in Requests :
       /\ r \in running \cup Admission!Waiters <=> At(r) \in Executing
       /\ At(r) \in Executing \ {"waiting"} => r \in running

(* "not_started" is never wrong: whatever moment a status, an error or a    *)
(* terminal frame is read, a request that may have reached the upstream     *)
(* says so, also when it is cancelled in the middle of a poll               *)
(* (handlers.rs:447-452).                                                   *)
DeliveryHonest ==
  \A r \in sent : rec[r].delivery # "not_started"

(* "final diagnostics are committed only after execution can no longer      *)
(* send" (docs/api.md:303): once finished, a record never changes and its   *)
(* request never goes out (registry.rs:50-82, 205-214).                     *)
FinalIsFinal ==
  [][\A r \in Requests : rec[r].outcome # "none" =>
       /\ rec'[r].outcome = rec[r].outcome
       /\ rec'[r].phase = rec[r].phase
       /\ rec'[r].delivery = rec[r].delivery
       /\ (r \in sent') = (r \in sent)]_vars

IsTerminal(f) == f \in Outcomes

(* What the client reads is well formed at every point: metadata at most    *)
(* once and first, success only after metadata, one terminal and nothing    *)
(* behind it; the terminal is the outcome the registry reports; and the end *)
(* of the stream never overtakes the terminal, although it travels outside  *)
(* the channel (handlers.rs:257-294).                                       *)
StreamAgrees ==
  \A r \in Requests :
    LET got == resp[r].got IN
    /\ \A i \in 1..Len(got) :
         /\ got[i] = "metadata" => i = 1
         /\ got[i] = "data" => got[1] = "metadata"
         /\ got[i] = "complete" => got[1] = "metadata"
         /\ IsTerminal(got[i]) => i = Len(got) /\ got[i] = rec[r].outcome
    /\ resp[r].reader = "ended" => got # <<>> /\ IsTerminal(got[Len(got)])

-----------------------------------------------------------------------------
(* Every registered request gets a final status by its deadline, even if    *)
(* the upstream never answers and the client leaves the channel full        *)
(* (handlers.rs:264-276).                                                   *)
RegisteredFinishes == \A r \in Requests : Registered(r) ~> rec[r].outcome # "none"

(* If clients keep reading, a shutdown completes: requests registered       *)
(* before it are cancelled, those that slip in after it end by their        *)
(* deadlines (main.rs:97-104).                                              *)
ShutdownCompletes == Served => (serving # "up" ~> serving = "stopped")

=============================================================================
