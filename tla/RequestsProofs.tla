--------------------------- MODULE RequestsProofs ---------------------------
(***************************************************************************)
(* The safety of the request lifecycle for any number of exchanges, ids    *)
(* and partitions, any limits and any length of the responses.             *)
(***************************************************************************)
EXTENDS Requests, QueueLemmas, TLAPS

-----------------------------------------------------------------------------
(* The inductive invariant, in parts.                                       *)

(* How far the exchange is, w, tells what its record p may say.             *)
RecordOK(p, w) ==
  /\ w.at \in {"new", "envelope"} => p.phase = "absent"
  /\ w.at \notin {"new", "envelope", "refused"} => p.phase # "absent"
  /\ p.phase = "absent" => p.outcome = "none"
  /\ w.at \in Executing \cup {"registered", "ending"} => p.outcome = "none"
  /\ w.at \in {"finished", "published", "closed"} => p.outcome # "none"
  /\ w.at = "ending" => w.result # "none"
  /\ p.aged => p.outcome # "none"
  /\ w.at \in {"upstream", "head", "body", "chunk"} => p.delivery # "not_started"

(* The stream q so far, received and under way, begins with the metadata.   *)
HeadSent(q) == q.chan = <<"metadata">> \/ (q.got # <<>> /\ q.got[1] = "metadata")

(* What the client has received of a stream with this outcome.              *)
GotOK(q, outcome) ==
  /\ \A i \in 1..Len(q.got) :
       /\ q.got[i] = "metadata" => i = 1
       /\ q.got[i] \in {"data", "complete"} => q.got[1] = "metadata"
       /\ q.got[i] \in Outcomes => q.reader = "ended" /\ i = Len(q.got) /\ q.got[i] = outcome
  /\ q.reader = "ended" => q.got # <<>> /\ q.got[Len(q.got)] \in Outcomes
  /\ q.chan = <<"metadata">> => q.got = <<>>
  /\ q.chan = <<"data">> => q.got # <<>> /\ q.got[1] = "metadata"
  /\ q.chan # <<>> => q.reader = "open"

(* How far the worker is tells what the channel, the terminal slot and the  *)
(* reader may hold.                                                         *)
Unread == {"new", "envelope", "registered", "refused"}
BeforeBody == Unread \cup {"waiting", "preparing", "upstream", "head"}

StreamOK(p, w, q) ==
  /\ GotOK(q, p.outcome)
  /\ w.at \in Unread <=> q.reader = "none"
  /\ w.at \in BeforeBody => q.got = <<>> /\ q.chan = <<>>
  /\ q.reader = "ended" => w.at = "closed"
  /\ q.reader = "open" =>
       /\ w.at \in {"body", "chunk"} => HeadSent(q)
       /\ w.at = "ending" /\ w.result = "complete" => HeadSent(q)
       /\ p.outcome = "complete" => HeadSent(q)
       /\ w.at \in {"published", "closed"} => q.terminal = p.outcome

LifeOK(p, w, q) == RecordOK(p, w) /\ StreamOK(p, w, q)

(* A record that is not due for eviction is in the map, and only those of   *)
(* registered requests are.                                                 *)
RegistryOK ==
  /\ Cardinality(records) <= Capacity
  /\ \A r \in Requests : Registered(r) /\ ~rec[r].aged => r \in records
  /\ \A r \in records : Registered(r)
  /\ \A r, s \in Requests :
       r # s /\ IdOf[r] = IdOf[s] /\ Registered(r) /\ Registered(s) => rec[r].aged \/ rec[s].aged

(* Admission's queues hold the requests of their partition, each once.      *)
QueuesOK ==
  /\ running \subseteq Requests
  /\ waiting \in [Partitions -> Seq(Requests)]
  /\ \A k \in Partitions :
       /\ Distinct(waiting[k])
       /\ \A t \in Elems(waiting[k]) : PartitionOf[t] = k /\ t \notin running

InQueue(r) == r \in Elems(waiting[PartitionOf[r]])

OwnedOK ==
  \A r \in Requests :
    /\ r \in running \/ InQueue(r) <=> At(r) \in Executing
    /\ At(r) \in Executing \ {"waiting"} => r \in running

Reading == {r \in Requests : At(r) \in {"envelope", "registered"}}

PermitsOK == permits \in Nat /\ permits + Cardinality(Reading) = EnvelopeLimit

ServingOK ==
  /\ serving \in {"up", "cancelling", "draining", "stopped"}
  /\ serving = "stopped" => Drained

TypesOK ==
  /\ rec \in [Requests -> Record]
  /\ worker \in [Requests -> Worker]
  /\ resp \in [Requests -> Response]
  /\ late \subseteq Requests
  /\ sent \subseteq Requests
  /\ records \subseteq Requests

IInv ==
  /\ TypesOK
  /\ \A r \in Requests : LifeOK(rec[r], worker[r], resp[r])
  /\ DeliveryHonest
  /\ RegistryOK /\ QueuesOK /\ OwnedOK /\ PermitsOK /\ ServingOK

-----------------------------------------------------------------------------
(* What the code does to a record, a worker and a stream, field by field.   *)

(* The worker task moves to another place of its code.                      *)
LEMMA WorkerAt ==
  ASSUME NEW w \in Worker, NEW l \in Locations
  PROVE  LET v == [w EXCEPT !.at = l] IN
         v \in Worker /\ v.at = l /\ v.result = w.result
BY DEF Worker

(* A worker that was not spawned is well formed.                            *)
LEMMA IdleWorker == Idle \in Worker
<1>1. 0 \in 0..MaxChunks
  BY RequestsAssumption
<1>2. QED
  BY <1>1 DEF Idle, Worker, Locations, Outcomes

(* The handler's first step leaves a well-formed worker.                    *)
LEMMA WorkerFresh ==
  ASSUME NEW l \in Locations, NEW o \in Outcomes
  PROVE  LET v == [Idle EXCEPT !.at = l, !.result = o] IN
         v \in Worker /\ v.at = l /\ v.result = o
<1>1. ASSUME NEW w \in Worker
      PROVE  LET v == [w EXCEPT !.at = l, !.result = o] IN
             v \in Worker /\ v.at = l /\ v.result = o
  BY DEF Worker
<1>2. QED
  BY <1>1, IdleWorker

(* RequestRecord::finish: the first outcome stays.                          *)
LEMMA RecordFinished ==
  ASSUME NEW p \in Record, NEW o \in Outcomes
  PROVE  LET q == Finished(p, o) IN
         /\ q \in Record
         /\ q.outcome = IF p.outcome = "none" THEN o ELSE p.outcome
         /\ q.delivery = p.delivery /\ q.aged = p.aged
         /\ q.phase = p.phase \/ (q.phase = "complete" /\ p.outcome = "none")
         /\ p.outcome # "none" => q = p
BY DEF Record, Finished

(* RequestRecord::update: a finished record is left alone.                  *)
LEMMA RecordUpdated ==
  ASSUME NEW p \in Record,
         NEW h \in {"absent", "queued", "preparing", "upstream", "body", "complete"},
         NEW d \in {"not_started", "possibly_sent", "response_started"}
  PROVE  LET q == Updated(p, h, d) IN
         /\ q \in Record
         /\ q.outcome = p.outcome /\ q.aged = p.aged
         /\ p.outcome = "none" => q.phase = h /\ q.delivery = d
         /\ p.outcome # "none" => q = p
BY DEF Record, Updated

(* Cancellation by id changes no status.                                    *)
LEMMA RecordCancelled ==
  ASSUME NEW p \in Record
  PROVE  LET q == [p EXCEPT !.cancelled = TRUE] IN
         /\ q \in Record
         /\ q.outcome = p.outcome /\ q.aged = p.aged
         /\ q.phase = p.phase /\ q.delivery = p.delivery
BY DEF Record

(* The guard's drop: an unfinished record ends as cancelled.                *)
LEMMA RecordGuarded ==
  ASSUME NEW p \in Record
  PROVE  LET q == Guarded(p) IN
         /\ q \in Record
         /\ q.outcome = IF p.outcome = "none" THEN "Cancelled" ELSE p.outcome
         /\ q.aged = p.aged /\ q.phase = p.phase /\ q.delivery = p.delivery
BY DEF Record, Guarded, Finished, Outcomes, Errors

-----------------------------------------------------------------------------
(* One step of one exchange, seen by each part of the invariant.            *)

(* The step puts record p, worker w and stream q in place of r's.           *)
Moves(r, p, w, q) ==
  /\ p \in Record /\ w \in Worker /\ q \in Response
  /\ rec' = [rec EXCEPT ![r] = p]
  /\ worker' = [worker EXCEPT ![r] = w]
  /\ resp' = [resp EXCEPT ![r] = q]

(* What the step puts there is there, and nothing else is touched.          *)
LEMMA Moved ==
  ASSUME TypesOK, NEW r \in Requests, NEW p, NEW w, NEW q, Moves(r, p, w, q)
  PROVE  /\ rec'[r] = p /\ worker'[r] = w /\ resp'[r] = q
         /\ \A s \in Requests \ {r} : rec'[s] = rec[s] /\ worker'[s] = worker[s] /\ resp'[s] = resp[s]
         /\ rec' \in [Requests -> Record] /\ worker' \in [Requests -> Worker]
         /\ resp' \in [Requests -> Response]
BY DEF TypesOK, Moves

(* Each exchange stays consistent if the one that moved does.               *)
LEMMA LifeStep ==
  ASSUME IInv, NEW r \in Requests, NEW p, NEW w, NEW q, Moves(r, p, w, q), LifeOK(p, w, q)
  PROVE  (\A s \in Requests : LifeOK(rec[s], worker[s], resp[s]))'
BY Moved DEF IInv

(* The registry stays sound while nobody is registered anew.                *)
LEMMA RegistryStep ==
  ASSUME IInv, NEW r \in Requests, NEW p, NEW w, NEW q, Moves(r, p, w, q),
         p.phase = "absent" <=> rec[r].phase = "absent",
         rec[r].aged => p.aged,
         records' \in {records, Recent}
  PROVE  RegistryOK'
<1>1. TypesOK /\ RegistryOK
  BY DEF IInv
<1>2. \A s \in Requests : (Registered(s)' <=> Registered(s)) /\ (rec[s].aged => rec'[s].aged)
  BY <1>1, Moved DEF Registered
<1>3. Recent \subseteq records /\ records \subseteq Requests
  BY <1>1 DEF Recent, TypesOK
<1>4. Cardinality(records') <= Capacity
  <2>1. IsFiniteSet(records)
    BY <1>3, RequestsAssumption, FS_Subset
  <2>2. Cardinality(Recent) <= Cardinality(records) /\ IsFiniteSet(Recent)
    BY <1>3, <2>1, FS_Subset
  <2>3. Cardinality(Recent) \in Nat /\ Cardinality(records) \in Nat
    BY <2>1, <2>2, FS_CardinalityType
  <2>4. QED
    BY <1>1, <2>2, <2>3, RequestsAssumption DEF RegistryOK
<1>5. \A s \in Requests : Registered(s)' /\ ~rec'[s].aged => s \in records'
  BY <1>1, <1>2 DEF RegistryOK, Recent
<1>6. \A s \in records' : Registered(s)'
  BY <1>1, <1>2, <1>3 DEF RegistryOK
<1>7. \A s, t \in Requests :
        s # t /\ IdOf[s] = IdOf[t] /\ Registered(s)' /\ Registered(t)' => rec'[s].aged \/ rec'[t].aged
  BY <1>1, <1>2 DEF RegistryOK
<1>8. QED
  BY <1>4, <1>5, <1>6, <1>7 DEF RegistryOK

(* Slots and queue places belong to workers that execute.                   *)
LEMMA OwnedStep ==
  ASSUME IInv, NEW r \in Requests, NEW p, NEW w, NEW q, Moves(r, p, w, q),
         \A s \in Requests \ {r} : (s \in running' <=> s \in running) /\ (InQueue(s)' <=> InQueue(s)),
         r \in running' \/ InQueue(r)' <=> w.at \in Executing,
         w.at \in Executing \ {"waiting"} => r \in running'
  PROVE  OwnedOK'
<1>1. TypesOK /\ OwnedOK
  BY DEF IInv
<1>2. At(r)' = w.at /\ \A s \in Requests \ {r} : At(s)' = At(s)
  BY <1>1, Moved DEF At
<1>3. QED
  BY <1>1, <1>2 DEF OwnedOK

(* A permit is counted by the handlers that read an envelope.               *)
LEMMA PermitsStep ==
  ASSUME IInv, NEW r \in Requests, NEW p, NEW w, NEW q, Moves(r, p, w, q),
         permits' \in Nat,
         permits' = permits + (IF At(r) \in {"envelope", "registered"} THEN 1 ELSE 0)
                            - (IF w.at \in {"envelope", "registered"} THEN 1 ELSE 0)
  PROVE  PermitsOK'
<1>1. TypesOK /\ PermitsOK
  BY DEF IInv
<1>2. At(r)' = w.at /\ \A s \in Requests \ {r} : At(s)' = At(s)
  BY <1>1, Moved DEF At
<1>3. Reading' = IF w.at \in {"envelope", "registered"} THEN Reading \cup {r} ELSE Reading \ {r}
  BY <1>2 DEF Reading
<1>4. r \in Reading <=> At(r) \in {"envelope", "registered"}
  BY DEF Reading
<1>5. IsFiniteSet(Reading)
  BY RequestsAssumption, FS_Subset DEF Reading
<1>6. /\ Cardinality(Reading) \in Nat
      /\ Cardinality(Reading \cup {r}) = IF r \in Reading THEN Cardinality(Reading) ELSE Cardinality(Reading) + 1
      /\ Cardinality(Reading \ {r}) = IF r \in Reading THEN Cardinality(Reading) - 1 ELSE Cardinality(Reading)
  BY <1>5, CountOne
<1>7. QED
  BY <1>1, <1>3, <1>4, <1>6, RequestsAssumption DEF PermitsOK

(* Nothing starts once the service has stopped serving.                     *)
LEMMA ServingStep ==
  ASSUME IInv, NEW r \in Requests, NEW p, NEW w, NEW q, Moves(r, p, w, q),
         serving' = serving,
         serving = "stopped" =>
           /\ w.at \in {"envelope", "registered"} => At(r) \in {"envelope", "registered"}
           /\ q.reader = "open" => resp[r].reader = "open"
  PROVE  ServingOK'
<1>1. TypesOK /\ ServingOK
  BY DEF IInv
<1>2. QED
  BY <1>1, Moved DEF ServingOK, Drained, At

(* The parts put together.                                                  *)
LEMMA Combine ==
  ASSUME IInv, NEW r \in Requests, NEW p, NEW w, NEW q, Moves(r, p, w, q), LifeOK(p, w, q),
         RegistryOK', QueuesOK', OwnedOK', PermitsOK', ServingOK',
         records' \subseteq Requests,
         late' \subseteq Requests,
         sent' \subseteq sent \cup {r},
         r \in sent' => p.delivery # "not_started"
  PROVE  IInv'
<1>1. TypesOK /\ DeliveryHonest
  BY DEF IInv
<1>2. (\A s \in Requests : LifeOK(rec[s], worker[s], resp[s]))'
  BY LifeStep
<1>3. DeliveryHonest'
  BY <1>1, Moved DEF DeliveryHonest, TypesOK
<1>4. TypesOK'
  BY <1>1, Moved DEF TypesOK
<1>5. QED
  BY <1>2, <1>3, <1>4 DEF IInv

(* A step that leaves permits, admission and shutdown alone.                *)
LEMMA QuietStep ==
  ASSUME IInv, NEW r \in Requests, NEW p, NEW w, NEW q, Moves(r, p, w, q), LifeOK(p, w, q),
         p.phase = "absent" <=> rec[r].phase = "absent",
         rec[r].aged => p.aged,
         records' \in {records, Recent},
         late' \subseteq Requests,
         sent' \subseteq sent \cup {r},
         r \in sent' => p.delivery # "not_started",
         w.at \in Executing <=> At(r) \in Executing,
         w.at \in Executing \ {"waiting"} => r \in running,
         w.at \in {"envelope", "registered"} <=> At(r) \in {"envelope", "registered"},
         q.reader = "open" => resp[r].reader = "open",
         UNCHANGED <<permits, running, waiting, serving>>
  PROVE  IInv'
<1>1. TypesOK /\ QueuesOK /\ OwnedOK /\ PermitsOK
  BY DEF IInv
<1>2. RegistryOK'
  BY RegistryStep
<1>3. OwnedOK'
  <2>1. r \in running \/ InQueue(r) <=> At(r) \in Executing
    BY <1>1 DEF OwnedOK
  <2>2. \A s \in Requests : (s \in running' <=> s \in running) /\ (InQueue(s)' <=> InQueue(s))
    BY DEF InQueue
  <2>3. QED
    BY <2>1, <2>2, OwnedStep
<1>4. PermitsOK'
  BY <1>1, PermitsStep DEF PermitsOK
<1>5. ServingOK'
  BY ServingStep
<1>6. QueuesOK'
  BY <1>1 DEF QueuesOK
<1>7. records' \subseteq Requests
  BY <1>1 DEF TypesOK, Recent
<1>8. QED
  BY <1>2, <1>3, <1>4, <1>5, <1>6, <1>7, Combine

(* What the invariant says of one exchange.                                 *)
LEMMA OneExchange ==
  ASSUME IInv, NEW r \in Requests
  PROVE  /\ TypesOK /\ rec[r] \in Record /\ worker[r] \in Worker /\ resp[r] \in Response
         /\ LifeOK(rec[r], worker[r], resp[r])
         /\ At(r) \in Executing \ {"waiting"} => r \in running
         /\ r \in sent => rec[r].delivery # "not_started"
BY DEF IInv, TypesOK, OwnedOK, DeliveryHonest

(* A step that changes nothing but flags of the worker.                     *)
LEMMA FlagSteps ==
  ASSUME IInv, NEW r \in Requests,
         Poll(r) \/ Pending(r) \/ Uploaded(r) \/ DeadlinePasses(r)
  PROVE  IInv'
<1>1. /\ TypesOK /\ rec[r] \in Record /\ worker[r] \in Worker /\ resp[r] \in Response
      /\ LifeOK(rec[r], worker[r], resp[r])
      /\ At(r) \in Executing \ {"waiting"} => r \in running
      /\ r \in sent => rec[r].delivery # "not_started"
  BY OneExchange
<1>2. PICK w \in Worker : /\ worker' = [worker EXCEPT ![r] = w]
                          /\ w.at = At(r) /\ w.result = worker[r].result
  <2>1. [worker[r] EXCEPT !.polled = TRUE] \in Worker
    BY <1>1 DEF Worker
  <2>2. [worker[r] EXCEPT !.polled = FALSE] \in Worker
    BY <1>1 DEF Worker
  <2>3. [worker[r] EXCEPT !.joined = @ \cup {"upload"}] \in Worker
    BY <1>1 DEF Worker
  <2>4. DeadlinePasses(r) => worker' = [worker EXCEPT ![r] = worker[r]]
    BY <1>1 DEF DeadlinePasses, TypesOK
  <2>5. QED
    BY <1>1, <2>1, <2>2, <2>3, <2>4 DEF Poll, Pending, Uploaded, At, Worker
<1>3. Moves(r, rec[r], w, resp[r])
  BY <1>1, <1>2 DEF Moves, TypesOK, Poll, Pending, Uploaded, DeadlinePasses
<1>4. LifeOK(rec[r], w, resp[r])
  BY <1>1, <1>2 DEF LifeOK, RecordOK, StreamOK, At
<1>5. /\ UNCHANGED <<sent, records, permits, running, waiting, serving>>
      /\ late' \subseteq late \cup {r}
  BY DEF Poll, Pending, Uploaded, DeadlinePasses
<1>6. QED
  BY <1>1, <1>2, <1>3, <1>4, <1>5, QuietStep DEF TypesOK

(* The steps of execute() that report progress: the diagnostics move        *)
(* forward with the worker (handlers.rs:297-460).                           *)
LEMMA ProgressSteps ==
  ASSUME IInv, NEW r \in Requests, Prepare(r) \/ Dispatch(r) \/ Responded(r) \/ Joined(r)
  PROVE  IInv'
<1>1. /\ TypesOK /\ rec[r] \in Record /\ worker[r] \in Worker /\ resp[r] \in Response
      /\ LifeOK(rec[r], worker[r], resp[r])
      /\ At(r) \in Executing \ {"waiting"} => r \in running
      /\ r \in sent => rec[r].delivery # "not_started"
  BY OneExchange
<1>2. /\ rec[r].outcome = "none"
      /\ rec[r].phase \in {"absent", "queued", "preparing", "upstream", "body", "complete"}
      /\ rec[r].delivery \in {"not_started", "possibly_sent", "response_started"}
      /\ rec[r].phase # "absent"
  BY <1>1 DEF Prepare, Dispatch, Responded, Joined, Polled, LifeOK, RecordOK, At, Executing, Record
<1>3. PICK h \in {"queued", "preparing", "upstream", "body", "complete"},
           d \in {"not_started", "possibly_sent", "response_started"} :
        /\ rec' = [rec EXCEPT ![r] = Updated(rec[r], h, d)]
        /\ rec[r].delivery # "not_started" \/ Dispatch(r) => d # "not_started"
  BY <1>2 DEF Prepare, Dispatch, Responded, Joined
<1>4. PICK w \in Worker :
        /\ worker' = [worker EXCEPT ![r] = w]
        /\ w.at \in {"preparing", "upstream", "head"}
        /\ w.at # "preparing" /\ ~Dispatch(r) => At(r) = "upstream"
        /\ w.at = "preparing" => r \in running
  <2>1. ASSUME NEW l \in {"preparing", "upstream", "head"}
        PROVE  [worker[r] EXCEPT !.at = l] \in Worker /\ [worker[r] EXCEPT !.at = l].at = l
    BY <1>1, WorkerAt DEF Locations, Executing
  <2>2. /\ [worker[r] EXCEPT !.joined = @ \cup {"response"}] \in Worker
        /\ [worker[r] EXCEPT !.joined = @ \cup {"response"}].at = At(r)
    BY <1>1 DEF Worker, At
  <2>3. QED
    BY <2>1, <2>2 DEF Prepare, Dispatch, Responded, Joined
<1> DEFINE p == Updated(rec[r], h, d)
<1>5. /\ p \in Record /\ p.outcome = "none" /\ p.aged = rec[r].aged
      /\ p.phase = h /\ p.delivery = d
  BY <1>1, <1>2, RecordUpdated
<1> HIDE DEF p
<1>6. /\ At(r) \in Executing /\ At(r) \in BeforeBody \ Unread
      /\ Dispatch(r) \/ At(r) = "upstream" => r \in running
  BY <1>1 DEF Prepare, Dispatch, Responded, Joined, Polled, Executing, BeforeBody, Unread
<1>7. Moves(r, p, w, resp[r])
  BY <1>1, <1>3, <1>4, <1>5 DEF Moves, TypesOK, Prepare, Dispatch, Responded, Joined, p
<1>8. LifeOK(p, w, resp[r])
  BY <1>1, <1>2, <1>3, <1>4, <1>5, <1>6
  DEF LifeOK, RecordOK, StreamOK, At, Executing, BeforeBody, Unread
<1>9. UNCHANGED <<sent, records, late, permits, running, waiting, serving>>
  BY DEF Prepare, Dispatch, Responded, Joined
<1>10. QED
  BY <1>1, <1>2, <1>3, <1>4, <1>5, <1>6, <1>7, <1>8, <1>9, QuietStep
  DEF TypesOK, Executing, BeforeBody, Unread

(* The first poll of send(), after the diagnostics say so.                  *)
LEMMA SendStep ==
  ASSUME IInv, NEW r \in Requests, Send(r)
  PROVE  IInv'
<1>1. /\ TypesOK /\ rec[r] \in Record /\ worker[r] \in Worker /\ resp[r] \in Response
      /\ LifeOK(rec[r], worker[r], resp[r])
      /\ At(r) \in Executing \ {"waiting"} => r \in running
      /\ r \in sent => rec[r].delivery # "not_started"
  BY OneExchange
<1>2. rec[r].delivery # "not_started"
  BY <1>1 DEF Send, LifeOK, RecordOK, At
<1>3. Moves(r, rec[r], worker[r], resp[r])
  BY <1>1 DEF Moves, TypesOK, Send
<1>4. QED
  BY <1>1, <1>2, <1>3, QuietStep DEF TypesOK, Send, At

(* send() on the channel of capacity one (handlers.rs:461-520).             *)
LEMMA OfferStep ==
  ASSUME IInv, NEW r \in Requests, Offer(r)
  PROVE  IInv'
<1>1. /\ TypesOK /\ rec[r] \in Record /\ worker[r] \in Worker /\ resp[r] \in Response
      /\ LifeOK(rec[r], worker[r], resp[r])
      /\ At(r) \in Executing \ {"waiting"} => r \in running
      /\ r \in sent => rec[r].delivery # "not_started"
  BY OneExchange
<1> DEFINE f == IF At(r) = "head" THEN "metadata" ELSE "data"
           q == [resp[r] EXCEPT !.chan = <<f>>]
           w == [worker[r] EXCEPT !.at = "body"]
<1>2. /\ q \in Response /\ q.chan = <<f>> /\ q.got = resp[r].got
      /\ q.reader = resp[r].reader /\ q.terminal = resp[r].terminal
  BY <1>1 DEF Response, Frames
<1>3. w \in Worker /\ w.at = "body"
  BY <1>1, WorkerAt DEF Locations, Executing
<1>4. Moves(r, rec[r], w, q)
  BY <1>1, <1>2, <1>3 DEF Moves, TypesOK, Offer
<1>5. /\ resp[r].reader = "open" /\ resp[r].chan = <<>>
      /\ At(r) \in {"head", "chunk"} /\ At(r) = worker[r].at
  BY DEF Offer, ChannelRoom, At
<1> HIDE DEF q, w
<1>6. GotOK(q, rec[r].outcome) /\ HeadSent(q)
  <2>1. CASE At(r) = "head"
    <3>1. q.got = <<>> /\ q.chan = <<"metadata">>
      BY <1>1, <1>2, <1>5, <2>1 DEF LifeOK, StreamOK, BeforeBody
    <3>2. QED
      BY <1>2, <1>5, <3>1 DEF GotOK, HeadSent
  <2>2. CASE At(r) = "chunk"
    <3>1. q.chan = <<"data">> /\ q.got # <<>> /\ q.got[1] = "metadata"
      BY <1>1, <1>2, <1>5, <2>2 DEF LifeOK, StreamOK, HeadSent
    <3>2. QED
      BY <1>1, <1>2, <1>5, <3>1 DEF LifeOK, StreamOK, GotOK, HeadSent
  <2>3. QED
    BY <1>5, <2>1, <2>2
<1>7. LifeOK(rec[r], w, q)
  BY <1>1, <1>2, <1>3, <1>5, <1>6
  DEF LifeOK, RecordOK, StreamOK, Executing, BeforeBody, Unread
<1>8. At(r) \in Executing \ {"waiting"} /\ "body" \in Executing
  BY <1>5 DEF Executing
<1>9. QED
  BY <1>1, <1>2, <1>3, <1>4, <1>5, <1>7, <1>8, QuietStep DEF TypesOK, Offer

(* The next piece of the upstream's body.                                   *)
LEMMA ChunkStep ==
  ASSUME IInv, NEW r \in Requests, Chunk(r)
  PROVE  IInv'
<1>1. /\ TypesOK /\ rec[r] \in Record /\ worker[r] \in Worker /\ resp[r] \in Response
      /\ LifeOK(rec[r], worker[r], resp[r])
      /\ At(r) \in Executing \ {"waiting"} => r \in running
      /\ r \in sent => rec[r].delivery # "not_started"
  BY OneExchange
<1> DEFINE w == [worker[r] EXCEPT !.at = "chunk", !.chunks = @ + 1]
<1>2. w \in Worker /\ w.at = "chunk"
  <2>1. worker[r].chunks + 1 \in 0..MaxChunks
    BY <1>1, RequestsAssumption DEF Worker, Chunk
  <2>2. "chunk" \in Locations
    BY DEF Locations, Executing
  <2>3. QED
    BY <1>1, <2>1, <2>2 DEF Worker
<1>3. Moves(r, rec[r], w, resp[r])
  BY <1>1, <1>2 DEF Moves, TypesOK, Chunk
<1> HIDE DEF w
<1>4. LifeOK(rec[r], w, resp[r])
  BY <1>1, <1>2 DEF LifeOK, RecordOK, StreamOK, Executing, BeforeBody, Unread, Chunk, At
<1>5. QED
  BY <1>1, <1>2, <1>3, <1>4, QuietStep DEF TypesOK, Chunk, Executing

(* After the select!: the record is finished, then the slot is filled, then *)
(* the sender and the ExecutionGuard are dropped (handlers.rs:278-294).     *)
LEMMA FinishStep ==
  ASSUME IInv, NEW r \in Requests, Finish(r)
  PROVE  IInv'
<1>1. /\ TypesOK /\ rec[r] \in Record /\ worker[r] \in Worker /\ resp[r] \in Response
      /\ LifeOK(rec[r], worker[r], resp[r])
      /\ At(r) \in Executing \ {"waiting"} => r \in running
      /\ r \in sent => rec[r].delivery # "not_started"
  BY OneExchange
<1> DEFINE p == Finished(rec[r], worker[r].result)
           w == [Idle EXCEPT !.at = "finished"]
<1>2. /\ worker[r].at = "ending" /\ rec[r].outcome = "none" /\ rec[r].phase # "absent"
      /\ worker[r].result \in Outcomes \ {"none"}
  BY <1>1 DEF Finish, At, LifeOK, RecordOK, Worker
<1>3. /\ p \in Record /\ p.outcome = worker[r].result /\ p.delivery = rec[r].delivery
      /\ p.aged = rec[r].aged /\ p.phase # "absent"
  BY <1>1, <1>2, RecordFinished
<1>4. w \in Worker /\ w.at = "finished"
  BY IdleWorker, WorkerAt DEF Locations, Ending
<1>5. Moves(r, p, w, resp[r])
  BY <1>1, <1>3, <1>4 DEF Moves, TypesOK, Finish
<1> HIDE DEF p, w
<1>6. resp[r].reader # "ended"
  BY <1>1, <1>2 DEF LifeOK, StreamOK
<1>7. GotOK(resp[r], p.outcome)
  BY <1>1, <1>6 DEF LifeOK, StreamOK, GotOK
<1>8. LifeOK(p, w, resp[r])
  BY <1>1, <1>2, <1>3, <1>4, <1>6, <1>7
  DEF LifeOK, RecordOK, StreamOK, Executing, BeforeBody, Unread
<1>9. QED
  BY <1>1, <1>2, <1>3, <1>4, <1>5, <1>8, QuietStep DEF TypesOK, Finish, Executing, At

(* The worker puts the verdict into the terminal slot.                      *)
LEMMA PublishStep ==
  ASSUME IInv, NEW r \in Requests, Publish(r)
  PROVE  IInv'
<1>1. /\ TypesOK /\ rec[r] \in Record /\ worker[r] \in Worker /\ resp[r] \in Response
      /\ LifeOK(rec[r], worker[r], resp[r])
      /\ At(r) \in Executing \ {"waiting"} => r \in running
      /\ r \in sent => rec[r].delivery # "not_started"
  BY OneExchange
<1> DEFINE q == [resp[r] EXCEPT !.terminal = rec[r].outcome]
           w == [worker[r] EXCEPT !.at = "published"]
<1>2. /\ q \in Response /\ q.chan = resp[r].chan /\ q.got = resp[r].got
      /\ q.reader = resp[r].reader /\ q.terminal = rec[r].outcome
  BY <1>1 DEF Response, Record
<1>3. w \in Worker /\ w.at = "published"
  BY <1>1, WorkerAt DEF Locations, Ending
<1>4. Moves(r, rec[r], w, q)
  BY <1>1, <1>2, <1>3 DEF Moves, TypesOK, Publish
<1>5. worker[r].at = "finished"
  BY DEF Publish, At
<1> HIDE DEF q, w
<1>6. GotOK(q, rec[r].outcome) /\ (HeadSent(q) <=> HeadSent(resp[r]))
  BY <1>1, <1>2 DEF LifeOK, StreamOK, GotOK, HeadSent
<1>7. LifeOK(rec[r], w, q)
  BY <1>1, <1>2, <1>3, <1>5, <1>6
  DEF LifeOK, RecordOK, StreamOK, Executing, BeforeBody, Unread
<1>8. QED
  BY <1>1, <1>2, <1>3, <1>4, <1>5, <1>7, QuietStep DEF TypesOK, Publish, Executing, At

(* The worker closes the channel and drops its guard.                       *)
LEMMA CloseStep ==
  ASSUME IInv, NEW r \in Requests, Close(r)
  PROVE  IInv'
<1>1. /\ TypesOK /\ rec[r] \in Record /\ worker[r] \in Worker /\ resp[r] \in Response
      /\ LifeOK(rec[r], worker[r], resp[r])
      /\ At(r) \in Executing \ {"waiting"} => r \in running
      /\ r \in sent => rec[r].delivery # "not_started"
  BY OneExchange
<1> DEFINE p == Guarded(rec[r])
           w == [worker[r] EXCEPT !.at = "closed"]
<1>2. worker[r].at = "published" /\ rec[r].outcome # "none"
  BY <1>1 DEF Close, At, LifeOK, RecordOK
<1>3. /\ p \in Record /\ p.outcome = rec[r].outcome /\ p.delivery = rec[r].delivery
      /\ p.aged = rec[r].aged /\ p.phase = rec[r].phase
  BY <1>1, <1>2, RecordGuarded
<1>4. w \in Worker /\ w.at = "closed"
  BY <1>1, WorkerAt DEF Locations
<1>5. Moves(r, p, w, resp[r])
  BY <1>1, <1>3, <1>4 DEF Moves, TypesOK, Close
<1> HIDE DEF p, w
<1>6. LifeOK(p, w, resp[r])
  BY <1>1, <1>2, <1>3, <1>4
  DEF LifeOK, RecordOK, StreamOK, Executing, BeforeBody, Unread
<1>7. QED
  BY <1>1, <1>2, <1>3, <1>4, <1>5, <1>6, QuietStep DEF TypesOK, Close, Executing, At

(* A frame leaves the channel for the client.                               *)
LEMMA ReadStep ==
  ASSUME IInv, NEW r \in Requests, Read(r)
  PROVE  IInv'
<1>1. /\ TypesOK /\ rec[r] \in Record /\ worker[r] \in Worker /\ resp[r] \in Response
      /\ LifeOK(rec[r], worker[r], resp[r])
      /\ At(r) \in Executing \ {"waiting"} => r \in running
      /\ r \in sent => rec[r].delivery # "not_started"
  BY OneExchange
<1> DEFINE q == [resp[r] EXCEPT !.got = @ \o resp[r].chan, !.chan = <<>>]
<1>2. PICK f \in Frames : resp[r].chan = <<f>>
  BY <1>1 DEF Read, Response
<1>3. resp[r].reader = "open" /\ resp[r].got \in Seq(Frames \cup Outcomes)
  BY <1>1 DEF Read, Response
<1> DEFINE g == resp[r].got
           h == g \o <<f>>
<1>4. /\ h \in Seq(Frames \cup Outcomes) /\ Len(h) = Len(g) + 1 /\ Len(g) \in Nat
      /\ \A i \in 1..Len(g) : h[i] = g[i]
      /\ h[Len(g) + 1] = f
  BY <1>3
<1>5. /\ q \in Response /\ q.chan = <<>> /\ q.got = h
      /\ q.reader = "open" /\ q.terminal = resp[r].terminal
  BY <1>1, <1>2, <1>3, <1>4 DEF Response
<1>6. Moves(r, rec[r], worker[r], q)
  BY <1>1, <1>5 DEF Moves, TypesOK, Read
<1> HIDE DEF q, h
<1>7. h # <<>> /\ h[1] = "metadata"
  <2>1. CASE f = "metadata"
    <3>1. g = <<>>
      BY <1>1, <1>2, <2>1 DEF LifeOK, StreamOK, GotOK
    <3>2. QED
      BY <1>4, <2>1, <3>1
  <2>2. CASE f = "data"
    <3>1. g # <<>> /\ g[1] = "metadata"
      BY <1>1, <1>2, <2>2 DEF LifeOK, StreamOK, GotOK
    <3>2. 1 \in 1..Len(g)
      BY <1>3, <3>1
    <3>3. QED
      BY <1>4, <3>1, <3>2
  <2>3. QED
    BY <2>1, <2>2 DEF Frames
<1>8. \A i \in 1..Len(h) : /\ h[i] = "metadata" => i = 1
                           /\ h[i] \notin Outcomes
  <2>1. \A i \in 1..Len(g) : (g[i] = "metadata" => i = 1) /\ g[i] \notin Outcomes
    BY <1>1, <1>3 DEF LifeOK, StreamOK, GotOK
  <2>2. f = "metadata" => g = <<>>
    BY <1>1, <1>2 DEF LifeOK, StreamOK, GotOK
  <2>3. f \notin Outcomes
    BY DEF Frames, Outcomes, Errors
  <2>4. QED
    BY <1>4, <2>1, <2>2, <2>3
<1>9. GotOK(q, rec[r].outcome) /\ HeadSent(q)
  BY <1>5, <1>7, <1>8 DEF GotOK, HeadSent
<1>10. worker[r].at \notin BeforeBody
  BY <1>1, <1>2 DEF LifeOK, StreamOK
<1>11. LifeOK(rec[r], worker[r], q)
  BY <1>1, <1>3, <1>5, <1>9, <1>10 DEF LifeOK, StreamOK
<1>12. QED
  BY <1>1, <1>3, <1>5, <1>6, <1>11, QuietStep DEF TypesOK, Read, At

(* All senders are gone: the stream ends with the terminal, and the guard   *)
(* cancels an execution that is over (handlers.rs:257-263).                 *)
LEMMA ReadEndStep ==
  ASSUME IInv, NEW r \in Requests, ReadEnd(r)
  PROVE  IInv'
<1>1. /\ TypesOK /\ rec[r] \in Record /\ worker[r] \in Worker /\ resp[r] \in Response
      /\ LifeOK(rec[r], worker[r], resp[r])
      /\ At(r) \in Executing \ {"waiting"} => r \in running
      /\ r \in sent => rec[r].delivery # "not_started"
  BY OneExchange
<1> DEFINE o == rec[r].outcome
           g == resp[r].got
           h == Append(g, o)
           q == [resp[r] EXCEPT !.reader = "ended", !.terminal = "none",
                   !.got = IF resp[r].terminal = "none" THEN @ ELSE Append(@, resp[r].terminal)]
           p == [rec[r] EXCEPT !.cancelled = TRUE]
<1>2. /\ resp[r].reader = "open" /\ resp[r].chan = <<>> /\ worker[r].at = "closed"
      /\ o # "none" /\ o \in Outcomes /\ resp[r].terminal = o
  BY <1>1 DEF ReadEnd, SenderGone, At, LifeOK, StreamOK, RecordOK, Record
<1>3. g \in Seq(Frames \cup Outcomes)
  BY <1>1 DEF Response
<1>4. /\ h \in Seq(Frames \cup Outcomes) /\ Len(h) = Len(g) + 1 /\ Len(g) \in Nat
      /\ \A i \in 1..Len(g) : h[i] = g[i]
      /\ h[Len(g) + 1] = o
  BY <1>2, <1>3
<1>5. /\ q \in Response /\ q.chan = <<>> /\ q.got = h
      /\ q.reader = "ended" /\ q.terminal = "none"
  BY <1>1, <1>2, <1>4 DEF Response, Outcomes
<1>6. /\ p \in Record /\ p.outcome = o /\ p.aged = rec[r].aged
      /\ p.phase = rec[r].phase /\ p.delivery = rec[r].delivery
  BY <1>1, RecordCancelled
<1>7. Moves(r, p, worker[r], q)
  BY <1>1, <1>5, <1>6 DEF Moves, TypesOK, ReadEnd
<1> HIDE DEF q, h, p
<1>8. GotOK(q, o)
  <2>1. \A i \in 1..Len(g) : /\ g[i] = "metadata" => i = 1
                             /\ g[i] = "data" => g[1] = "metadata"
                             /\ g[i] \notin Outcomes
    BY <1>1, <1>2 DEF LifeOK, StreamOK, GotOK
  <2>2. o = "complete" => g # <<>> /\ g[1] = "metadata"
    BY <1>1, <1>2 DEF LifeOK, StreamOK, HeadSent
  <2>3. g # <<>> => h[1] = g[1]
    BY <1>3, <1>4
  <2>4. "complete" \in Outcomes /\ "data" \notin Outcomes /\ "metadata" \notin Outcomes
    BY DEF Outcomes, Errors
  <2>5. \A i \in 1..Len(h) : /\ h[i] = "metadata" => i = 1
                             /\ h[i] \in {"data", "complete"} => h[1] = "metadata"
                             /\ h[i] \in Outcomes => i = Len(h) /\ h[i] = o
    <3>1. ASSUME NEW i \in 1..Len(h), i # Len(h)
          PROVE  /\ h[i] = "metadata" => i = 1
                 /\ h[i] \in {"data", "complete"} => h[1] = "metadata"
                 /\ h[i] \notin Outcomes
      <4>1. i \in 1..Len(g) /\ h[i] = g[i] /\ g # <<>>
        BY <1>3, <1>4, <3>1
      <4>2. QED
        BY <2>1, <2>3, <2>4, <4>1
    <3>2. /\ h[Len(h)] = o /\ o # "metadata" /\ o # "data"
          /\ o = "complete" => h[1] = "metadata"
      BY <1>2, <1>4, <2>2, <2>3, <2>4
    <3>3. QED
      BY <3>1, <3>2
  <2>6. h # <<>> /\ h[Len(h)] \in Outcomes
    BY <1>2, <1>4
  <2>7. QED
    BY <1>5, <2>5, <2>6 DEF GotOK
<1>9. LifeOK(p, worker[r], q)
  BY <1>1, <1>2, <1>5, <1>6, <1>8 DEF LifeOK, RecordOK, StreamOK, BeforeBody, Unread
<1>10. QED
  BY <1>1, <1>2, <1>5, <1>6, <1>7, <1>9, QuietStep DEF TypesOK, ReadEnd, At, Executing

(* The stream is dropped with its ResponseGuard.                            *)
LEMMA DisconnectStep ==
  ASSUME IInv, NEW r \in Requests, Disconnect(r)
  PROVE  IInv'
<1>1. /\ TypesOK /\ rec[r] \in Record /\ worker[r] \in Worker /\ resp[r] \in Response
      /\ LifeOK(rec[r], worker[r], resp[r])
      /\ At(r) \in Executing \ {"waiting"} => r \in running
      /\ r \in sent => rec[r].delivery # "not_started"
  BY OneExchange
<1> DEFINE q == [resp[r] EXCEPT !.reader = "gone", !.chan = <<>>]
           p == [rec[r] EXCEPT !.cancelled = TRUE]
<1>2. /\ q \in Response /\ q.chan = <<>> /\ q.got = resp[r].got /\ q.reader = "gone"
  BY <1>1 DEF Response
<1>3. /\ p \in Record /\ p.outcome = rec[r].outcome /\ p.aged = rec[r].aged
      /\ p.phase = rec[r].phase /\ p.delivery = rec[r].delivery
  BY <1>1, RecordCancelled
<1>4. Moves(r, p, worker[r], q)
  BY <1>1, <1>2, <1>3 DEF Moves, TypesOK, Disconnect
<1>5. resp[r].reader = "open"
  BY DEF Disconnect
<1> HIDE DEF q, p
<1>6. GotOK(q, p.outcome)
  BY <1>1, <1>2, <1>3, <1>5 DEF LifeOK, StreamOK, GotOK
<1>7. LifeOK(p, worker[r], q)
  BY <1>1, <1>2, <1>3, <1>5, <1>6 DEF LifeOK, RecordOK, StreamOK
<1>8. QED
  BY <1>1, <1>2, <1>3, <1>4, <1>5, <1>7, QuietStep DEF TypesOK, Disconnect, At

(* DELETE sets the token; a finished record's retention time runs out.      *)
LEMMA CancelSteps ==
  ASSUME IInv, NEW r \in Requests, Cancel(r) \/ Ages(r)
  PROVE  IInv'
<1>1. /\ TypesOK /\ rec[r] \in Record /\ worker[r] \in Worker /\ resp[r] \in Response
      /\ LifeOK(rec[r], worker[r], resp[r])
      /\ At(r) \in Executing \ {"waiting"} => r \in running
      /\ r \in sent => rec[r].delivery # "not_started"
  BY OneExchange
<1>2. PICK p \in Record :
        /\ rec' = [rec EXCEPT ![r] = p]
        /\ p.outcome = rec[r].outcome /\ p.phase = rec[r].phase /\ p.delivery = rec[r].delivery
        /\ rec[r].aged => p.aged
        /\ p.aged => p.outcome # "none"
  <2>1. CASE Cancel(r)
    <3>1. rec' = [rec EXCEPT ![r] = [rec[r] EXCEPT !.cancelled = TRUE]]
      BY <2>1 DEF Cancel
    <3>2. QED
      BY <1>1, <3>1, RecordCancelled DEF LifeOK, RecordOK
  <2>2. CASE Ages(r)
    <3> DEFINE p == [rec[r] EXCEPT !.aged = TRUE]
    <3>1. rec' = [rec EXCEPT ![r] = p] /\ rec[r].outcome # "none"
      BY <2>2 DEF Ages
    <3>2. /\ p \in Record /\ p.outcome = rec[r].outcome /\ p.aged = TRUE
          /\ p.phase = rec[r].phase /\ p.delivery = rec[r].delivery
      BY <1>1 DEF Record
    <3>3. QED
      BY <3>1, <3>2
  <2>3. QED
    BY <2>1, <2>2
<1>3. Moves(r, p, worker[r], resp[r])
  BY <1>1, <1>2 DEF Moves, TypesOK, Cancel, Ages
<1>4. LifeOK(p, worker[r], resp[r])
  BY <1>1, <1>2 DEF LifeOK, RecordOK, StreamOK
<1>5. QED
  BY <1>1, <1>2, <1>3, <1>4, QuietStep DEF TypesOK, Cancel, Ages, At

-----------------------------------------------------------------------------
(* Admission's promises, as the lifecycle uses them.                        *)

(* The queue operations of the instance are those of module Queues.         *)
LEMMA SameQueues ==
  ASSUME NEW s, NEW e
  PROVE  Admission!Elems(s) = Elems(s) /\ Admission!Without(s, e) = Without(s, e)
BY DEF Admission!Elems, Elems, Admission!Without, Without, Admission!RemoveIndex, RemoveIndex

(* A request that is in no queue of its partition is in none.               *)
LEMMA OnlyInOwnQueue ==
  ASSUME QueuesOK, NEW r \in Requests, NEW k \in Partitions, r \in Elems(waiting[k])
  PROVE  k = PartitionOf[r] /\ InQueue(r) /\ r \notin running
BY DEF QueuesOK, InQueue

(* A ticket that starts at once is in no queue.                             *)
LEMMA AdmitQueues ==
  ASSUME QueuesOK, NEW r \in Requests, Admission!Admit(r)
  PROVE  /\ QueuesOK' /\ running' = running \cup {r} /\ r \notin running
         /\ \A s \in Requests : InQueue(s)' <=> InQueue(s)
<1>1. ~InQueue(r) /\ r \notin running /\ running' = running \cup {r} /\ waiting' = waiting
  BY SameQueues DEF Admission!Admit, Admission!Absent, InQueue
<1>2. \A k \in Partitions : r \notin Elems(waiting[k])
  BY <1>1, OnlyInOwnQueue
<1>3. QueuesOK'
  BY <1>1, <1>2 DEF QueuesOK
<1>4. QED
  BY <1>1, <1>3 DEF InQueue

(* A ticket that has to wait joins its partition's queue.                   *)
LEMMA QueueQueues ==
  ASSUME QueuesOK, NEW r \in Requests, Admission!Queue(r)
  PROVE  /\ QueuesOK' /\ running' = running /\ InQueue(r)'
         /\ \A s \in Requests \ {r} : InQueue(s)' <=> InQueue(s)
<1> DEFINE k == PartitionOf[r]
<1>1. /\ ~InQueue(r) /\ r \notin running /\ running' = running
      /\ waiting' = [waiting EXCEPT ![k] = Append(waiting[k], r)]
  BY SameQueues DEF Admission!Queue, Admission!Absent, InQueue
<1>2. k \in Partitions /\ waiting[k] \in Seq(Requests) /\ Distinct(waiting[k])
  BY RequestsAssumption DEF QueuesOK
<1>3. /\ Append(waiting[k], r) \in Seq(Requests)
      /\ Elems(Append(waiting[k], r)) = Elems(waiting[k]) \cup {r}
      /\ Distinct(Append(waiting[k], r))
  BY <1>1, <1>2, AppendLemma DEF InQueue
<1>4. /\ waiting' \in [Partitions -> Seq(Requests)]
      /\ \A j \in Partitions : Distinct(waiting'[j])
      /\ \A j \in Partitions : Elems(waiting'[j]) = IF j = k THEN Elems(waiting[j]) \cup {r} ELSE Elems(waiting[j])
  BY <1>1, <1>2, <1>3 DEF QueuesOK
<1>5. \A j \in Partitions : \A t : t \in Elems(waiting'[j]) <=> t \in Elems(waiting[j]) \/ (j = k /\ t = r)
  BY <1>4
<1>6. QueuesOK'
  BY <1>1, <1>4, <1>5 DEF QueuesOK
<1>7. \A s \in Requests : InQueue(s)' <=> InQueue(s) \/ s = r
  BY <1>5, RequestsAssumption DEF InQueue
<1>8. QED
  BY <1>1, <1>6, <1>7

(* The head of a queue starts and leaves it.                                *)
LEMMA StartQueues ==
  ASSUME QueuesOK, NEW r \in Requests, Head(waiting[PartitionOf[r]]) = r, Admission!Start(PartitionOf[r])
  PROVE  /\ QueuesOK' /\ running' = running \cup {r} /\ InQueue(r)
         /\ \A s \in Requests : InQueue(s)' <=> InQueue(s) /\ s # r
<1> DEFINE k == PartitionOf[r]
<1>1. /\ waiting[k] # <<>> /\ running' = running \cup {r}
      /\ waiting' = [waiting EXCEPT ![k] = Tail(waiting[k])]
  BY DEF Admission!Start, Admission!Ready
<1>2. k \in Partitions /\ waiting[k] \in Seq(Requests) /\ Distinct(waiting[k])
  BY RequestsAssumption DEF QueuesOK
<1>3. /\ Tail(waiting[k]) \in Seq(Requests) /\ r \in Elems(waiting[k])
      /\ Elems(Tail(waiting[k])) = Elems(waiting[k]) \ {r}
      /\ Distinct(Tail(waiting[k]))
  BY <1>1, <1>2, TailLemma
<1>4. /\ waiting' \in [Partitions -> Seq(Requests)]
      /\ \A j \in Partitions : Distinct(waiting'[j])
      /\ \A j \in Partitions : Elems(waiting'[j]) = IF j = k THEN Elems(waiting[j]) \ {r} ELSE Elems(waiting[j])
  BY <1>1, <1>2, <1>3 DEF QueuesOK
<1>5. \A j \in Partitions : Elems(waiting'[j]) = Elems(waiting[j]) \ {r}
  BY <1>4 DEF QueuesOK
<1>6. QueuesOK'
  BY <1>1, <1>4, <1>5 DEF QueuesOK
<1>7. QED
  BY <1>1, <1>2, <1>3, <1>5, <1>6, RequestsAssumption DEF InQueue

(* Dropping the ticket gives back the slot or the place in the queue.       *)
LEMMA ReleaseQueues ==
  ASSUME QueuesOK, NEW r \in Requests, Release(r)
  PROVE  /\ QueuesOK' /\ running' = running \ {r}
         /\ \A s \in Requests : InQueue(s)' <=> InQueue(s) /\ s # r
<1>1. CASE r \in running
  <2>1. running' = running \ {r} /\ waiting' = waiting
    BY <1>1 DEF Release, Admission!Finish
  <2>2. ~InQueue(r)
    BY <1>1, RequestsAssumption DEF QueuesOK, InQueue
  <2>3. QED
    BY <2>1, <2>2 DEF QueuesOK, InQueue
<1>2. CASE r \notin running
  <2> DEFINE k == PartitionOf[r]
  <2>1. running' = running /\ waiting' = [waiting EXCEPT ![k] = Without(waiting[k], r)]
    BY <1>2, SameQueues DEF Release, Admission!GiveUp
  <2>2. k \in Partitions /\ waiting[k] \in Seq(Requests) /\ Distinct(waiting[k])
    BY RequestsAssumption DEF QueuesOK
  <2>3. /\ Without(waiting[k], r) \in Seq(Requests)
        /\ Elems(Without(waiting[k], r)) = Elems(waiting[k]) \ {r}
        /\ Distinct(Without(waiting[k], r))
    BY <2>2, WithoutLemma
  <2>4. /\ waiting' \in [Partitions -> Seq(Requests)]
        /\ \A j \in Partitions : Distinct(waiting'[j])
        /\ \A j \in Partitions : Elems(waiting'[j]) = IF j = k THEN Elems(waiting[j]) \ {r} ELSE Elems(waiting[j])
    BY <2>1, <2>2, <2>3 DEF QueuesOK
  <2>5. \A j \in Partitions : Elems(waiting'[j]) = Elems(waiting[j]) \ {r}
    BY <2>4 DEF QueuesOK
  <2>6. QueuesOK'
    BY <2>1, <2>4, <2>5 DEF QueuesOK
  <2>7. QED
    BY <1>2, <2>1, <2>2, <2>5, <2>6, RequestsAssumption DEF InQueue
<1>3. QED
  BY <1>1, <1>2

-----------------------------------------------------------------------------
(* The steps that move permits, admission or the registry.                  *)

(* The envelope's permit is taken, or given back on an error.               *)
LEMMA ArriveSteps ==
  ASSUME IInv, NEW r \in Requests, Arrive(r) \/ EnvelopeFails(r)
  PROVE  IInv'
<1>1. /\ TypesOK /\ rec[r] \in Record /\ worker[r] \in Worker /\ resp[r] \in Response
      /\ LifeOK(rec[r], worker[r], resp[r])
      /\ At(r) \in Executing \ {"waiting"} => r \in running
      /\ r \in sent => rec[r].delivery # "not_started"
  BY OneExchange
<1>2. PICK l \in {"envelope", "refused"} :
        /\ worker' = [worker EXCEPT ![r].at = l]
        /\ permits' = permits + (IF At(r) = "envelope" THEN 1 ELSE 0) - (IF l = "envelope" THEN 1 ELSE 0)
        /\ l = "envelope" => permits > 0 /\ serving \in {"up", "cancelling"} /\ At(r) = "new"
        /\ At(r) \in {"new", "envelope"}
        /\ UNCHANGED <<rec, records, resp, late, sent, running, waiting, serving>>
  <2>1. CASE Arrive(r)
    <3>1. permits \in Nat
      BY DEF IInv, PermitsOK
    <3>2. QED
      BY <2>1, <3>1 DEF Arrive, AcquirePermit
  <2>2. CASE EnvelopeFails(r)
    BY <2>2 DEF EnvelopeFails, ReleasePermit, IInv, PermitsOK
  <2>3. QED
    BY <2>1, <2>2
<1> DEFINE w == [worker[r] EXCEPT !.at = l]
<1>3. w \in Worker /\ w.at = l
  BY <1>1, WorkerAt DEF Locations
<1>4. Moves(r, rec[r], w, resp[r])
  BY <1>1, <1>2, <1>3 DEF Moves, TypesOK
<1> HIDE DEF w
<1>5. LifeOK(rec[r], w, resp[r])
  BY <1>1, <1>2, <1>3 DEF LifeOK, RecordOK, StreamOK, Executing, BeforeBody, Unread, At
<1>6. RegistryOK'
  BY <1>2, <1>4, RegistryStep
<1>7. QueuesOK'
  BY <1>2 DEF IInv, QueuesOK
<1>8. OwnedOK'
  <2>1. ~(r \in running \/ InQueue(r))
    BY <1>2 DEF IInv, OwnedOK, Executing
  <2>2. \A s \in Requests : (s \in running' <=> s \in running) /\ (InQueue(s)' <=> InQueue(s))
    BY <1>2 DEF InQueue
  <2>3. l \notin Executing
    BY DEF Executing
  <2>4. QED
    BY <1>3, <1>4, <2>1, <2>2, <2>3, OwnedStep
<1>9. PermitsOK'
  <2>1. permits' \in Nat
    BY <1>2 DEF IInv, PermitsOK
  <2>2. QED
    BY <1>2, <1>3, <1>4, <2>1, PermitsStep
<1>10. ServingOK'
  BY <1>2, <1>3, <1>4, ServingStep
<1>11. QED
  BY <1>1, <1>2, <1>4, <1>5, <1>6, <1>7, <1>8, <1>9, <1>10, Combine DEF TypesOK

(* A duplicate, or no room: the permit goes back (registry.rs:124-160).     *)
LEMMA RegisterRefusedStep ==
  ASSUME IInv, NEW r \in Requests, RegisterRefused(r)
  PROVE  IInv'
<1>1. /\ TypesOK /\ rec[r] \in Record /\ worker[r] \in Worker /\ resp[r] \in Response
      /\ LifeOK(rec[r], worker[r], resp[r])
      /\ At(r) \in Executing \ {"waiting"} => r \in running
      /\ r \in sent => rec[r].delivery # "not_started"
  BY OneExchange
<1> DEFINE w == [worker[r] EXCEPT !.at = "refused"]
<1>2. w \in Worker /\ w.at = "refused" /\ At(r) = "envelope" /\ worker[r].at = "envelope"
  BY <1>1, WorkerAt DEF Locations, RegisterRefused, At
<1>3. Moves(r, rec[r], w, resp[r])
  BY <1>1, <1>2 DEF Moves, TypesOK, RegisterRefused
<1> HIDE DEF w
<1>4. LifeOK(rec[r], w, resp[r])
  BY <1>1, <1>2 DEF LifeOK, RecordOK, StreamOK, Executing, BeforeBody, Unread
<1>5. RegistryOK'
  BY <1>3, RegistryStep DEF RegisterRefused
<1>6. QueuesOK'
  BY DEF IInv, QueuesOK, RegisterRefused
<1>7. OwnedOK'
  <2>1. ~(r \in running \/ InQueue(r))
    BY <1>2 DEF IInv, OwnedOK, Executing
  <2>2. \A s \in Requests : (s \in running' <=> s \in running) /\ (InQueue(s)' <=> InQueue(s))
    BY DEF InQueue, RegisterRefused
  <2>3. "refused" \notin Executing
    BY DEF Executing
  <2>4. QED
    BY <1>2, <1>3, <2>1, <2>2, <2>3, OwnedStep
<1>8. PermitsOK'
  <2>1. permits' = permits + 1 /\ permits \in Nat
    BY DEF IInv, PermitsOK, RegisterRefused, ReleasePermit
  <2>2. QED
    BY <1>2, <1>3, <2>1, PermitsStep
<1>9. ServingOK'
  BY <1>2, <1>3, ServingStep DEF RegisterRefused
<1>10. QED
  BY <1>1, <1>3, <1>4, <1>5, <1>6, <1>7, <1>8, <1>9, Combine DEF TypesOK, RegisterRefused, Recent

(* A free id and room for it: the record enters the map.                    *)
LEMMA RegisterStep ==
  ASSUME IInv, NEW r \in Requests, Register(r)
  PROVE  IInv'
<1>1. /\ TypesOK /\ rec[r] \in Record /\ worker[r] \in Worker /\ resp[r] \in Response
      /\ LifeOK(rec[r], worker[r], resp[r])
      /\ At(r) \in Executing \ {"waiting"} => r \in running
      /\ r \in sent => rec[r].delivery # "not_started"
  BY OneExchange
<1> DEFINE w == [worker[r] EXCEPT !.at = "registered"]
           p == [rec[r] EXCEPT !.phase = "queued"]
<1>2. w \in Worker /\ w.at = "registered" /\ At(r) = "envelope" /\ worker[r].at = "envelope"
  BY <1>1, WorkerAt DEF Locations, Register, At
<1>3. /\ p \in Record /\ p.phase = "queued" /\ p.outcome = rec[r].outcome
      /\ p.delivery = rec[r].delivery /\ p.aged = rec[r].aged
  BY <1>1 DEF Record
<1>4. Moves(r, p, w, resp[r])
  BY <1>1, <1>2, <1>3 DEF Moves, TypesOK, Register
<1>5. rec[r].phase = "absent" /\ rec[r].outcome = "none" /\ ~rec[r].aged
  BY <1>1, <1>2 DEF LifeOK, RecordOK
<1> HIDE DEF w, p
<1>6. LifeOK(p, w, resp[r])
  BY <1>1, <1>2, <1>3, <1>5 DEF LifeOK, RecordOK, StreamOK, Executing, BeforeBody, Unread
<1>7. RegistryOK'
  <2>1. RegistryOK /\ records' = Recent \cup {r} /\ Recent \subseteq records /\ records \subseteq Requests
    BY <1>1 DEF IInv, Register, Recent, TypesOK
  <2>2. /\ rec'[r] = p /\ Registered(r)'
        /\ \A s \in Requests \ {r} : rec'[s] = rec[s] /\ (Registered(s)' <=> Registered(s))
    BY <1>1, <1>3, <1>4, Moved DEF Registered
  <2>3. Cardinality(records') <= Capacity
    <3>1. IsFiniteSet(Recent)
      BY <2>1, RequestsAssumption, FS_Subset
    <3>2. /\ Cardinality(Recent) \in Nat
          /\ Cardinality(Recent \cup {r}) = IF r \in Recent THEN Cardinality(Recent) ELSE Cardinality(Recent) + 1
      BY <3>1, CountOne
    <3>3. QED
      BY <2>1, <3>2, RequestsAssumption DEF Register, HasRoom
  <2>4. \A s \in Requests : Registered(s)' /\ ~rec'[s].aged => s \in records'
    BY <2>1, <2>2 DEF RegistryOK, Recent
  <2>5. \A s \in records' : Registered(s)'
    BY <2>1, <2>2 DEF RegistryOK
  <2>6. ASSUME NEW s \in Requests \ {r}, IdOf[s] = IdOf[r], Registered(s)
        PROVE  rec'[s].aged
    <3>1. s \notin Recent
      BY <2>6 DEF Register, Duplicate
    <3>2. rec[s].aged
      BY <2>1, <2>6, <3>1 DEF RegistryOK, Recent
    <3>3. QED
      BY <2>2, <2>6, <3>2
  <2>7. ASSUME NEW s \in Requests, NEW t \in Requests,
               s # t, IdOf[s] = IdOf[t], Registered(s)', Registered(t)'
        PROVE  rec'[s].aged \/ rec'[t].aged
    <3>1. CASE s = r \/ t = r
      BY <2>2, <2>6, <2>7, <3>1
    <3>2. CASE s # r /\ t # r
      BY <2>1, <2>2, <2>7, <3>2 DEF RegistryOK
    <3>3. QED
      BY <3>1, <3>2
  <2>8. QED
    BY <2>3, <2>4, <2>5, <2>7 DEF RegistryOK
<1>8. QueuesOK'
  BY DEF IInv, QueuesOK, Register
<1>9. OwnedOK'
  <2>1. ~(r \in running \/ InQueue(r))
    BY <1>2 DEF IInv, OwnedOK, Executing
  <2>2. \A s \in Requests : (s \in running' <=> s \in running) /\ (InQueue(s)' <=> InQueue(s))
    BY DEF InQueue, Register
  <2>3. "registered" \notin Executing
    BY DEF Executing
  <2>4. QED
    BY <1>2, <1>4, <2>1, <2>2, <2>3, OwnedStep
<1>10. PermitsOK'
  <2>1. permits' = permits /\ permits \in Nat
    BY DEF IInv, PermitsOK, Register
  <2>2. QED
    BY <1>2, <1>4, <2>1, PermitsStep
<1>11. ServingOK'
  BY <1>2, <1>4, ServingStep DEF Register
<1>12. QED
  BY <1>1, <1>3, <1>4, <1>6, <1>7, <1>8, <1>9, <1>10, <1>11, Combine DEF TypesOK, Register, Recent

(* Admission::enter: a slot or a place in the queue; the envelope's permit  *)
(* goes back and the response begins (handlers.rs:215-254).                 *)
LEMMA EnterStep ==
  ASSUME IInv, NEW r \in Requests, Enter(r)
  PROVE  IInv'
<1>1. /\ TypesOK /\ rec[r] \in Record /\ worker[r] \in Worker /\ resp[r] \in Response
      /\ LifeOK(rec[r], worker[r], resp[r])
      /\ At(r) \in Executing \ {"waiting"} => r \in running
      /\ r \in sent => rec[r].delivery # "not_started"
  BY OneExchange
<1> DEFINE w == [worker[r] EXCEPT !.at = "waiting"]
           q == [resp[r] EXCEPT !.reader = "open"]
<1>2. w \in Worker /\ w.at = "waiting" /\ At(r) = "registered" /\ worker[r].at = "registered"
  BY <1>1, WorkerAt DEF Locations, Executing, Enter, At
<1>3. q \in Response /\ q.reader = "open" /\ q.chan = resp[r].chan /\ q.got = resp[r].got
  BY <1>1 DEF Response
<1>4. Moves(r, rec[r], w, q)
  BY <1>1, <1>2, <1>3 DEF Moves, TypesOK, Enter
<1> HIDE DEF w, q
<1>5. rec[r].outcome = "none" /\ resp[r].got = <<>> /\ resp[r].chan = <<>>
  BY <1>1, <1>2 DEF LifeOK, RecordOK, StreamOK, BeforeBody, Unread
<1>6. GotOK(q, rec[r].outcome)
  BY <1>3, <1>5 DEF GotOK
<1>7. LifeOK(rec[r], w, q)
  BY <1>1, <1>2, <1>3, <1>5, <1>6 DEF LifeOK, RecordOK, StreamOK, Executing, BeforeBody, Unread
<1>8. RegistryOK'
  BY <1>4, RegistryStep DEF Enter
<1>9. /\ QueuesOK'
      /\ r \in running' \/ InQueue(r)'
      /\ \A s \in Requests \ {r} : (s \in running' <=> s \in running) /\ (InQueue(s)' <=> InQueue(s))
  <2>1. QueuesOK
    BY DEF IInv
  <2>2. CASE Admission!Admit(r)
    BY <2>1, <2>2, AdmitQueues
  <2>3. CASE Admission!Queue(r)
    BY <2>1, <2>3, QueueQueues
  <2>4. QED
    BY <2>2, <2>3 DEF Enter
<1>10. OwnedOK'
  <2>1. "waiting" \in Executing
    BY DEF Executing
  <2>2. QED
    BY <1>2, <1>4, <1>9, <2>1, OwnedStep
<1>11. PermitsOK'
  <2>1. permits' = permits + 1 /\ permits \in Nat
    BY DEF IInv, PermitsOK, Enter, ReleasePermit
  <2>2. QED
    BY <1>2, <1>4, <2>1, PermitsStep
<1>12. ServingOK'
  <2>1. serving # "stopped"
    BY <1>2 DEF IInv, ServingOK, Drained
  <2>2. QED
    BY <1>4, <2>1, ServingStep DEF Enter
<1>13. QED
  BY <1>1, <1>4, <1>7, <1>8, <1>9, <1>10, <1>11, <1>12, Combine DEF TypesOK, Enter

(* Admission is full: the record is finished as Busy.                       *)
LEMMA EnterRefusedStep ==
  ASSUME IInv, NEW r \in Requests, EnterRefused(r)
  PROVE  IInv'
<1>1. /\ TypesOK /\ rec[r] \in Record /\ worker[r] \in Worker /\ resp[r] \in Response
      /\ LifeOK(rec[r], worker[r], resp[r])
      /\ At(r) \in Executing \ {"waiting"} => r \in running
      /\ r \in sent => rec[r].delivery # "not_started"
  BY OneExchange
<1> DEFINE w == [worker[r] EXCEPT !.at = "refused"]
           p == Finished(rec[r], "Busy")
<1>2. w \in Worker /\ w.at = "refused" /\ At(r) = "registered" /\ worker[r].at = "registered"
  BY <1>1, WorkerAt DEF Locations, EnterRefused, At
<1>3. rec[r].outcome = "none" /\ rec[r].phase # "absent" /\ resp[r].got = <<>> /\ resp[r].chan = <<>>
  BY <1>1, <1>2 DEF LifeOK, RecordOK, StreamOK, BeforeBody, Unread
<1>4. /\ p \in Record /\ p.outcome = "Busy" /\ p.delivery = rec[r].delivery
      /\ p.aged = rec[r].aged /\ p.phase # "absent"
  BY <1>1, <1>3, RecordFinished DEF Outcomes, Errors
<1>5. Moves(r, p, w, resp[r])
  BY <1>1, <1>2, <1>4 DEF Moves, TypesOK, EnterRefused
<1> HIDE DEF w, p
<1>6. resp[r].reader = "none"
  BY <1>1, <1>2 DEF LifeOK, StreamOK, Unread
<1>7. GotOK(resp[r], p.outcome)
  BY <1>3, <1>6 DEF GotOK
<1>8. LifeOK(p, w, resp[r])
  BY <1>1, <1>2, <1>3, <1>4, <1>6, <1>7 DEF LifeOK, RecordOK, StreamOK, Executing, BeforeBody, Unread
<1>9. running' = running /\ waiting' = waiting
  BY DEF EnterRefused, Admission!Refuse, Admission!vars
<1>10. RegistryOK'
  BY <1>3, <1>4, <1>5, RegistryStep DEF EnterRefused
<1>11. QueuesOK'
  BY <1>9 DEF IInv, QueuesOK
<1>12. OwnedOK'
  <2>1. ~(r \in running \/ InQueue(r))
    BY <1>2 DEF IInv, OwnedOK, Executing
  <2>2. \A s \in Requests : (s \in running' <=> s \in running) /\ (InQueue(s)' <=> InQueue(s))
    BY <1>9 DEF InQueue
  <2>3. "refused" \notin Executing
    BY DEF Executing
  <2>4. QED
    BY <1>2, <1>5, <2>1, <2>2, <2>3, OwnedStep
<1>13. PermitsOK'
  <2>1. permits' = permits + 1 /\ permits \in Nat
    BY DEF IInv, PermitsOK, EnterRefused, ReleasePermit
  <2>2. QED
    BY <1>2, <1>5, <2>1, PermitsStep
<1>14. ServingOK'
  BY <1>2, <1>5, ServingStep DEF EnterRefused
<1>15. QED
  BY <1>1, <1>4, <1>5, <1>8, <1>10, <1>11, <1>12, <1>13, <1>14, Combine DEF TypesOK, EnterRefused

(* ticket.wait() gets its slot.                                             *)
LEMMA StartStep ==
  ASSUME IInv, NEW r \in Requests, Start(r)
  PROVE  IInv'
<1>1. /\ TypesOK /\ rec[r] \in Record /\ worker[r] \in Worker /\ resp[r] \in Response
      /\ LifeOK(rec[r], worker[r], resp[r])
      /\ At(r) \in Executing \ {"waiting"} => r \in running
      /\ r \in sent => rec[r].delivery # "not_started"
  BY OneExchange
<1>2. At(r) = "waiting" /\ QueuesOK /\ Moves(r, rec[r], worker[r], resp[r])
  BY <1>1 DEF IInv, Start, Moves, TypesOK
<1>3. /\ QueuesOK' /\ running' = running \cup {r}
      /\ \A s \in Requests : InQueue(s)' <=> InQueue(s) /\ s # r
  BY <1>2, StartQueues DEF Start
<1>4. RegistryOK'
  BY <1>2, RegistryStep DEF Start
<1>5. OwnedOK'
  <2>1. worker[r].at \in Executing
    BY <1>2 DEF At, Executing
  <2>2. QED
    BY <1>2, <1>3, <2>1, OwnedStep
<1>6. PermitsOK'
  <2>1. permits \in Nat /\ permits' = permits
    BY DEF Start, IInv, PermitsOK
  <2>2. At(r) = "waiting" /\ worker[r].at = "waiting"
    BY <1>2 DEF At
  <2>3. QED
    BY <1>2, <2>1, <2>2, PermitsStep
<1>7. ServingOK'
  BY <1>2, ServingStep DEF Start, At
<1>8. QED
  BY <1>1, <1>2, <1>3, <1>4, <1>5, <1>6, <1>7, Combine DEF TypesOK, Start

(* execute() ends, however it ends: the ticket is dropped with it.          *)
LEMMA EndsStep ==
  ASSUME IInv, NEW r \in Requests, NEW o \in Outcomes \ {"none"}, At(r) \in Executing, Ends(r, o),
         o = "complete" => At(r) = "body",
         UNCHANGED <<rec, records, resp, sent, permits, serving>>
  PROVE  IInv'
<1>1. /\ TypesOK /\ rec[r] \in Record /\ worker[r] \in Worker /\ resp[r] \in Response
      /\ LifeOK(rec[r], worker[r], resp[r])
      /\ At(r) \in Executing \ {"waiting"} => r \in running
      /\ r \in sent => rec[r].delivery # "not_started"
  BY OneExchange
<1> DEFINE w == [Idle EXCEPT !.at = "ending", !.result = o]
<1>2. w \in Worker /\ w.at = "ending" /\ w.result = o
  BY WorkerFresh DEF Locations, Ending
<1>3. Moves(r, rec[r], w, resp[r])
  BY <1>1, <1>2 DEF Moves, TypesOK, Ends
<1> HIDE DEF w
<1>4. LifeOK(rec[r], w, resp[r])
  BY <1>1, <1>2 DEF LifeOK, RecordOK, StreamOK, Executing, BeforeBody, Unread, At
<1>5. /\ QueuesOK' /\ running' = running \ {r}
      /\ \A s \in Requests : InQueue(s)' <=> InQueue(s) /\ s # r
  BY ReleaseQueues DEF Ends, IInv
<1>6. "ending" \notin Executing /\ At(r) \notin {"envelope", "registered"}
  BY DEF Executing
<1>7. RegistryOK'
  BY <1>3, RegistryStep
<1>8. OwnedOK'
  BY <1>2, <1>3, <1>5, <1>6, OwnedStep
<1>9. PermitsOK'
  BY <1>2, <1>3, <1>6, PermitsStep DEF IInv, PermitsOK
<1>10. ServingOK'
  BY <1>2, <1>3, ServingStep
<1>11. QED
  BY <1>1, <1>3, <1>4, <1>5, <1>7, <1>8, <1>9, <1>10, Combine DEF TypesOK, Ends

(* The ways in which execute() ends.                                        *)
LEMMA EndingSteps ==
  ASSUME IInv, NEW r \in Requests,
         PollCancelled(r) \/ PollLate(r) \/ Fail(r) \/ OfferFails(r) \/ Complete(r)
  PROVE  IInv'
<1>1. {"Cancelled", "Timeout", "Failed", "complete"} \subseteq Outcomes \ {"none"}
  BY DEF Outcomes, Errors
<1>2. At(r) \in Executing /\ UNCHANGED <<rec, records, resp, sent, permits, serving>>
  BY DEF PollCancelled, PollLate, Fail, OfferFails, Complete, Polled
<1>3. \/ \E o \in {"Cancelled", "Timeout", "Failed"} : Ends(r, o)
      \/ At(r) = "body" /\ Ends(r, "complete")
  BY DEF PollCancelled, PollLate, Fail, OfferFails, Complete
<1>4. QED
  BY <1>1, <1>2, <1>3, EndsStep

(* The runtime is dropped with the task unfinished: nobody reads any more.  *)
LEMMA AbortStep ==
  ASSUME IInv, NEW r \in Requests, Abort(r)
  PROVE  IInv'
<1>1. /\ TypesOK /\ rec[r] \in Record /\ worker[r] \in Worker /\ resp[r] \in Response
      /\ LifeOK(rec[r], worker[r], resp[r])
      /\ At(r) \in Executing \ {"waiting"} => r \in running
      /\ r \in sent => rec[r].delivery # "not_started"
  BY OneExchange
<1> DEFINE w == [Idle EXCEPT !.at = "closed"]
           p == Guarded(rec[r])
<1>2. w \in Worker /\ w.at = "closed"
  BY IdleWorker, WorkerAt DEF Locations
<1>3. /\ p \in Record /\ p.delivery = rec[r].delivery
      /\ p.outcome = IF rec[r].outcome = "none" THEN "Cancelled" ELSE rec[r].outcome
      /\ p.aged = rec[r].aged /\ p.phase = rec[r].phase
  BY <1>1, RecordGuarded
<1>4. Moves(r, p, w, resp[r])
  BY <1>1, <1>2, <1>3 DEF Moves, TypesOK, Abort
<1> HIDE DEF w, p
<1>5. /\ resp[r].reader \notin {"open", "ended", "none"}
      /\ worker[r].at \in Executing \cup Ending
  <2>1. resp[r].reader # "open"
    BY DEF Abort, IInv, ServingOK, Drained
  <2>2. QED
    BY <1>1, <2>1 DEF Abort, LifeOK, StreamOK, Unread, At, Executing, Ending
<1>6. GotOK(resp[r], p.outcome)
  BY <1>1, <1>5 DEF LifeOK, StreamOK, GotOK
<1>7. LifeOK(p, w, resp[r])
  BY <1>1, <1>2, <1>3, <1>5, <1>6
  DEF LifeOK, RecordOK, StreamOK, Executing, Ending, BeforeBody, Unread
<1>8. /\ QueuesOK'
      /\ r \notin running' /\ ~InQueue(r)'
      /\ \A s \in Requests \ {r} : (s \in running' <=> s \in running) /\ (InQueue(s)' <=> InQueue(s))
  <2>1. CASE At(r) \in Executing
    BY <2>1, ReleaseQueues DEF Abort, IInv
  <2>2. CASE At(r) \notin Executing
    BY <2>2 DEF Abort, IInv, OwnedOK, QueuesOK, InQueue
  <2>3. QED
    BY <2>1, <2>2
<1>9. "closed" \notin Executing /\ At(r) \notin {"envelope", "registered"}
  BY <1>5 DEF Executing, Ending, At
<1>10. RegistryOK'
  BY <1>3, <1>4, RegistryStep DEF Abort
<1>11. OwnedOK'
  BY <1>2, <1>4, <1>8, <1>9, OwnedStep
<1>12. PermitsOK'
  BY <1>2, <1>4, <1>9, PermitsStep DEF IInv, PermitsOK, Abort
<1>13. ServingOK'
  BY <1>2, <1>4, ServingStep DEF Abort
<1>14. QED
  BY <1>1, <1>3, <1>4, <1>7, <1>8, <1>10, <1>11, <1>12, <1>13, Combine DEF TypesOK, Abort

-----------------------------------------------------------------------------
(* The steps of main() and of the cleanup task.                             *)

(* No exchange moves, no admission, no permit.                              *)
LEMMA ServiceSteps ==
  ASSUME IInv, Cleanup \/ Drain \/ Stop \/ UNCHANGED vars
  PROVE  IInv'
<1>1. /\ UNCHANGED <<rec, worker, resp, late, sent, permits, running, waiting>>
      /\ records' \in {records, Recent}
      /\ serving' = serving \/ (serving' = "draining") \/ (serving' = "stopped" /\ Drained)
  BY DEF Cleanup, Drain, Stop, vars
<1>2. /\ TypesOK /\ RegistryOK /\ ServingOK
      /\ Recent \subseteq records /\ records \subseteq Requests
  BY DEF IInv, Recent, TypesOK
<1>3. Cardinality(records') <= Capacity
  <2>1. IsFiniteSet(records)
    BY <1>2, RequestsAssumption, FS_Subset
  <2>2. Cardinality(Recent) <= Cardinality(records) /\ IsFiniteSet(Recent)
    BY <1>2, <2>1, FS_Subset
  <2>3. Cardinality(Recent) \in Nat /\ Cardinality(records) \in Nat
    BY <2>1, <2>2, FS_CardinalityType
  <2>4. QED
    BY <1>1, <1>2, <2>2, <2>3, RequestsAssumption DEF RegistryOK
<1>4. RegistryOK'
  BY <1>1, <1>2, <1>3 DEF RegistryOK, Registered, Recent
<1>5. ServingOK'
  BY <1>1, <1>2 DEF ServingOK, Drained, At
<1>6. TypesOK'
  BY <1>1, <1>2 DEF TypesOK
<1>7. (QueuesOK /\ OwnedOK /\ PermitsOK /\ DeliveryHonest)'
  BY <1>1 DEF IInv, QueuesOK, OwnedOK, InQueue, At, PermitsOK, Reading, DeliveryHonest
<1>8. QED
  BY <1>1, <1>4, <1>5, <1>6, <1>7 DEF IInv

(* Registry::shutdown cancels every record it keeps (registry.rs:186-192).  *)
LEMMA ShutdownStep ==
  ASSUME IInv, Shutdown
  PROVE  IInv'
<1>1. /\ UNCHANGED <<records, worker, resp, late, sent, permits, running, waiting>>
      /\ serving' = "cancelling"
      /\ rec' = [r \in Requests |-> IF r \in records THEN [rec[r] EXCEPT !.cancelled = TRUE] ELSE rec[r]]
  BY DEF Shutdown
<1>2. TypesOK /\ \A r \in Requests : LifeOK(rec[r], worker[r], resp[r])
  BY DEF IInv
<1>3. \A r \in Requests : /\ rec'[r] \in Record
                          /\ rec'[r].outcome = rec[r].outcome /\ rec'[r].aged = rec[r].aged
                          /\ rec'[r].phase = rec[r].phase /\ rec'[r].delivery = rec[r].delivery
  BY <1>1, <1>2, RecordCancelled DEF TypesOK
<1>4. TypesOK'
  <2>1. rec' \in [Requests -> Record]
    BY <1>1, <1>3
  <2>2. QED
    BY <1>1, <1>2, <2>1 DEF TypesOK
<1>5. ASSUME NEW r \in Requests PROVE LifeOK(rec'[r], worker'[r], resp'[r])
  BY <1>1, <1>2, <1>3 DEF LifeOK, RecordOK, StreamOK
<1>6. RegistryOK'
  BY <1>1, <1>2, <1>3 DEF IInv, RegistryOK, Registered, TypesOK
<1>7. DeliveryHonest'
  BY <1>1, <1>2, <1>3 DEF IInv, DeliveryHonest, TypesOK
<1>8. ServingOK'
  BY <1>1 DEF ServingOK
<1>9. (QueuesOK /\ OwnedOK /\ PermitsOK)'
  BY <1>1 DEF IInv, QueuesOK, OwnedOK, InQueue, At, PermitsOK, Reading
<1>10. QED
  BY <1>4, <1>5, <1>6, <1>7, <1>8, <1>9 DEF IInv

-----------------------------------------------------------------------------
(* The theorems.                                                            *)

(* The service starts with nothing registered, queued or held.              *)
LEMMA InitIInv == Init => IInv
<1> SUFFICES ASSUME Init PROVE IInv
  OBVIOUS
<1> DEFINE q0 == [chan |-> <<>>, terminal |-> "none", reader |-> "none", got |-> <<>>]
<1>1. NoRecord \in Record /\ Idle \in Worker /\ q0 \in Response
  BY IdleWorker DEF NoRecord, Record, Response, Outcomes
<1>2. TypesOK
  BY <1>1 DEF Init, TypesOK
<1>3. LifeOK(NoRecord, Idle, q0)
  BY DEF LifeOK, RecordOK, StreamOK, GotOK, HeadSent, NoRecord, Idle, BeforeBody, Unread, Executing
<1>4. \A r \in Requests : rec[r] = NoRecord /\ worker[r] = Idle /\ resp[r] = q0
  BY DEF Init
<1>5. \A r \in Requests : LifeOK(rec[r], worker[r], resp[r])
  BY <1>3, <1>4
<1>6. DeliveryHonest
  BY DEF Init, DeliveryHonest
<1>7. RegistryOK
  BY <1>4, FS_EmptySet, RequestsAssumption DEF Init, RegistryOK, Registered, NoRecord
<1>8. \A k \in Partitions : waiting[k] = <<>>
  BY DEF Init, Admission!Init
<1>9. Elems(<<>>) = {} /\ Distinct(<<>>)
  BY DEF Elems, Distinct
<1>10. QueuesOK
  BY <1>8, <1>9 DEF Init, Admission!Init, QueuesOK
<1>11. OwnedOK
  BY <1>4, <1>8, <1>9, RequestsAssumption
  DEF OwnedOK, InQueue, At, Idle, Executing, Init, Admission!Init
<1>12. PermitsOK
  <2>1. Reading = {}
    BY <1>4 DEF Reading, At, Idle
  <2>2. QED
    BY <2>1, FS_EmptySet, RequestsAssumption DEF PermitsOK, Init
<1>13. ServingOK
  BY DEF Init, ServingOK
<1>14. QED
  BY <1>2, <1>5, <1>6, <1>7, <1>10, <1>11, <1>12, <1>13 DEF IInv

(* Every step of every handler, worker, client and task keeps IInv.         *)
LEMMA NextIInv == IInv /\ [Next]_vars => IInv'
<1> SUFFICES ASSUME IInv, [Next]_vars PROVE IInv'
  OBVIOUS
<1>1. ASSUME NEW r \in Requests, Handler(r) PROVE IInv'
  BY <1>1, ArriveSteps, RegisterStep, RegisterRefusedStep, EnterStep, EnterRefusedStep DEF Handler
<1>2. ASSUME NEW r \in Requests, Polls(r) PROVE IInv'
  BY <1>2, FlagSteps, EndingSteps DEF Polls
<1>3. ASSUME NEW r \in Requests, Step(r) PROVE IInv'
  BY <1>3, StartStep, ProgressSteps, SendStep, FlagSteps, OfferStep, ChunkStep, EndingSteps DEF Step
<1>4. ASSUME NEW r \in Requests, Wind(r) \/ Abort(r) PROVE IInv'
  BY <1>4, FinishStep, PublishStep, CloseStep, AbortStep DEF Wind
<1>5. ASSUME NEW r \in Requests, Client(r) \/ Cancel(r) \/ DeadlinePasses(r) \/ Ages(r) PROVE IInv'
  BY <1>5, ReadStep, ReadEndStep, DisconnectStep, CancelSteps, FlagSteps DEF Client
<1>6. QED
  BY <1>1, <1>2, <1>3, <1>4, <1>5, ServiceSteps, ShutdownStep DEF Next

(* The invariant the other theorems follow from: where an exchange is, what *)
(* its record says, what it owns and what its client has read agree.        *)
THEOREM Invariance == Spec => []IInv
BY InitIInv, NextIInv, PTL DEF Spec

(* The registry never outgrows its capacity, never forgets a request that   *)
(* is still executing, and never lets two exchanges with one id run side by *)
(* side (registry.rs:124-168).                                              *)
THEOREM RegistryHolds == Spec => []RegistrySound
<1>1. IInv => RegistrySound
  <2> SUFFICES ASSUME IInv PROVE RegistrySound
    OBVIOUS
  <2>1. permits \in 0..EnvelopeLimit
    <3>1. IsFiniteSet(Reading)
      BY RequestsAssumption, FS_Subset DEF Reading
    <3>2. Cardinality(Reading) \in Nat
      BY <3>1, FS_CardinalityType
    <3>3. QED
      BY <3>2, RequestsAssumption DEF IInv, PermitsOK
  <2>2. TypeOK
    BY <2>1 DEF IInv, TypesOK, TypeOK, ServingOK
  <2>3. \A r \in Requests : Unfinished(r) => r \in records
    BY DEF IInv, LifeOK, RecordOK, RegistryOK, Unfinished
  <2>4. QED
    BY <2>2, <2>3 DEF IInv, RegistryOK, RegistrySound
<1>2. QED
  BY <1>1, Invariance, PTL

(* A permit is held exactly while an envelope is read and registered, a     *)
(* slot or a queue position exactly while the request executes              *)
(* (handlers.rs:184-254, 278-279).                                          *)
THEOREM ResourcesHold == Spec => []ResourcesOwned
<1>1. IInv => ResourcesOwned
  <2> SUFFICES ASSUME IInv PROVE ResourcesOwned
    OBVIOUS
  <2>1. \A r \in Requests : r \in Admission!Waiters <=> InQueue(r)
    BY SameQueues DEF Admission!Waiters, InQueue
  <2>2. QED
    BY <2>1 DEF IInv, PermitsOK, Reading, OwnedOK, ResourcesOwned
<1>2. QED
  BY <1>1, Invariance, PTL

(* A request that may have reached the upstream never says not_started      *)
(* (handlers.rs:447-452).                                                   *)
THEOREM DeliveryHolds == Spec => []DeliveryHonest
<1>1. IInv => DeliveryHonest
  BY DEF IInv
<1>2. QED
  BY <1>1, Invariance, PTL

(* What the client reads is well formed at every point and ends with the    *)
(* outcome the registry reports (handlers.rs:257-294).                      *)
THEOREM StreamHolds == Spec => []StreamAgrees
<1>1. IInv => StreamAgrees
  <2> SUFFICES ASSUME IInv, NEW r \in Requests
               PROVE  LET got == resp[r].got IN
                      /\ \A i \in 1..Len(got) :
                           /\ got[i] = "metadata" => i = 1
                           /\ got[i] = "data" => got[1] = "metadata"
                           /\ got[i] = "complete" => got[1] = "metadata"
                           /\ IsTerminal(got[i]) => i = Len(got) /\ got[i] = rec[r].outcome
                      /\ resp[r].reader = "ended" => got # <<>> /\ IsTerminal(got[Len(got)])
    BY DEF StreamAgrees
  <2>1. GotOK(resp[r], rec[r].outcome)
    BY DEF IInv, LifeOK, StreamOK
  <2>2. QED
    BY <2>1 DEF GotOK, IsTerminal
<1>2. QED
  BY <1>1, Invariance, PTL

-----------------------------------------------------------------------------
(* What a step may not do to a record that is finished.                     *)

Settled(s) ==
  rec[s].outcome # "none" =>
    /\ rec'[s].outcome = rec[s].outcome
    /\ rec'[s].phase = rec[s].phase
    /\ rec'[s].delivery = rec[s].delivery
    /\ s \in sent' <=> s \in sent

(* A step of r that settles r's own record leaves all others alone.         *)
LEMMA SettledOthers ==
  ASSUME IInv, NEW r \in Requests, NEW p, rec' = [rec EXCEPT ![r] = p], sent' \subseteq sent \cup {r},
         sent \subseteq sent',
         rec[r].outcome # "none" => /\ p.outcome = rec[r].outcome /\ p.phase = rec[r].phase
                                    /\ p.delivery = rec[r].delivery
                                    /\ sent' = sent
  PROVE  \A s \in Requests : Settled(s)
BY DEF IInv, TypesOK, Settled

(* Before the record is finished, anything may be written to it: the steps  *)
(* that do are those of an exchange whose record is not.                    *)
LEMMA UnfinishedSteps ==
  ASSUME IInv, NEW r \in Requests,
         \/ Register(r) \/ EnterRefused(r) \/ Prepare(r) \/ Dispatch(r) \/ Send(r)
         \/ Responded(r) \/ Joined(r) \/ Finish(r)
  PROVE  \A s \in Requests : Settled(s)
<1>1. RecordOK(rec[r], worker[r])
  BY DEF IInv, LifeOK
<1>2. At(r) = "envelope" \/ At(r) \in Executing \cup {"registered", "ending"}
  BY DEF Register, EnterRefused, Prepare, Dispatch, Send, Responded, Joined, Finish, Polled
<1>3. rec[r].outcome = "none"
  BY <1>1, <1>2 DEF RecordOK, At
<1>4. /\ \E p : rec' = [rec EXCEPT ![r] = p]
      /\ sent' \subseteq sent \cup {r} /\ sent \subseteq sent'
  <2>1. CASE Register(r)
    BY <2>1 DEF Register
  <2>2. CASE EnterRefused(r)
    BY <2>2 DEF EnterRefused
  <2>3. CASE Prepare(r) \/ Dispatch(r) \/ Responded(r) \/ Joined(r)
    BY <2>3 DEF Prepare, Dispatch, Responded, Joined
  <2>4. CASE Send(r)
    <3>1. rec' = [rec EXCEPT ![r] = rec[r]]
      BY <2>4 DEF Send, IInv, TypesOK
    <3>2. QED
      BY <2>4, <3>1 DEF Send
  <2>5. CASE Finish(r)
    BY <2>5 DEF Finish
  <2>6. QED
    BY <2>1, <2>2, <2>3, <2>4, <2>5
<1>5. QED
  BY <1>3, <1>4, SettledOthers

(* The guards, the token and the clock leave the diagnostics alone.         *)
LEMMA TokenSteps ==
  ASSUME IInv, NEW r \in Requests,
         Close(r) \/ Abort(r) \/ ReadEnd(r) \/ Disconnect(r) \/ Cancel(r) \/ Ages(r)
  PROVE  \A s \in Requests : Settled(s)
<1>1. rec[r] \in Record
  BY DEF IInv, TypesOK
<1>2. sent' = sent
  BY DEF Close, Abort, ReadEnd, Disconnect, Cancel, Ages
<1>3. CASE Close(r) \/ Abort(r)
  <2>1. rec' = [rec EXCEPT ![r] = Guarded(rec[r])]
    BY <1>3 DEF Close, Abort
  <2>2. QED
    BY <1>1, <1>2, <2>1, RecordGuarded, SettledOthers
<1>4. CASE ReadEnd(r) \/ Disconnect(r) \/ Cancel(r)
  <2>1. rec' = [rec EXCEPT ![r] = [rec[r] EXCEPT !.cancelled = TRUE]]
    BY <1>4 DEF ReadEnd, Disconnect, Cancel
  <2>2. QED
    BY <1>1, <1>2, <2>1, RecordCancelled, SettledOthers
<1>5. CASE Ages(r)
  <2> DEFINE p == [rec[r] EXCEPT !.aged = TRUE]
  <2>1. rec' = [rec EXCEPT ![r] = p]
    BY <1>5 DEF Ages
  <2>2. p.outcome = rec[r].outcome /\ p.phase = rec[r].phase /\ p.delivery = rec[r].delivery
    BY <1>1 DEF Record
  <2>3. QED
    BY <1>2, <2>1, <2>2, SettledOthers
<1>6. QED
  BY <1>3, <1>4, <1>5

(* Once finished, a record never changes and its request never goes out,    *)
(* whoever cancels, disconnects, aborts or polls afterwards                 *)
(* (registry.rs:50-82, 205-214; docs/api.md:303).                           *)
THEOREM FinalHolds == Spec => FinalIsFinal
<1>1. ASSUME IInv, [Next]_vars PROVE \A s \in Requests : Settled(s)
  <2>1. CASE UNCHANGED <<rec, sent>>
    BY <2>1 DEF Settled
  <2>2. CASE Shutdown
    <3>1. \A s \in Requests : rec[s] \in Record
      BY <1>1 DEF IInv, TypesOK
    <3>2. \A s \in Requests : rec'[s] = rec[s] \/ rec'[s] = [rec[s] EXCEPT !.cancelled = TRUE]
      BY <2>2 DEF Shutdown
    <3>3. sent' = sent
      BY <2>2 DEF Shutdown
    <3>4. QED
      BY <3>1, <3>2, <3>3, RecordCancelled DEF Settled
  <2>3. ASSUME NEW r \in Requests, Handler(r) PROVE \A s \in Requests : Settled(s)
    BY <1>1, <2>1, <2>3, UnfinishedSteps DEF Handler, Arrive, EnvelopeFails, RegisterRefused, Enter
  <2>4. ASSUME NEW r \in Requests, Polls(r) PROVE \A s \in Requests : Settled(s)
    BY <2>1, <2>4 DEF Polls, Poll, PollCancelled, PollLate
  <2>5. ASSUME NEW r \in Requests, Step(r) PROVE \A s \in Requests : Settled(s)
    BY <1>1, <2>1, <2>5, UnfinishedSteps
    DEF Step, Start, Uploaded, Offer, OfferFails, Chunk, Complete, Fail, Pending
  <2>6. ASSUME NEW r \in Requests, Wind(r) \/ Abort(r) PROVE \A s \in Requests : Settled(s)
    BY <1>1, <2>1, <2>6, UnfinishedSteps, TokenSteps DEF Wind, Publish
  <2>7. ASSUME NEW r \in Requests, Client(r) \/ Cancel(r) \/ DeadlinePasses(r) \/ Ages(r)
        PROVE  \A s \in Requests : Settled(s)
    BY <1>1, <2>1, <2>7, TokenSteps DEF Client, Read, DeadlinePasses
  <2>8. QED
    BY <1>1, <2>1, <2>2, <2>3, <2>4, <2>5, <2>6, <2>7
    DEF Next, Cleanup, Drain, Stop, vars
<1>2. IInv /\ [Next]_vars =>
        [\A r \in Requests : rec[r].outcome # "none" =>
           /\ rec'[r].outcome = rec[r].outcome
           /\ rec'[r].phase = rec[r].phase
           /\ rec'[r].delivery = rec[r].delivery
           /\ (r \in sent') = (r \in sent)]_vars
  BY <1>1 DEF Settled
<1>3. QED
  BY <1>2, Invariance, PTL DEF Spec, FinalIsFinal

===============================================================================
