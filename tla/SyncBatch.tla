----------------------------- MODULE SyncBatch -----------------------------
(***************************************************************************)
(* The batch of the synchronous bridge (batch() in sync/worker.ts): lanes  *)
(* that share a cursor over the requests and two budgets of bytes.  A      *)
(* batch is a record, a turn of the worker's event loop an operator from a *)
(* batch to the batch after it.                                            *)
(***************************************************************************)
EXTENDS Naturals, Sequences, FiniteSets

CONSTANTS
  BatchSize,      \* requests of a batch
  Concurrency,    \* lanes asked for by the caller
  MaxTotalBytes   \* payload bytes that the batch may retain

ASSUME BatchAssumption ==
  /\ BatchSize \in Nat
  /\ Concurrency \in Nat \ {0}
  /\ MaxTotalBytes \in Nat \ {0}

MaxWorkingBytes == 2 * MaxTotalBytes

LaneCount == IF Concurrency < BatchSize THEN Concurrency ELSE BatchSize
Lanes == 1..LaneCount

(* What the lane does: opening waits for client.stream, reading for a chunk,*)
(* closing for stream.close() in the finally block, done left the loop.     *)
Phases == {"opening", "reading", "closing", "done"}

Answers == {"none", "value", "error", "timeout"}

IdleLane == [phase |-> "done", index |-> 0, bytes |-> 0, reserved |-> 0, chunks |-> 0, answer |-> "none"]

OpeningLane(i) == [IdleLane EXCEPT !.phase = "opening", !.index = i]

NoBatch == [next |-> 1, payload |-> 0, working |-> 0,
            lane |-> [l \in Lanes |-> IdleLane],
            output |-> [i \in 1..BatchSize |-> "none"],
            body |-> [i \in 1..BatchSize |-> 0]]

(* One round of lane(): the cursor advances; past the end the lane is done. *)
(* Once the timer aborted, the lane answers every remaining request without *)
(* waiting, as nothing in that path awaits.                                 *)
TakeNext(b, l, aborted) ==
  IF b.next > BatchSize THEN [b EXCEPT !.lane[l] = IdleLane, !.next = @ + 1]
  ELSE IF aborted THEN
    [b EXCEPT !.lane[l] = IdleLane, !.next = BatchSize + 2,
              !.output = [i \in DOMAIN @ |-> IF i >= b.next THEN "timeout" ELSE @[i]]]
  ELSE [b EXCEPT !.lane[l] = OpeningLane(b.next), !.next = @ + 1]

(* The lanes start one after the other and each runs up to its first await. *)
StartBatch == [NoBatch EXCEPT !.next = LaneCount + 1, !.lane = [l \in Lanes |-> OpeningLane(l)]]

(* output[index] = await execute(options): the answer of the lane, with its *)
(* body, becomes the output at the lane's own index.                        *)
Settle(b, l, answer, aborted) ==
  TakeNext([b EXCEPT !.output[b.lane[l].index] = answer,
                     !.body[b.lane[l].index] = b.lane[l].bytes], l, aborted)

(* Mutant: a failed request keeps its working bytes.                        *)
RefundPayloadOnly(b, l) ==
  [b EXCEPT !.payload = @ - b.lane[l].bytes,
            !.lane[l] = [@ EXCEPT !.phase = "closing", !.bytes = 0, !.reserved = 0, !.answer = "error"]]

(* catch: both budgets get back what this request had reserved.             *)
Refund(b, l) ==
  [b EXCEPT !.payload = @ - b.lane[l].bytes,
            !.working = @ - b.lane[l].reserved,
            !.lane[l] = [@ EXCEPT !.phase = "closing", !.bytes = 0, !.reserved = 0, !.answer = "error"]]

(* client.stream() settled.                                                 *)
Opened(b, l) == [b EXCEPT !.lane[l].phase = "reading"]

Grown(x, size) == [x EXCEPT !.bytes = @ + size, !.reserved = @ + size, !.chunks = @ + 1]

(* reader.read() delivered a chunk.                                         *)
ReadChunk(b, l, size) ==
  IF b.payload + size > MaxTotalBytes \/ b.working + size > MaxWorkingBytes THEN Refund(b, l)
  ELSE [b EXCEPT !.payload = @ + size, !.working = @ + size,
                 !.lane[l] = Grown(@, size)]

(* The body ended well.  More than one chunk, or one that is a view into a  *)
(* larger buffer (compact = FALSE), is copied, and the copy is reserved     *)
(* while the chunks are still there.                                        *)
Assemble(b, l, compact) ==
  LET copies == b.lane[l].chunks # 1 \/ ~compact
  IN IF copies /\ b.working + b.lane[l].bytes > MaxWorkingBytes THEN Refund(b, l)
     ELSE [b EXCEPT !.lane[l].phase = "closing", !.lane[l].answer = "value"]

(* stream.close() settled, execute() returns.                               *)
Closed(b, l, aborted) == Settle(b, l, b.lane[l].answer, aborted)

AllDone(b) == \A l \in Lanes : b.lane[l].phase = "done"

BatchTypeOK(b) ==
  /\ b.next \in 1..(BatchSize + 1 + Concurrency)
  /\ b.payload \in 0..MaxTotalBytes
  /\ b.working \in 0..MaxWorkingBytes
  /\ b.output \in [1..BatchSize -> Answers]
  /\ \A l \in Lanes : b.lane[l].phase \in Phases

(* The bytes that f counts for the members of S, one by one.                *)
Bytes(S, f) == UNION {{x} \X (1..f[x]) : x \in S}

(* Both budgets count exactly the bytes that the lanes hold and the bodies  *)
(* kept for the answer: no failure leaks a reservation, none is returned    *)
(* twice, and a request is never handled by two lanes.                      *)
BudgetsMatch(b) ==
  LET held == Cardinality(Bytes(Lanes, [l \in Lanes |-> b.lane[l].bytes]))
              + Cardinality(Bytes(1..BatchSize, b.body))
      busy == {l \in Lanes : b.lane[l].phase # "done"}
  IN /\ b.payload = held
     /\ b.working = held
     /\ \A l \in busy : b.output[b.lane[l].index] = "none"
     /\ \A l, k \in busy : l # k => b.lane[l].index # b.lane[k].index

=============================================================================
