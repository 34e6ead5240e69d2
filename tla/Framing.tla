------------------------------ MODULE Framing ------------------------------
(***************************************************************************)
(* The binary envelope: frames, the readers that reassemble them from      *)
(* arbitrary chunks (protocol.ts FrameReader, protocol.rs FrameReader), the*)
(* SDK's upload stream (uploadFrames) and the blocks a buffered response   *)
(* is collected in (client.ts buffer).                                     *)
(*                                                                         *)
(* A stream is a sequence of units.  The five header bytes are two units,  *)
(* so that a chunk can end inside a header; a JSON payload is one unit and *)
(* a data payload one unit per byte.                                       *)
(***************************************************************************)
EXTENDS Naturals, Sequences

CONSTANTS
    MaxDataBytes,     \* framing.maxDataBytes, and the block size of buffer
    MaxUploadFrames,  \* framing.maxUploadFrames
    MaxRequestBytes   \* limits.maxRequestBytes

ASSUME FramingAssumption ==
    /\ MaxDataBytes \in Nat \ {0}
    /\ MaxUploadFrames \in Nat \ {0}
    /\ MaxRequestBytes \in Nat \ {0}

Smaller(m, n) == IF m < n THEN m ELSE n
Larger(m, n) == IF m < n THEN n ELSE m

First(seq, n) == SubSeq(seq, 1, Smaller(n, Len(seq)))
Rest(seq, n) == SubSeq(seq, n + 1, Len(seq))

frame(type, payload) ==
    <<[unit |-> "type", type |-> type],
      [unit |-> "length", length |-> Len(payload)]>> \o payload

json_frame(type, value) == frame(type, <<[unit |-> "json", json |-> value]>>)

Byte(n) == [unit |-> "byte", byte |-> n]

-----------------------------------------------------------------------------
(* Reading.  chunk: what is left of the last chunk; head: the header of    *)
(* the frame being read, once complete; got: the units of it so far.       *)

HeaderSize == 2
NewReader == [chunk |-> <<>>, head |-> <<>>, got |-> <<>>]

exact(r, length) ==
    LET count == Smaller(length - Len(r.got), Len(r.chunk))
    IN  [r EXCEPT !.got = @ \o First(r.chunk, count),
                  !.chunk = Rest(r.chunk, count)]

HasHeader(r) == r.head # <<>>
TypeOf(r) == r.head[1].type
LengthOf(r) == r.head[2].length

frame_header(r) ==
    LET header == exact(r, HeaderSize)
    IN  IF HasHeader(r) THEN r
        ELSE IF Len(header.got) < HeaderSize THEN header
        ELSE [header EXCEPT !.head = header.got, !.got = <<>>]

(* As far as the units at hand reach; a header the caller refuses ends it. *)
ReadPayload(header, accepted) ==
    IF accepted THEN exact(header, LengthOf(header)) ELSE header

Refused(r, accepted) == HasHeader(r) /\ ~accepted
FrameComplete(r) == HasHeader(r) /\ Len(r.got) = LengthOf(r)
InsideFrame(r) == HasHeader(r) \/ r.got # <<>>
NextFrame(r) == [r EXCEPT !.head = <<>>, !.got = <<>>]
Payload(r) == r.got
Json(r) == r.got[1].json

\* FrameReader.next of the SDK: the metadata limit holds every JSON payload.
AcceptsHeader(r) ==
    /\ HasHeader(r)
    /\ TypeOf(r) \in 1..4 /\ (TypeOf(r) = 2 => LengthOf(r) <= MaxDataBytes)

-----------------------------------------------------------------------------
(* uploadFrames.  source: what the caller's stream will yield, pending: the*)
(* chunk not yet sent, waiting: pull awaits the source, out: what the pull *)
(* enqueued, stream: the ReadableStream handed to fetch.                   *)

uploadFrames(metadata, streaming, source) ==
    [metadata |-> metadata, stage |-> 0, ended |-> FALSE,
     source |-> IF streaming THEN source ELSE <<>>,
     pending |-> IF streaming \/ source = <<>> THEN <<>> ELSE source[1],
     sourceEnded |-> ~streaming, waiting |-> FALSE,
     frames |-> 0, emptyReads |-> 0, bytes |-> 0,
     out |-> <<>>, stream |-> "open", error |-> ""]

CancelUpload(u) ==
    IF u.ended /\ u.sourceEnded THEN u
    ELSE [u EXCEPT !.ended = TRUE, !.pending = <<>>]

\* catch: onError, controller.error, cancel.
UploadFails(u, code) ==
    CancelUpload([u EXCEPT !.error = code, !.stream = "errored",
                           !.waiting = FALSE])


(* The rest of pull once there is a chunk or the source has ended.         *)
Emit(u) ==
    LET chunk == First(u.pending, MaxDataBytes)
        sent == [u EXCEPT !.waiting = FALSE, !.frames = @ + 1,
                          !.bytes = @ + Len(chunk),
                          !.pending = Rest(@, Len(chunk)),
                          !.out = frame(2, chunk)]
    IN  IF u.pending = <<>>
        THEN [u EXCEPT !.waiting = FALSE, !.ended = TRUE,
                       !.out = frame(3, <<>>), !.stream = "closed"]
        ELSE IF sent.bytes > MaxRequestBytes \/ sent.frames >= MaxUploadFrames
        THEN UploadFails(u, "BODY_TOO_LARGE")
        ELSE sent

\* A cancelled upload ends like a complete one.
PullEndsCancelled(u) ==
    CASE u.ended -> [u EXCEPT !.out = frame(3, <<>>), !.stream = "closed"]
      [] ~u.ended /\ u.stage = 0 ->
           [u EXCEPT !.stage = 1, !.out = json_frame(1, u.metadata)]
      [] ~u.ended /\ u.stage = 1 /\ u.pending = <<>> /\ ~u.sourceEnded ->
           [u EXCEPT !.waiting = TRUE]
      [] OTHER -> Emit(u)

Pull(u) ==
    CASE u.ended -> [u EXCEPT !.stream = "closed"]
      [] ~u.ended /\ u.stage = 0 ->
           [u EXCEPT !.stage = 1, !.out = json_frame(1, u.metadata)]
      [] ~u.ended /\ u.stage = 1 /\ u.pending = <<>> /\ ~u.sourceEnded ->
           [u EXCEPT !.waiting = TRUE]
      [] OTHER -> Emit(u)

(* The source answered the pull that awaits it.                            *)
SourceAnswers(u) ==
    IF u.ended THEN [u EXCEPT !.waiting = FALSE]
    ELSE IF u.source = <<>> THEN Emit([u EXCEPT !.sourceEnded = TRUE])
    ELSE LET read == [u EXCEPT !.source = Tail(@), !.pending = Head(u.source),
                               !.emptyReads = IF Head(u.source) = <<>>
                                              THEN @ + 1 ELSE 0]
         IN  IF Head(u.source) # <<>> THEN Emit(read)
             ELSE IF read.emptyReads >= MaxUploadFrames
             THEN UploadFails(read, "BODY_TOO_LARGE")
             ELSE read

-----------------------------------------------------------------------------
(* buffer.  blocks: the full blocks, current: the filled part of the one   *)
(* being filled, capacity: its length, retained: what the call reserved.   *)

NewBuffer == [blocks |-> <<>>, current |-> <<>>, capacity |-> 0,
              retained |-> 0, failed |-> FALSE]

Grown(b, chunk) ==
    Smaller(MaxDataBytes, Larger(2 * b.capacity, Len(b.current) + Len(chunk)))

\* The growth of a block is counted once, not with the body assembled later.
GrowthOnce(b, capacity) ==
    IF b.capacity = 0 THEN 2 * capacity ELSE capacity - b.capacity

Reservation(b, capacity) == 2 * (capacity - b.capacity)

\* One round of the inner loop on what is left of a chunk.
Round(s, limit) ==
    LET full == Len(s.b.current) = MaxDataBytes
        b == IF full THEN [s.b EXCEPT !.blocks = Append(@, s.b.current),
                                      !.current = <<>>, !.capacity = 0]
             ELSE s.b
        adopt == b.capacity = 0
        capacity == IF adopt THEN Len(s.chunk)
                    ELSE IF Len(b.current) = b.capacity THEN Grown(b, s.chunk)
                    ELSE b.capacity
        reservation == Reservation(b, capacity)
        count == Smaller(capacity - Len(b.current), Len(s.chunk))
    IN  IF s.chunk = <<>> \/ s.b.failed THEN s
        ELSE IF b.retained + reservation > limit
        THEN [s EXCEPT !.b = [b EXCEPT !.failed = TRUE]]
        ELSE [b |-> [b EXCEPT !.current = @ \o First(s.chunk, count),
                              !.capacity = capacity,
                              !.retained = @ + reservation],
              chunk |-> Rest(s.chunk, count)]

\* A chunk of at most a block needs at most three rounds: fill the current
\* block's capacity, grow and fill it, start the next block.
Collect(b, chunk, limit) ==
    Round(Round(Round([b |-> b, chunk |-> chunk], limit), limit), limit).b

BlocksOf(b) == Append(b.blocks, b.current)
=============================================================================
