---------------------------- MODULE WireExchange ----------------------------
(***************************************************************************)
(* One call of the SDK over the wire: an HTTP exchange from the options of *)
(* the caller, in the process itself or behind the synchronous bridge, to  *)
(* the result the caller sees, with the upload and the response cut into   *)
(* arbitrary chunks; or one control call.  The service is the current one  *)
(* or one that does not send all trace ids yet, and may have been upgraded *)
(* since the SDK cached its capabilities.                                  *)
(***************************************************************************)
EXTENDS Wire, Framing

SeqExt == INSTANCE SequencesExt

CONSTANTS
    Calls,             \* the calls to make, with what their targets answer
    MaxResponseBytes,  \* maxResponseBytes of the call
    BufferLimit,       \* what is left of limits.maxBufferedBytes
    MaxInFlight        \* bound on the units in flight to the service

VARIABLES
    call,    \* the call, fixed from the start
    sdk,     \* executeStream and its FrameReader
    up,      \* uploadFrames
    net,     \* the HTTP exchange: units in flight, response head, faults
    svc,     \* request_handler, execute and transfer
    buf,     \* buffer
    outcome  \* what the caller gets

vars == <<call, sdk, up, net, svc, buf, outcome>>

NoOutcome == [state |-> "none", code |-> "", diagnostics |-> Null,
              body |-> <<>>]

-----------------------------------------------------------------------------
(* From options to request metadata.                                       *)

\* The capabilities the SDK cached before an upgrade.
CachedCapabilities ==
    [profiles |-> <<"chrome_155">>, profileAliases |-> (Alias :> "chrome_155")]

\* "" when validateConnection returns.
validateConnection(c) ==
    CASE resolveProfile(CachedCapabilities, c.identity.tlsProfile) = Undefined
           -> "INVALID_PROFILE"
      [] c.egress.mode = "proxy" /\ c.egress.url = "alien"
           -> "INVALID_REQUEST"
      [] c.egress.mode \notin {"direct", "proxy"} -> "EGRESS_REQUIRED"
      [] OTHER -> ""

Get(o, field, default) == IF Has(o, field) THEN o[field] ELSE default

BodyOf(c) == IF c.body = "none" THEN <<>> ELSE c.source
BodyLength(c) == Len(c.source[1])

(* The metadata frame's value; the fresh id of a call without one is "r1". *)
WireRequest(c) ==
    LET o == c.options
    IN  [requestId |-> Get(o, "requestId", "r1"), partition |-> o.partition,
         url |-> "url", method |-> o.method, headers |-> o.headers,
         timeoutMs |-> "1", maxResponseBytes |-> ToString(MaxResponseBytes),
         attempt |-> Get(o, "attempt", "0"),
         hasBody |-> IF c.body = "none" THEN "false" ELSE "true"]
        @@ Restricted(o, {"connection", "contextId"})
        @@ Restricted(o, IF Get(o, "headerOrder", "caller") = "browser"
                         THEN {"headerOrder"} ELSE {})
        @@ IF c.body = "bytes" THEN "bodyLength" :> ToString(BodyLength(c))
           ELSE <<>>

ConnectionOf(c) ==
    IF Has(c.options, "connection") THEN c.options.connection ELSE c.hint

InitialOf(c) ==
    initialDiagnostics(Get(c.options, "requestId", "r1"),
                       Get(c.options, "attempt", "0"),
                       IF ConnectionOf(c) = Null THEN "unknown"
                       ELSE ConnectionOf(c).identity.tlsProfile)

UsedProxy(c) ==
    IF ConnectionOf(c) # Null /\ ConnectionOf(c).egress.mode = "proxy"
    THEN "true" ELSE "false"

(* The checks of executeStream before it first waits, in their order, as   *)
(* the code of the error.                                                  *)
EarlyRefusal(c) ==
    LET o == c.options
    IN  IF \/ ~opaque(Get(o, "requestId", "r1"))
           \/ ~IsInteger(Get(o, "attempt", "0"))
           \/ ~opaque(o.partition)
           \/ Has(o, "contextId") = Has(o, "connection")
           \/ ~opaque(Get(o, "contextId", "c1"))
           \/ ~HeaderOrder(Get(o, "headerOrder", "caller"))
           \/ o.url \notin {"raw", "url"}
           \/ o.method = "HEAD" /\ c.body # "none"
        THEN "INVALID_REQUEST" ELSE ""

(* Those after it has the capabilities and a permit.                       *)
LateRefusal(c) ==
    CASE ConnectionOf(c) # Null /\ validateConnection(ConnectionOf(c)) # "" ->
           validateConnection(ConnectionOf(c))
      [] c.body = "bytes" /\ BodyLength(c) > MaxRequestBytes ->
           "BODY_TOO_LARGE"
      [] ~RequestMetadata(WireRequest(c)) -> "INVALID_REQUEST"
      [] OTHER -> ""

\* validatePartition and validateConnection throw with diagnostics of their
\* own; both, as the caller's, say that nothing was started.
RefusalError(c, code) ==
    Ja3ProxyTransportError(
        code, IF opaque(c.options.partition) THEN InitialOf(c) ELSE Local,
        UsedProxy(c), "invalid_input")

-----------------------------------------------------------------------------
(* To the caller, through the bridge or directly.                          *)

Failed(c, error) ==
    LET seen == IF c.via = "sync" THEN decodeError(encodeError(error))
                ELSE error
    IN  [state |-> "failed", code |-> seen.code,
         diagnostics |-> seen.diagnostics, body |-> <<>>]

Succeeded(c, d, body) ==
    IF c.via = "sync" /\ ~ipcDiagnostics(d)
    THEN Failed(c, localError("PROTOCOL_ERROR", Undefined))
    ELSE [state |-> "ok", code |-> "", diagnostics |-> d, body |-> body]

Settle(result) ==
    /\ outcome' = result
    /\ sdk' = [sdk EXCEPT !.stage = "done"]

\* finish with an error: the transport is aborted, and may notice it late.
FinishWith(error) ==
    /\ Settle(Failed(call, error))
    /\ up' = CancelUpload(up)
    /\ \E end \in {"open", "broken"} :
          net' = [net EXCEPT !.upEnd = IF @ = "open" THEN end ELSE @,
                             !.down = <<>>, !.downEnd = "broken"]

updateLocal ==
    [sdk.diag EXCEPT !.requestBytes = ToString(up.bytes),
                     !.responseBytes = ToString(sdk.bytes)]

ErrorNow(code, d) == Ja3ProxyTransportError(code, d, UsedProxy(call), Undefined)
Fail(code) == FinishWith(ErrorNow(code, updateLocal))
FailEarly(code) == FinishWith(ErrorNow(code, sdk.diag))

Init ==
    /\ call \in Calls
    /\ sdk = [stage |-> "start", reader |-> NewReader, metadata |-> Null,
              bytes |-> 0, pending |-> Null,
              diag |-> IF call.kind = "exchange" THEN InitialOf(call)
                       ELSE ControlDiagnostics]
    /\ up = uploadFrames(Null, FALSE, <<>>)
    /\ net = [up |-> <<>>, upEnd |-> "open", head |-> "none", error |-> Null,
              down |-> <<>>, downEnd |-> "open", cut |-> FALSE]
    /\ svc = [stage |-> "envelope", reader |-> NewReader, metadata |-> Null,
              diag |-> Null, count |-> 0, frames |-> 0, received |-> <<>>,
              upload |-> "frames", rejected |-> FALSE, answer |-> Null,
              pieces |-> <<>>, sent |-> <<>>, contacted |-> FALSE,
              code |-> ""]
    /\ buf = NewBuffer
    /\ outcome = NoOutcome

-----------------------------------------------------------------------------
(* The SDK up to the call of the transport.                                *)

(* The bridge converts the options in the parent and again in the worker.  *)
Converted(c) ==
    LET own == {"partition", "contextId"}
        rest == Restricted(c.options, DOMAIN c.options \ own)
        twice(o, Convert(_)) == IF Convert(o) = Null THEN Null
                                ELSE Convert(Convert(o))
    IN  CASE c.via = "async" -> c.options
          [] c.via = "sync" /\ c.hint = Null -> twice(c.options, request)
          [] c.via = "sync" /\ c.hint # Null ->
               IF twice(rest, sessionRequest) = Null THEN Null
               ELSE twice(rest, sessionRequest) @@ Restricted(c.options, own)

Start ==
    /\ sdk.stage = "start" /\ call.kind = "exchange"
    /\ IF Converted(call) = Null
       THEN /\ Settle(Failed(call, localError("INVALID_REQUEST",
                                              "invalid_input")))
            /\ UNCHANGED call
       ELSE /\ call' = [call EXCEPT !.options = Converted(call)]
            /\ \/ /\ EarlyRefusal(call') # ""
                  /\ Settle(Failed(call', RefusalError(call',
                                                       EarlyRefusal(call'))))
               \/ /\ EarlyRefusal(call') = ""
                  /\ sdk' = [sdk EXCEPT !.stage = "ready"]
                  /\ UNCHANGED outcome
    /\ UNCHANGED <<up, net, svc, buf>>

(* With capabilities and permit, in one turn: the last checks, the upload  *)
(* stream and the call of the transport.                                   *)
Send ==
    /\ sdk.stage = "ready"
    /\ \/ /\ LateRefusal(call) # ""
          /\ Settle(Failed(call, RefusalError(call, LateRefusal(call))))
          /\ UNCHANGED up
       \/ /\ LateRefusal(call) = ""
          /\ up' = uploadFrames(WireRequest(call), call.body = "stream",
                                BodyOf(call))
          /\ sdk' = [sdk EXCEPT !.stage = "sent",
                         !.diag = [@ EXCEPT !.phase = "upstream",
                                            !.delivery = "possibly_sent"]
                                  @@ Restricted(call.options, {"contextId"})]
          /\ UNCHANGED outcome
    /\ UNCHANGED <<call, net, svc, buf>>

(* The deadline, a cancellation or close.                                  *)
Abort ==
    /\ sdk.stage \notin {"start", "done"}
    /\ Fail("TIMEOUT")
    /\ UNCHANGED <<call, svc, buf>>

-----------------------------------------------------------------------------
(* The upload.                                                             *)

Uploading(u) ==
    /\ net' = [net EXCEPT !.up = @ \o u.out,
                          !.upEnd = IF u.stream = "closed" THEN "closed"
                                    ELSE @]
    /\ up' = [u EXCEPT !.out = <<>>]
    /\ UNCHANGED <<sdk, outcome>>

\* onError finishes the exchange, which aborts the transport.
UploadError(u) ==
    /\ up' = u
    /\ IF sdk.stage = "done" THEN UNCHANGED <<sdk, outcome>>
       ELSE Settle(Failed(call, ErrorNow(u.error, updateLocal)))
    /\ net' = [net EXCEPT !.upEnd = "broken", !.down = <<>>,
                          !.downEnd = "broken"]

UploadStep(u) == IF u.error = "" THEN Uploading(u) ELSE UploadError(u)

PullUpload ==
    /\ up.metadata # Null /\ net.upEnd = "open" /\ ~up.waiting
    /\ Len(net.up) < MaxInFlight
    /\ UploadStep(Pull(up))
    /\ UNCHANGED <<call, svc, buf>>

ReadSource ==
    /\ up.waiting /\ net.upEnd = "open"
    /\ UploadStep(SourceAnswers(up))
    /\ UNCHANGED <<call, svc, buf>>

\* The caller's stream throws.
SourceThrows ==
    /\ up.waiting /\ ~up.ended /\ net.upEnd = "open"
    /\ UploadError(UploadFails(up, "INVALID_REQUEST"))
    /\ UNCHANGED <<call, svc, buf>>

-----------------------------------------------------------------------------
(* A reader awaits its stream when its chunk is used up; the stream yields *)
(* any number of the units in flight.                                      *)

AtEnd(r, units, end) == r.chunk = <<>> /\ units = <<>> /\ end # "open"
Awaits(r, units) == r.chunk = <<>> /\ units # <<>>
Filled(r, units, k) == [r EXCEPT !.chunk = First(units, k)]

-----------------------------------------------------------------------------
(* The service.  It reads no further after an error.                       *)

StopsReading(n) ==
    [n EXCEPT !.up = <<>>, !.upEnd = IF @ = "open" THEN "broken" ELSE @]

Refusing(code, rejected) ==
    [svc EXCEPT !.stage = "done", !.code = code, !.rejected = rejected]

\* An error before the response begins: a status and a JSON body.
HttpError(error) ==
    net' = [StopsReading(net) EXCEPT
               !.head = IF net.downEnd = "open" THEN "error" ELSE @,
               !.error = error]

SvcRejects(code) ==
    svc' = Refusing(code, TRUE) /\ HttpError([code |-> code, message |-> "text"])

(* register and enter refuse, the latter with diagnostics; otherwise the   *)
(* response begins at once.                                                *)
Register(m, reader) ==
    LET d == RegisteredDiagnostics(m, call.upgraded)
    IN  \/ /\ svc' = Refusing("DUPLICATE_REQUEST", FALSE)
           /\ HttpError([code |-> "DUPLICATE_REQUEST", message |-> "text"])
        \/ /\ svc' = [Refusing("BUSY", FALSE) EXCEPT !.diag = d]
           /\ HttpError(ServiceError("BUSY", d, call.generation))
        \/ /\ svc' = [svc EXCEPT !.stage = "queued", !.metadata = m,
                                 !.diag = d, !.reader = NextFrame(reader)]
           /\ net' = [net EXCEPT
                        !.head = IF net.downEnd = "open" THEN "ok" ELSE @]

IsMetadata(r) == HasHeader(r) /\ TypeOf(r) = 1

metadata(r) ==
    IF Refused(r, IsMetadata(r)) THEN SvcRejects("PROTOCOL_ERROR")
    ELSE IF ~FrameComplete(r)
    THEN svc' = [svc EXCEPT !.reader = r] /\ UNCHANGED net
    ELSE IF ParsesMetadata(Json(r)) /\ validate_metadata(Json(r))
    THEN Register(Json(r), r)
    ELSE SvcRejects("INVALID_REQUEST")

SvcEnvelope ==
    /\ svc.stage = "envelope" /\ up.metadata # Null
    /\ \/ /\ AtEnd(svc.reader, net.up, net.upEnd)
          /\ SvcRejects("PROTOCOL_ERROR")
       \/ /\ svc.reader.chunk # <<>>
          /\ LET header == frame_header(svc.reader)
             IN  metadata(ReadPayload(header, IsMetadata(header)))
    /\ UNCHANGED <<call, sdk, up, buf, outcome>>

\* next_bytes
SvcReceives ==
    /\ svc.stage \in {"envelope", "transfer"} /\ svc.upload # "done"
    /\ Awaits(svc.reader, net.up)
    /\ \E k \in 1..Len(net.up) :
          /\ svc' = [svc EXCEPT !.reader = Filled(@, net.up, k)]
          /\ net' = [net EXCEPT !.up = Rest(@, k)]
    /\ UNCHANGED <<call, sdk, up, buf, outcome>>

(* The worker's error: body_ms, finish, a frame of type 4.                 *)
Ended(d) == IF d.headersMs = "null" THEN d ELSE [d EXCEPT !.bodyMs = "0"]

Terminal(n, units) ==
    IF n.downEnd = "open"
    THEN [n EXCEPT !.down = @ \o units, !.downEnd = "closed"] ELSE n

SvcFails(s, code) ==
    /\ svc' = [s EXCEPT !.stage = "done", !.code = code, !.diag = Ended(@)]
    /\ net' = Terminal(StopsReading(net),
                       json_frame(4, ServiceError(code, Ended(s.diag),
                                                  call.generation)))

(* execute: a permit, then the context or a client of its own.  Contexts   *)
(* do not outlive the service.                                             *)
SvcPrepare ==
    LET preparing == [svc.diag EXCEPT !.phase = "preparing"]
        ofContext == Has(svc.metadata, "contextId")
    IN  /\ svc.stage = "queued"
        /\ IF ofContext /\ call.upgraded
           THEN SvcFails([svc EXCEPT !.diag = preparing], "CONTEXT_NOT_FOUND")
           ELSE /\ svc' = [svc EXCEPT
                      !.stage = "preparing",
                      !.diag = IF ofContext
                               THEN [preparing EXCEPT !.tlsProfile =
                                        canonical_profile_name(
                                            call.contextProfile, FALSE)]
                               ELSE preparing @@ ("clientReused" :> "false")]
                /\ UNCHANGED net
        /\ UNCHANGED <<call, sdk, up, buf, outcome>>

Managed == Has(svc.metadata, "contextId") /\ call.managed

(* transfer up to the join: from here on the target may have the request.  *)
SvcDispatch ==
    /\ svc.stage = "preparing"
    /\ svc' = [svc EXCEPT
         !.stage = "transfer", !.contacted = TRUE,
         !.diag = [@ EXCEPT !.phase = "upstream", !.delivery = "possibly_sent"]
                  @@ IF Managed THEN "cookieRevision" :> "1" ELSE <<>>]
    /\ UNCHANGED <<call, sdk, up, net, buf, outcome>>

\* The header of an upload frame; "" when its payload is to be read.
UploadRefusal(r) ==
    LET count == svc.count + LengthOf(r)
        length == IF Has(svc.metadata, "bodyLength")
                  THEN CHOOSE n \in 0..MaxRequestBytes :
                          ToString(n) = svc.metadata.bodyLength
                  ELSE count
    IN  CASE TypeOf(r) = 2 ->
               IF svc.metadata.hasBody = "false" \/ LengthOf(r) > MaxDataBytes
               THEN "PROTOCOL_ERROR"
               ELSE IF count > MaxRequestBytes THEN "BODY_TOO_LARGE"
               ELSE IF count > length THEN "PROTOCOL_ERROR" ELSE ""
          [] TypeOf(r) = 3 /\ LengthOf(r) = 0 /\ count = length -> ""
          [] OTHER -> "PROTOCOL_ERROR"

AcceptsUpload(r) == HasHeader(r) /\ UploadRefusal(r) = ""

RejectsUpload(code) == SvcFails([svc EXCEPT !.rejected = TRUE], code)

(* A frame of upload: data is passed on and counted, the end is followed   *)
(* by the end of the stream.                                               *)
upload(r) ==
    LET s == IF ~FrameComplete(r) THEN [svc EXCEPT !.reader = r]
             ELSE IF TypeOf(r) = 2
             THEN [svc EXCEPT !.reader = NextFrame(r), !.frames = @ + 1,
                              !.count = @ + LengthOf(r),
                              !.received = @ \o Payload(r),
                              !.diag.requestBytes =
                                  ToString(svc.count + LengthOf(r))]
             ELSE [svc EXCEPT !.reader = NextFrame(r), !.upload = "ending"]
    IN  IF Refused(r, AcceptsUpload(r)) THEN RejectsUpload(UploadRefusal(r))
        ELSE IF s.frames = MaxUploadFrames
        THEN SvcFails([s EXCEPT !.rejected = TRUE], "PROTOCOL_ERROR")
        ELSE svc' = s /\ UNCHANGED net

SvcUpload ==
    /\ svc.stage = "transfer" /\ svc.upload # "done"
    /\ \/ /\ AtEnd(svc.reader, net.up, net.upEnd)
          /\ IF svc.upload = "ending" /\ net.upEnd = "closed"
             THEN svc' = [svc EXCEPT !.upload = "done"] /\ UNCHANGED net
             ELSE RejectsUpload("PROTOCOL_ERROR")
       \/ /\ svc.reader.chunk # <<>>
          /\ IF svc.upload = "ending" THEN RejectsUpload("PROTOCOL_ERROR")
             ELSE LET header == frame_header(svc.reader)
                  IN  upload(ReadPayload(header, AcceptsUpload(header)))
    /\ UNCHANGED <<call, sdk, up, buf, outcome>>

(* The target answers, perhaps before it has the whole upload.             *)
SvcAnswered ==
    /\ svc.stage = "transfer" /\ svc.answer = Null
    /\ svc' = [svc EXCEPT !.answer = call.target,
                          !.diag = [@ EXCEPT !.headersMs = "0",
                                             !.delivery = "response_started"]]
    /\ UNCHANGED <<call, sdk, up, net, buf, outcome>>

(* After the join: the cookies, and the metadata of the response.          *)
SvcRespond ==
    LET d == IF Managed THEN [svc.diag EXCEPT !.phase = "body",
                                              !.cookieRevision = "2"]
             ELSE [svc.diag EXCEPT !.phase = "body"]
    IN  /\ svc.stage = "transfer" /\ svc.upload = "done" /\ svc.answer # Null
        /\ net.downEnd = "open"
        /\ svc' = [svc EXCEPT !.stage = "body", !.diag = d]
        /\ net' = [net EXCEPT !.down = @ \o json_frame(1,
               [requestId |-> svc.metadata.requestId,
                status |-> svc.answer.status, headers |-> <<<<"n", "v">>>>,
                diagnostics |-> Serialized(d, call.generation)]
               @@ Restricted(d, {"cookieRevision"}))]
        /\ UNCHANGED <<call, sdk, up, buf, outcome>>

Pieces(chunk) ==
    [i \in 1..((Len(chunk) + MaxDataBytes - 1) \div MaxDataBytes) |->
        First(Rest(chunk, (i - 1) * MaxDataBytes), MaxDataBytes)]

(* The next chunk of the target, or the next frame of the last one.        *)
SvcForward ==
    /\ svc.stage = "body" /\ net.downEnd = "open"
    /\ \/ /\ svc.pieces # <<>>
          /\ svc' = [svc EXCEPT !.pieces = Tail(@)]
          /\ net' = [net EXCEPT !.down = @ \o frame(2, Head(svc.pieces))]
       \/ /\ svc.pieces = <<>> /\ svc.answer.chunks # <<>>
          /\ LET chunk == Head(svc.answer.chunks)
                 sent == svc.sent \o chunk
                 s == [svc EXCEPT !.answer.chunks = Tail(@), !.sent = sent,
                                  !.diag.responseBytes = ToString(Len(sent))]
             IN  IF Len(sent) > MaxResponseBytes
                 THEN SvcFails(s, "BODY_TOO_LARGE")
                 ELSE /\ svc' = [s EXCEPT !.pieces = Pieces(chunk)]
                      /\ UNCHANGED net
    /\ UNCHANGED <<call, sdk, up, buf, outcome>>

SvcComplete ==
    LET d == [Ended(svc.diag) EXCEPT !.phase = "complete"]
    IN  /\ svc.stage = "body"
        /\ svc.pieces = <<>> /\ svc.answer.chunks = <<>>
        /\ svc' = [svc EXCEPT !.stage = "done", !.diag = d]
        /\ net' = Terminal(net, json_frame(3, Serialized(d, call.generation)))
        /\ UNCHANGED <<call, sdk, up, buf, outcome>>

\* Cancelled, out of time, or the target failed.
SvcFail ==
    /\ svc.stage \in {"queued", "preparing", "transfer", "body"}
    /\ SvcFails(svc, "CONNECT_ERROR")
    /\ UNCHANGED <<call, sdk, up, buf, outcome>>

(* The connection breaks: what is in flight may be lost, and an            *)
(* intermediary may pass the break on as an ordinary end.                  *)
Cut ==
    /\ sdk.stage \notin {"start", "ready", "done"} /\ ~net.cut
    /\ \E m \in 0..Len(net.up), n \in 0..Len(net.down),
          upEnd \in {"closed", "broken"}, downEnd \in {"closed", "broken"} :
          net' = [net EXCEPT !.cut = TRUE,
                    !.up = First(@, m),
                    !.upEnd = IF @ = "open" \/ m < Len(net.up) THEN upEnd ELSE @,
                    !.down = First(@, n),
                    !.downEnd = IF @ = "open" \/ n < Len(net.down) THEN downEnd
                                ELSE @]
    /\ UNCHANGED <<call, sdk, up, svc, buf, outcome>>

-----------------------------------------------------------------------------
(* The SDK reads the response.                                             *)

Continue(s) == sdk' = s /\ UNCHANGED <<up, net, outcome>>

(* The head of the response, or none because the connection broke.         *)
SdkHead ==
    /\ sdk.stage = "sent"
    /\ \/ net.head = "ok" /\ Continue([sdk EXCEPT !.stage = "first"])
       \/ net.head = "error"
          /\ FinishWith(transportError(net.error, sdk.diag, UsedProxy(call),
                                       FALSE))
       \/ net.head = "none" /\ net.cut /\ Fail("PROTOCOL_ERROR")
    /\ UNCHANGED <<call, svc, buf>>

AcceptsMetadata(v) ==
    LET requestId == Get(call.options, "requestId", "r1")
        attempt == Get(call.options, "attempt", "0")
    IN  /\ responseMetadata(v, requestId, attempt)
        /\ Has(call.options, "contextId") =>
              /\ Has(v.diagnostics, "contextId")
              /\ v.diagnostics.contextId = call.options.contextId
        /\ ConnectionOf(call) # Null =>
              v.diagnostics.tlsProfile =
                  resolveProfile(CachedCapabilities,
                                 ConnectionOf(call).identity.tlsProfile)

FirstFrame(r) ==
    CASE TypeOf(r) = 4 ->
           Continue([sdk EXCEPT !.stage = "errorTail", !.reader = NextFrame(r),
                       !.pending = transportError(Json(r), sdk.diag,
                                                  UsedProxy(call), TRUE)])
      [] TypeOf(r) = 1 /\ AcceptsMetadata(Json(r)) ->
           Continue([sdk EXCEPT !.stage = "streaming", !.reader = NextFrame(r),
                                !.metadata = Json(r),
                                !.diag = copyDiagnostics(Json(r).diagnostics)])
      [] OTHER -> FailEarly("PROTOCOL_ERROR")

Bodyless ==
    call.options.method = "HEAD" \/ sdk.metadata.status \in {"204", "205", "304"}

(* A chunk for the consumer, which collects it under its budget.           *)
DataFrame(r) ==
    LET bytes == sdk.bytes + Len(Payload(r))
        s == [sdk EXCEPT !.reader = NextFrame(r), !.bytes = bytes,
                         !.diag = [@ EXCEPT !.phase = "body",
                                            !.responseBytes = ToString(bytes)]]
        b == Collect(buf, Payload(r), BufferLimit)
    IN  IF Bodyless \/ Payload(r) = <<>>
        THEN Fail("PROTOCOL_ERROR") /\ UNCHANGED buf
        ELSE IF bytes > MaxResponseBytes
        THEN Fail("BODY_TOO_LARGE") /\ UNCHANGED buf
        ELSE /\ buf' = b
             /\ IF b.failed THEN Fail("BODY_TOO_LARGE") ELSE Continue(s)

ErrorFrame(r) ==
    LET error == transportError(Json(r), updateLocal, UsedProxy(call), TRUE)
    IN  IF error.diagnostics.delivery # "response_started"
        THEN Fail("PROTOCOL_ERROR")
        ELSE Continue([sdk EXCEPT !.stage = "errorTail", !.pending = error,
                                  !.reader = NextFrame(r)])

AcceptsCompletion(d) ==
    /\ diagnostics(d, Get(call.options, "requestId", "r1"),
                   Get(call.options, "attempt", "0"))
    /\ d.phase = "complete" /\ d.delivery = "response_started"
    /\ d.responseBytes = ToString(sdk.bytes)
    /\ Restricted(d, {"contextId"} \cap DOMAIN call.options)
          = Restricted(call.options, {"contextId"})
    /\ Has(sdk.metadata, "cookieRevision") =>
          /\ Has(d, "cookieRevision")
          /\ d.cookieRevision = sdk.metadata.cookieRevision

EndFrame(r) ==
    IF TypeOf(r) = 3 /\ AcceptsCompletion(Json(r))
    THEN Continue([sdk EXCEPT !.stage = "endTail", !.pending = Json(r),
                              !.reader = NextFrame(r)])
    ELSE Fail("PROTOCOL_ERROR")

\* After a terminal frame there must be nothing.
OnFrame(r) ==
    CASE sdk.stage = "first" -> FirstFrame(r) /\ UNCHANGED buf
      [] sdk.stage = "streaming" /\ TypeOf(r) = 2 -> DataFrame(r)
      [] sdk.stage = "streaming" /\ TypeOf(r) = 4 ->
           ErrorFrame(r) /\ UNCHANGED buf
      [] sdk.stage = "streaming" /\ TypeOf(r) \notin {2, 4} ->
           EndFrame(r) /\ UNCHANGED buf
      [] sdk.stage \in {"errorTail", "endTail"} ->
           Fail("PROTOCOL_ERROR") /\ UNCHANGED buf

\* finish without an error; buffer assembles the blocks.
Complete ==
    /\ Settle(Succeeded(call, copyDiagnostics(sdk.pending),
                        SeqExt!FlattenSeq(BlocksOf(buf))))
    /\ up' = CancelUpload(up)
    /\ UNCHANGED net

\* The end of the stream in the middle of a body completes it.
OnEndLenient ==
    IF sdk.stage = "streaming" /\ net.downEnd = "closed"
    THEN /\ Settle(Succeeded(call, sdk.diag, SeqExt!FlattenSeq(BlocksOf(buf))))
         /\ up' = CancelUpload(up)
         /\ UNCHANGED net
    ELSE IF sdk.stage = "errorTail" THEN FinishWith(sdk.pending)
    ELSE IF sdk.stage = "endTail" THEN Complete
    ELSE Fail("PROTOCOL_ERROR")

(* The stream ends, where that is allowed: after a terminal frame.         *)
OnEnd ==
    IF net.downEnd = "broken" \/ InsideFrame(sdk.reader)
    THEN Fail("PROTOCOL_ERROR")
    ELSE CASE sdk.stage = "first" -> FailEarly("PROTOCOL_ERROR")
           [] sdk.stage = "streaming" -> Fail("PROTOCOL_ERROR")
           [] sdk.stage = "errorTail" -> FinishWith(sdk.pending)
           [] sdk.stage = "endTail" -> Complete

SdkReceives ==
    /\ sdk.stage \in {"first", "streaming", "errorTail", "endTail"}
    /\ Awaits(sdk.reader, net.down)
    /\ \E k \in 1..Len(net.down) :
          /\ sdk' = [sdk EXCEPT !.reader = Filled(@, net.down, k)]
          /\ net' = [net EXCEPT !.down = Rest(@, k)]
    /\ UNCHANGED <<call, up, svc, buf, outcome>>

SdkRead ==
    LET header == frame_header(sdk.reader)
        r == ReadPayload(header, AcceptsHeader(header))
    IN  /\ sdk.stage \in {"first", "streaming", "errorTail", "endTail"}
        /\ \/ /\ AtEnd(sdk.reader, net.down, net.downEnd)
              /\ OnEnd /\ UNCHANGED buf
           \/ /\ sdk.reader.chunk # <<>>
              /\ IF Refused(r, AcceptsHeader(r))
                 THEN Fail("PROTOCOL_ERROR") /\ UNCHANGED buf
                 ELSE IF FrameComplete(r) THEN OnFrame(r)
                 ELSE Continue([sdk EXCEPT !.reader = r]) /\ UNCHANGED buf
        /\ UNCHANGED <<call, svc>>

-----------------------------------------------------------------------------
(* Control calls: what the service builds, and what the SDK accepts.       *)

ServiceContext(c, upgraded) ==
    [contextId |-> "c1", partition |-> c.partition, expiresAtMs |-> "1",
     revision |-> "0", cookieMode |-> c.cookieMode,
     identity |-> [c.connection.identity EXCEPT
                     !.tlsProfile = canonical_profile_name(@, upgraded)]]

\* "" when openContext returns.
openContext(o, upgraded) ==
    LET reply == ServiceContext(o, upgraded)
    IN  CASE ~opaque(o.partition) -> "INVALID_REQUEST"
          [] opaque(o.partition) /\ validateConnection(o.connection) # "" ->
               validateConnection(o.connection)
          [] OTHER ->
               IF ~CreateContext(o) THEN "INVALID_REQUEST"
               ELSE IF /\ contextInfo(reply)
                       /\ reply.partition = o.partition
                       /\ reply.cookieMode = o.cookieMode
                       /\ reply.identity =
                            [o.connection.identity EXCEPT !.tlsProfile =
                               resolveProfile(CachedCapabilities, @)]
                    THEN "" ELSE "PROTOCOL_ERROR"

ServiceCookie == [f \in {"name", "value", "domain", "path"} |-> "text"]
    @@ [f \in {"secure", "httpOnly", "hostOnly", "partitioned"} |-> "true"]
Snapshot == [partitionKey |-> "text", cookies |-> <<ServiceCookie>>]

ServiceReply(operation) ==
    "revision" :> "1"
    @@ CASE operation = "select" -> "cookies" :> <<ServiceCookie>>
         [] operation = "export" -> "snapshot" :> Snapshot
         [] operation \in {"set", "import"} -> <<>>

cookies(command) ==
    LET reply == ServiceReply(command.operation)
    IN  IF ~CookieOperation(command) THEN "INVALID_REQUEST"
        ELSE IF /\ CookieReply(reply) /\ IsInteger(reply.revision)
                /\ Has(reply, "cookies") => cookieRecords(reply.cookies)
                /\ Has(reply, "snapshot") => cookieSnapshot(reply.snapshot)
        THEN "" ELSE "PROTOCOL_ERROR"

ServiceCapabilities(upgraded) ==
    LET profiles == IF upgraded THEN <<"chrome_155", "chrome_156">>
                    ELSE <<"chrome_155">>
    IN  [service |-> "ja3proxy", build |-> "text", profiles |-> profiles,
         headerDescriptors |->
            [i \in DOMAIN profiles |-> [tlsProfile |-> profiles[i],
                                        headers |-> <<<<"n", "v">>>>]],
         profileAliases |-> (Alias :> AliasTarget(upgraded)),
         framing |-> "contentType" :> "application/vnd.ja3proxy"
            @@ [f \in {"maxMetadataBytes", "maxDataBytes", "maxUploadFrames"}
                  |-> "1"],
         limits |-> [l \in LimitNames |->
            IF l \in {"maxQueued", "maxQueuedPerPartition"} THEN "0" ELSE "1"],
         modes |-> [egress |-> <<"direct", "http">>,
                    cookies |-> <<"external", "managed">>,
                    stream |-> <<"upload", "download">>,
                    cancel |-> <<"request", "stream-drop">>]]

ControlCode(c) ==
    CASE c.operation = "capabilities" ->
           IF capabilities(ServiceCapabilities(c.upgraded)) THEN ""
           ELSE "UNSUPPORTED_CAPABILITY"
      [] c.operation = "cookies" -> cookies(c.command)
      [] c.operation = "open" ->
           LET o == IF c.via = "async" THEN c.options
                    ELSE IF sessionOptions(c.options) = Null THEN Null
                    ELSE sessionOptions(sessionOptions(c.options))
           IN  IF o = Null THEN "INVALID_REQUEST"
               ELSE openContext(o, c.upgraded)

ControlCall ==
    /\ sdk.stage = "start" /\ call.kind = "control"
    /\ Settle([NoOutcome EXCEPT
                 !.state = IF ControlCode(call) = "" THEN "ok" ELSE "failed",
                 !.code = ControlCode(call)])
    /\ UNCHANGED <<call, up, net, svc, buf>>

-----------------------------------------------------------------------------
(* The status of the registered request, and how the SDK reads it.         *)

status_locked(s) ==
    [state |-> CASE s.code # "" -> "failed"
                 [] s.code = "" /\ s.stage = "done" -> "complete"
                 [] s.code = "" /\ s.stage = "queued" -> "queued"
                 [] OTHER -> "active",
     diagnostics |-> Serialized(s.diag, call.generation)]
    @@ IF s.code = "" THEN <<>>
       ELSE "error" :> ServiceError(s.code, s.diag, call.generation)

NoStatus == [state |-> "protocol_error", diagnostics |-> Null, error |-> Null]

StatusReply(v) ==
    [state |-> v.state, diagnostics |-> copyDiagnostics(v.diagnostics),
     error |-> IF v.state # "failed" THEN Null
               ELSE transportError(v.error, v.diagnostics, "false", TRUE)]

requestStatus(v, requestId) ==
    IF \/ ~\E e \in DiagnosticEnvelopes(v) : RequestStatus(e)
       \/ ~diagnostics(v.diagnostics, requestId, Undefined)
       \/ Has(v, "error") # (v.state = "failed")
       \/ v.state = "complete" /\ v.diagnostics.phase # "complete"
    THEN NoStatus
    ELSE StatusReply(v)

-----------------------------------------------------------------------------
SdkNext ==
    \/ Start \/ Send \/ Abort \/ PullUpload \/ ReadSource \/ SourceThrows
    \/ SdkHead \/ SdkReceives \/ SdkRead \/ ControlCall

SvcNext ==
    \/ SvcReceives \/ SvcEnvelope \/ SvcPrepare \/ SvcDispatch \/ SvcUpload
    \/ SvcAnswered \/ SvcRespond \/ SvcForward \/ SvcComplete \/ SvcFail

Next == SdkNext \/ SvcNext \/ Cut

Spec == Init /\ [][Next]_vars

-----------------------------------------------------------------------------
Source == SeqExt!FlattenSeq(BodyOf(call))

(* The service's body is always a prefix of the caller's, and an upload it *)
(* accepts is all of it: however frames are cut, and though the caller     *)
(* gave up, its stream failed, or an intermediary ended the upload early   *)
(* (protocol.ts uploadFrames, protocol.rs upload).                         *)
UploadFaithful ==
    svc.metadata # Null =>
        /\ SeqExt!IsPrefix(svc.received, Source)
        /\ svc.upload = "done" => svc.received = Source


(* A result is everything the target sent, after a complete upload, with   *)
(* the diagnostics of the finished request: a truncated response, an       *)
(* error, or anything after the terminal frame is never a result           *)
(* (client.ts:257-281, FrameReader).                                       *)
CompletionHonest ==
    outcome.state = "ok" /\ call.kind = "exchange" =>
        /\ svc.stage = "done" /\ svc.code = "" /\ svc.upload = "done"
        /\ svc.answer.chunks = <<>> /\ outcome.body = svc.sent
        /\ outcome.diagnostics = Serialized(svc.diag, call.generation)

\* What a service may rightly not be understood for: an alias that moved
\* after the SDK cached it, and answers that fetch cannot represent.
StaleAlias ==
    /\ call.upgraded
    /\ LET c == IF call.kind = "exchange" THEN ConnectionOf(call)
                ELSE call.options.connection
       IN  c # Null /\ c.identity.tlsProfile = Alias
Unrepresentable ==
    svc.answer # Null /\ (svc.answer.status \notin Statuses
                          \/ svc.answer.status = "205")

(* On a whole connection no service, of this or an older generation, is    *)
(* met with a protocol error of the SDK's own making, in the process or    *)
(* behind the synchronous bridge (protocol.ts schemaDiagnostics and        *)
(* diagnostics, service.ts transportError, sync/ipc.ts).                   *)
AcceptsService ==
    outcome.code \in {"PROTOCOL_ERROR", "UNSUPPORTED_CAPABILITY"} =>
        \/ net.cut \/ svc.code = "PROTOCOL_ERROR"
        \/ StaleAlias \/ Unrepresentable

(* What a caller learns of its exchange, from its outcome or by asking for *)
(* its status, is true: the trace ids are those the service sent, never    *)
(* placeholders, "not_started" means that the target was not contacted and *)
(* never will be, and a status tells what became of the request (errors.ts *)
(* copyDiagnostics, client.ts:233, registry.rs status_locked).             *)
DiagnosticsHonest ==
    /\ outcome.state # "none" /\ outcome.diagnostics # Null =>
        /\ Each(outcome.diagnostics, {"traceId"}, LAMBDA v : v = "trace")
        /\ Each(outcome.diagnostics, {"spanId"}, LAMBDA v : v = "span")
        /\ outcome.diagnostics.delivery = "not_started" => ~svc.contacted
    /\ svc.diag # Null =>
        LET told == requestStatus(status_locked(svc), svc.diag.requestId)
        IN  /\ told.state = status_locked(svc).state
            /\ told.state = "failed" => told.error.code = svc.code
            /\ told.diagnostics.delivery = "not_started" => ~svc.contacted
            /\ outcome.state = "ok" => told.state = "complete"
            /\ Each(told.diagnostics, {"traceId"}, LAMBDA v : v = "trace")

(* What buffer reserved covers its blocks together with the body they are  *)
(* assembled to, and stays within the budget (client.ts:84-118).           *)
BufferCovered ==
    LET size == Len(SeqExt!FlattenSeq(BlocksOf(buf)))
        held == Len(SeqExt!FlattenSeq(buf.blocks)) + buf.capacity
    IN  held + size <= buf.retained /\ buf.retained <= BufferLimit
=============================================================================
