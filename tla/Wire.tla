-------------------------------- MODULE Wire --------------------------------
(***************************************************************************)
(* What the two ends do with wire values besides validating them against   *)
(* the contract: the SDK's own checks and copies (protocol.ts, errors.ts,  *)
(* service.ts), the conversions on the way to and from the synchronous     *)
(* bridge's worker (sync/ipc.ts), and the values the service builds.       *)
(*                                                                         *)
(* "alien" is a text that is neither opaque nor a profile name, "long" one *)
(* longer than every bound, "raw" an unnormalised spelling of "url".       *)
(***************************************************************************)
EXTENDS WireSchemas

Undefined == "undefined"

\* An alias names the newest concrete profile, so it moves with a release.
Alias == "chrome_stable"

LegacyTraceId == "11111111111111111111111111111111"
LegacySpanId == "1111111111111111"

-----------------------------------------------------------------------------
(* protocol.ts                                                             *)

opaque(v) == IsString(v) /\ v \notin {"", "alien", "long"}
ProfileName(v) == v \notin {"", "alien", "long"}
headerPairs(pairs) == \A i \in DOMAIN pairs : Pair(pairs[i])

\* Only the span id of an old service is supplied.
SpanOnly(d) == IF Has(d, "spanId") THEN d ELSE d @@ ("spanId" :> LegacySpanId)

(* Placeholders for the ids an old service does not send, for the schema   *)
(* only.                                                                   *)
schemaDiagnostics(d) ==
    IF Has(d, "spanId") THEN d
    ELSE IF Has(d, "traceId") THEN d @@ ("spanId" :> LegacySpanId)
    ELSE d @@ ("spanId" :> LegacySpanId) @@ ("traceId" :> LegacyTraceId)

Normalized(value) ==
    IF Has(value, "diagnostics") /\ value.diagnostics # Null
    THEN [value EXCEPT !.diagnostics = schemaDiagnostics(@)]
    ELSE value

(* What validateDiagnosticEnvelope puts to a validator, one of which has   *)
(* to pass: the value as it is, and with the placeholders.                 *)
DiagnosticEnvelopes(value) ==
    LET outer == Normalized(value)
        filled == IF Has(value, "error") /\ value.error # Null
                  THEN [outer EXCEPT !.error = Normalized(@)] ELSE outer
    IN  {value} \cup (IF Has(value, "diagnostics") /\ value.diagnostics # Null
                      THEN {filled} ELSE {})

diagnostics(d, requestId, attempt) ==
    /\ d # Null /\ Diagnostics(schemaDiagnostics(d))
    /\ opaque(d.requestId)
    /\ requestId \in {Undefined, d.requestId} /\ attempt \in {Undefined, d.attempt}
    /\ \/ d.tlsProfile = "" /\ d.delivery = "not_started"
       \/ ProfileName(d.tlsProfile)
    /\ ~Has(d, "traceId") => ~Has(d, "spanId")
    /\ Among(d, "traceId", {"trace", LegacyTraceId})
    /\ Among(d, "spanId", {"span", LegacySpanId})
    /\ Each(d, {"contextId"}, opaque)
    /\ Each(d, {"clientReused"}, IsBoolean)
    /\ Each(d, {"cookieRevision"}, IsInteger)

Statuses == {ToString(n) : n \in 200..599}

responseMetadata(r, requestId, attempt) ==
    /\ \E e \in DiagnosticEnvelopes(r) : ResponseMetadata(e)
    /\ r.requestId = requestId
    /\ r.status \in Statuses /\ headerPairs(r.headers)
    /\ diagnostics(r.diagnostics, requestId, attempt)
    /\ r.diagnostics.delivery = "response_started"
    /\ Each(r, {"cookieRevision"}, IsInteger)

contextInfo(c) ==
    /\ ContextInfo(c) /\ opaque(c.contextId) /\ opaque(c.partition)
    /\ ProfileName(c.identity.tlsProfile)
    /\ Each(c.identity, {"userAgent"}, IsString)

cookieRecords(cookies) ==
    \A i \in DOMAIN cookies :
        /\ CookieRecord(cookies[i])
        /\ \A f \in {"sameSite", "expiresAtMs"} :
              Has(cookies[i], f) => cookies[i][f] # "null"

cookieSnapshot(s) ==
    /\ CookieSnapshot(s) /\ s.partitionKey \notin {"", "long"}
    /\ cookieRecords(s.cookies)

capabilities(c) ==
    LET profiles == {c.profiles[i] : i \in DOMAIN c.profiles}
        includes(mode, values) ==
            values \subseteq {c.modes[mode][i] : i \in DOMAIN c.modes[mode]}
    IN  /\ Capabilities(c) /\ c.build # "" /\ profiles # {}
        /\ \A p \in profiles : ProfileName(p)
        /\ \A i \in DOMAIN c.headerDescriptors :
              /\ c.headerDescriptors[i].tlsProfile \in profiles
              /\ headerPairs(c.headerDescriptors[i].headers)
        /\ \A a \in DOMAIN c.profileAliases :
              /\ ProfileName(a) /\ a \notin profiles
              /\ c.profileAliases[a] \in profiles
        /\ c.framing.contentType = "application/vnd.ja3proxy"
        /\ \A f \in DOMAIN c.framing \ {"contentType"} : c.framing[f] # "0"
        /\ \A l \in LimitNames \ {"maxQueued", "maxQueuedPerPartition"} :
              c.limits[l] # "0"
        /\ includes("stream", {"upload", "download"})
        /\ includes("cancel", {"request", "stream-drop"})

resolveProfile(caps, name) ==
    IF \E i \in DOMAIN caps.profiles : caps.profiles[i] = name THEN name
    ELSE IF Has(caps.profileAliases, name) THEN caps.profileAliases[name]
    ELSE Undefined

-----------------------------------------------------------------------------
(* errors.ts and service.ts                                                *)

KnownFields ==
    {"requestId", "attempt", "phase", "delivery", "queueMs", "headersMs",
     "bodyMs", "totalMs", "requestBytes", "responseBytes", "tlsProfile",
     "traceId", "spanId", "clientReused", "contextId", "cookieRevision"}

Restricted(o, fields) == [f \in fields \cap DOMAIN o |-> o[f]]

\* A copy of the value the schema saw.
CopyNormalized(d) == Restricted(schemaDiagnostics(d), KnownFields)

copyDiagnostics(d) == Restricted(d, KnownFields)

initialDiagnostics(requestId, attempt, tlsProfile) ==
    [requestId |-> IF opaque(requestId) THEN requestId ELSE "local",
     attempt |-> IF IsInteger(attempt) THEN attempt ELSE "0",
     tlsProfile |-> IF ProfileName(tlsProfile) THEN tlsProfile ELSE "unknown",
     phase |-> "preparing", delivery |-> "not_started", queueMs |-> "0",
     headersMs |-> "null", bodyMs |-> "null", totalMs |-> "0",
     requestBytes |-> "0", responseBytes |-> "0"]

Local == initialDiagnostics("local", "0", "unknown")
ControlDiagnostics == initialDiagnostics("control", "0", "unknown")

\* new Ja3ProxyTransportError; the kind an error has when none is given.
Ja3ProxyTransportError(code, d, usedProxy, kind) ==
    [code |-> code, diagnostics |-> copyDiagnostics(d),
     usedProxy |-> usedProxy,
     kind |-> IF kind # Undefined THEN kind
              ELSE IF code = "PROXY_ERROR" THEN "proxy_unreachable"
              ELSE IF d.delivery = "response_started" THEN "connection_lost"
              ELSE "unknown"]

localError(code, kind) == Ja3ProxyTransportError(code, Local, "false", kind)

(* Service.transportError: the error the service reports, or a protocol    *)
(* error with the SDK's own diagnostics.                                   *)
transportError(v, fallback, usedProxy, requireDiagnostics) ==
    LET control == fallback.requestId = "control"
        requestId == IF control THEN Undefined ELSE fallback.requestId
        attempt == IF control THEN Undefined ELSE fallback.attempt
        given == Has(v, "diagnostics")
    IN  IF \/ ~\E e \in DiagnosticEnvelopes(v) : TransportError(e)
           \/ given /\ ~diagnostics(v.diagnostics, requestId, attempt)
           \/ requireDiagnostics
              /\ ~(given /\ diagnostics(v.diagnostics, fallback.requestId,
                                        fallback.attempt))
        THEN Ja3ProxyTransportError("PROTOCOL_ERROR", fallback, usedProxy, Undefined)
        ELSE Ja3ProxyTransportError(
                 v.code, IF given THEN v.diagnostics ELSE fallback,
                 usedProxy, Undefined)

-----------------------------------------------------------------------------
(* sync/ipc.ts: a conversion yields Null where the code throws.            *)

text(v) == IsString(v) /\ v \notin {"", "long"}

\* The href of a URL text: credentials and other schemes are refused.
url(v) == CASE v \in {"raw", "url"} -> "url"
            [] v = "hash" -> "hash"
            [] OTHER -> "invalid"

identity(i) ==
    IF /\ Closed(i, {"tlsProfile", "emulateHeaders", "userAgent"})
       /\ {"tlsProfile", "emulateHeaders"} \subseteq DOMAIN i
       /\ IsBoolean(i.emulateHeaders) /\ text(i.tlsProfile)
       /\ Each(i, {"userAgent"}, text)
    THEN i ELSE Null

connection(c) ==
    IF /\ Closed(c, {"egress", "identity"}) /\ identity(c.identity) # Null
       /\ Closed(c.egress, {"mode", "url"})
       /\ \/ c.egress.mode = "direct" /\ ~Has(c.egress, "url")
          \/ c.egress.mode = "proxy" /\ Has(c.egress, "url")
             /\ text(c.egress.url)
    THEN c ELSE Null

sessionRequest(o) ==
    IF /\ Closed(o, {"url", "method", "headers", "attempt", "requestId"})
       /\ url(o.url) # "invalid" /\ text(o.method)
       /\ headerPairs(o.headers)
       /\ Each(o, {"attempt"}, IsInteger) /\ Each(o, {"requestId"}, text)
    THEN [o EXCEPT !.url = url(@)] ELSE Null

request(o) ==
    LET own == {"partition", "connection", "contextId"}
        rest == sessionRequest(Restricted(o, DOMAIN o \ own))
    IN  IF /\ rest # Null /\ text(o.partition)
           /\ Has(o, "connection") # Has(o, "contextId")
           /\ Has(o, "connection") => connection(o.connection) # Null
           /\ Each(o, {"contextId"}, text)
        THEN rest @@ Restricted(o, own) ELSE Null

sessionOptions(o) ==
    IF /\ Closed(o, {"partition", "connection", "cookieMode",
                     "allowedOrigins", "ttlMs"})
       /\ text(o.partition) /\ connection(o.connection) # Null
       /\ Each(o, {"ttlMs"}, LAMBDA v : IsInteger(v) /\ v # "0")
       /\ \A i \in DOMAIN o.allowedOrigins :
             url(o.allowedOrigins[i]) # "invalid"
       /\ o.cookieMode \in CookieModes
       /\ o.cookieMode = "managed" => o.allowedOrigins # <<>>
    THEN [o EXCEPT !.allowedOrigins =
             [i \in DOMAIN o.allowedOrigins |-> url(o.allowedOrigins[i])]]
    ELSE Null

encodeError(e) == [e EXCEPT !.diagnostics = Restricted(@, KnownFields)]

ipcDiagnostics(d) == diagnostics(d, Undefined, Undefined)

FailureKinds ==
    {"proxy_unreachable", "service_unavailable", "connection_lost",
     "unknown", "client_closed", "queue_full", "buffer_limit",
     "invalid_input", "worker_unavailable"}

decodeError(e) ==
    IF /\ e.code \in ErrorCodes /\ e.kind \in FailureKinds
       /\ IsBoolean(e.usedProxy) /\ ipcDiagnostics(e.diagnostics)
    THEN Ja3ProxyTransportError(e.code, e.diagnostics, e.usedProxy, e.kind)
    ELSE localError("PROTOCOL_ERROR", Undefined)

-----------------------------------------------------------------------------
(* The service's values (models.rs, handlers.rs, registry.rs).             *)

AliasTarget(upgraded) == IF upgraded THEN "chrome_156" ELSE "chrome_155"
canonical_profile_name(name, upgraded) ==
    IF name = Alias THEN AliasTarget(upgraded) ELSE name

valid_opaque(v) == v \notin {"", "long"}

\* serde refuses unknown fields and the wrong types as the schema does.
ParsesMetadata(m) == RequestMetadata(m)

validate_metadata(m) ==
    /\ valid_opaque(m.requestId) /\ valid_opaque(m.partition)
    /\ Each(m, {"contextId"}, valid_opaque)
    /\ Has(m, "contextId") # Has(m, "connection")
    /\ m.hasBody = "false" /\ Has(m, "bodyLength") => m.bodyLength = "0"

RegisteredDiagnostics(m, upgraded) ==
    [requestId |-> m.requestId, attempt |-> m.attempt,
     traceId |-> "trace", spanId |-> "span",
     phase |-> "queued", delivery |-> "not_started", queueMs |-> "0",
     headersMs |-> "null", bodyMs |-> "null", totalMs |-> "0",
     requestBytes |-> "0", responseBytes |-> "0",
     tlsProfile |-> IF Has(m, "connection")
                    THEN canonical_profile_name(
                             m.connection.identity.tlsProfile, upgraded)
                    ELSE ""]
    @@ Restricted(m, {"contextId"})

\* What an older service leaves out of the same diagnostics.
Generations == {"current", "no_span", "no_ids"}
Serialized(d, generation) ==
    Restricted(d, DOMAIN d \ CASE generation = "current" -> {}
                                [] generation = "no_span" -> {"spanId"}
                                [] generation = "no_ids" -> {"spanId", "traceId"})

ServiceError(code, d, generation) ==
    [code |-> code, message |-> "text",
     diagnostics |-> Serialized(d, generation)]
=============================================================================
