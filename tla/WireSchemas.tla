---------------------------- MODULE WireSchemas ----------------------------
(***************************************************************************)
(* The contract validators both SDK packages run on wire values            *)
(* (generated/compiled-validators.js), one operator per validateN.         *)
(*                                                                         *)
(* A JSON object is a function from the names of its fields, an array a    *)
(* sequence.  A scalar is a string that names its value: integers and      *)
(* booleans their literal, null "null", and a JSON string the class of     *)
(* texts the checks tell apart.  An object-valued field that holds null    *)
(* holds Null, an array-valued one NullArray.                              *)
(***************************************************************************)
EXTENDS Naturals, Sequences, TLC

\* No integer of a message is larger; every HTTP status fits.
MaxInteger == 999

Null == [null |-> "null"]
NullArray == <<Null>>
\* Numbers that are no safe integer of the contract (maximum 2^53 - 1).
Unsafe == {"huge"}

Integer == {ToString(n) : n \in 0..MaxInteger}
Boolean == {"true", "false"}

IsInteger(v) == v \in Integer
IsBoolean(v) == v \in Boolean
NoString == Integer \cup Boolean \cup Unsafe \cup {"null"}
IsString(v) == v \notin NoString
IntegerOrNull(v) == v = "null" \/ IsInteger(v)
BooleanOrNull(v) == v = "null" \/ IsBoolean(v)
StringOrNull(v) == v = "null" \/ IsString(v)

Phases == {"queued", "preparing", "upstream", "body", "complete"}
Deliveries == {"not_started", "possibly_sent", "response_started"}
CookieModes == {"external", "managed"}
ErrorCodes ==
    {"UNAUTHORIZED", "INVALID_REQUEST", "UNSUPPORTED_CAPABILITY",
     "INVALID_PROFILE", "EGRESS_REQUIRED", "SSRF_BLOCKED", "BODY_TOO_LARGE",
     "BUSY", "TIMEOUT", "CANCELLED", "DNS_ERROR", "PROXY_ERROR", "TLS_ERROR",
     "CONNECT_ERROR", "PROTOCOL_ERROR", "CONTEXT_NOT_FOUND",
     "CONTEXT_CONFLICT", "CONTEXT_LIMIT", "COOKIE_LIMIT",
     "DUPLICATE_REQUEST", "UNKNOWN"}

-----------------------------------------------------------------------------
(* How an object schema constrains its fields.                             *)

Has(o, field) == field \in DOMAIN o
Required(o, fields) == o # Null /\ fields \subseteq DOMAIN o
Closed(o, fields) == DOMAIN o \subseteq fields
Each(o, fields, Type(_)) == \A f \in fields \cap DOMAIN o : Type(o[f])
Among(o, field, values) == Has(o, field) => o[field] \in values
NestedOrNull(o, field, Schema(_)) ==
    Has(o, field) => o[field] = Null \/ Schema(o[field])
ArrayOf(seq, Type(_)) == \A i \in DOMAIN seq : Type(seq[i])
Pair(seq) == Len(seq) = 2 /\ ArrayOf(seq, IsString)

-----------------------------------------------------------------------------
(* Connections and requests.                                               *)

\* oneOf: closed objects with different constants for mode.
Egress(e) ==
    \/ Required(e, {"mode"}) /\ Closed(e, {"mode"}) /\ e.mode = "direct"
    \/ /\ Required(e, {"mode", "url"})
       /\ Closed(e, {"mode", "url"})
       /\ e.mode = "proxy" /\ IsString(e.url)

BrowserIdentity(i) ==
    /\ Required(i, {"tlsProfile", "emulateHeaders"})
    /\ Closed(i, {"tlsProfile", "emulateHeaders", "userAgent"})
    /\ IsString(i.tlsProfile) /\ IsBoolean(i.emulateHeaders)
    /\ Each(i, {"userAgent"}, StringOrNull)

ConnectionSpec(c) ==
    /\ Required(c, {"egress", "identity"})
    /\ Closed(c, {"egress", "identity"})
    /\ Egress(c.egress) /\ BrowserIdentity(c.identity)

HeaderOrder(v) == v \in {"caller", "browser"}

RequestMetadata(m) ==
    LET required == {"requestId", "partition", "url", "method", "headers",
                     "hasBody", "timeoutMs", "maxResponseBytes", "attempt"}
    IN  /\ Required(m, required)
        /\ Closed(m, required \cup {"bodyLength", "connection", "contextId",
                                    "headerOrder"})
        /\ Each(m, {"requestId", "partition", "url", "method"}, IsString)
        /\ Each(m, {"timeoutMs", "maxResponseBytes", "attempt"}, IsInteger)
        /\ IsBoolean(m.hasBody)
        /\ Each(m, {"bodyLength"}, IntegerOrNull)
        /\ Each(m, {"contextId"}, StringOrNull)
        /\ Each(m, {"headerOrder"}, HeaderOrder)
        /\ NestedOrNull(m, "connection", ConnectionSpec)
        /\ ArrayOf(m.headers, Pair)

\* validate27, the copy createContext uses.
ConnectionOfContext(c) == ConnectionSpec(c)

CreateContext(c) ==
    LET required == {"partition", "connection", "cookieMode", "allowedOrigins"}
    IN  /\ Required(c, required)
        /\ Closed(c, required \cup {"ttlMs"})
        /\ IsString(c.partition) /\ ConnectionOfContext(c.connection)
        /\ c.cookieMode \in CookieModes
        /\ ArrayOf(c.allowedOrigins, IsString)
        /\ Each(c, {"ttlMs"}, IntegerOrNull)

-----------------------------------------------------------------------------
(* Diagnostics and the envelopes that carry them: open objects.            *)

DiagnosticsFields(d) ==
    Required(d, {"requestId", "attempt", "traceId", "spanId", "phase",
                 "delivery", "queueMs", "headersMs", "bodyMs", "totalMs",
                 "requestBytes", "responseBytes", "tlsProfile"})

DiagnosticsTypes(d) ==
    /\ Each(d, {"requestId", "traceId", "spanId", "tlsProfile"}, IsString)
    /\ Each(d, {"attempt", "queueMs", "totalMs", "requestBytes",
                "responseBytes"}, IsInteger)
    /\ Each(d, {"headersMs", "bodyMs", "cookieRevision"}, IntegerOrNull)
    /\ Each(d, {"clientReused"}, BooleanOrNull)
    /\ Each(d, {"contextId"}, StringOrNull)
    /\ d.phase \in Phases /\ d.delivery \in Deliveries

Diagnostics(d) == DiagnosticsFields(d) /\ DiagnosticsTypes(d)

\* validate14, validate18 and validate41 are the copies the envelopes use.
DiagnosticsOfResponse(d) == Diagnostics(d)
DiagnosticsOfError(d) == Diagnostics(d)
DiagnosticsOfStatus(d) == Diagnostics(d)

ResponseMetadata(r) ==
    /\ Required(r, {"requestId", "status", "headers", "diagnostics"})
    /\ IsString(r.requestId) /\ IsInteger(r.status)
    /\ ArrayOf(r.headers, Pair)
    /\ DiagnosticsOfResponse(r.diagnostics)
    /\ Each(r, {"cookieRevision"}, IntegerOrNull)

TransportError(e) ==
    /\ Required(e, {"code", "message"})
    /\ e.code \in ErrorCodes /\ IsString(e.message)
    /\ NestedOrNull(e, "diagnostics", DiagnosticsOfError)

\* validate43, the copy requestStatus uses.
ErrorOfStatus(e) == TransportError(e)

RequestStatus(s) ==
    /\ Required(s, {"state", "diagnostics"})
    /\ s.state \in {"queued", "active", "complete", "failed"}
    /\ DiagnosticsOfStatus(s.diagnostics)
    /\ NestedOrNull(s, "error", ErrorOfStatus)

-----------------------------------------------------------------------------
(* Contexts and cookies.                                                   *)

ContextInfo(c) ==
    /\ Required(c, {"contextId", "partition", "expiresAtMs", "revision",
                    "cookieMode", "identity"})
    /\ IsString(c.contextId) /\ IsString(c.partition)
    /\ IsInteger(c.expiresAtMs) /\ IsInteger(c.revision)
    /\ c.cookieMode \in CookieModes
    /\ BrowserIdentity(c.identity)

CookieRecord(c) ==
    LET texts == {"name", "value", "domain", "path"}
        flags == {"secure", "httpOnly", "hostOnly", "partitioned"}
    IN  /\ Required(c, texts \cup flags)
        /\ Closed(c, texts \cup flags \cup {"sameSite", "expiresAtMs"})
        /\ Each(c, texts, IsString) /\ Each(c, flags, IsBoolean)
        /\ Among(c, "sameSite", {"Strict", "Lax", "None", "null"})
        /\ Each(c, {"expiresAtMs"}, IntegerOrNull)

\* validate23, validate31 and validate35: the copies inside a snapshot, an
\* operation and a reply; validate30 and validate37: their snapshots.
CookieOfSnapshot(c) == CookieRecord(c)
CookieOfOperation(c) == CookieRecord(c)
CookieOfReply(c) == CookieRecord(c)

SnapshotFields(s) ==
    /\ Required(s, {"partitionKey", "cookies"})
    /\ Closed(s, {"partitionKey", "cookies"})
    /\ IsString(s.partitionKey)

CookieSnapshot(s) == SnapshotFields(s) /\ ArrayOf(s.cookies, CookieOfSnapshot)
SnapshotOfOperation(s) == SnapshotFields(s) /\ ArrayOf(s.cookies, CookieOfOperation)
SnapshotOfReply(s) == SnapshotFields(s) /\ ArrayOf(s.cookies, CookieOfReply)

CookieOperationOf(c, operation, fields) ==
    /\ Required(c, {"operation", "partition"} \cup fields)
    /\ Closed(c, {"operation", "partition"} \cup fields)
    /\ c.operation = operation /\ IsString(c.partition)

SelectCookies(c) ==
    CookieOperationOf(c, "select", {"url"}) /\ IsString(c.url)

SetCookies(c) ==
    /\ CookieOperationOf(c, "set", {"url", "cookies", "expectedRevision"})
    /\ IsString(c.url) /\ ArrayOf(c.cookies, IsString)
    /\ IsInteger(c.expectedRevision)

ExportCookies(c) == CookieOperationOf(c, "export", {})

ImportCookies(c) ==
    /\ CookieOperationOf(c, "import", {"snapshot", "expectedRevision"})
    /\ SnapshotOfOperation(c.snapshot) /\ IsInteger(c.expectedRevision)

\* oneOf: the constants for operation exclude each other.
CookieOperation(c) ==
    SelectCookies(c) \/ SetCookies(c) \/ ExportCookies(c) \/ ImportCookies(c)

CookieReply(r) ==
    /\ Required(r, {"revision"}) /\ IsInteger(r.revision)
    /\ NestedOrNull(r, "snapshot", SnapshotOfReply)
    /\ Has(r, "cookies") =>
          r.cookies = NullArray \/ ArrayOf(r.cookies, CookieOfReply)

-----------------------------------------------------------------------------
(* Capabilities.                                                           *)

FramingCapabilities(f) ==
    /\ Required(f, {"contentType", "maxMetadataBytes", "maxDataBytes",
                    "maxUploadFrames"})
    /\ IsString(f.contentType)
    /\ Each(f, DOMAIN f \ {"contentType"}, IsInteger)

HeaderDescriptor(h) ==
    /\ Required(h, {"tlsProfile", "headers"})
    /\ IsString(h.tlsProfile) /\ ArrayOf(h.headers, Pair)

LimitNames ==
    {"maxRequestBytes", "maxResponseBytes", "maxTimeoutMs", "maxConcurrent",
     "maxConcurrentPerPartition", "maxQueued", "maxQueuedPerPartition",
     "maxEnvelopes", "envelopeTimeoutMs", "maxControlBytes",
     "maxHeaderBytes", "maxHeaders", "maxContexts",
     "maxContextsPerPartition", "contextIdleTtlMs", "contextMaxIdleTtlMs",
     "contextMaxAgeMs", "maxCookies", "maxCookieBytes", "maxCookieSize",
     "maxAllowedOrigins", "registryCapacity", "registryTtlMs"}

CapabilityLimits(l) == Required(l, LimitNames) /\ Each(l, LimitNames, IsInteger)

CapabilityModes(m) ==
    /\ Required(m, {"egress", "cookies", "stream", "cancel"})
    /\ \A f \in {"egress", "cookies", "stream", "cancel"} :
          ArrayOf(m[f], IsString)

Capabilities(c) ==
    /\ Required(c, {"service", "build", "profiles", "headerDescriptors",
                    "profileAliases", "framing", "limits", "modes"})
    /\ c.service = "ja3proxy" /\ IsString(c.build)
    /\ ArrayOf(c.profiles, IsString)
    /\ ArrayOf(c.headerDescriptors, HeaderDescriptor)
    /\ Each(c.profileAliases, DOMAIN c.profileAliases, IsString)
    /\ FramingCapabilities(c.framing)
    /\ CapabilityLimits(c.limits) /\ CapabilityModes(c.modes)
=============================================================================
