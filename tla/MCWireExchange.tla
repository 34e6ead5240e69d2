--------------------------- MODULE MCWireExchange ---------------------------
(***************************************************************************)
(* The calls of the instance: every combination of options with one short  *)
(* body, and every body with plain options.                                *)
(***************************************************************************)
EXTENDS WireExchange

Chunk(from, length) == [i \in 1..length |-> Byte(from + i)]

\* Whole bodies (one chunk) and streams: empty, with empty chunks, of more
\* than a frame, of too many frames and of too many bytes.
ByteSources == {<<Chunk(0, n)>> : n \in {0, 1, 3, 4, 5}}
StreamSources ==
    {<<>>, <<<<>>, Chunk(0, 1)>>, <<<<>>, <<>>, <<>>>>,
     <<Chunk(0, 1), Chunk(1, 3)>>, <<Chunk(0, 1), Chunk(1, 1), Chunk(2, 1)>>,
     <<Chunk(0, 3), Chunk(3, 2)>>}

Targets ==
    {[status |-> "200", chunks |-> <<>>],
     [status |-> "200", chunks |-> <<Chunk(0, 1), Chunk(1, 1), Chunk(2, 2)>>],
     [status |-> "200", chunks |-> <<Chunk(0, 5)>>],
     [status |-> "200", chunks |-> <<Chunk(0, 2), Chunk(2, 4)>>],
     [status |-> "205", chunks |-> <<Chunk(0, 1)>>],
     [status |-> "304", chunks |-> <<>>],
     [status |-> "600", chunks |-> <<>>]}
OneByte == [status |-> "200", chunks |-> <<Chunk(0, 1)>>]

Identity(profile) == [tlsProfile |-> profile, emulateHeaders |-> "true"]
Direct(profile) == [egress |-> [mode |-> "direct"], identity |-> Identity(profile)]
Proxied(proxy) == [egress |-> [mode |-> "proxy", url |-> proxy],
                   identity |-> Identity(Alias)]

Plain == [partition |-> "p", url |-> "url", method |-> "POST",
          headers |-> <<>>, connection |-> Direct("chrome_155")]

Without(o, field) == Restricted(o, DOMAIN o \ {field})
OfContext == Without(Plain, "connection") @@ ("contextId" :> "c1")

OptionsOfClient ==
    {Plain, OfContext,
     [Plain EXCEPT !.url = "raw"], [Plain EXCEPT !.url = "hash"],
     [Plain EXCEPT !.partition = "alien"], [Plain EXCEPT !.partition = "long"],
     [Plain EXCEPT !.method = "HEAD"],
     Plain @@ ("requestId" :> "alien"), Plain @@ ("requestId" :> "mine"),
     Plain @@ ("attempt" :> "huge"), Plain @@ ("contextId" :> "c1"),
     Plain @@ ("headerOrder" :> "browser"),
     [OfContext EXCEPT !.contextId = "alien"]}
    \cup {[Plain EXCEPT !.connection = c] :
             c \in {Direct(Alias), Direct("chrome_156"), Direct("alien"),
                    Proxied("proxy"), Proxied("alien")}}

PlainCall ==
    [kind |-> "exchange", options |-> Plain, hint |-> Null, body |-> "none",
     source |-> <<<<>>>>, via |-> "async", generation |-> "current",
     upgraded |-> FALSE, managed |-> FALSE, contextProfile |-> "chrome_155",
     target |-> OneByte]

OptionCalls ==
    {[PlainCall EXCEPT !.options = o, !.via = via,
         !.target = IF o.method = "HEAD" THEN [@ EXCEPT !.chunks = <<>>] ELSE @] :
        o \in OptionsOfClient, via \in {"async", "sync"}}
ServiceCalls ==
    {[PlainCall EXCEPT !.options.connection = Direct(Alias), !.via = via,
                       !.generation = g, !.upgraded = u] :
        via \in {"async", "sync"}, g \in Generations, u \in BOOLEAN}
SessionCalls ==
    {[PlainCall EXCEPT !.options = OfContext, !.hint = Direct(Alias),
                       !.contextProfile = Alias, !.via = via,
                       !.generation = g, !.upgraded = u, !.managed = m] :
        via \in {"async", "sync"}, g \in {"current", "no_ids"},
        u \in BOOLEAN, m \in BOOLEAN}
BodyCalls ==
    {[PlainCall EXCEPT !.body = "bytes", !.source = s] : s \in ByteSources}
    \cup {[PlainCall EXCEPT !.body = "stream", !.source = s] :
             s \in StreamSources}
TargetCalls == {[PlainCall EXCEPT !.target = t] : t \in Targets}

Opening(profile, mode) ==
    [partition |-> "p", connection |-> Direct(profile), cookieMode |-> mode,
     allowedOrigins |-> <<"raw">>]
Commands ==
    {[partition |-> "p", operation |-> "select", url |-> "url"],
     [partition |-> "p", operation |-> "export"],
     [partition |-> "p", operation |-> "set", url |-> "url",
      cookies |-> <<"text">>, expectedRevision |-> "0"],
     [partition |-> "p", operation |-> "import", snapshot |-> Snapshot,
      expectedRevision |-> "0"]}
ControlCalls ==
    {[kind |-> "control", operation |-> "open", options |-> Opening(p, m),
      via |-> via, upgraded |-> u] :
        p \in {"chrome_155", Alias, "alien"}, m \in CookieModes,
        via \in {"async", "sync"}, u \in BOOLEAN}
    \cup {[kind |-> "control", operation |-> "cookies", command |-> c,
           options |-> [connection |-> Null], upgraded |-> FALSE] :
             c \in Commands}
    \cup {[kind |-> "control", operation |-> "capabilities", upgraded |-> u,
           options |-> [connection |-> Null]] : u \in BOOLEAN}

MCCalls ==
    OptionCalls \cup ServiceCalls \cup SessionCalls \cup BodyCalls
    \cup TargetCalls \cup ControlCalls
=============================================================================
