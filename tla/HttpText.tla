------------------------------ MODULE HttpText ------------------------------
(***************************************************************************)
(* The parts of the MCP HTTP transport that keep no state: which transport *)
(* a server speaks (the probes), what an HTTP answer means, how an event   *)
(* stream is cut into events however its chunks fall, and how a tool's     *)
(* arguments become headers.                                               *)
(***************************************************************************)
EXTENDS Integers, Sequences, SequencesExt, FiniteSets

-----------------------------------------------------------------------------
(* Probing.  An answer is [status, body]: status is the HTTP status or 0   *)
(* when nothing came back, body is what the JSON-RPC payload holds.        *)

ClientError(status) == status \in 400 .. 499

\* probe_modern_once: an error of the modern range shows a modern server too.
ProbeModernOnce(a) ==
    CASE a.status = 0 -> "not mcp"
      [] a.status = 401 -> "unauthorized"
      [] a.status \notin {0, 401} /\ a.body = "discover" -> "modern"
      [] a.status \notin {0, 401} /\ a.body = "mismatch" -> "modern"
      [] a.status = 404 /\ a.body = "no method" -> "modern"
      [] a.status \notin {0, 401, 404} /\ a.body = "no method" -> "legacy"
      [] a.status \notin {0, 401} /\ a.body \in {"initialize", "other", "error"} -> "legacy"
      [] a.status \in {400, 404, 405} /\ a.body \in {"none", "endpoint"} -> "legacy"
      [] OTHER -> "not mcp"

\* probe_initialize_once.
ProbeInitializeOnce(a) ==
    CASE a.status = 401 -> "unauthorized"
      [] a.status # 401 /\ ClientError(a.status) -> "legacy"
      [] a.status = 200 /\ a.body = "initialize" -> "streamable"
      [] OTHER -> "not mcp"

\* probe_legacy_sse_once: an event stream whose first events name the endpoint.
ProbeLegacySseOnce(a) ==
    CASE a.status = 401 -> "unauthorized"
      [] a.status = 200 /\ a.body = "endpoint" -> "sse"
      [] OTHER -> "not mcp"

Success == {"modern", "streamable", "sse"}

\* One attempt of a probe, after a 401 once more with a refreshed token.  The answer
\* to a request depends on whether its token is fresh; `once` has judged both.
WithRefresh(profile, stale, fresh) ==
    IF profile.fresh \/ stale # "unauthorized" THEN [is |-> IF profile.fresh THEN fresh ELSE stale, profile |-> profile]
    ELSE IF ~profile.refreshable THEN [is |-> "unauthorized", profile |-> profile]
    ELSE IF profile.refresh # "ok" THEN [is |-> profile.refresh, profile |-> profile]
    ELSE [is |-> IF fresh = "unauthorized" THEN "auth required" ELSE fresh, profile |-> [profile EXCEPT !.fresh = TRUE]]

\* A 401 to a token that cannot be refreshed, or that is fresh already.
Settled(profile, is) ==
    IF is # "unauthorized" THEN is
    ELSE IF ~profile.refreshable THEN "not mcp"
    ELSE IF profile.refresh # "ok" THEN profile.refresh ELSE "auth required"

Final == Success \cup {"auth required", "refresh failed"}

\* probe_legacy_sse_with_oauth_retry.
ProbeLegacySse(server, profile) ==
    LET a == WithRefresh(profile, ProbeLegacySseOnce(server.stale.get), ProbeLegacySseOnce(server.fresh.get)) IN
    IF a.is = "legacy" THEN "not mcp" ELSE Settled(a.profile, a.is)

\* probe_initialize_with_reason: modern, then initialize, then the event stream.
ProbeInitialize(server, profile) ==
    LET m == WithRefresh(profile, ProbeModernOnce(server.stale.discover), ProbeModernOnce(server.fresh.discover))
        i == WithRefresh(m.profile, ProbeInitializeOnce(server.stale.initialize), ProbeInitializeOnce(server.fresh.initialize))
    IN IF Settled(m.profile, m.is) \in Final \/ m.is = "unauthorized" THEN Settled(m.profile, m.is)
       ELSE IF i.is = "legacy" THEN ProbeLegacySse(server, i.profile)
       ELSE Settled(i.profile, i.is)

\* A server that speaks one of the three is found with the transport it speaks as soon as
\* the profile works or can be refreshed, and a server that speaks none is never taken for one.
Speaks(server) == IF ProbeModernOnce(server.fresh.discover) = "modern" THEN "modern"
                  ELSE IF server.fresh.initialize = [status |-> 200, body |-> "initialize"] THEN "streamable"
                  ELSE IF /\ server.fresh.get = [status |-> 200, body |-> "endpoint"]
                          /\ ClientError(server.fresh.initialize.status) /\ server.fresh.initialize.status # 401
                       THEN "sse"
                  ELSE "none"
Works(server, profile) == /\ profile.fresh \/ server.stale = server.fresh \/ (profile.refreshable /\ profile.refresh = "ok")
                          /\ \A r \in {"discover", "initialize", "get"} : server.fresh[r].status # 401
FindsTransport(server, profile) ==
    LET found == ProbeInitialize(server, profile) IN
    /\ Works(server, profile) /\ Speaks(server) # "none" => found = Speaks(server)
    /\ Speaks(server) = "none" => found \notin Success
    /\ found \in {"auth required", "refresh failed"} => profile.refreshable

-----------------------------------------------------------------------------
(* Event streams.  A stream is a sequence of characters: "r" and "n" end a *)
(* line, "d" stands for a data: line, "h" and "H" are the two bytes of one *)
(* character in it, "e" is an event: line.                                 *)

\* str::find, for a delimiter made of line ends.
FindText(text, pattern) ==
    LET at == {k \in 1 .. Len(text) - Len(pattern) + 1 : SubSeq(text, k, k + Len(pattern) - 1) = pattern}
    IN IF at = {} THEN 0 ELSE CHOOSE k \in at : \A j \in at : k <= j

\* find_sse_event_delimiter and sse_delimiter: [at, len], the carriage returns first.
SseDelimiter(text) ==
    LET crlf == FindText(text, <<"r", "n", "r", "n">>)
        lf == FindText(text, <<"n", "n">>)
    IN IF crlf # 0 THEN [at |-> crlf, len |-> 4] ELSE [at |-> lf, len |-> 2]

\* The data lines of one block; a block without one is no event.
DataLines(block) == SelectSeq(block, LAMBDA ch : ch \in {"d", "h", "H"})

Rest(text, d) == SubSeq(text, d.at + d.len, Len(text))

\* drain_sse_events: the complete events, and what stays in the buffer.
DrainSse[text \in Seq(STRING)] ==
    LET d == SseDelimiter(text) IN
    IF d.at = 0 THEN [events |-> <<>>, buffer |-> text]
    ELSE LET block == SubSeq(text, 1, d.at - 1)
             later == DrainSse[Rest(text, d)]
         IN [events |-> (IF DataLines(block) = <<>> THEN <<>>
                         ELSE <<[type |-> IF "e" \in ToSet(block) THEN "endpoint" ELSE "message", data |-> DataLines(block)]>>) \o later.events,
             buffer |-> later.buffer]

\* drain_ndjson_events: one event for each line that is not blank.
DrainNdjson[text \in Seq(STRING)] ==
    LET at == FindText(text, <<"n">>) IN
    IF at = 0 THEN [events |-> <<>>, buffer |-> text]
    ELSE LET line == DataLines(SubSeq(text, 1, at - 1))
             later == DrainNdjson[SubSeq(text, at + 1, Len(text))]
         IN [events |-> (IF line = <<>> THEN <<>> ELSE <<line>>) \o later.events, buffer |-> later.buffer]

\* decode_utf8_prefix: a character whose second byte has not come waits for it.
DecodeUtf8Prefix(bytes) == IF bytes # <<>> /\ Last(bytes) = "h"
                           THEN [text |-> Front(bytes), left |-> <<"h">>] ELSE [text |-> bytes, left |-> <<>>]

\* String::from_utf8_lossy: half a character becomes a replacement.
DecodeLossy(bytes) == [k \in DOMAIN bytes |-> IF \/ bytes[k] = "h" /\ (k = Len(bytes) \/ bytes[k + 1] # "H")
                                                 \/ bytes[k] = "H" /\ (k = 1 \/ bytes[k - 1] # "h")
                                              THEN "?" ELSE bytes[k]]

\* The readers hold the buffer between two chunks; those of MCP decode each by itself.
SseInTwo(text, k) == LET first == DrainSse[DecodeLossy(SubSeq(text, 1, k))]
                         second == DrainSse[first.buffer \o DecodeLossy(SubSeq(text, k + 1, Len(text)))]
                     IN [events |-> first.events \o second.events, buffer |-> second.buffer]
NdjsonInTwo(text, k) == LET one == DecodeUtf8Prefix(SubSeq(text, 1, k))
                            two == DecodeUtf8Prefix(one.left \o SubSeq(text, k + 1, Len(text)))
                            first == DrainNdjson[one.text]
                            second == DrainNdjson[first.buffer \o two.text]
                        IN [events |-> first.events \o second.events, buffer |-> second.buffer]

\* The events do not depend on where the network cuts a stream that ends its lines one way.
\* (One that mixes both is cut at its first \r\n\r\n, and loses the events before it; and
\* an event stream of MCP must not be cut within a character, which the readers spoil.)
OneEnding(text) == "r" \notin ToSet(text) \/ \A k \in 1 .. Len(text) : text[k] = "n" => k > 1 /\ text[k - 1] = "r"
Characters(text) == \A j \in DOMAIN text : /\ text[j] = "h" => j < Len(text) /\ text[j + 1] = "H"
                                           /\ text[j] = "H" => j > 1 /\ text[j - 1] = "h"
CutAnywhere(text) ==
    \A k \in 0 .. Len(text) :
        /\ OneEnding(text) /\ Characters(text) /\ (k > 0 => text[k] # "h") => SseInTwo(text, k) = DrainSse[text]
        /\ Characters(text) => NdjsonInTwo(text, k) = DrainNdjson[text]

-----------------------------------------------------------------------------
(* The answer to a POST as an event stream: each line is a "response", a   *)
(* "request" of the server (it has an id, and parses as a response without *)
(* a result), a "note", "done" or "junk".                                  *)

\* parse_sse_response: the first payload that parses as a response.
ParseSseResponse(lines) ==
    LET at == {k \in DOMAIN lines : lines[k] \in {"response", "request"}} IN
    IF at = {} THEN "nothing" ELSE lines[CHOOSE k \in at : \A j \in at : k <= j]

\* parse_jsonrpc_response: JSON, unless the header or the body says event stream.
ParseJsonrpcResponse(sse, lines) ==
    IF ~sse /\ Len(lines) = 1 /\ lines[1] \in {"response", "request"} THEN lines[1] ELSE ParseSseResponse(lines)

\* read_response_body: an event stream is read only as far as its first response.
ReadResponseBody[sse \in BOOLEAN, lines \in Seq(STRING)] ==
    IF lines = <<>> \/ (sse /\ ParseSseResponse(<<lines[1]>>) # "nothing") THEN SubSeq(lines, 1, IF lines = <<>> THEN 0 ELSE 1)
    ELSE <<lines[1]>> \o ReadResponseBody[sse, Tail(lines)]

ReadSoFar(sse, lines) == ReadResponseBody[sse, lines]

\* Stopping early loses nothing: the answer is the one the whole body holds.
EarlyStopIsSound(sse, lines) ==
    ParseJsonrpcResponse(sse, ReadSoFar(sse, lines)) = ParseJsonrpcResponse(sse, lines)

-----------------------------------------------------------------------------
(* Headers.  A value is a sequence of characters: "P" is the text          *)
(* =?base64? and "S" is ?=, the marks of an encoded value; "u" is a        *)
(* character that a header cannot carry.                                   *)

PlainSafe(v) == /\ v # <<>>
                /\ ~(v[1] = "P" /\ v[Len(v)] = "S")
                /\ v[1] # " " /\ v[Len(v)] # " "
                /\ "u" \notin ToSet(v)

\* encode_header_value.
EncodeHeaderValue(v) == IF PlainSafe(v) THEN [coded |-> FALSE, text |-> v] ELSE [coded |-> TRUE, text |-> v]

\* What HTTP does to a field on its way (blanks around it go), and how a server reads it.
Carried(h) == IF h.coded THEN h ELSE [h EXCEPT !.text = LET keep == {k \in DOMAIN @ : @[k] # " "} IN
                  IF keep = {} THEN <<>> ELSE SubSeq(@, CHOOSE k \in keep : \A j \in keep : k <= j, CHOOSE k \in keep : \A j \in keep : j <= k)]
HeaderRoundTrips(v) == Carried(EncodeHeaderValue(v)).text = v

\* collect_tool_header_mappings, find_unreachable_tool_header: a schema is the set of its
\* annotations [name, type, path, reachable]; a name stands for its lower-case form.
ValidAnnotation(a) == a.reachable /\ a.path # <<>> /\ a.name # "" /\ a.type \in {"string", "integer", "boolean"}

ToolHeaderMappings(schema) ==
    IF /\ \A a \in schema : ValidAnnotation(a)
       /\ \A a, b \in schema : a.name = b.name => a = b
    THEN schema ELSE {[name |-> "invalid"]}

\* custom_tool_headers: a present argument of the annotated type becomes a header, one of
\* another type (or an integer beyond 2^53 - 1) refuses the call, an absent one is left out.
CustomToolHeaders(schema, arguments) ==
    LET given == {a \in ToolHeaderMappings(schema) : a.path \in DOMAIN arguments} IN
    IF ToolHeaderMappings(schema) = {[name |-> "invalid"]} THEN [state |-> "excluded", headers |-> {}]
    ELSE IF \E a \in given : arguments[a.path] # a.type THEN [state |-> "refused", headers |-> {}]
    ELSE [state |-> "sent", headers |-> {<<a.name, a.path>> : a \in given}]

\* No header of a call carries two arguments, and each carries one that was annotated for it.
HeadersAreUnambiguous(schema, arguments) ==
    LET r == CustomToolHeaders(schema, arguments) IN
    \A h, g \in r.headers : h[1] = g[1] => h = g
=============================================================================
