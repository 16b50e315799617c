---------------------------- MODULE SchemaInvoke ----------------------------
(***************************************************************************)
(* invoke: a request finds out which protocol its endpoint speaks, from    *)
(* the schema cache or by asking, gets the schema, and runs.  The cache is *)
(* a directory of files, one per key, shared by all requests; the endpoint *)
(* may be down for a while and may change its schema.  All requests here   *)
(* are for one endpoint, a URL.  (Help for a stdio command whose session is *)
(* live is read from the session, invoke_live_stdio_mcp_help, with neither *)
(* the cache nor the fallback: HelpGet of StdioSessions.)                  *)
(*                                                                         *)
(* A file under the endpoint's own name holds what openapi, graphql, grpc  *)
(* and jsonrpc adapters store; an mcp adapter stores under a name with the *)
(* credential in it, here the credential itself.                           *)
(***************************************************************************)
EXTENDS Integers, Sequences, FiniteSets

CONSTANTS Invokes,        \* the requests
          Shapes,         \* what a request may ask: [action, args, refresh, noCache, auth, mapping]
          EndpointKinds,         \* the sets of protocols an endpoint may serve
          MaxVersions, MaxFaults

Order == <<"mcp", "graphql", "openapi", "jsonrpc", "grpc">>
Protocols == {Order[k] : k \in DOMAIN Order}

ASSUME InvokesAssumption ==
    /\ 0 \notin Invokes
    /\ Shapes \subseteq [action : {"help", "execute"}, args : BOOLEAN, refresh : BOOLEAN, noCache : BOOLEAN,
                         auth : STRING \ {"url"}, mapping : STRING]
    /\ EndpointKinds \subseteq (SUBSET Protocols) \ {{}}

VARIABLES endpoint,   \* the server: [protos, ver, up]
          file,       \* the cache's directory
          inv,        \* the requests
          mapEnv,     \* UXC_SCHEMA_MAPPINGS_FILE
          mapLock,    \* schema_mapping_lock: who holds it
          outages     \* bound: faults so far
invVars == <<endpoint, file, inv, mapEnv, mapLock, outages>>

Auths == {s.auth : s \in Shapes}
Keys == Auths \cup {"url"}
NoFile == [at |-> "none"]
NoUse == [ver |-> 0, live |-> FALSE, by |-> "nobody"]
NotBegun == [at |-> "new", shape |-> [action |-> "none"], proto |-> "none", found |-> 0, key |-> "url", used |-> NoUse,
         ran |-> 0, again |-> FALSE, had |-> FALSE, env |-> "none", result |-> "none"]
Finished(r) == r = 0 \/ inv[r].at = "done"
InvStep(r, rec) == inv' = [inv EXCEPT ![r] = rec]

\* The other requests cannot count on the files they began with any more.
StepAlone(r, rec) == inv' = [x \in Invokes |-> IF x = r THEN rec ELSE [inv[x] EXCEPT !.had = FALSE]]

-----------------------------------------------------------------------------
(* The cache.                                                               *)

\* Fault for KeyFor: the credential is not part of the name.
KeyForShared(proto, auth) == IF proto = "mcp" THEN CHOOSE a \in Auths : TRUE ELSE "url"

\* schema_cache_key_for; the other adapters store under the endpoint.
KeyFor(proto, auth) == IF proto = "mcp" THEN auth ELSE "url"

\* get_with_policy: an expired file is a miss under NormalTtl, one that is
\* being written or was left half written is a miss anyway.
Get(k, policy) == file[k].at = "fresh" \/ (file[k].at = "stale" /\ policy = "allow_stale")

\* lookup_schema_cache: the mcp file first, then the endpoint's.
LookupKeys(auth, policy) == IF Get(auth, policy) THEN <<auth>> ELSE IF Get("url", policy) THEN <<"url">> ELSE <<>>

\* protocol_from_cached_schema.
Written(proto, use, r) == [at |-> "fresh", proto |-> proto, ver |-> use.ver, by |-> use.by, putBy |-> r]

\* put of a schema that is there already: it gets the present time.
Redated(k, r) == [file EXCEPT ![k].at = "fresh", ![k].putBy = r]

-----------------------------------------------------------------------------
(* Detection.                                                               *)

\* detect_adapter_with_options: the first protocol whose probe succeeds.
DetectAdapter(probe) ==
    LET yes == {k \in DOMAIN Order : probe[Order[k]]}
    IN IF yes = {} THEN "none" ELSE Order[CHOOSE k \in yes : \A j \in yes : k <= j]

-----------------------------------------------------------------------------
(* A request.                                                               *)

\* invoke: a request with a mapping file has the daemon's environment to itself
\* among its like.
Begin(r) ==
    /\ inv[r].at = "new"
    /\ \E s \in Shapes :
         /\ InvStep(r, [inv[r] EXCEPT !.at = "lookup", !.shape = s, !.env = mapEnv, !.had = LookupKeys(s.auth, "allow_stale") # <<>>])
         /\ \/ s.mapping = "none" /\ UNCHANGED <<mapEnv, mapLock>>
            \/ s.mapping # "none" /\ mapLock = {} /\ mapLock' = {r} /\ mapEnv' = s.mapping
    /\ UNCHANGED <<endpoint, file, outages>>

\* The request's end: SchemaMappingEnvGuard puts back what it found.
Ends(r, rec) ==
    /\ InvStep(r, [rec EXCEPT !.at = "done"])
    /\ mapEnv' = IF inv[r].shape.mapping = "none" THEN mapEnv ELSE inv[r].env
    /\ mapLock' = mapLock \ {r}

Reads(s) == ~s.noCache /\ ~s.refresh

\* adapter_from_protocol with what is injected into it: a new adapter, which
\* has discovered nothing yet.
WithAdapter(q, proto) == [q EXCEPT !.at = "fetch", !.proto = proto, !.found = 0, !.used = NoUse]

\* try_invoke_existing_mcp_execute_without_detection: a live session is used
\* as it is, and its errors are final.
ExistingSession(r) ==
    /\ inv[r].at = "lookup" /\ inv[r].shape.action = "execute" /\ "mcp" \in endpoint.protos
    /\ \E ok \in {endpoint.up, FALSE} :
         Ends(r, [inv[r] EXCEPT !.proto = "mcp", !.ran = IF endpoint.up THEN 1 ELSE 0, !.result = IF ok THEN "ok" ELSE "error"])
    /\ UNCHANGED <<endpoint, file, outages>>

\* resolve_adapter_with_schema_cache, its first part.
Lookup(r) ==
    /\ inv[r].at = "lookup"
    /\ LET hits == LookupKeys(inv[r].shape.auth, "normal")
       IN InvStep(r, IF Reads(inv[r].shape) /\ hits # <<>>
                  THEN WithAdapter(inv[r], file[hits[1]].proto)
                  ELSE [inv[r] EXCEPT !.at = "detect"])
    /\ UNCHANGED <<endpoint, file, mapEnv, mapLock, outages>>

\* Its second part: a probe of a server that is up may fail all the same.
Detect(r) ==
    /\ inv[r].at = "detect"
    /\ \E lost \in SUBSET endpoint.protos :
         LET proto == DetectAdapter([p \in Protocols |-> endpoint.up /\ p \in endpoint.protos \ lost])
         IN /\ lost # {} => outages < MaxFaults
            /\ outages' = IF lost # {} THEN outages + 1 ELSE outages
            /\ InvStep(r, IF proto = "none" THEN [inv[r] EXCEPT !.at = "undetected"]
                       ELSE [WithAdapter(inv[r], proto) EXCEPT !.found = IF proto = "jsonrpc" THEN endpoint.ver ELSE 0])
    /\ UNCHANGED <<endpoint, file, mapEnv, mapLock>>

\* Its third part: nobody answered, an expired file will do; it is dated anew
\* because the adapter will read it under NormalTtl.
Undetected(r) ==
    /\ inv[r].at = "undetected"
    /\ LET hits == LookupKeys(inv[r].shape.auth, "allow_stale") IN
       \/ /\ Reads(inv[r].shape) /\ hits # <<>>
          /\ file' = Redated(hits[1], r)
          /\ StepAlone(r, WithAdapter(inv[r], file[hits[1]].proto))
          /\ UNCHANGED <<mapEnv, mapLock>>
       \/ /\ ~Reads(inv[r].shape) \/ hits = <<>>
          /\ Ends(r, [inv[r] EXCEPT !.result = "error"])
          /\ UNCHANGED file
    /\ UNCHANGED <<endpoint, outages>>

\* Whether the action needs the schema: prepare_execute_args does not ask for
\* it without arguments, and then grpc and mcp run without it.
NeedsSchema(q) == q.shape.action = "help" \/ q.shape.args \/ q.proto \notin {"grpc", "mcp"}

\* The next thing after the schema.
AfterSchema(q) == IF q.shape.action = "help" THEN "answer" ELSE "call"

\* force_refresh_schema, a cache that is not enabled.
MayRead(s) == ~s.noCache /\ ~s.refresh

\* fetch_schema of the adapters.  No schema is needed.
FetchNothing(r) ==
    /\ inv[r].at = "fetch" /\ ~NeedsSchema(inv[r])
    /\ InvStep(r, [inv[r] EXCEPT !.at = "call"])
    /\ UNCHANGED <<endpoint, file, mapEnv, mapLock, outages>>

\* What this very adapter has seen while it was probing (jsonrpc); it is not stored.
FetchFound(r) ==
    /\ inv[r].at = "fetch" /\ NeedsSchema(inv[r]) /\ inv[r].found > 0
    /\ InvStep(r, [inv[r] EXCEPT !.at = AfterSchema(inv[r]),
                              !.used = [ver |-> inv[r].found, live |-> TRUE, by |-> inv[r].shape.auth]])
    /\ UNCHANGED <<endpoint, file, mapEnv, mapLock, outages>>

CacheHits(q) == MayRead(q.shape) /\ Get(KeyFor(q.proto, q.shape.auth), "normal")
FetchCached(r) ==
    LET k == KeyFor(inv[r].proto, inv[r].shape.auth) IN
    /\ inv[r].at = "fetch" /\ NeedsSchema(inv[r]) /\ inv[r].found = 0 /\ CacheHits(inv[r])
    /\ InvStep(r, [inv[r] EXCEPT !.at = AfterSchema(inv[r]), !.used = [ver |-> file[k].ver, live |-> FALSE, by |-> file[k].by]])
    /\ UNCHANGED <<endpoint, file, mapEnv, mapLock, outages>>

\* The server is asked; prepare_execute_args of an mcp call goes on without an answer.
FetchLive(r) ==
    LET q == inv[r] IN
    /\ q.at = "fetch" /\ NeedsSchema(q) /\ q.found = 0 /\ ~CacheHits(q)
    /\ IF endpoint.up /\ q.proto \in endpoint.protos
       THEN InvStep(r, [q EXCEPT !.at = IF q.shape.noCache THEN AfterSchema(q) ELSE "put", !.key = KeyFor(q.proto, q.shape.auth),
                              !.used = [ver |-> endpoint.ver, live |-> TRUE, by |-> q.shape.auth]])
       ELSE InvStep(r, [q EXCEPT !.at = IF q.proto = "mcp" /\ q.shape.action = "execute" THEN "call" ELSE "failed"])
    /\ UNCHANGED <<endpoint, file, mapEnv, mapLock, outages>>

\* save_entry: the file is made empty, then written.
PutOpens(r) ==
    /\ inv[r].at = "put"
    /\ file' = [file EXCEPT ![inv[r].key] = [at |-> "torn"]]
    /\ StepAlone(r, [inv[r] EXCEPT !.at = "write", !.had = FALSE])
    /\ UNCHANGED <<endpoint, mapEnv, mapLock, outages>>
PutWrites(r) ==
    /\ inv[r].at = "write"
    /\ file' = [file EXCEPT ![inv[r].key] = Written(inv[r].proto, inv[r].used, r)]
    /\ StepAlone(r, [inv[r] EXCEPT !.at = AfterSchema(inv[r])])
    /\ UNCHANGED <<endpoint, mapEnv, mapLock, outages>>

\* list_operations and describe_operation read what they got.
Answer(r) ==
    /\ inv[r].at = "answer"
    /\ Ends(r, [inv[r] EXCEPT !.result = "ok"])
    /\ UNCHANGED <<endpoint, file, outages>>

\* invoke_mcp_execute(..).await?: the error of an mcp call ends the request.
CallFails(q) == IF q.proto = "mcp" THEN "error" ELSE "failed"

\* execute: the call gets through, gets through and its answer is lost, or does not.
CallOperation(r) ==
    LET q == inv[r]
        arrives == endpoint.up /\ q.proto \in endpoint.protos
        rec == [q EXCEPT !.ran = IF arrives THEN @ + 1 ELSE @]
    IN /\ q.at = "call"
       /\ \/ arrives /\ Ends(r, [rec EXCEPT !.result = "ok"]) /\ UNCHANGED outages
          \/ /\ arrives => outages < MaxFaults
             /\ outages' = IF arrives THEN outages + 1 ELSE outages
             /\ IF CallFails(q) = "error" THEN Ends(r, [rec EXCEPT !.result = "error"])
                ELSE InvStep(r, [rec EXCEPT !.at = "failed"]) /\ UNCHANGED <<mapEnv, mapLock>>
       /\ UNCHANGED <<endpoint, file>>

\* The stale-cache fallback of invoke_inner: an expired file is dated anew and
\* the whole action runs once more.
Failed(r) ==
    /\ inv[r].at = "failed"
    /\ LET hits == LookupKeys(inv[r].shape.auth, "allow_stale")
           useful == Reads(inv[r].shape) /\ ~inv[r].again /\ hits # <<>> /\ file[hits[1]].at = "stale"
       IN \/ /\ useful
             /\ file' = Redated(hits[1], r)
             /\ StepAlone(r, [WithAdapter(inv[r], file[hits[1]].proto) EXCEPT !.again = TRUE])
             /\ UNCHANGED <<mapEnv, mapLock>>
          \/ /\ ~useful
             /\ Ends(r, [inv[r] EXCEPT !.result = "error"])
             /\ UNCHANGED file
    /\ UNCHANGED <<endpoint, outages>>

-----------------------------------------------------------------------------
(* The world.                                                               *)

\* A file expires; not while the request that wrote it is still at work, the
\* time to live being far longer than a request.
Expires(k) ==
    /\ file[k].at = "fresh" /\ Finished(file[k].putBy)
    /\ file' = [file EXCEPT ![k].at = "stale"]
    /\ UNCHANGED <<endpoint, inv, mapEnv, mapLock, outages>>

\* cache clear, invalidate, or stats, which removes expired files.
Removed(k) ==
    /\ file[k].at \in {"fresh", "stale"} /\ outages < MaxFaults
    /\ file' = [file EXCEPT ![k] = NoFile]
    /\ inv' = [r \in Invokes |-> [inv[r] EXCEPT !.had = FALSE]]
    /\ outages' = outages + 1
    /\ UNCHANGED <<endpoint, mapEnv, mapLock>>

\* The daemon ends in the middle of a write; its requests end with it.
CrashWhileWriting ==
    /\ outages < MaxFaults /\ \E r \in Invokes : inv[r].at = "write"
    /\ inv' = [r \in Invokes |-> IF inv[r].at \in {"new", "done"} THEN inv[r] ELSE [inv[r] EXCEPT !.at = "done", !.result = "crash"]]
    /\ mapEnv' = "none" /\ mapLock' = {} /\ outages' = outages + 1
    /\ UNCHANGED <<endpoint, file>>

EndpointTurns == /\ outages < MaxFaults
                 /\ endpoint' = [endpoint EXCEPT !.up = ~@]
                 /\ outages' = outages + 1
                 /\ UNCHANGED <<file, inv, mapEnv, mapLock>>
Upgraded == /\ endpoint.ver < MaxVersions
            /\ endpoint' = [endpoint EXCEPT !.ver = @ + 1]
            /\ UNCHANGED <<file, inv, mapEnv, mapLock, outages>>

InvInit == /\ endpoint \in [protos : EndpointKinds, ver : {1}, up : {TRUE}]
           /\ \E left \in BOOLEAN :
                file = [k \in Keys |-> IF left /\ (k = "url") # ("mcp" \in endpoint.protos)
                                      THEN [at |-> "stale", proto |-> CHOOSE p \in endpoint.protos : k = "url" \/ p = "mcp",
                                            ver |-> 0, by |-> k, putBy |-> 0]
                                      ELSE NoFile]
           /\ inv = [r \in Invokes |-> NotBegun]
           /\ mapEnv = "none" /\ mapLock = {} /\ outages = 0
InvNext == \/ \E r \in Invokes : \/ Begin(r) \/ ExistingSession(r) \/ Lookup(r) \/ Detect(r) \/ Undetected(r) \/ FetchNothing(r)
                                 \/ FetchFound(r) \/ FetchCached(r) \/ FetchLive(r) \/ PutOpens(r) \/ PutWrites(r) \/ Answer(r) \/ CallOperation(r) \/ Failed(r)
           \/ \E k \in Keys : Expires(k) \/ Removed(k)
           \/ CrashWhileWriting \/ EndpointTurns \/ Upgraded
InvSpec == InvInit /\ [][InvNext]_invVars

-----------------------------------------------------------------------------
\* A catalog that an mcp server showed to one credential is never what another
\* credential's request is answered with, by whatever way through the cache.
OwnCatalog == \A r \in Invokes : inv[r].proto = "mcp" /\ inv[r].used # NoUse => inv[r].used.by = inv[r].shape.auth

\* A request that refuses the cache is answered with what the server said
\* during the request, or not at all.
RefreshIsFresh ==
    \A r \in Invokes : inv[r].result = "ok" /\ inv[r].used # NoUse /\ ~Reads(inv[r].shape) => inv[r].used.live

\* A tool of a server that speaks mcp alone is called at most once for a request.
McpExecutedOnce == endpoint.protos = {"mcp"} => \A r \in Invokes : inv[r].ran <= 1

\* A request with a mapping file works under that file from its first to its
\* last step, and the daemon's own setting is back when none is at work.  (A
\* request without one does not take the lock and may see another's file.)
OwnMapping == /\ \A r \in Invokes : inv[r].at \notin {"new", "done"} /\ inv[r].shape.mapping # "none" => mapEnv = inv[r].shape.mapping
              /\ mapLock = {} => mapEnv = "none"

\* Help about a URL for which a file was there when the request began, expired
\* or not, is answered, be the server down at any moment of it; unless somebody removed,
\* rewrote or re-dated a file meanwhile: the fallback of invoke_inner looks for
\* a file that has expired, and one that another request's fallback has just
\* dated anew is none.
HelpSurvivesOutage ==
    \A r \in Invokes : inv[r].result = "error" /\ inv[r].shape.action = "help" /\ Reads(inv[r].shape) => ~inv[r].had

InvokesAreTrue == OwnCatalog /\ RefreshIsFresh /\ McpExecutedOnce /\ OwnMapping /\ HelpSurvivesOutage
=============================================================================
