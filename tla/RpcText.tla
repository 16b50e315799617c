------------------------------ MODULE RpcText ------------------------------
(***************************************************************************)
(* The JSON-RPC and the gRPC adapter: how a description is found, how      *)
(* arguments become parameters, what a service's descriptors say, and      *)
(* which call is made.                                                     *)
(***************************************************************************)
EXTENDS Integers, Sequences, SequencesExt, FiniteSets, FiniteSetsExt

CONSTANT MessageDepth     \* the depth build_operation_input_schema gives build_message_schema

-----------------------------------------------------------------------------
(* JSON-RPC.  A location is [is, base, suffix, good]: "http", "file" or    *)
(* "other", what it is below, whether it ends like a schema document, and  *)
(* whether an OpenRPC document can be read there.  A server is             *)
(* [discovers, docs, url]: whether it answers rpc.discover, the schema     *)
(* locations below it in order, and the servers[0] its document names.     *)

\* default_rpc_url and strip_suffix.
DefaultRpcUrl(input, schema) ==
    IF input.suffix THEN input.base ELSE IF schema.suffix THEN schema.base ELSE input.base

\* resolve_rpc_url_from_openrpc: an absolute server URL, or one relative to the schema.
ResolveRpcUrl(named, schema, input) ==
    CASE named = "none" -> DefaultRpcUrl(input, schema)
      [] named = "relative" -> IF schema.is = "http" THEN schema.base ELSE input.base
      [] OTHER -> named

\* discover_openrpc, with discover_via_rpc_discover, discover_via_schema_urls and
\* load_schema_document: the schema the caller names and no other; rpc.discover; then the
\* documents below the endpoint.
DiscoverOpenrpc(input, override, server) ==
    LET good == SelectSeq(server.docs, LAMBDA l : l.good) IN
    CASE override = <<>> /\ input.is # "http" -> [is |-> "none"]
      [] override # <<>> -> IF ~override[1].readable THEN [is |-> "error"]
                            ELSE IF ~override[1].good THEN [is |-> "none"]
                            ELSE [is |-> "found", by |-> override[1], url |-> ResolveRpcUrl(server.url, override[1], input)]
      [] override = <<>> /\ input.is = "http" /\ server.discovers -> [is |-> "found", by |-> input, url |-> input.base]
      [] OTHER -> IF good = <<>> THEN [is |-> "none"]
                  ELSE [is |-> "found", by |-> good[1], url |-> ResolveRpcUrl(server.url, good[1], input)]

\* resolve_rpc_url: calls go to the endpoint itself when nothing was discovered.
CallUrl(input, override, server) ==
    LET found == DiscoverOpenrpc(input, override, server) IN
    CASE found.is = "found" -> found.url
      [] found.is = "none" -> DefaultRpcUrl(input, input)
      [] OTHER -> "error"

\* Calls never go to a schema document, and a schema the caller names decides alone.
CallsAServer(input, override, server) ==
    LET found == DiscoverOpenrpc(input, override, server) IN
    /\ CallUrl(input, override, server) \in {"error", server.url, input.base} \cup {l.base : l \in ToSet(server.docs \o override)}
    /\ override # <<>> /\ found.is = "found" => found.by = override[1]
    /\ found.is = "found" => found.by = input \/ found.by.good
    /\ found.is = "found" /\ server.url \notin {"none", "relative"} /\ found.by # input => CallUrl(input, override, server) = server.url

\* ordered_parameter_specs and build_positional_params: the last argument given ends the
\* list, one that is not given before it is null.
BuildPositionalParams(specs, args) ==
    LET used == {k \in DOMAIN specs : specs[k].name \in args} IN
    IF \E k \in DOMAIN specs : specs[k].required /\ specs[k].name \notin args THEN [is |-> "missing"]
    ELSE IF used = {} THEN [is |-> "none"]
    ELSE [is |-> "list", of |-> [k \in 1 .. Max(used) |-> IF k \in used THEN specs[k].name ELSE "null"]]

\* build_params: by name when the method says so or an argument is not declared, otherwise
\* by position.
BuildParams(structure, specs, args) ==
    LET known == {specs[k].name : k \in DOMAIN specs}
        positional == BuildPositionalParams(specs, args)
    IN IF args = {} THEN [is |-> IF \E k \in DOMAIN specs : specs[k].required THEN "missing" ELSE "none"]
       ELSE IF structure = "by-name" \/ ~(args \subseteq known) THEN [is |-> "object", of |-> args]
       ELSE IF positional.is = "none" THEN [is |-> "object", of |-> args] ELSE positional

\* Every argument reaches the method under its own name or at its own position, a position
\* without an argument is null and never the last, and a list lacks nothing required.
ParamsCarryArguments(structure, specs, args) ==
    LET params == BuildParams(structure, specs, args) IN
    /\ params.is = "object" => params.of = args
    /\ params.is = "list" =>
           /\ ToSet(params.of) \ {"null"} = args
           /\ \A k \in DOMAIN params.of : params.of[k] # "null" => params.of[k] = specs[k].name
           /\ Last(params.of) # "null"
           /\ \A k \in DOMAIN specs : specs[k].required => specs[k].name \in args
    /\ params.is = "none" => args = {}
    /\ params.is = "missing" => \E k \in DOMAIN specs : specs[k].required /\ specs[k].name \notin args

\* execute_jsonrpc, once the answer is there.  Any object with a result is the answer,
\* whatever id it carries.
ExecuteJsonrpc(status, body) ==
    CASE status \notin 200 .. 299 -> "http error"
      [] status \in 200 .. 299 /\ body.is # "object" -> "invalid"
      [] status \in 200 .. 299 /\ body.is = "object" /\ "error" \in body.has -> "error"
      [] status \in 200 .. 299 /\ body.is = "object" /\ body.has \cap {"error", "result"} = {"result"} -> "result"
      [] OTHER -> "invalid"

\* An answer with an error is never taken for a result.
JsonrpcErrorsAreTold(status, body) ==
    ExecuteJsonrpc(status, body) = "result" => body.is = "object" /\ "error" \notin body.has

-----------------------------------------------------------------------------
(* gRPC.  A file of descriptors is a sequence of services [name, methods], *)
(* a method is [name, streams]; the server lists the services of all its   *)
(* files.                                                                  *)

\* parse_url and grpcurl_attempts: whether a call goes without TLS, with it, or which of
\* the two comes first.
GrpcurlAttempts(scheme, usual) ==
    CASE scheme = "http" -> <<TRUE>>
      [] scheme = "https" -> <<FALSE>>
      [] OTHER -> IF usual THEN <<TRUE, FALSE>> ELSE <<FALSE, TRUE>>

\* has_reflection and can_handle: messages are read until one decides.
RECURSIVE HasReflection(_)
HasReflection(messages) ==
    IF messages = <<>> THEN FALSE
    ELSE CASE Head(messages) = "services" -> TRUE
           [] Head(messages) \in {"unimplemented", "broken"} -> FALSE
           [] OTHER -> HasReflection(Tail(messages))

\* parse_service_info: the methods of every service of the file, by their bare name; the
\* service declared last keeps a name that two of them have.
ParseServiceInfo(file) ==
    LET has(m) == {k \in DOMAIN file : \E x \in file[k].methods : x.name = m} IN
    [m \in UNION {{x.name : x \in file[k].methods} : k \in DOMAIN file} |->
        LET k == Max(has(m)) IN [service |-> file[k].name, name |-> m, streams |-> (CHOOSE x \in file[k].methods : x.name = m).streams]]

\* get_service_info and descriptor_contains_service: the file that holds the service, or
\* the first the server sent; services of the reflection API are passed over.
GetServiceInfo(files) ==
    LET named(f) == {files[f][k].name : k \in DOMAIN files[f]}
        names == UNION {named(f) : f \in DOMAIN files} \ {"reflection"}
    IN [n \in names |-> ParseServiceInfo(files[Min({f \in DOMAIN files : n \in named(f)})])]

\* list_operations, methods_from_schema, fetch_schema.
ListGrpcOperations(files) == LET info == GetServiceInfo(files) IN
    UNION {{[service |-> n, method |-> m] : m \in DOMAIN info[n]} : n \in DOMAIN info}

\* find_method_context and call_method.
CallMethod(files, id) ==
    LET info == GetServiceInfo(files) IN
    CASE id.service = "" \/ id.method = "" -> [is |-> "INVALID_ARGUMENT"]
      [] id.service # "" /\ id.method # "" /\ (id.service \notin DOMAIN info \/ id.method \notin DOMAIN info[id.service]) -> [is |-> "OPERATION_NOT_FOUND"]
      [] OTHER -> LET m == info[id.service][id.method] IN
                  IF m.streams THEN [is |-> "unsupported"] ELSE [is |-> "call", service |-> m.service, method |-> m.name]

\* An operation that is listed is found; what is called is a unary method some service of
\* the server has; and in a file of one service it is the one that was named.
GrpcCallExists(files, id) ==
    LET call == CallMethod(files, id)
        services == UNION {ToSet(files[f]) : f \in DOMAIN files}
    IN /\ id \in ListGrpcOperations(files) => call.is \in {"call", "unsupported"}
       /\ call.is = "call" => \E s \in services : s.name = call.service /\ \E m \in s.methods : m.name = call.method /\ ~m.streams
       /\ call.is = "call" /\ (\A f \in DOMAIN files : Len(files[f]) <= 1) => call.service = id.service

\* invoke_unary_with_grpcurl: every attempt that fails is followed by the next; the error
\* of the last one is reported.  `reached` says which attempts the server takes.
InvokeUnary(attempts, reached, succeeds) ==
    LET works == {k \in DOMAIN attempts : attempts[k] = reached /\ succeeds} IN
    IF works # {} THEN [is |-> "ok", sent |-> 1]
    ELSE [is |-> IF Last(attempts) = reached THEN "server error" ELSE "transport error",
          sent |-> Cardinality({k \in DOMAIN attempts : attempts[k] = reached})]

\* No attempt reaches the server twice: the second only changes the transport.
UnarySentOnce(scheme, usual, reached, succeeds) ==
    LET attempts == GrpcurlAttempts(scheme, usual) IN
    /\ InvokeUnary(attempts, reached, succeeds).sent <= 1
    /\ InvokeUnary(attempts, reached, succeeds).is = "ok" <=> succeeds /\ reached \in ToSet(attempts)

\* find_message_descriptor, build_descriptor_indexes: a name that is not known as a whole is
\* looked up by its last part, if that is unambiguous.
FindMessageDescriptor(name, index) ==
    LET short == {n \in DOMAIN index : n.short = name.short}
    IN IF name \in DOMAIN index THEN {name} ELSE IF Cardinality(short) = 1 THEN short ELSE {}

RECURSIVE MessageSchema(_, _, _, _)
\* build_message_schema and field_schema: a message, or a reference to it when it is being
\* shown, is not known or lies at the depth limit.
MessageSchema(name, index, visiting, depth) ==
    LET found == FindMessageDescriptor(name, index) IN
    IF depth <= 0 \/ name \in visiting \/ found = {} THEN [is |-> "ref", name |-> name, of |-> <<>>]
    ELSE LET fields == index[CHOOSE n \in found : TRUE] IN
         [is |-> "object", name |-> name,
          of |-> [k \in DOMAIN fields |-> MessageSchema(fields[k], index, visiting \cup {name}, depth - 2)]]

RECURSIVE ShownMessages(_, _, _, _)
\* A reference is left only where the message is unknown, encloses itself, or lies deep.
ShownMessages(schema, index, inside, level) ==
    /\ schema.is = "object" => \A k \in DOMAIN schema.of : ShownMessages(schema.of[k], index, inside \cup {schema.name}, level + 2)
    /\ schema.is = "ref" => schema.name \in inside \/ level >= MessageDepth \/ FindMessageDescriptor(schema.name, index) = {}
MessagesAreShown(name, index) == ShownMessages(MessageSchema(name, index, {}, MessageDepth), index, {}, 0)
=============================================================================
