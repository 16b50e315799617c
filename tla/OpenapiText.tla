---------------------------- MODULE OpenapiText ----------------------------
(***************************************************************************)
(* The OpenAPI adapter: where a schema is found, what of it a client is    *)
(* shown, and how the arguments of a call become an HTTP request.  The     *)
(* adapter keeps no state of its own between calls but the schema URL it   *)
(* discovered and the profile it refreshed; the schema cache is in         *)
(* SchemaInvoke.                                                           *)
(*                                                                         *)
(* An argument is [is, file, of]: "text", "list" or "object", whether the  *)
(* text names an existing file, and the fields of an object.  A parameter  *)
(* is [name, in, required, file].  A request body maps the media types it  *)
(* declares to a schema [types, required, unknown, composed]: the type of  *)
(* every property, and the properties that only an allOf branch declares.  *)
(***************************************************************************)
EXTENDS Integers, Sequences, SequencesExt, FiniteSets

CONSTANT MaxExpansion    \* MAX_SCHEMA_EXPANSION_DEPTH

NoFields == [n \in {} |-> "none"]
Scalar(value) == value.is = "text"
Without(args, name) == [n \in DOMAIN args \ {name} |-> args[n]]
Extend(f, g) == [n \in DOMAIN f \cup DOMAIN g |-> IF n \in DOMAIN g THEN g[n] ELSE f[n]]

-----------------------------------------------------------------------------
(* Finding the schema.  `serves` says what a URL or file answers with:     *)
(* "openapi", "other" or "fails".                                          *)

\* parse_schema_file_path: a location is a file unless it is an http(s) URL.
SchemaFilePath(location) ==
    CASE location.form \in {"absolute", "relative", "bare", "file url"} -> "file"
      [] location.form = "http" -> "remote"
      [] OTHER -> "unsupported"

\* load_schema_document and check_schema_url: only a file that cannot be read is an
\* error, a URL that cannot be fetched is merely not an OpenAPI document.
CheckSchemaUrl(location, serves) ==
    CASE SchemaFilePath(location) = "unsupported" -> "error"
      [] serves[location] = "fails" /\ SchemaFilePath(location) = "file" -> "error"
      [] serves[location] = "openapi" /\ SchemaFilePath(location) # "unsupported" -> "yes"
      [] OTHER -> "no"

\* schema_candidates: an endpoint that already names a schema is the one candidate.
SchemaCandidates(endpoint, isSchema, places) == IF isSchema THEN <<endpoint>> ELSE places

\* discover_schema_url: what was found before, the URL the caller names, the URL a
\* mapping names, then the well-known places in order.
DiscoverSchemaUrl(found, override, mapped, candidates, serves) ==
    LET none == [is |-> "none"]
        at(l) == [is |-> "found", at |-> l]
        good == SelectSeq(candidates, LAMBDA l : serves[l] = "openapi")
    IN IF found # none THEN found
       ELSE IF override # none
            THEN IF CheckSchemaUrl(override.at, serves) = "yes" THEN override ELSE [is |-> "error"]
       ELSE IF mapped # none /\ CheckSchemaUrl(mapped.at, serves) = "yes" THEN mapped
       ELSE IF good # <<>> THEN at(good[1]) ELSE none

\* The schema the caller names is the only one the adapter works with, whatever else
\* the server or the mappings offer, and nothing but an OpenAPI document is found.
NamedSchemaOnly(override, mapped, candidates, serves) ==
    LET none == [is |-> "none"]
        found == DiscoverSchemaUrl(none, override, mapped, candidates, serves)
    IN /\ found.is = "found" => serves[found.at] = "openapi"
       /\ override # none => found = override \/ found.is = "error"
       /\ (\E l \in ToSet(candidates) : serves[l] = "openapi") /\ override = none => found.is = "found"
       /\ found.is = "found" => DiscoverSchemaUrl(found, override, mapped, candidates, serves) = found

\* parse_operation_id, against operation_id: method:/path.
HttpMethods == {"get", "post", "put", "patch", "delete", "head", "options", "trace"}
ParseOperationId(id) ==
    IF id.method \in HttpMethods /\ id.path # <<>> /\ id.path[1] = "/" THEN id ELSE [method |-> "none", path |-> <<>>]

\* list_operations shows every method of a path in lower case; describe_operation and
\* execute look for the key as it is written.
Lower(key) == IF key = "GET" THEN "get" ELSE key
ListOperations(doc) ==
    {[method |-> Lower(pair[1]), path |-> pair[2]] : pair \in {pair \in (HttpMethods \cup {"GET", "parameters"}) \X DOMAIN doc :
                                                                 pair[1] \in doc[pair[2]] /\ Lower(pair[1]) \in HttpMethods}}
LookupOperation(doc, id) ==
    LET parsed == ParseOperationId(id) IN
    IF parsed.method = "none" THEN "INVALID_ARGUMENT"
    ELSE IF parsed.path \in DOMAIN doc /\ parsed.method \in doc[parsed.path] THEN "found" ELSE "OPERATION_NOT_FOUND"

\* An operation that is listed can be looked up, in a document that writes its methods
\* the way the specification does.
ListedIsFound(doc) == \A id \in ListOperations(doc) :
    "GET" \notin doc[id.path] /\ id.path # <<>> /\ id.path[1] = "/" => LookupOperation(doc, id) = "found"

-----------------------------------------------------------------------------
(* References.  A schema node is [ref, kids]: the name it refers to or     *)
(* "none", and its nested nodes by key; `root` maps names to nodes.        *)

\* resolve_local_ref and dereference_value: at most MaxExpansion hops.
Dereference(node, root) ==
    LET hop[k \in 0 .. MaxExpansion] ==
            IF k = 0 THEN node
            ELSE LET before == hop[k - 1] IN IF before.ref \in DOMAIN root THEN root[before.ref] ELSE before
    IN hop[MaxExpansion]

RECURSIVE ExpandSchema(_, _, _, _)
\* expand_schema: references replaced by what they name, with the keys beside them
\* laid over it; one that is being expanded already stays as it is.
ExpandSchema(node, root, visited, depth) ==
    IF depth = 0 THEN node
    ELSE IF node.ref # "none" /\ node.ref \in visited THEN [ref |-> node.ref, kids |-> NoFields]
    ELSE IF node.ref \in DOMAIN root
         THEN LET target == ExpandSchema(root[node.ref], root, visited \cup {node.ref}, depth - 1)
                  own == [k \in DOMAIN node.kids |-> ExpandSchema(node.kids[k], root, visited, depth - 1)]
              IN [target EXCEPT !.kids = Extend(target.kids, own)]
    ELSE [node EXCEPT !.kids = [k \in DOMAIN node.kids |-> ExpandSchema(node.kids[k], root, visited, depth - 1)]]

RECURSIVE RefsAt(_, _)
\* The references left in an expanded schema, each with the depth it is left at.
RefsAt(node, depth) == {[ref |-> node.ref, depth |-> depth]} \cup UNION {RefsAt(node.kids[k], depth + 1) : k \in DOMAIN node.kids}

RECURSIVE Reaches(_, _, _)
\* The names that n leads to in at most `hops` steps.
Reaches(n, root, hops) ==
    IF hops = 0 \/ n \notin DOMAIN root THEN {}
    ELSE LET next == ({root[n].ref} \cup {root[n].kids[k].ref : k \in DOMAIN root[n].kids}) \ {"none"}
         IN next \cup UNION {Reaches(m, root, hops - 1) : m \in next}

\* A reference that is followed ends at what it names, unless the names lead in a circle or
\* their chain is longer than the limit.
DereferenceEnds(node, root) ==
    LET d == Dereference(node, root) IN
    d.ref \in DOMAIN root => d.ref \in Reaches(d.ref, root, MaxExpansion) \/ Cardinality(DOMAIN root) > MaxExpansion

\* What is shown of a schema leaves out nothing a reference names: one that is left
\* names nothing, takes part in a cycle, or lies at the depth limit.
ExpandsWhatResolves(node, root) ==
    \A left \in RefsAt(ExpandSchema(node, root, {}, MaxExpansion), 0) :
        \/ left.ref \notin DOMAIN root
        \/ left.ref \in Reaches(left.ref, root, MaxExpansion)
        \/ left.depth + Cardinality(DOMAIN root) >= MaxExpansion

\* multipart_field_kind, and the file fields a description names.
MultipartFieldKind(schema) ==
    CASE schema.type = "string" /\ schema.format = "binary" -> "file"
      [] schema.type \in {"object", "array"} -> "unsupported"
      [] OTHER -> "text"
MultipartFileFields(spec) == {n \in DOMAIN spec.fields : spec.fields[n] = "file"}

\* schema_has_property and schema_has_property_recursive, for the property "body".
HasBodyProperty(schema) == "body" \in DOMAIN schema.types \cup schema.composed

\* multipart_spec_from_oas3.
MultipartSpecFromOas3(schema) ==
    [fields |-> [n \in DOMAIN schema.types |-> MultipartFieldKind(schema.types[n])], required |-> schema.required, unknown |-> schema.unknown]

-----------------------------------------------------------------------------
(* Parameters.  An operation is [version, params, shared, content,         *)
(* consumes]: `params` are the operation's, `shared` the path's, and       *)
(* `content` holds the request body if there is one.                       *)

\* collect_effective_operation_parameters.
Effective(op) == op.params \o op.shared

\* collect_parameters, parse_parameter: what a client is shown; the first of two
\* parameters with one name and place counts.
CollectParameters(op) ==
    LET all == Effective(op) IN
    {all[k] : k \in {k \in DOMAIN all : \A j \in 1 .. k - 1 : all[j].in # all[k].in \/ all[j].name # all[k].name}}

\* The body of prepare_request's parameter loop.  An argument belongs to the first
\* parameter of its name; a path parameter is always required, and its name is in the
\* path (the code drops the argument of one that is not); a place the loop does not know
\* (cookie) swallows its argument.
PlaceParameter(acc, p) ==
    LET given == p.name \in DOMAIN acc.rest
        needed == p.in = "path" \/ p.required
        value == acc.rest[p.name]
        in == [n \in {p.name} |-> value]
    IN IF acc.error # "none" \/ <<p.in, p.name>> \in acc.seen THEN acc
       ELSE LET now == [acc EXCEPT !.seen = @ \cup {<<p.in, p.name>>}, !.rest = Without(@, p.name)] IN
            CASE p.in = "body" /\ given -> [now EXCEPT !.body = <<value>>]
              [] p.in = "body" /\ ~given -> [now EXCEPT !.missing = @ \/ needed]
              [] p.in \in {"path", "query", "header", "formData"} /\ ~given -> [now EXCEPT !.error = IF needed THEN "missing" ELSE @]
              [] p.in \in {"path", "query", "header", "formData"} /\ given /\ ~Scalar(value) -> [now EXCEPT !.error = "not text"]
              [] p.in \in {"path", "query", "header", "formData"} /\ given /\ Scalar(value) -> [now EXCEPT !.placed[p.in] = Extend(@, in)]
              [] OTHER -> now

NowhereYet == [l \in {"path", "query", "header", "formData"} |-> NoFields]
PlaceParameters(op, args) ==
    LET all == Effective(op)
        done[k \in 0 .. Len(all)] ==
            IF k = 0 THEN [rest |-> args, placed |-> NowhereYet, body |-> <<>>, missing |-> FALSE, seen |-> {}, error |-> "none"]
            ELSE PlaceParameter(done[k - 1], all[k])
    IN done[Len(all)]

-----------------------------------------------------------------------------
(* Bodies.                                                                 *)

\* multipart_spec_from_swagger2.
MultipartSpecFromSwagger2(op) ==
    LET forms == {p \in ToSet(Effective(op)) : p.in = "formData"} IN
    [fields |-> [n \in {p.name : p \in forms} |-> IF \E p \in forms : p.name = n /\ p.file THEN "file" ELSE "text"],
     required |-> {p.name : p \in {p \in forms : p.required}}, unknown |-> FALSE]

\* request_body_config_from_oas3 and multipart_spec_from_oas3: JSON first, then a form,
\* then multipart; a lone type that is none of them is refused.
RequestBodyConfigFromOas3(content) ==
    LET types == DOMAIN content IN
    CASE "json" \in types /\ "multipart" \in types -> "json or multipart"
      [] "json" \in types /\ "multipart" \notin types -> "json"
      [] "json" \notin types /\ "form" \in types -> "form"
      [] types \cap {"json", "form"} = {} /\ "multipart" \in types -> "multipart"
      [] types = {"other"} -> "unsupported"
      [] OTHER -> "none"

\* request_body_config_from_swagger2.
RequestBodyConfigFromSwagger2(op) ==
    LET all == ToSet(Effective(op))
        body == \E p \in all : p.in = "body"
        form == \E p \in all : p.in = "formData"
    IN CASE op.version # "2.0" -> "none"
         [] op.version = "2.0" /\ body /\ form -> "unsupported"
         [] op.version = "2.0" /\ ~body /\ ~form -> "none"
         [] op.version = "2.0" /\ body /\ ~form ->
                IF op.consumes = {} \/ "json" \in op.consumes THEN "json"
                ELSE IF "form" \in op.consumes THEN "form" ELSE "unsupported"
         [] OTHER -> IF "multipart" \in op.consumes \/ (\E p \in all : p.in = "formData" /\ p.file) THEN "multipart" ELSE "form"

\* request_body_config.
RequestBodyConfig(op) == IF op.content # <<>> THEN RequestBodyConfigFromOas3(op.content[1]) ELSE RequestBodyConfigFromSwagger2(op)

\* The multipart specification of an operation, whichever of the two declares it.
MultipartSpec(op) == IF op.content # <<>> THEN MultipartSpecFromOas3(op.content[1]["multipart"]) ELSE MultipartSpecFromSwagger2(op)

\* Fault for BodyInSchema: a property of any media type keeps `body` a field.
BodyInSchemaAnyMedia(op, media, rest) ==
    /\ "body" \in DOMAIN rest
    /\ op.content # <<>> /\ \E m \in DOMAIN op.content[1] : HasBodyProperty(op.content[1][m])

\* request_body_schema_has_body_property: `body` is a field of this media type's schema,
\* so an argument of that name is not the whole body.
BodyInSchema(op, media, rest) ==
    /\ "body" \in DOMAIN rest
    /\ op.content # <<>> /\ media \in DOMAIN op.content[1] /\ HasBodyProperty(op.content[1][media])

\* json_body_from_remaining_with_explicit, and the like for form and multipart: the body is
\* the argument given for it, alone, or else the object of all arguments that are left.
WholeBody(acc, isField) ==
    LET explicit == IF acc.body # <<>> THEN acc.body
                    ELSE IF ~isField /\ "body" \in DOMAIN acc.rest THEN <<acc.rest["body"]>> ELSE <<>>
        others == IF acc.body # <<>> THEN DOMAIN acc.rest ELSE DOMAIN acc.rest \ {"body"}
    IN IF explicit = <<>> THEN [is |-> "object", file |-> FALSE, of |-> acc.rest]
       ELSE IF others # {} THEN [is |-> "mixed"] ELSE explicit[1]

\* form_pairs_from_value and query_pairs_from_remaining: fields, each of them text.
Pairs(value) == IF value.is = "object" /\ \A n \in DOMAIN value.of : Scalar(value.of[n]) THEN "ok" ELSE "not text"

\* multipart_body_from_value.
MultipartBody(value, spec) ==
    LET kind(n) == IF n \in DOMAIN spec.fields THEN spec.fields[n] ELSE "text" IN
    CASE value.is # "object" -> "not text"
      [] value.is = "object" /\ (\E n \in DOMAIN value.of : kind(n) = "unsupported" \/ ~Scalar(value.of[n])) -> "not text"
      [] value.is = "object" /\ ~(spec.required \subseteq DOMAIN value.of) -> "missing"
      [] value.is = "object" /\ ~spec.unknown /\ ~(DOMAIN value.of \subseteq DOMAIN spec.fields) -> "unexpected"
      [] OTHER -> "ok"

\* multipart_should_be_preferred: a file field names a file that exists.
MultipartPreferred(acc, spec) ==
    LET given == IF acc.body # <<>> /\ acc.body[1].is = "object" THEN acc.body[1].of ELSE NoFields
    IN \E n \in MultipartFileFields(spec) : \/ n \in DOMAIN given /\ given[n].file
                                            \/ n \in DOMAIN acc.rest /\ acc.rest[n].file

Refused(why) == [ok |-> FALSE, why |-> why]
Request(acc, media, body) ==
    [ok |-> TRUE, path |-> acc.placed["path"], query |-> acc.placed["query"], header |-> acc.placed["header"],
     media |-> media, body |-> body]

\* The form branch, and the multipart branch when formData parameters were placed: the
\* fields that are left join them, a body given whole must stand alone.
JoinForm(acc, isField, alone) ==
    LET whole == WholeBody(acc, isField)
        given == acc.body # <<>> \/ (~isField /\ "body" \in DOMAIN acc.rest)
        form == acc.placed["formData"]
    IN IF whole.is = "mixed" \/ (given /\ alone /\ form # NoFields) THEN [is |-> "mixed"]
       ELSE IF Pairs(whole) # "ok" THEN [is |-> "list"]
       ELSE [is |-> "object", file |-> FALSE, of |-> Extend(form, whole.of)]

PrepareMultipart(acc, op) ==
    LET spec == MultipartSpec(op)
        isField == BodyInSchema(op, "multipart", acc.rest)
        form == acc.placed["formData"]
        value == IF form # NoFields THEN JoinForm(acc, isField, FALSE) ELSE WholeBody(acc, isField)
    IN IF acc.missing /\ acc.body = <<>> /\ acc.rest = NoFields /\ form = NoFields THEN Refused("missing")
       ELSE IF value.is = "mixed" THEN Refused("mixed")
       ELSE IF MultipartBody(value, spec) # "ok" THEN Refused(MultipartBody(value, spec))
       ELSE Request(acc, "multipart", value)

PrepareJson(acc, op) ==
    LET value == WholeBody(acc, BodyInSchema(op, "json", acc.rest)) IN
    IF acc.missing /\ acc.body = <<>> /\ acc.rest = NoFields THEN Refused("missing")
    ELSE IF value.is = "mixed" THEN Refused("mixed") ELSE Request(acc, "json", value)

PrepareForm(acc, op) ==
    LET value == JoinForm(acc, BodyInSchema(op, "form", acc.rest), TRUE) IN
    IF value.is = "mixed" THEN Refused("mixed")
    ELSE IF acc.missing /\ acc.body = <<>> /\ acc.rest = NoFields /\ acc.placed["formData"] = NoFields THEN Refused("missing")
    ELSE IF value.is = "list" THEN Refused("not text")
    ELSE Request(acc, "form", value)

\* prepare_request without a request body: a write that declares no parameter at all
\* sends its arguments as JSON, everything else puts them in the query.
PrepareBare(acc, method) ==
    LET whole == WholeBody(acc, FALSE)
        rest == [is |-> "object", file |-> FALSE, of |-> acc.rest]
    IN IF method \in {"post", "put", "patch"} /\ acc.seen = {}
       THEN IF whole.is = "mixed" THEN Refused("mixed") ELSE Request(acc, "json", whole)
       ELSE IF Pairs(rest) # "ok" THEN Refused("not text")
       ELSE [Request(acc, "none", rest) EXCEPT !.query = Extend(@, acc.rest), !.body = [is |-> "none"]]

\* prepare_request.
PrepareRequest(op, method, args) ==
    LET acc == PlaceParameters(op, args)
        config == RequestBodyConfig(op)
    IN CASE acc.error # "none" -> Refused(acc.error)
         [] acc.error = "none" /\ config = "unsupported" -> Refused("unsupported")
         [] acc.error = "none" /\ config = "none" -> PrepareBare(acc, method)
         [] acc.error = "none" /\ config = "form" -> PrepareForm(acc, op)
         [] acc.error = "none" /\ config = "json" -> PrepareJson(acc, op)
         [] acc.error = "none" /\ config = "multipart" -> PrepareMultipart(acc, op)
         [] OTHER -> IF MultipartPreferred(acc, MultipartSpec(op)) THEN PrepareMultipart(acc, op) ELSE PrepareJson(acc, op)

\* What a document may declare: places the specification of its version knows.
WellFormed(op) ==
    /\ \A p \in ToSet(Effective(op)) : p.in \in IF op.version = "2.0" THEN {"path", "query", "header", "body", "formData"}
                                                                      ELSE {"path", "query", "header"}
    /\ op.version = "2.0" => op.content = <<>>
    /\ Cardinality({p.in : p \in ToSet(Effective(op))} \cap {"body", "formData"}) <= 1

\* How often an argument is in the request, under its own name or as the whole body.
PlacesOf(request, op, args, name) ==
    LET whole(n) == /\ request.body = args[n]
                    /\ n = "body" \/ \E p \in ToSet(Effective(op)) : p.in = "body" /\ p.name = n
        fields == IF request.body.is = "object" /\ ~\E n \in DOMAIN args : whole(n) THEN request.body.of ELSE NoFields
        at(f) == name \in DOMAIN f /\ f[name] = args[name]
    IN Cardinality({l \in {"path", "query", "header"} : at(request[l])} \cup
                   (IF whole(name) THEN {"whole"} ELSE {}) \cup (IF at(fields) THEN {"field"} ELSE {}))

\* The one case in which arguments are merged: a multipart operation of Swagger 2.0 takes
\* a whole `body` beside its form fields and lays its fields over them.
MergesForm(op, args) == /\ RequestBodyConfig(op) = "multipart" /\ "body" \in DOMAIN args
                        /\ PlaceParameters(op, args).placed["formData"] # NoFields

\* A request that is sent carries every argument exactly once, and nothing else; every
\* required parameter that has a name of its own is among them, and what the description of
\* the operation calls required is never dropped silently.
ArgumentsArePlaced(op, method, args) ==
    LET request == PrepareRequest(op, method, args) IN
    WellFormed(op) /\ request.ok /\ ~MergesForm(op, args) =>
        /\ \A n \in DOMAIN args : PlacesOf(request, op, args, n) = 1
        /\ DOMAIN request.path \cup DOMAIN request.query \cup DOMAIN request.header \subseteq DOMAIN args
        /\ \A p \in CollectParameters(op) :
               (p.in = "path" \/ p.required) /\ p.in # "body" => p.name \in DOMAIN args
        /\ request.media = "multipart" => MultipartSpec(op).required \subseteq DOMAIN request.body.of

\* `body` is unwrapped for exactly the media type whose schema has no such property: a
\* property of the multipart schema does not take the shorthand from the JSON branch.
BodyIsScoped(op, method, args) ==
    LET request == PrepareRequest(op, method, args) IN
    WellFormed(op) /\ request.ok /\ op.content # <<>> /\ DOMAIN args = {"body"} /\ request.media \in DOMAIN op.content[1]
        /\ Effective(op) = <<>>
    => (request.body = args["body"]) = ~HasBodyProperty(op.content[1][request.media])

\* extract_request_body_input_schema: the media types a description shows; the body
\* of Swagger 2.0 is always shown as JSON.
BodyInputSchema(op) ==
    IF op.content # <<>> THEN DOMAIN op.content[1]
    ELSE IF \E p \in ToSet(Effective(op)) : p.in = "body" THEN {"json"} ELSE {}

\* No request has a body its description does not speak of, as a body or as form
\* parameters, except the implicit one of a write without any declaration.
BodyIsDescribed(op, method, args) ==
    LET request == PrepareRequest(op, method, args) IN
    WellFormed(op) /\ request.ok /\ RequestBodyConfig(op) # "none" =>
        IF op.version = "3" THEN request.media \in BodyInputSchema(op)
        ELSE BodyInputSchema(op) # {} \/ \E p \in CollectParameters(op) : p.in = "formData"

-----------------------------------------------------------------------------
(* Sending.                                                                *)

\* security_requirement, schema_has_any_operation_security, operation_auth_requirement:
\* a list of alternatives, each the set of schemes it asks for, or <<>>.
SecurityRequirement(security) == IF security = {} \/ {} \in security THEN "public" ELSE "required"
AuthRequirement(own, root, anywhere) ==
    IF own # <<>> THEN SecurityRequirement(own[1])
    ELSE IF root # <<>> THEN SecurityRequirement(root[1])
    ELSE IF anywhere THEN "public" ELSE "unknown"

\* refresh_effective_auth_profile and send_with_oauth_retry: the statuses of the requests
\* sent, in order; `answers` is what the server says to an old and to a new token.
SendWithOauthRetry(profile, answers) ==
    LET first == IF profile.expiring /\ profile.refreshable THEN answers.fresh ELSE answers.old
    IN IF profile.expiring /\ profile.refreshable /\ ~profile.refreshes THEN <<>>
       ELSE IF first # 401 \/ ~profile.refreshable THEN <<first>>
       ELSE IF profile.refreshes THEN <<first, answers.fresh>> ELSE <<first>>

\* execute, once the answer is there.  The error text is cut at byte 500, so a
\* character that lies across that byte ends the call in a panic.
Outcome(status, body) ==
    CASE status = 304 -> "null"
      [] status \notin 200 .. 299 /\ status # 304 -> IF body.long /\ body.across THEN "panic" ELSE "HTTP_ERROR"
      [] status \in 200 .. 299 /\ (status = 204 \/ body.empty) -> "null"
      [] status \in 200 .. 299 /\ status # 204 /\ ~body.empty -> IF body.json THEN "data" ELSE "decode error"

\* One call: how often it is sent, whether with a credential, and what it ends with.
SentCall(security, profile, answers, body) ==
    LET auth == AuthRequirement(security.own, security.root, security.anywhere) # "public"
        sent == SendWithOauthRetry(profile, answers)
    IN [auth |-> auth, sent |-> sent, outcome |-> IF sent = <<>> THEN "refresh failed" ELSE Outcome(Last(sent), body)]

\* A call is repeated only after a 401 and at most once, so an operation the server took
\* is not carried out twice; a token about to expire is never sent; an operation its own
\* list declares open gets no credential, whatever the document's default.
SentCarefully(security, profile, answers, body) ==
    LET call == SentCall(security, profile, answers, body) IN
    /\ Len(call.sent) <= 2 /\ (Len(call.sent) = 2 => call.sent[1] = 401)
    /\ profile.expiring /\ profile.refreshable /\ call.sent # <<>> => call.sent[1] = answers.fresh
    /\ security.own = <<{{}}>> \/ security.own = <<{}>> => ~call.auth
    /\ security.own # <<>> /\ {} \notin security.own[1] /\ security.own[1] # {} => call.auth
    /\ call.outcome = "data" => Last(call.sent) \in 200 .. 299
=============================================================================
