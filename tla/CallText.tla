------------------------------ MODULE CallText ------------------------------
(***************************************************************************)
(* From a command line to the arguments of a call: the options that may    *)
(* stand anywhere (main.rs), the tokens of an operation (main.rs), the     *)
(* assignments with path keys (cli.rs) and the coercion of what was given  *)
(* to the schema of the operation (arg_coercion.rs).                       *)
(*                                                                         *)
(* A JSON value is a record tagged with the kind of value it is.  A text   *)
(* is a sequence of lexical pieces, of which only the ones that some       *)
(* parser reads matter: "1", "1.0", "big" (an integer above i64::MAX),     *)
(* "inf", "true", "TRUE", "null", "[..]" and "{..}" (JSON documents); a    *)
(* field's name is a sequence of characters.                               *)
(***************************************************************************)
EXTENDS Integers, Sequences, FiniteSets, SequencesExt, TLC
CONSTANT MaxArrayIndex   \* ArgumentParser::MAX_ARRAY_INDEX

-----------------------------------------------------------------------------
(******************************* JSON values *******************************)

JText(t) == [is |-> "text", v |-> t]
JScalar(k, t) == [is |-> k, v |-> <<t>>]
JNull == JScalar("null", "null")
JArray(s) == [is |-> "array", items |-> s]
JObject(f) == [is |-> "object", fields |-> f]
Accept(v) == [ok |-> TRUE, v |-> v]
Reject == [ok |-> FALSE]

\* serde_json::from_str of a text.
ReadJson(t) ==
   CASE t \in {<<"1">>, <<"big">>} -> Accept([is |-> "integer", v |-> t])
     [] t = <<"1.0">> -> Accept(JScalar("float", "1.0"))
     [] t = <<"true">> -> Accept(JScalar("boolean", "true"))
     [] t = <<"null">> -> Accept(JNull)
     [] t = <<"[..]">> -> Accept(JArray(<<JText(<<"1">>)>>))
     [] t = <<"{..}">> -> Accept(JObject(<<"a">> :> JText(<<"1">>)))
     [] OTHER -> Reject
\* str::parse::<i64> and str::parse::<f64> with Number::from_f64
ParseI64(t) == IF t = <<"1">> THEN Accept(JScalar("integer", "1")) ELSE Reject
ParseF64(t) ==
   CASE t \in {<<"1">>, <<"1.0">>} -> Accept(JScalar("float", "1.0"))
     [] t = <<"big">> -> Accept(JScalar("float", "big.0"))
     [] OTHER -> Reject                          \* "inf" is a float but no JSON number
EqIgnoreCase(t, s) == t = <<s>> \/ (s = "true" /\ t = <<"TRUE">>)

-----------------------------------------------------------------------------
(***************************** global options ******************************)
(* "text" is an option without a value, "auth" one whose value is the next *)
(* token, "auth=" and "mcp=" carry their value; "-h", "--x" and words are  *)
(* not global.                                                             *)

DashDash == {"text", "auth", "auth=", "mcp=", "--x"}
TakesValue(args, i) == args[i] = "auth" /\ i < Len(args) /\ args[i + 1] \notin DashDash

\* normalize_global_args: the global options, with their values, go first.
RECURSIVE GlobalSplit(_, _, _)
GlobalSplit(args, globals, rest) ==
   IF args = <<>> THEN globals \o rest
   ELSE LET a == Head(args) IN
        IF TakesValue(args, 1) THEN GlobalSplit(SubSeq(args, 3, Len(args)), globals \o SubSeq(args, 1, 2), rest)
        ELSE IF a \in DashDash \ {"--x"} THEN GlobalSplit(Tail(args), Append(globals, a), rest)
        ELSE GlobalSplit(Tail(args), globals, Append(rest, a))
NormalizeGlobalArgs(args) == GlobalSplit(args, <<>>, <<>>)

\* non_global_tokens, by which help is looked up; its list of inline options
\* does not have the two of MCP.
RECURSIVE NonGlobalTokens(_)
NonGlobalTokens(args) ==
   IF args = <<>> THEN <<>>
   ELSE IF TakesValue(args, 1) THEN NonGlobalTokens(SubSeq(args, 3, Len(args)))
   ELSE IF Head(args) \in {"text", "auth", "auth=", "-h"} THEN NonGlobalTokens(Tail(args))
   ELSE <<Head(args)>> \o NonGlobalTokens(Tail(args))

\* Moving the global options to the front changes neither what the command is
\* nor what the options are given, and the help look-up sees that command; for
\* command lines without the two inline MCP options in which every option that
\* takes a value has one (main.rs 1458 and 1555 list the options twice).
GlobalsStayGlobal(args) ==
   (/\ \A i \in DOMAIN args : args[i] # "mcp="
    /\ \A i \in DOMAIN args : args[i] = "auth" => TakesValue(args, i)) =>
   /\ NonGlobalTokens(NormalizeGlobalArgs(args)) = NonGlobalTokens(args)
   /\ NormalizeGlobalArgs(NormalizeGlobalArgs(args)) = NormalizeGlobalArgs(args)

-----------------------------------------------------------------------------
(************************ the tokens of an operation ***********************)
(* "-h", "-a" and "--input-json" are flags; "k=v" and "-k=v" hold an "=",  *)
(* "{}" is a JSON object, "1" other JSON, "word" neither, "-x" an option   *)
(* nobody knows.                                                           *)

\* normalize_operation_inputs
NormalizeOperationInputs(args, explicit, positional) ==
   LET pairs == SelectSeq(positional, LAMBDA t : t = "k=v")
       bare == SelectSeq(positional, LAMBDA t : t # "k=v")
   IN IF \/ Len(bare) > 1 \/ \E i \in DOMAIN bare : bare[i] # "{}"
         \/ explicit # "none" /\ bare # <<>>
         \/ \E i \in DOMAIN args : args[i] \notin {"k=v", "-k=v"}
      THEN Reject
      ELSE Accept([args |-> args \o pairs,
                   json |-> IF explicit # "none" THEN explicit ELSE IF bare # <<>> THEN "{}" ELSE "none"])

\* parse_external_command, one token at a time; flag is the one whose value is
\* due, done holds the outcome of an early return.
ExternalToken(st, t) ==
   CASE st.done # "no" -> st
     [] st.done = "no" /\ st.flag = "-a" -> [st EXCEPT !.args = Append(@, t), !.flag = ""]
     [] st.done = "no" /\ st.flag = "--input-json" -> [st EXCEPT !.json = t, !.flag = ""]
     [] st.done = "no" /\ st.flag = "" ->
        CASE t = "-h" -> [st EXCEPT !.done = "describe"]
          [] t \in {"-a", "--input-json"} -> [st EXCEPT !.flag = t]
          [] t = "k=v" -> [st EXCEPT !.args = Append(@, t)]
          [] t \in {"{}", "1", "word"} -> [st EXCEPT !.positional = Append(@, t)]
          [] t \in {"-x", "-k=v"} -> [st EXCEPT !.done = "refused"]
ParseExternalCommand(tokens, help) ==
   LET st == FoldLeft(ExternalToken, [args |-> <<>>, json |-> "none", positional |-> <<>>, flag |-> "", done |-> "no"], tokens)
       in == NormalizeOperationInputs(st.args, st.json, st.positional)
   IN CASE help \/ st.done = "describe" -> [does |-> "describe"]
        [] ~help /\ (st.done = "refused" \/ (st.done = "no" /\ (st.flag # "" \/ ~in.ok))) -> [does |-> "refused"]
        [] OTHER -> [does |-> "execute", args |-> in.v.args, json |-> in.v.json]

\* Which tokens are values of the flag before them.
IsValue(tokens) ==
   LET v[i \in 0 .. Len(tokens)] == i > 1 /\ tokens[i - 1] \in {"-a", "--input-json"} /\ ~v[i - 1] IN v

\* An operation is carried out only with everything it was given: every
\* assignment in the order of the command line, and the payload if there is
\* one, never one of two that were written in different ways; a request for
\* help among the tokens never executes.
InputsAreKept(tokens) ==
   LET r == ParseExternalCommand(tokens, FALSE)
       v == IsValue(tokens)
       free == {i \in DOMAIN tokens : ~v[i]}
       given == {i \in DOMAIN tokens : tokens[i] \in {"k=v", "-k=v"} /\ (v[i] => tokens[i - 1] = "-a")}
       bare == {i \in free : tokens[i] = "{}"}
       explicit == {i \in DOMAIN tokens \ free : tokens[i - 1] = "--input-json"}
   IN r.does = "execute" =>
        /\ \A i \in free : tokens[i] # "-h"
        /\ Len(r.args) = Cardinality(given)
        /\ \A i \in given : r.args[Cardinality({j \in given : j <= i})] = tokens[i]
        /\ bare = {} \/ (explicit = {} /\ Cardinality(bare) = 1)
        /\ IF bare \cup explicit = {} THEN r.json = "none" ELSE \E i \in bare \cup explicit : r.json = tokens[i]

-----------------------------------------------------------------------------
(************************ assignments with path keys ***********************)
(* A key is a sequence of characters; "0" and "1" are its digits.          *)

Digit(c) == CASE c = "0" -> 0 [] c = "1" -> 1 [] OTHER -> -1
\* the text between brackets as an index, -1 if it is none
IndexOf(t) == IF t = <<>> \/ \E i \in DOMAIN t : Digit(t[i]) < 0 THEN -1
              ELSE FoldLeft(LAMBDA n, c : 10 * n + Digit(c), 0, t)

\* parse_segments, one character at a time; inside: after a "[".
PathChar(st, c) ==
   CASE ~st.ok -> st
     [] st.ok /\ st.inside ->
        IF c # "]" THEN [st EXCEPT !.index = Append(@, c)]
        ELSE LET n == IndexOf(st.index) IN
             IF n < 0 \/ n > MaxArrayIndex THEN [st EXCEPT !.ok = FALSE]
             ELSE [st EXCEPT !.segs = Append(@, [index |-> n]), !.inside = FALSE, !.index = <<>>, !.closed = TRUE]
     [] st.ok /\ ~st.inside ->
        CASE c = "." /\ st.current # <<>> ->
                [st EXCEPT !.segs = Append(@, [key |-> st.current]), !.current = <<>>, !.closed = FALSE]
          [] c = "." /\ st.current = <<>> -> [st EXCEPT !.ok = st.closed, !.closed = FALSE]
          [] c = "[" -> [st EXCEPT !.segs = IF st.current = <<>> THEN @ ELSE Append(@, [key |-> st.current]),
                                   !.current = <<>>, !.inside = TRUE]
          [] OTHER -> [st EXCEPT !.current = Append(@, c), !.closed = FALSE]
ParseSegments(key) ==
   LET st == FoldLeft(PathChar, [ok |-> TRUE, segs |-> <<>>, current |-> <<>>, index |-> <<>>, inside |-> FALSE, closed |-> FALSE], key)
       all == IF st.current = <<>> THEN st.segs ELSE Append(st.segs, [key |-> st.current])
   IN IF \/ ~st.ok \/ st.inside \/ all = <<>>
         \/ ~st.closed /\ st.current = <<>> /\ Last(key) = "."
      THEN Reject ELSE Accept(all)

\* parse_assignment: the first ":=" anywhere splits, else the first "=".
ParseAssignment(raw) ==
   LET at(s) == {i \in DOMAIN raw : raw[i] = s}
       cut(s) == CHOOSE i \in at(s) : \A j \in at(s) : i <= j
       key(i) == SubSeq(raw, 1, i - 1)
       rhs(i) == SubSeq(raw, i + 1, Len(raw))
   IN CASE at(":=") # {} -> LET i == cut(":=") r == ReadJson(rhs(i)) IN
                            IF r.ok THEN Accept([key |-> key(i), v |-> r.v]) ELSE Reject
        [] at(":=") = {} /\ at("=") # {} -> Accept([key |-> key(cut("=")), v |-> JText(rhs(cut("=")))])
        [] OTHER -> Accept([skipped |-> TRUE])

\* insert_segments: what stands in the way is kept unless it is null.
RECURSIVE InsertSegments(_, _, _)
InsertSegments(target, segs, value) ==
   IF segs = <<>> THEN Accept(value)
   ELSE LET s == Head(segs)
            kind == IF "key" \in DOMAIN s THEN "object" ELSE "array"
        IN IF target.is \notin {kind, "null"} THEN Reject
           ELSE IF kind = "object"
           THEN LET fs == IF target.is = "null" THEN <<>> ELSE target.fields
                    r == InsertSegments(IF s.key \in DOMAIN fs THEN fs[s.key] ELSE JNull, Tail(segs), value)
                IN IF r.ok THEN Accept(JObject((s.key :> r.v) @@ fs)) ELSE Reject
           ELSE LET have == IF target.is = "null" THEN <<>> ELSE target.items
                    long == [i \in 1 .. IF Len(have) <= s.index THEN s.index + 1 ELSE Len(have) |->
                               IF i <= Len(have) THEN have[i] ELSE JNull]
                    r == InsertSegments(long[s.index + 1], Tail(segs), value)
                IN IF r.ok THEN Accept(JArray([long EXCEPT ![s.index + 1] = r.v])) ELSE Reject

\* insert_argument_path: p is the key as it was parsed, v the value to put there.
InsertParsed(acc, v, p) == IF ~p.ok \/ "index" \in DOMAIN Head(p.v) THEN Reject ELSE InsertSegments(acc, p.v, v)
InsertArgument(acc, raw) ==
   LET a == ParseAssignment(raw) IN
   IF ~acc.ok \/ ~a.ok THEN Reject
   ELSE IF "skipped" \in DOMAIN a.v THEN acc
   ELSE InsertParsed(acc.v, a.v.v, ParseSegments(a.v.key))

\* ArgumentParser::parse_arguments: with a payload the assignments are not read.
ParseArguments(args, payload) ==
   IF payload = <<>> THEN FoldLeft(InsertArgument, Accept(JObject(<<>>)), args)
   ELSE LET r == ReadJson(payload) IN IF r.ok /\ r.v.is = "object" THEN r ELSE Reject

\* The way a path is written, and the value at a path.
PathText(segs) == FlattenSeq([i \in DOMAIN segs |->
   IF "key" \in DOMAIN segs[i] THEN (IF i = 1 THEN <<>> ELSE <<".">>) \o segs[i].key
   ELSE <<"[", IF segs[i].index = 0 THEN "0" ELSE "1", "]">>])
ValueAt(v, segs) == FoldLeft(LAMBDA u, s : IF "key" \in DOMAIN s THEN u.fields[s.key] ELSE u.items[s.index + 1], v, segs)

\* A key that is accepted means one path, and writing that path out again gives
\* a key with the same meaning; no character of it is lost.
KeyMeansItsPath(key) ==
   LET p == ParseSegments(key) IN
   p.ok =>
     /\ ParseSegments(PathText(p.v)) = p
     /\ FlattenSeq([i \in DOMAIN p.v |-> IF "key" \in DOMAIN p.v[i] THEN p.v[i].key ELSE <<>>])
        = SelectSeq([i \in DOMAIN key |->
             IF \E j \in 1 .. i : key[j] = "[" /\ \A k \in j .. i - 1 : key[k] # "]" THEN "." ELSE key[i]],
             LAMBDA c : c # ".")

\* r: the arguments made of args; read: the path and the value of each.
ReadBack(args, r, read) ==
   LET apart(i, j) == ~IsPrefix(read[i].path, read[j].path) /\ ~IsPrefix(read[j].path, read[i].path)
   IN /\ r.ok => \A i \in DOMAIN args : (\A j \in i + 1 .. Len(args) : apart(i, j)) => ValueAt(r.v, read[i].path) = read[i].v
      /\ (\A i \in DOMAIN args : InsertArgument(Accept(JObject(<<>>)), args[i]).ok)
         /\ (\A i, j \in DOMAIN args : i # j => apart(i, j)) => ParseArguments(Reverse(args), <<>>) = r

\* Every assignment reads back at its path, whatever was assigned before or
\* after it to paths that do not run through it, and two such assignments give
\* the same arguments in either order.
AssignmentsReadBack(args) ==
   LET read == [i \in DOMAIN args |-> LET a == ParseAssignment(args[i]).v IN [path |-> ParseSegments(a.key).v, v |-> a.v]]
   IN ReadBack(args, ParseArguments(args, <<>>), read)

-----------------------------------------------------------------------------
(********************* coercion to the operation's schema ******************)
(* A schema is a record of the keywords it has.                            *)

SchemaType(s) == CASE "type" \in DOMAIN s -> s.type
                   [] "type" \notin DOMAIN s /\ "properties" \in DOMAIN s -> "object"
                   [] DOMAIN s \cap {"type", "properties"} = {} /\ "items" \in DOMAIN s -> "array"
                   [] OTHER -> "any"
Keyword(s, k, default) == IF k \in DOMAIN s THEN s[k] ELSE default

CoerceInteger(v) == IF v.is = "integer" THEN Accept(v) ELSE IF v.is = "text" THEN ParseI64(v.v) ELSE Reject
CoerceNumber(v) == IF v.is \in {"integer", "float"} THEN Accept(v) ELSE IF v.is = "text" THEN ParseF64(v.v) ELSE Reject
CoerceBoolean(v) == IF v.is = "boolean" THEN Accept(v)
                    ELSE IF v.is = "text" /\ EqIgnoreCase(v.v, "true") THEN Accept(JScalar("boolean", "true")) ELSE Reject
CoerceNull(v) == IF v.is = "null" \/ (v.is = "text" /\ EqIgnoreCase(v.v, "null")) THEN Accept(JNull) ELSE Reject
CoerceString(v) == IF v.is \in {"array", "object"} THEN Reject ELSE Accept(JText(v.v))

\* coerce_literal_to_match: the text read as the sort of value the sample is
LiteralLike(t, sample) ==
   CASE sample.is = "text" -> Accept(JText(t))
     [] sample.is = "boolean" -> CoerceBoolean(JText(t))
     [] sample.is = "null" -> CoerceNull(JText(t))
     [] sample.is = "integer" -> ParseI64(t)
     [] sample.is = "float" -> ParseF64(t)
     [] OTHER -> Reject
\* validate_const_and_enum: a text passes for the literal it spells, as a text.
ConstAndEnumAllow(v, s) ==
   /\ "const" \in DOMAIN s => v = s.const
   /\ "enum" \in DOMAIN s => \/ v \in s.enum
                             \/ v.is = "text" /\ \E c \in s.enum : LiteralLike(v.v, c) = Accept(c)

\* the end of coerce_value: a coerced value counts only if it is allowed
AllowedBy(s, r) == IF ~r.ok \/ ~ConstAndEnumAllow(r.v, s) THEN Reject ELSE r

\* what a text stands for where an object or an array is expected
Structured(v, kind) ==
   LET r == IF v.is = "text" THEN ReadJson(v.v) ELSE Accept(v) IN IF r.ok /\ r.v.is = kind THEN r ELSE Reject

RECURSIVE CoerceValue(_, _, _)
\* coerce_union: the first branch that takes the value
CoerceUnion(v, branches, enforce) ==
   LET fits == {i \in DOMAIN branches : CoerceValue(v, branches[i], enforce).ok}
   IN IF fits = {} THEN Reject ELSE CoerceValue(v, branches[CHOOSE i \in fits : \A j \in fits : i <= j], enforce)
\* coerce_object: unknown fields are passed on as they are
CoerceObject(v, s, enforce) ==
   LET o == Structured(v, "object")
       props == Keyword(s, "properties", <<>>)
       new == [k \in DOMAIN o.v.fields |-> IF k \in DOMAIN props THEN CoerceValue(o.v.fields[k], props[k], enforce)
                                           ELSE Accept(o.v.fields[k])]
   IN IF ~o.ok THEN Reject
      ELSE IF \/ enforce /\ ~(Keyword(s, "required", {}) \subseteq DOMAIN new)
              \/ \E k \in DOMAIN new : ~new[k].ok THEN Reject
      ELSE Accept(JObject([k \in DOMAIN new |-> new[k].v]))
CoerceArray(v, s, enforce) ==
   LET a == Structured(v, "array")
       new == [i \in DOMAIN a.v.items |-> IF "items" \in DOMAIN s THEN CoerceValue(a.v.items[i], s.items, enforce)
                                          ELSE Accept(a.v.items[i])]
   IN IF ~a.ok THEN Reject
      ELSE IF \E i \in DOMAIN new : ~new[i].ok THEN Reject
      ELSE Accept(JArray([i \in DOMAIN new |-> new[i].v]))
CoerceValue(v, s, enforce) ==
   IF "oneOf" \in DOMAIN s THEN CoerceUnion(v, s.oneOf, enforce)
   ELSE IF "anyOf" \in DOMAIN s THEN CoerceUnion(v, s.anyOf, enforce)
   ELSE LET t == SchemaType(s) IN
        AllowedBy(s, CASE t = "object" -> CoerceObject(v, s, enforce)
                       [] t = "array" -> CoerceArray(v, s, enforce)
                       [] t = "integer" -> CoerceInteger(v)
                       [] t = "number" -> CoerceNumber(v)
                       [] t = "boolean" -> CoerceBoolean(v)
                       [] t = "null" -> CoerceNull(v)
                       [] t = "string" -> CoerceString(v)
                       [] OTHER -> Accept(v))

\* normalize_jsonrpc_schema and the parameters of normalize_openapi_schema: an
\* object of the named parameters
ObjectSchema(params) ==
   [type |-> "object", properties |-> [n \in DOMAIN params |-> params[n].schema],
    required |-> {n \in DOMAIN params : params[n].required}]
\* normalize_operation_schema: the schema the arguments are held against, none
\* when there is nothing to hold them against; an OpenAPI body hides the
\* parameters, its media types in a fixed order.
NormalizeOperationSchema(protocol, detail) ==
   CASE protocol = "graphql" -> [has |-> TRUE, root |-> detail.schema, enforce |-> FALSE]
     [] protocol = "mcp" -> [has |-> TRUE, root |-> detail.schema, enforce |-> TRUE]
     [] protocol = "jsonrpc" -> [has |-> TRUE, root |-> ObjectSchema(detail.params), enforce |-> TRUE]
     [] protocol = "openapi" ->
        LET body == SelectSeq(<<"json", "form", "multipart">>, LAMBDA m : m \in DOMAIN detail.content)
        IN IF body # <<>> THEN [has |-> TRUE, root |-> detail.content[Head(body)], enforce |-> TRUE]
           ELSE IF detail.params = <<>> THEN [has |-> FALSE]
           ELSE [has |-> TRUE, root |-> ObjectSchema(detail.params), enforce |-> TRUE]
\* prepare_execute_args: no arguments at all are passed on unchecked.
PrepareExecuteArgs(protocol, detail, args) ==
   LET n == NormalizeOperationSchema(protocol, detail)
   IN IF args = <<>> \/ ~n.has THEN Accept(JObject(args)) ELSE CoerceValue(JObject(args), n.root, n.enforce)

\* JSON Schema's own reading of the keywords above.
RECURSIVE Conforms(_, _)
Conforms(v, s) ==
   IF "oneOf" \in DOMAIN s THEN \E i \in DOMAIN s.oneOf : Conforms(v, s.oneOf[i])
   ELSE IF "anyOf" \in DOMAIN s THEN \E i \in DOMAIN s.anyOf : Conforms(v, s.anyOf[i])
   ELSE LET t == SchemaType(s) IN
        /\ CASE t = "number" -> v.is \in {"integer", "float"} [] t = "string" -> v.is = "text"
             [] t = "any" -> TRUE [] OTHER -> v.is = t
        /\ t = "object" => \A k \in DOMAIN v.fields : "properties" \in DOMAIN s /\ k \in DOMAIN s.properties =>
                              Conforms(v.fields[k], s.properties[k])
        /\ t = "array" /\ "items" \in DOMAIN s => \A i \in DOMAIN v.items : Conforms(v.items[i], s.items)
        /\ "const" \in DOMAIN s => v = s.const
        /\ "enum" \in DOMAIN s => v \in s.enum

\* Arguments that pass the coercion conform to the schema of the operation,
\* every field that was given is still there, and none that is required is
\* missing; for a call with arguments.
CoercedConforms(protocol, detail, args) ==
   LET n == NormalizeOperationSchema(protocol, detail)
       r == PrepareExecuteArgs(protocol, detail, args)
   IN args # <<>> /\ n.has /\ r.ok =>
        /\ Conforms(r.v, n.root)
        /\ DOMAIN r.v.fields = DOMAIN args
        /\ n.enforce => Keyword(n.root, "required", {}) \subseteq DOMAIN args

\* k=1 and k:=1 are the same argument to an operation that declares the type of
\* k, numbers by their value; for scalars, and integers that fit into an i64.
BothSpellings(t, type) ==
   LET read == ReadJson(t)
       plain == CoerceValue(JText(t), [type |-> type], TRUE)
       typed == CoerceValue(read.v, [type |-> type], TRUE)
   IN read.ok /\ read.v.is \notin {"array", "object"} /\ t # <<"big">> =>
        /\ plain.ok = typed.ok
        /\ plain.ok => plain.v = typed.v \/ (plain.v.is = "float" /\ ParseF64(typed.v.v).v = plain.v)
=============================================================================
