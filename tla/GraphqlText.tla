---------------------------- MODULE GraphqlText ----------------------------
(***************************************************************************)
(* The GraphQL adapter: the operations an introspection answer lists, the  *)
(* input it describes for them, and the document it builds for a call.     *)
(*                                                                         *)
(* A type is [wraps, kind, name]: its NON_NULL and LIST wrappers from the  *)
(* outside in, the kind and the name of what they hold.  The index maps    *)
(* type names to [fields, inputs]; fields and inputs are sequences of      *)
(* [name, type], and a type without fields (a scalar, an enum, a union)    *)
(* has hasFields = FALSE.  A selection is a sequence of [name, sub].       *)
(***************************************************************************)
EXTENDS Integers, Sequences, SequencesExt, FiniteSets

CONSTANTS SelectionDepth, SelectionWidth, InputDepth   \* MAX_SELECTION_DEPTH, MAX_SELECTION_FIELDS_PER_OBJECT, MAX_INPUT_SCHEMA_DEPTH

Leaf(type) == type.kind \in {"SCALAR", "ENUM"}                              \* is_scalar_or_enum
NonNull(type) == type.wraps # <<>> /\ type.wraps[1] = "NON_NULL"
NoRoots == [r \in {} |-> <<>>]
TypeName == <<[name |-> "__typename", sub |-> <<>>]>>

\* field_priority.
FieldPriority(name, leaf) ==
    CASE name = "nodes" -> 0
      [] name \in {"id", "name", "state"} /\ leaf -> 1
      [] name \notin {"nodes", "id", "name", "state"} /\ leaf -> 2
      [] name \in {"state", "team", "pageInfo"} /\ ~leaf -> 3
      [] OTHER -> 4

\* The ranked fields: by priority, and in the type's order among equals.
Ranked(fields) ==
    LET rank(k) == FieldPriority(fields[k].name, Leaf(fields[k].type))
        order == SetToSortSeq(DOMAIN fields, LAMBDA j, k : rank(j) < rank(k) \/ (rank(j) = rank(k) /\ j < k))
    IN [k \in DOMAIN order |-> fields[order[k]]]

RECURSIVE SelectionFor(_, _, _, _)
\* The first SelectionWidth fields that can be selected, with their own selections.
ChosenFields(fields, index, visiting, depth) ==
    LET chosen[k \in 0 .. Len(fields)] ==
            IF k = 0 THEN <<>>
            ELSE LET before == chosen[k - 1] IN
                 IF Len(before) >= SelectionWidth THEN before
                 ELSE IF Leaf(fields[k].type) THEN Append(before, [name |-> fields[k].name, sub |-> <<>>])
                 ELSE LET child == SelectionFor(fields[k].type, index, visiting, depth) IN
                      IF child.some THEN Append(before, [name |-> fields[k].name, sub |-> child.of]) ELSE before
    IN chosen[Len(fields)]
OrTypeName(selection) == IF selection = <<>> THEN TypeName ELSE selection
\* build_selection_set_for_type: [some, of].  A type that is being selected already, one
\* that is not known and one at the depth limit get only their name; a type without
\* fields gets none, and a field of such a type is left out.
SelectionFor(type, index, visiting, depth) ==
    IF depth = 0 \/ type.name \notin DOMAIN index THEN [some |-> TRUE, of |-> TypeName]
    ELSE IF ~index[type.name].hasFields THEN [some |-> FALSE, of |-> <<>>]
    ELSE IF type.name \in visiting THEN [some |-> TRUE, of |-> TypeName]
    ELSE [some |-> TRUE, of |-> OrTypeName(
             ChosenFields(Ranked(index[type.name].fields), index, visiting \cup {type.name}, depth - 1))]

\* default_selection_set.
DefaultSelectionSet(type, index) ==
    LET s == SelectionFor(type, index, {}, SelectionDepth) IN IF s.some THEN s.of ELSE TypeName

RECURSIVE Selects(_, _, _)
\* Whether the server can answer a selection on a type: leaves without a selection of
\* their own, everything else with one, and only fields the type has.
Selects(selection, name, index) ==
    /\ selection # <<>>
    /\ \A s \in ToSet(selection) :
           \/ s = TypeName[1]
           \/ name \notin DOMAIN index
           \/ \E f \in ToSet(index[name].fields) :
                  /\ f.name = s.name
                  /\ IF Leaf(f.type) THEN s.sub = <<>> ELSE Selects(s.sub, f.type.name, index)

\* The default selection of a type with fields is one the server can answer, however the
\* types refer to each other, and no object is asked for more than SelectionWidth fields.
SelectionIsAnswerable(type, index) ==
    LET s == DefaultSelectionSet(type, index) IN
    ~Leaf(type) => Selects(s, type.name, index) /\ Len(s) <= SelectionWidth

-----------------------------------------------------------------------------
(* Descriptions.                                                           *)

RECURSIVE InputSchema(_, _, _, _)
\* graphql_type_to_input_schema and scalar_schema: a shape [is, name, of], where `of` holds
\* the fields of an input object or the items of a list; an input type inside itself is a
\* reference.
InputSchema(type, index, visiting, depth) ==
    LET inner == [type EXCEPT !.wraps = Tail(@)] IN
    CASE depth = 0 -> [is |-> "any", name |-> "", of |-> <<>>]
      [] depth > 0 /\ type.wraps # <<>> /\ Head(type.wraps) = "NON_NULL" -> InputSchema(inner, index, visiting, depth - 1)
      [] depth > 0 /\ type.wraps # <<>> /\ Head(type.wraps) = "LIST" ->
             [is |-> "array", name |-> "", of |-> <<[name |-> "items", required |-> FALSE, schema |-> InputSchema(inner, index, visiting, depth - 1)]>>]
      [] depth > 0 /\ type.wraps = <<>> /\ type.kind = "INPUT_OBJECT" /\ type.name \in visiting -> [is |-> "ref", name |-> type.name, of |-> <<>>]
      [] depth > 0 /\ type.wraps = <<>> /\ type.kind = "INPUT_OBJECT" /\ type.name \notin visiting ->
             LET fields == IF type.name \in DOMAIN index THEN index[type.name].inputs ELSE <<>> IN
             [is |-> "object", name |-> type.name,
              of |-> [k \in DOMAIN fields |-> [name |-> fields[k].name, required |-> NonNull(fields[k].type),
                                                schema |-> InputSchema(fields[k].type, index, visiting \cup {type.name}, depth - 1)]]]
      [] OTHER -> [is |-> "scalar", name |-> type.name, of |-> <<>>]

RECURSIVE Shows(_, _, _)
\* An input type that is not shown in full is named by a reference to one that encloses
\* it, or lies below the depth limit, at which every level may cost two.
Shows(schema, inside, depth) ==
    CASE schema.is = "object" -> schema.name \notin inside /\ \A k \in DOMAIN schema.of : Shows(schema.of[k].schema, inside \cup {schema.name}, depth - 1)
      [] schema.is = "array" -> Shows(schema.of[1].schema, inside, depth - 1)
      [] schema.is = "ref" -> schema.name \in inside
      [] schema.is = "any" -> 2 * (InputDepth - depth) >= InputDepth
      [] OTHER -> TRUE
InputIsShown(type, index) == Shows(InputSchema(type, index, {}, InputDepth), {}, InputDepth)

-----------------------------------------------------------------------------
(* Operations.  A schema is [roots]: for "query", "mutation" and           *)
(* "subscription" the sequence of its fields [name, args, type], where an  *)
(* argument is [name, type, default].                                      *)

\* normalize_root_type_fields: the limited introspection only names a root type; its fields
\* are those of the type of that name.
NormalizeRootTypeFields(root, server) ==
    IF server.names[root] \in DOMAIN server.types THEN server.types[server.names[root]] ELSE <<>>

\* fetch_schema and fetch_limited_schema: a full introspection that the provider limits is
\* tried once more with the limited query.
FetchSchema(server) ==
    CASE server.full = "data" -> [is |-> "ok", roots |-> [r \in DOMAIN server.names |-> server.types[server.names[r]]]]
      [] server.full = "limited" /\ server.limited = "data" -> [is |-> "ok", roots |-> [r \in DOMAIN server.names |-> NormalizeRootTypeFields(r, server)]]
      [] OTHER -> [is |-> "error", roots |-> NoRoots]

\* parse_schema_to_operations and parse_field_args.
ParseSchemaToOperations(roots) ==
    UNION {{[root |-> r, name |-> f.name, args |-> {[name |-> a.name, required |-> NonNull(a.type)] : a \in ToSet(f.args)}] : f \in ToSet(roots[r])} : r \in DOMAIN roots}

\* find_operation_field: the first field of that name under that root.
FindOperationField(roots, id) ==
    IF id.root \notin DOMAIN roots \/ ~\E f \in ToSet(roots[id.root]) : f.name = id.name THEN <<>>
    ELSE <<SelectSeq(roots[id.root], LAMBDA f : f.name = id.name)[1]>>

\* validate_declared_arguments: unknown names first, then what is required and has no
\* default.
ValidateDeclaredArguments(declared, args) ==
    IF \E n \in args : ~\E a \in ToSet(declared) : a.name = n THEN "unknown"
    ELSE IF \E a \in ToSet(declared) : NonNull(a.type) /\ ~a.default /\ a.name \notin args THEN "missing" ELSE "ok"

\* build_prepared_operation_from_schema, selection_override_from_args: the variables the
\* document declares, the arguments it binds, and the values sent with it.  The field is
\* always followed by a selection.
Prepare(roots, index, id, args) ==
    LET named == args \ {"_select"}
        field == FindOperationField(roots, id)
        valid == ValidateDeclaredArguments(field[1].args, named)
        used == {a \in ToSet(field[1].args) : a.name \in named}
    IN IF field = <<>> THEN [is |-> "not found"]
       ELSE IF valid # "ok" THEN [is |-> valid]
       ELSE [is |-> "ok", declares |-> {[name |-> a.name, type |-> a.type] : a \in used}, binds |-> {a.name : a \in used},
             variables |-> named, selection |-> IF "_select" \in args THEN <<>> ELSE DefaultSelectionSet(field[1].type, index)]

\* The document is well formed: what it declares, what it binds and what is sent with it
\* are the same names, each with the type the schema gives it; a call that has what the
\* description requires, and nothing the description lacks, is never refused; and every
\* operation that is listed is found.
DocumentIsWhole(roots, index, id, args) ==
    LET prepared == Prepare(roots, index, id, args)
        listed == {op \in ParseSchemaToOperations(roots) : op.root = id.root /\ op.name = id.name}
    IN /\ prepared.is = "ok" =>
              /\ prepared.binds = prepared.variables
              /\ {d.name : d \in prepared.declares} = prepared.variables
              /\ \A d \in prepared.declares : \E a \in ToSet(FindOperationField(roots, id)[1].args) : a.name = d.name /\ a.type = d.type
              /\ "_select" \notin prepared.variables
       /\ (prepared.is = "not found") = (listed = {})
       /\ \A op \in listed :
              /\ {a.name : a \in {a \in op.args : a.required}} \subseteq args
              /\ args \ {"_select"} \subseteq {a.name : a \in op.args}
              => prepared.is = "ok"

\* Whichever introspection was answered, the same operations are listed.
LimitedListsTheSame(server) ==
    LET got == FetchSchema(server) IN
    got.is = "ok" => ParseSchemaToOperations(got.roots) = ParseSchemaToOperations(FetchSchema([server EXCEPT !.full = "data"]).roots)

\* can_handle and execute_graphql: what an answer means.
CanHandle(status, body) == status \in 200 .. 299 /\ body \cap {"data", "errors", "__schema"} # {}
ExecuteGraphql(status, body) ==
    IF status \notin 200 .. 299 THEN "failed" ELSE IF "errors" \in body THEN "errors" ELSE IF "data" \in body THEN "data" ELSE "whole body"

\* An answer that carries errors is never reported as data, though it may hold some.
ErrorsAreTold(status, body) ==
    ExecuteGraphql(status, body) = "data" => "errors" \notin body /\ CanHandle(status, body)
=============================================================================
