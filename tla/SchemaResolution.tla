-------------------------- MODULE SchemaResolution --------------------------
(***************************************************************************)
(* How a request is checked before it is sent.  OperationRegistry of       *)
(* src/clm_mcp/spec/registry.py replaces every $ref of a request body by   *)
(* what it names, cutting cycles and, as a last resort, depth.  clm_invoke *)
(* (src/clm_mcp/tools/gateway.py) validates its params against the result, *)
(* and register (src/clm_mcp/tools/commands.py) derives from it the typed  *)
(* fields of a generated write tool.                                       *)
(*                                                                         *)
(* A schema is a record by its kind: "date" is a string whose format is a  *)
(* date, "enum" a scalar with an enumeration, "scalar" every other one.    *)
(* Keywords that no verdict depends on (title, description) are left out,  *)
(* as are two nested schemas of the vendored specs that name no type.  No  *)
(* schema of a request has a `required` list.                              *)
(*                                                                         *)
(* A JSON value is a function from the paths of its parts, the empty one   *)
(* being the path of the whole, to a kind.  Of the scalars, which are of   *)
(* the type and enumeration that their place asks for, a date is one that  *)
(* pydantic writes as it reads it, a looseDate one that it writes anew,    *)
(* and any other one no date.  Numbers are below 2^53, and 5.0 is 5.       *)
(***************************************************************************)
EXTENDS Integers, SequencesExt

CONSTANTS
    MaxResolutionDepth,     \* _MAX_RESOLUTION_DEPTH
    SchemaNames,            \* the names in components.schemas
    Schemas,                \* the schemas of a document, each with those inside it
    Fields, Places          \* the steps of a path: into an object, into a list

\* Scalars, dates and arrays may say nullable: true.
Typed(kind, nullable) == [kind |-> kind, nullable |-> nullable]
ArrayOf(items, nullable) == [kind |-> "array", items |-> items, nullable |-> nullable]
ObjectOf(properties) == [kind |-> "object", properties |-> properties]

\* kept: its enumeration is what the document says, not what the cap put there.
Enum(kept) == [kind |-> "enum", kept |-> kept]
Ref(name) == [kind |-> "ref", name |-> name]

\* {"type": "object"} with a title: what is left of a cycle or of great depth.
Placeholder == [kind |-> "placeholder"]

\* A dict whose own keywords the cap has replaced, so that it is no JSON Schema.
Malformed == [kind |-> "malformed"]

\* No vendored spec has an array of arrays, and the cap is 40.
ASSUME ResolutionAssumption ==
    /\ MaxResolutionDepth \in Nat \ {0}
    /\ Fields \cap Places = {}
    /\ \A s \in Schemas :
          \/ s.kind \in {"scalar", "date"} /\ s = Typed(s.kind, s.nullable)
          \/ s = Enum(TRUE)
          \/ s.kind = "ref" /\ s.name \in SchemaNames
          \/ s.kind = "array" /\ s.items \in Schemas /\ s.items.kind # "array"
          \/ s.kind = "object" /\ \A p \in DOMAIN s.properties : s.properties[p] \in Schemas

\* components.schemas of a document: objects, and enums.
IsComponents(schemas) ==
    /\ schemas \in [SchemaNames -> Schemas]
    /\ \A n \in SchemaNames : schemas[n].kind \in {"object", "enum"}

Scalars == {"scalar", "date", "looseDate"}

IsValue(value) ==
    /\ value \in [DOMAIN value -> Scalars \cup {"null", "object", "list"}]
    /\ <<>> \in DOMAIN value
    /\ \A path \in DOMAIN value \ {<<>>} :
          /\ path \in Seq(Fields \cup Places)
          /\ Front(path) \in DOMAIN value
          /\ value[Front(path)] = IF Last(path) \in Fields THEN "object" ELSE "list"

-----------------------------------------------------------------------------
(* _resolve_ref.  A schema's keywords lie one level below it, the schemas  *)
(* of its properties two and that of its items one, the elements of its     *)
(* enumeration two.                                                        *)

\* The cap one level early.
AlmostTooDeep(depth) == depth >= MaxResolutionDepth

TooDeep(depth) == depth > MaxResolutionDepth

\* Cut at the first name inside a named schema.
SeenEverything(seen, name) == SchemaNames

\* The names already followed on the way from the body to a schema; a mere
\* second use of a name, in another branch, is no cycle.
Seen(seen, name) == seen \cup {name}

ResolveRef(schemas, body, names, level) ==
    LET resolve[depth \in Nat] == [node \in Schemas |-> [seen \in SUBSET SchemaNames |->
            IF TooDeep(depth) THEN Placeholder
            ELSE IF node.kind = "ref"
            THEN IF node.name \in seen THEN Placeholder
                 ELSE resolve[depth + 1][schemas[node.name]][Seen(seen, node.name)]
            ELSE IF TooDeep(depth + 1) THEN Malformed
            ELSE CASE node.kind = "object" ->
                         ObjectOf([p \in DOMAIN node.properties |->
                                     resolve[depth + 2][node.properties[p]][seen]])
                   [] node.kind = "array" ->
                         ArrayOf(resolve[depth + 1][node.items][seen], node.nullable)
                   [] node.kind = "enum" -> Enum(~TooDeep(depth + 2))
                   [] node.kind \in {"scalar", "date"} -> node]]
    IN  resolve[level][body][names]

-----------------------------------------------------------------------------
(* jsonschema.validate, as the code uses it: external.  Every object schema *)
(* of the vendored specs says additionalProperties: false.  It knows no     *)
(* nullable, and no format is checked.                                     *)

\* What a part of a value is checked against where no schema is left to check
\* it, or where the schema around it has no such part.
Anything == [kind |-> "anything"]
Nothing == [kind |-> "nothing"]

Follow(schemas, node) == IF node.kind = "ref" THEN schemas[node.name] ELSE node

Member(schema, step) ==
    CASE schema.kind = "object" /\ step \in DOMAIN schema.properties -> schema.properties[step]
      [] schema.kind = "array" /\ step \in Places -> schema.items
      [] schema.kind \in {"placeholder", "anything"} -> Anything
      [] OTHER -> Nothing

\* The schema that each part of a value is checked against.
SchemasOf(schemas, node, value) ==
    LET at[path \in DOMAIN value] ==
            IF path = <<>> THEN node ELSE Member(Follow(schemas, at[Front(path)]), Last(path))
    IN  at

Admits(schema, kind) ==
    CASE schema.kind \in {"scalar", "date"} -> kind \in Scalars
      [] schema.kind = "enum" -> schema.kept /\ kind \in Scalars
      [] schema.kind = "array" -> kind = "list"
      [] schema.kind \in {"object", "placeholder"} -> kind = "object"
      [] OTHER -> schema = Anything

Valid(schemas, node, value) ==
    LET at == SchemasOf(schemas, node, value)
    IN  \A path \in DOMAIN value : Admits(Follow(schemas, at[path]), value[path])

Held(schema) ==
    CASE schema.kind = "object" -> {schema.properties[p] : p \in DOMAIN schema.properties}
      [] schema.kind = "array" -> {schema.items}
      [] OTHER -> {}

\* The schema itself is checked first, and a SchemaError is not caught.
WellFormed(schema) ==
    LET inside[n \in 0..MaxResolutionDepth] ==
            IF n = 0 THEN {schema} ELSE UNION {Held(s) : s \in inside[n - 1]}
    IN  \A n \in 0..MaxResolutionDepth : Malformed \notin inside[n]

-----------------------------------------------------------------------------
(* An operation has a body schema, or else the names of its query           *)
(* parameters.  params is a dict, an object value.                          *)

RequestSchema(schemas, operation) == ResolveRef(schemas, operation.body, {}, 0)

FieldsOf(params) == {f \in Fields : <<f>> \in DOMAIN params}

\* clm_invoke's _validate_params.
Validated(schemas, operation, params) ==
    IF operation.hasBody
    THEN LET schema == RequestSchema(schemas, operation)
         IN  IF ~WellFormed(schema) THEN "crashed"
             ELSE IF Valid(schemas, schema, params) THEN "sent" ELSE "refused"
    ELSE IF operation.parameters # {} /\ ~(FieldsOf(params) \subseteq operation.parameters)
         THEN "refused" ELSE "sent"

\* Strings as every other item that is no JSON number or boolean.
ItemsOfObjects(items) == "objects"

ItemsField(items) ==
    IF items.kind \in {"scalar", "date", "enum"} THEN "scalars" ELSE "objects"

\* _python_type_for_schema: one level of the schema, and the items' type.
Field(schema) ==
    CASE schema.kind \in {"scalar", "enum"} -> "scalar"
      [] schema.kind = "date" -> "date"
      [] schema.kind = "array" -> ItemsField(schema.items)
      [] schema.kind \in {"object", "placeholder"} -> "object"

Elements(params, f) == {path \in DOMAIN params : Len(path) = 2 /\ path[1] = f}

Accepts(field, params, f) ==
    \/ params[<<f>>] = "null"
    \/ field = "scalar" /\ params[<<f>>] \in Scalars
    \/ field = "date" /\ params[<<f>>] \in {"date", "looseDate"}
    \/ field = "object" /\ params[<<f>>] = "object"
    \/ /\ field = "scalars" /\ params[<<f>>] = "list"
       /\ \A e \in Elements(params, f) : params[e] \in Scalars
    \/ /\ field = "objects" /\ params[<<f>>] = "list"
       /\ \A e \in Elements(params, f) : params[e] = "object"

\* A datetime is dumped as ISO 8601, however it was written.
Rewritten(kind) == IF kind = "looseDate" THEN "date" ELSE kind

\* The generated tool's params model, and the body it dumps: the fields of the
\* model and no others, without those that are null.  No body is sent for params
\* that pydantic turns down.
WriteBody(schemas, operation, params) ==
    LET schema == RequestSchema(schemas, operation)
        fields == FieldsOf(params) \cap
                    (IF schema.kind = "object" THEN DOMAIN schema.properties ELSE {})
        filled == {f \in fields : params[<<f>>] # "null"}
        parts == {path \in DOMAIN params : path = <<>> \/ path[1] \in filled}
        dates == {<<f>> : f \in {g \in filled : Field(schema.properties[g]) = "date"}}
    IN  IF \A f \in fields : Accepts(Field(schema.properties[f]), params, f)
        THEN {[path \in parts |-> IF path \in dates THEN Rewritten(params[path])
                                                   ELSE params[path]]}
        ELSE {}

-----------------------------------------------------------------------------
(* What the specification document itself says                              *)

\* One step further from the body into a schema, not following a name that leads
\* back into itself: the schema, the names followed so far, and its level.
Onward(schemas, way) ==
    LET schema == way.schema
        To(next, names, levels) ==
            [schema |-> next, names |-> names, depth |-> way.depth + levels]
    IN  CASE schema.kind = "object" ->
                {To(schema.properties[p], way.names, 2) : p \in DOMAIN schema.properties}
          [] schema.kind = "array" -> {To(schema.items, way.names, 1)}
          [] schema.kind = "ref" /\ schema.name \notin way.names ->
                {To(schemas[schema.name], way.names \cup {schema.name}, 1)}
          [] OTHER -> {}

Ways(schemas, body) ==
    LET ways[n \in 0..(MaxResolutionDepth + 1)] ==
            IF n = 0 THEN {[schema |-> body, names |-> {}, depth |-> 0]}
                     ELSE UNION {Onward(schemas, way) : way \in ways[n - 1]}
    IN  ways

\* No keyword, nor what it holds, lies deeper than the cap.  Every step goes at
\* least a level down.
Shallow(schemas, operation) ==
    operation.hasBody =>
        LET ways == Ways(schemas, operation.body)
        IN  \A n \in DOMAIN ways : \A way \in ways[n] :
                way.depth + (CASE way.schema.kind = "ref" -> 0
                               [] way.schema.kind = "enum" -> 2
                               [] OTHER -> 1) <= MaxResolutionDepth

\* params holds an object inside an object of the same named schema.
Recurs(schemas, node, params) ==
    LET at == SchemasOf(schemas, node, params)
    IN  \E path \in DOMAIN params : \E n \in 0..(Len(path) - 1) :
            LET outer == at[SubSeq(path, 1, n)]
            IN  at[path].kind = "ref" /\ outer.kind = "ref" /\ outer.name = at[path].name

HoldsNull(params) == \E path \in DOMAIN params : params[path] = "null"

\* OpenAPI 3.0: what says nullable: true may be null.  A format is an annotation.
Complies(schema, kind) ==
    \/ Admits(schema, kind)
    \/ kind = "null" /\ schema.kind \in {"scalar", "date", "array"} /\ schema.nullable

\* The document's own verdict on params: of query parameters, on their names.
Allowed(schemas, operation, params) ==
    IF operation.hasBody
    THEN LET at == SchemasOf(schemas, operation.body, params)
         IN  \A path \in DOMAIN params : Complies(Follow(schemas, at[path]), params[path])
    ELSE FieldsOf(params) \subseteq operation.parameters

\* The fields of params that the document gives the format of a date.
DatesOf(schemas, operation, params) ==
    LET at == SchemasOf(schemas, operation.body, params)
    IN  {<<f>> : f \in {g \in FieldsOf(params) : at[<<g>>].kind = "date"}}

=============================================================================
