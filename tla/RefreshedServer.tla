-------------------------- MODULE RefreshedServer --------------------------
(***************************************************************************)
(* From a refresh of the vendored specs to a request: the run of           *)
(* scripts/refresh_spec.py (SpecRefresh), the start of a server from the   *)
(* files it leaves behind, and what clm_invoke and a generated write tool  *)
(* make of the params of one call (SchemaResolution).                      *)
(***************************************************************************)
EXTENDS SpecRefresh, SchemaResolution

CONSTANTS
    Components,     \* values of components.schemas
    Plain,          \* the one of them that goes with a refresh
    Operations,     \* operations to call, each [hasBody, body, parameters]
    Requests        \* values of params, for each of Components and each operation

ASSUME ServedAssumption ==
    /\ \A c \in Components : IsComponents(c)
    /\ Plain \in Components
    /\ \A o \in Operations : o.hasBody \in BOOLEAN /\ (o.hasBody => o.body \in Schemas)
    /\ \A c \in Components, o \in Operations : \A r \in Requests[c][o] :
          IsValue(r) /\ r[<<>>] = "object"

VARIABLES
    schemas,        \* the components of the document that is served
    server,         \* "down", "serving" or "refused": load_registry raised
    call            \* operation, params and what came of them, or none yet

serverVars == <<refreshVars, schemas, server, call>>

NoCall == [made |-> FALSE]

TypeOK ==
    /\ RefreshTypeOK
    /\ schemas \in Components
    /\ server \in {"down", "serving", "refused"}
    /\ call.made => call.verdict \in {"sent", "refused", "crashed"}

\* A dry run that found nothing new is over.
NothingNew ==
    /\ targets = Services
    /\ write = FALSE
    /\ vendored \in {[s \in Services |-> d] : d \in Documents}
    /\ Constructs(vendored)
    /\ original = vendored
    /\ todo = {}
    /\ current = AnyService
    /\ got = vendored
    /\ removed = [s \in Services |-> {}]
    /\ exitCode = 0
    /\ pc = "exited"

\* The files are varied with one choice of the schemas, and the schemas after a
\* run that is over: what becomes of the one does not depend on the other.
Init ==
    /\ \/ RefreshInit /\ schemas = Plain
       \/ NothingNew /\ schemas \in Components
    /\ server = "down"
    /\ call = NoCall

Refresh == RefreshNext /\ server = "down" /\ UNCHANGED <<schemas, server, call>>

\* get_registry at import: a file that is absent, torn or does not build stops
\* the process.
StartServer ==
    /\ server = "down"
    /\ pc \in Over
    /\ server' = IF Constructs(vendored) THEN "serving" ELSE "refused"
    /\ UNCHANGED <<refreshVars, schemas, call>>

\* clm_invoke on params, and the generated tool on the same.
Call(operation, params) ==
    /\ server = "serving"
    /\ ~call.made
    /\ call' = [made |-> TRUE, operation |-> operation, params |-> params,
                verdict |-> Validated(schemas, operation, params),
                bodies |-> IF operation.hasBody THEN WriteBody(schemas, operation, params)
                                                ELSE {}]
    /\ UNCHANGED <<refreshVars, schemas, server>>

Next ==
    \/ Refresh
    \/ StartServer
    \/ \E operation \in Operations : \E params \in Requests[schemas][operation] :
          Call(operation, params)

Spec == Init /\ [][Next]_serverVars /\ RefreshFairness

-----------------------------------------------------------------------------
(* Correctness *)

\* clm_invoke turns down only what the document turns down, recursive schemas
\* included, and nulls, if the schema is not so deep that the cap cuts it.
RefusalJustified ==
    /\ call.made
    /\ Shallow(schemas, call.operation)
    /\ Allowed(schemas, call.operation, call.params)
    /\ ~HoldsNull(call.params)
    => call.verdict = "sent"

\* Up to the point where params enter a named schema for the second time, they
\* are checked exactly as the document says, but that no null passes, nullable or
\* not: replacing a $ref loses nothing before the cycle it cuts, whichever way
\* the schema is entered.
CheckedToTheCycle ==
    /\ call.made
    /\ Shallow(schemas, call.operation)
    /\ call.operation.hasBody
    /\ ~Recurs(schemas, call.operation.body, call.params)
    => (call.verdict = "sent" <=> /\ Allowed(schemas, call.operation, call.params)
                                  /\ ~HoldsNull(call.params))

\* What clm_invoke would send, the generated tool of the operation sends too,
\* part by part the same, but for the fields that are dates to the document: it
\* writes a date anew, and turns params down over a string that is none.
WriteToolAgrees ==
    call.made /\ call.verdict = "sent" /\ call.operation.hasBody
        => LET params == call.params
               dates == DatesOf(schemas, call.operation, params)
           IN  call.bodies =
                  IF \E path \in dates : params[path] = "scalar" THEN {}
                  ELSE {[path \in DOMAIN params |->
                           IF path \in dates THEN Rewritten(params[path]) ELSE params[path]]}

=============================================================================
