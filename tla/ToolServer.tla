----------------------------- MODULE ToolServer -----------------------------
(***************************************************************************)
(* A tool call from its name to its result.  The three kinds of tool that  *)
(* reach the API are clm_invoke (src/clm_mcp/tools/gateway.py), a          *)
(* generated write tool (tools/commands.py, through call_object) and a     *)
(* curated read tool (services/*.py, through call_list or call_object of   *)
(* services/common.py).  The answer's body goes through unwrap_envelope    *)
(* (api/envelope.py).  What the client does on the wire is ApiClient's.    *)
(***************************************************************************)
EXTENDS OperationRegistry

CONSTANTS
    Curated,            \* the curated read tools: [name, lists, guards]
    Unknown,            \* a name no document has
    FalseOnSuccess      \* _ALWAYS_REPORTS_ISSUCCESS_FALSE_OPERATIONS

\* What a curated tool settles before it looks its operation up: the site to ask
\* about, the length of the window of dates, the value of an enum.
Guards == {"site", "window", "enum"}

\* The operation names written in services/*.py are those of queries.
ASSUME CuratedAssumption ==
    \A t \in Curated :
        /\ t.lists \in BOOLEAN
        /\ t.guards \subseteq Guards
        /\ \A p \in Paths : t.name \in {Name(p), Unqualified(p)} => ~IsCommand(p)

\* What Data is: not in the body, null, a list of rows, an empty list, an
\* object, or an object with the rows in one of its fields.
DataShapes == {"absent", "null", "rows", "no rows", "object", "rows inside"}

\* What call_object takes: without Data, the body is the object.
ObjectShapes == {"absent", "object", "rows inside"}

\* What a Data may be that is declared without a type.
Untyped == DataShapes \ {"absent"}

\* The vendored specs declare an object for every operation that a curated tool
\* reads one from; for a command, no Data or one without a type; and a
\* Data for the operation that always reports IsSuccess as false.
ASSUME DeclaredShapes ==
    /\ \A t \in Curated, p \in Paths :
          ~t.lists /\ t.name \in {Name(p), Unqualified(p)} => p.answers \subseteq ObjectShapes
    /\ \A p \in Paths :
          /\ IsCommand(p) => p.answers \subseteq ObjectShapes \/ p.answers = Untyped
          /\ Name(p) \in FalseOnSuccess => "absent" \notin p.answers

VARIABLE call           \* the tool call being served

vars == <<startVars, call>>

Indicators == {"ErrorMessages", "ExternalError", "ValidationErrors"}

Bodies == [isSuccess : {"true", "false", "absent"}, flags : SUBSET Indicators,
           errorMessage : BOOLEAN, data : DataShapes]

NoBody == [isSuccess |-> "absent", flags |-> {}, errorMessage |-> FALSE,
           data |-> "absent"]

Idle == [pc |-> "idle"]

Names == {Name(p) : p \in Paths} \cup {Unqualified(p) : p \in Paths}
             \cup {t.name : t \in Curated} \cup {Unknown}

Kinds == {"invoke", "generated", "list", "object"}
Outcomes == {"pending", "ok", "ok empty", "tool error", "lost"}

SentCalls == [pc : {"sent", "replied"}, kind : Kinds, name : Names,
              operation : Paths, done : BOOLEAN, body : Bodies,
              outcome : Outcomes]
RefusedCalls == [pc : {"refused"}, kind : Kinds, name : Names,
                 outcome : {"tool error", "crash"}]

TypeOK == StartTypeOK /\ call \in {Idle} \cup SentCalls \cup RefusedCalls

Init == StartInit /\ call = Idle

-----------------------------------------------------------------------------
Ready == phase = "serving" /\ call = Idle

Send(k, n, o) ==
    call' = [pc |-> "sent", kind |-> k, name |-> n, operation |-> o,
             done |-> FALSE, body |-> NoBody, outcome |-> "pending"]

RefuseCall(k, n, how) ==
    call' = [pc |-> "refused", kind |-> k, name |-> n, outcome |-> how]

\* Every operation is let through.
Ungated(o) == o \in Paths

\* clm_invoke's write gate.
MayExecute(o) == writes \/ ~IsCommand(o)

\* clm_invoke: resolve, the gate, then the parameters, which a request may
\* or may not have right.
Invoke(n, valid) ==
    /\ Ready
    /\ \/ \E o \in Resolve(n) : /\ MayExecute(o)
                                /\ valid
                                /\ Send("invoke", n, o)
       \/ /\ \A o \in Resolve(n) : ~MayExecute(o) \/ ~valid
          /\ RefuseCall("invoke", n, "tool error")
    /\ UNCHANGED startVars

\* A generated tool looks its operation up again, by its canonical name.
CallGenerated(t) ==
    /\ Ready
    /\ t \in DOMAIN tools
    /\ \/ \E o \in Resolve(tools[t]) : Send("generated", tools[t], o)
       \/ /\ Resolve(tools[t]) = {}
          /\ RefuseCall("generated", tools[t], "crash")
    /\ UNCHANGED startVars

\* A curated tool refuses what one of its guards turns down (the site may be
\* nowhere to be found, or the credentials), then looks its operation up; a
\* name that resolves to nothing is a LookupError, which is not a ToolError.
CallCurated(t, unmet) ==
    LET k == IF t.lists THEN "list" ELSE "object"
    IN  /\ Ready
        /\ \/ /\ t.guards \cap unmet # {}
              /\ RefuseCall(k, t.name, "tool error")
           \/ /\ t.guards \cap unmet = {}
              /\ \/ \E o \in Resolve(t.name) : Send(k, t.name, o)
                 \/ Resolve(t.name) = {} /\ RefuseCall(k, t.name, "crash")
        /\ UNCHANGED startVars

-----------------------------------------------------------------------------
(* The API's side.  It signals a failure in the body; a query for          *)
(* something that is not there may also just have no Data.                 *)

Signalled(b) == b.isSuccess = "false" \/ b.flags # {}

\* The bodies the API may send when it did, or did not, do what was asked.
Answers(o, done) ==
    {b \in Bodies :
        /\ IsCommand(o) => b.isSuccess = "absent"
        /\ ~IsCommand(o) => b.isSuccess # "absent"
        /\ IF done
           THEN /\ b.flags = {} /\ ~b.errorMessage
                /\ b.isSuccess = "false" <=> Name(o) \in FalseOnSuccess
                /\ b.data \in o.answers
                /\ Name(o) \in FalseOnSuccess => b.data # "null"
           ELSE /\ b.data \in o.answers \cup {"null"}
                /\ \/ b.flags # {}
                   \/ b.isSuccess = "false" /\ Name(o) \notin FalseOnSuccess
                   \/ b.errorMessage /\ b.isSuccess = "false"
                   \/ ~IsCommand(o) /\ b.data = "null"}

\* The override without its conditions on the other signals.
ExcusedByData(o, b) ==
    Name(o) \in FalseOnSuccess /\ b.isSuccess = "false"
        /\ b.data \notin {"absent", "null"}

\* The override of unwrap_envelope for the operations listed there.
Excused(o, b) ==
    /\ Name(o) \in FalseOnSuccess
    /\ b.isSuccess = "false"
    /\ ~b.errorMessage
    /\ b.flags = {}
    /\ b.data \notin {"absent", "null"}

\* No operation is excused.
FailedWhenSignalled(o, b) == Signalled(b)

\* unwrap_envelope raises ToolError.
Failed(o, b) == Signalled(b) /\ ~Excused(o, b)

\* What the tool returns for a body that did not fail: a list tool takes
\* anything but a list for no rows, an object tool and a generated tool
\* take nothing but an object; a body without Data is itself the object.
Shaped(k, b) ==
    CASE k = "list" -> IF b.data = "rows" THEN "ok" ELSE "ok empty"
      [] k \in {"object", "generated"} ->
            IF b.data \in ObjectShapes THEN "ok" ELSE "tool error"
      [] k = "invoke" ->
            IF b.data \in {"null", "no rows"} THEN "ok empty" ELSE "ok"

Answer(done, b) ==
    /\ call.pc = "sent"
    /\ b \in Answers(call.operation, done)
    /\ call' = [call EXCEPT !.pc = "replied", !.done = done, !.body = b,
                  !.outcome = IF Failed(call.operation, b) THEN "tool error"
                              ELSE Shaped(call.kind, b)]
    /\ UNCHANGED startVars

\* The client raises: the operation may have been carried out or not.
ClientFails(done) ==
    /\ call.pc = "sent"
    /\ call' = [call EXCEPT !.pc = "replied", !.done = done, !.outcome = "lost"]
    /\ UNCHANGED startVars

\* The result is with the client, and the next call may come.
Return ==
    /\ call.pc \in {"replied", "refused"}
    /\ call' = Idle
    /\ UNCHANGED startVars

Next ==
    \/ StartStep /\ UNCHANGED call
    \/ \E n \in Names, valid \in BOOLEAN : Invoke(n, valid)
    \/ \E t \in DOMAIN tools : CallGenerated(t)
    \/ \E t \in Curated, unmet \in SUBSET Guards : CallCurated(t, unmet)
    \/ \E done \in BOOLEAN, b \in Bodies : Answer(done, b)
    \/ \E done \in BOOLEAN : ClientFails(done)
    \/ Return

Spec == Init /\ [][Next]_vars

-----------------------------------------------------------------------------
\* With CLM_ENABLE_WRITES=false no Command operation reaches the wire
\* whichever tool asks for it, although call_object has no gate of its own;
\* no operation under an excluded tag does under any setting or name, and a
\* curated tool never carries out a write (gateway.py clm_invoke,
\* commands.py register, registry.py _build_service).
Permitted ==
    call.pc = "sent" =>
        /\ IsCommand(call.operation) => writes
        /\ call.operation.tag \notin ExcludedTags
        /\ call.kind \in {"list", "object"} => ~IsCommand(call.operation)
        /\ call.kind = "generated" => /\ IsCommand(call.operation)
                                      /\ call.operation.service \in optedIn

\* What is sent is the one operation the name can mean: a name that more
\* than one service could answer to is sent nowhere, and a generated tool
\* looked up again by name runs the operation it was made for (resolve).
NameMeansOperation ==
    call.pc \in {"sent", "replied"} =>
        /\ call.operation \in operations
        /\ \A o \in operations :
              IF \E d \in operations : Name(d) = call.name
              THEN call.name = Name(o) <=> o = call.operation
              ELSE call.name = Unqualified(o) <=> o = call.operation

\* A failure the body signals is never reported as a success, the
\* override for the operations that always signal one included; a success
\* with no data means nothing was found (unwrap_envelope).
NoFailureHidden ==
    call.pc = "replied" =>
        /\ call.outcome = "ok" => call.done
        /\ call.outcome = "ok empty" => call.done \/ call.body.data = "null"

\* An operation that was carried out, and answered, is not reported as failed:
\* every curated tool asks for the shape its operation declares.  The exception
\* is a generated tool whose operation may answer a success with a Data of any
\* shape (unwrap_envelope, call_list, call_object, services/*.py).
NoSuccessHidden ==
    call.pc = "replied" /\ call.done /\ call.outcome = "tool error" =>
        call.kind = "generated" /\ call.operation.answers = Untyped

\* A tool that lists reports no rows only if there were none: what
\* services/konshub.py and its tools' descriptions promise.
ListsReturnTheirRows ==
    call.pc = "replied" /\ call.outcome = "ok empty" =>
        call.body.data \notin {"rows", "rows inside"}
=============================================================================
