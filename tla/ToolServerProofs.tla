-------------------------- MODULE ToolServerProofs --------------------------
(***************************************************************************)
(* For every set of documents, settings and curated tools: the generated   *)
(* tools are exactly those asked for, a name is sent as the one operation  *)
(* it can mean, no write passes a read-only server, and neither a failure  *)
(* nor a success is reported as the other.                                 *)
(***************************************************************************)
EXTENDS ToolServer, TLAPS

\* What the index holds.
IndexInv ==
    /\ \A o1, o2 \in operations : Name(o1) = Name(o2) => o1 = o2
    /\ \A o \in operations : o.tag \notin ExcludedTags

\* Each tool is of a wanted operation, and while tools are registered the
\* wanted operations are those still to visit and those that have one.
ToolsInv ==
    /\ \A t \in DOMAIN tools : \E o \in Wanted : tools[t] = Name(o)
    /\ phase = "indexing" => DOMAIN tools = {}
    /\ phase \in {"registering", "serving"} =>
          \A o \in Wanted : \/ phase = "registering" /\ o \in todo
                            \/ \E t \in DOMAIN tools : tools[t] = Name(o)
    /\ phase = "registering" => todo \subseteq Wanted
    /\ phase = "serving" => todo = {}

\* Calls are made to a server that has started.
CallInv ==
    /\ call.pc # "idle" => phase = "serving"
    /\ Permitted
    /\ NameMeansOperation

IInv == TypeOK /\ IndexInv /\ ToolsInv /\ CallInv

LEMMA InitIInv == Init => IInv
  <1> SUFFICES ASSUME Init
               PROVE  IInv
    OBVIOUS
  <1>1. TypeOK
    BY DEF Init, StartInit, TypeOK, StartTypeOK, Phases
  <1>2. IndexInv /\ ToolsInv
    BY DEF Init, StartInit, IndexInv, ToolsInv
  <1>3. CallInv
    BY DEF Init, Idle, CallInv, Permitted, NameMeansOperation
  <1> QED BY <1>1, <1>2, <1>3 DEF IInv

\* resolve returns an operation only if the name can mean no other one.
LEMMA ResolveUnique ==
    ASSUME IndexInv, NEW n, NEW o \in Resolve(n)
    PROVE  /\ o \in operations
           /\ \A p \in operations :
                 IF \E d \in operations : Name(d) = n
                 THEN n = Name(p) <=> p = o
                 ELSE n = Unqualified(p) <=> p = o
  <1>1. CASE Direct(n) # {}
    BY <1>1 DEF IndexInv, Resolve, Direct
  <1>2. CASE Direct(n) = {}
    <2>1. o \in Candidates(n) /\ Candidates(n) = {o}
      BY <1>2 DEF Resolve
    <2>2. \A d \in operations : Name(d) # n
      BY <1>2 DEF Direct
    <2> QED BY <2>1, <2>2 DEF Candidates
  <1> QED BY <1>1, <1>2

\* A call that is sent preserves the call's invariants if it is permitted.
LEMMA SendKeeps ==
    ASSUME IInv, Ready, UNCHANGED startVars,
           NEW k \in Kinds, NEW n \in Names, NEW o \in Resolve(n), Send(k, n, o),
           IsCommand(o) => writes,
           k \in {"list", "object"} => ~IsCommand(o),
           k = "generated" => IsCommand(o) /\ o.service \in optedIn
    PROVE  TypeOK' /\ CallInv'
  <1>1. /\ call'.pc = "sent" /\ call'.kind = k
        /\ call'.name = n /\ call'.operation = o
    BY DEF Send
  <1>2. /\ operations' = operations /\ phase' = "serving"
        /\ writes' = writes /\ optedIn' = optedIn
    BY DEF Ready, startVars
  <1>3. o \in operations /\ o.tag \notin ExcludedTags
    BY ResolveUnique DEF IInv, IndexInv
  <1>4. Permitted'
    BY <1>1, <1>2, <1>3 DEF Permitted, IsCommand
  <1>5. NameMeansOperation'
    BY <1>1, <1>2, ResolveUnique
    DEF IInv, NameMeansOperation, Name, Unqualified
  <1>6. o \in Paths
    BY <1>3 DEF IInv, TypeOK, StartTypeOK, Paths
  <1>7. NoBody \in Bodies
    BY DEF NoBody, Bodies, Indicators, DataShapes
  <1>8. TypeOK'
    <2>1. StartTypeOK'
      BY DEF IInv, TypeOK, StartTypeOK, startVars
    <2>2. call' \in SentCalls
      BY <1>6, <1>7 DEF Send, SentCalls, Outcomes
    <2> QED BY <2>1, <2>2 DEF TypeOK
  <1> QED BY <1>1, <1>2, <1>4, <1>5, <1>8 DEF CallInv

LEMMA RefuseCallKeeps ==
    ASSUME IInv, Ready, UNCHANGED startVars,
           NEW k \in Kinds, NEW n \in Names, NEW how \in {"tool error", "crash"},
           RefuseCall(k, n, how)
    PROVE  TypeOK' /\ CallInv'
  <1>1. TypeOK'
    BY DEF IInv, TypeOK, StartTypeOK, startVars, RefuseCall, RefusedCalls
  <1>2. CallInv'
    BY DEF Ready, startVars, RefuseCall, CallInv, Permitted, NameMeansOperation
  <1> QED BY <1>1, <1>2

\* What the start's steps do to the types.
LEMMA StartTypes ==
    ASSUME IInv, StartStep, UNCHANGED call
    PROVE  TypeOK'
  <1> USE DEF IInv, TypeOK, StartTypeOK, Phases, Refuse
  <1>1. ASSUME NEW p \in todo, IndexPath(p)
        PROVE  TypeOK'
    BY <1>1 DEF IndexPath
  <1>2. ASSUME NEW o \in todo, RegisterTool(o)
        PROVE  TypeOK'
    <2>1. CASE Refuse
      BY <1>2, <2>1 DEF RegisterTool
    <2>2. CASE tools' = WithTool(o) /\ todo' = todo \ {o}
               /\ UNCHANGED <<phase, operations>>
      <3>1. o \in Paths
        BY DEF Paths
      <3>2. ToolName[Unqualified(o)] \in {ToolName[w] : w \in DOMAIN ToolName}
        BY <3>1, PathAssumption DEF Unqualified
      <3>3. DOMAIN tools' = DOMAIN tools \cup {ToolName[Unqualified(o)]}
        BY <2>2 DEF WithTool
      <3> QED BY <1>2, <2>2, <3>2, <3>3 DEF RegisterTool
    <2> QED BY <1>2, <2>1, <2>2 DEF RegisterTool
  <1>3. ASSUME CheckSettings
        PROVE  TypeOK'
    BY <1>3 DEF CheckSettings, Wanted
  <1>4. ASSUME Serve
        PROVE  TypeOK'
    BY <1>4 DEF Serve
  <1> QED BY <1>1, <1>2, <1>3, <1>4 DEF StartStep

\* What a step of the start does to the index.
LEMMA StartIndex ==
    ASSUME IInv, StartStep
    PROVE  IndexInv'
  <1> USE DEF IInv
  <1>1. ASSUME NEW p \in todo, IndexPath(p)
        PROVE  IndexInv'
    BY <1>1
    DEF IndexPath, Refuse, IndexInv, Admissible, Direct, Name
  <1>2. ASSUME operations' = operations
        PROVE  IndexInv'
    BY <1>2 DEF IndexInv, Name
  <1> QED
    BY <1>1, <1>2 DEF StartStep, RegisterTool, Refuse, CheckSettings, Serve

\* What a step of the start does to the tools.
LEMMA StartTools ==
    ASSUME IInv, StartStep
    PROVE  ToolsInv'
  <1> USE DEF IInv
  <1>1. ASSUME NEW p \in todo, IndexPath(p)
        PROVE  ToolsInv'
    BY <1>1 DEF IndexPath, Refuse, ToolsInv
  <1>2. ASSUME NEW o \in todo, RegisterTool(o)
        PROVE  ToolsInv'
    <2>1. phase = "registering" /\ Wanted' = Wanted
      BY <1>2 DEF RegisterTool, Refuse, Wanted, IsCommand
    <2>2. CASE Refuse
      BY <1>2, <2>1, <2>2 DEF Refuse, ToolsInv, Name
    <2>3. CASE /\ ToolName[Unqualified(o)] \notin DOMAIN tools
               /\ tools' = WithTool(o)
               /\ todo' = todo \ {o}
               /\ UNCHANGED <<phase, operations>>
      <3> DEFINE n == ToolName[Unqualified(o)]
      <3>1. /\ DOMAIN tools' = DOMAIN tools \cup {n}
            /\ tools'[n] = Name(o)
            /\ \A t \in DOMAIN tools : tools'[t] = tools[t]
        BY <2>3 DEF WithTool
      <3>2. o \in Wanted
        BY <1>2, <2>1 DEF ToolsInv
      <3> QED BY <2>1, <2>3, <3>1, <3>2 DEF ToolsInv, Name
    <2> QED BY <1>2, <2>2, <2>3 DEF RegisterTool
  <1>3. ASSUME CheckSettings
        PROVE  ToolsInv'
    <2>1. DOMAIN tools = {} /\ tools' = tools /\ Wanted' = Wanted
      BY <1>3 DEF CheckSettings, Refuse, ToolsInv, Wanted, IsCommand
    <2> QED BY <1>3, <2>1 DEF CheckSettings, Refuse, ToolsInv, Name
  <1>4. ASSUME Serve
        PROVE  ToolsInv'
    BY <1>4 DEF Serve, ToolsInv, Wanted, IsCommand, Name
  <1> QED BY <1>1, <1>2, <1>3, <1>4 DEF StartStep

\* No call is made before the start is over.
LEMMA StartCall ==
    ASSUME IInv, StartStep, UNCHANGED call
    PROVE  CallInv'
  <1>1. phase # "serving"
    BY DEF StartStep, IndexPath, CheckSettings, RegisterTool, Serve
  <1>2. call'.pc = "idle"
    BY <1>1 DEF IInv, CallInv
  <1> QED BY <1>2 DEF CallInv, Permitted, NameMeansOperation

LEMMA SentIsRecord ==
    ASSUME TypeOK, call.pc = "sent"
    PROVE  call \in SentCalls
  <1>1. call # Idle
    BY DEF Idle
  <1>2. call \notin RefusedCalls
    <2>1. ASSUME call \in RefusedCalls
          PROVE  call.pc = "refused"
      BY <2>1 DEF RefusedCalls
    <2> QED BY <2>1
  <1> QED BY <1>1, <1>2 DEF TypeOK

\* A call that has its answer is still of the same operation.
LEMMA RepliedKeeps ==
    ASSUME IInv, call.pc = "sent", UNCHANGED startVars,
           NEW done \in BOOLEAN, NEW b \in Bodies, NEW how \in Outcomes,
           call' = [call EXCEPT !.pc = "replied", !.done = done, !.body = b,
                                !.outcome = how]
    PROVE  TypeOK' /\ CallInv'
  <1>1. call \in SentCalls
    BY SentIsRecord DEF IInv
  <1>2. /\ call' \in SentCalls
        /\ call'.pc = "replied"
        /\ call'.name = call.name
        /\ call'.operation = call.operation
    BY <1>1 DEF SentCalls
  <1>3. TypeOK'
    BY <1>2 DEF IInv, TypeOK, StartTypeOK, startVars
  <1>4. CallInv'
    BY <1>2
    DEF IInv, startVars, CallInv, Permitted, NameMeansOperation, Name,
        Unqualified
  <1> QED BY <1>3, <1>4

LEMMA NextIInv == IInv /\ [Next]_vars => IInv'
  <1> SUFFICES ASSUME IInv, [Next]_vars
               PROVE  IInv'
    OBVIOUS
  <1> USE DEF IInv
  <1>1. CASE StartStep /\ UNCHANGED call
    BY <1>1, StartTypes, StartIndex, StartTools, StartCall
  <1>2. ASSUME UNCHANGED startVars
        PROVE  IndexInv' /\ ToolsInv'
    BY <1>2 DEF startVars, IndexInv, ToolsInv, Wanted, IsCommand, Name
  <1>3. ASSUME NEW n \in Names, NEW valid \in BOOLEAN, Invoke(n, valid)
        PROVE  IInv'
    <2>1. ASSUME NEW o \in Resolve(n), MayExecute(o), Send("invoke", n, o)
          PROVE  TypeOK' /\ CallInv'
      BY <1>3, <2>1, SendKeeps DEF Invoke, MayExecute, Kinds
    <2> QED BY <1>2, <1>3, <2>1, RefuseCallKeeps DEF Invoke, Kinds
  <1>4. ASSUME NEW t \in DOMAIN tools, CallGenerated(t)
        PROVE  IInv'
    <2>1. PICK w \in Wanted : tools[t] = Name(w)
      BY DEF ToolsInv
    <2>2. tools[t] \in Names
      BY <2>1 DEF Wanted, Names, TypeOK, StartTypeOK, Paths
    <2>3. ASSUME NEW o \in Resolve(tools[t]), Send("generated", tools[t], o)
          PROVE  TypeOK' /\ CallInv'
      <3>1. o = w
        BY <2>1, <2>3, ResolveUnique DEF Wanted
      <3>2. writes /\ IsCommand(o) /\ o.service \in optedIn
        BY <2>1, <3>1 DEF Wanted
      <3> QED BY <1>4, <2>2, <2>3, <3>2, SendKeeps DEF CallGenerated, Kinds
    <2> QED BY <1>2, <1>4, <2>2, <2>3, RefuseCallKeeps DEF CallGenerated, Kinds
  <1>5. ASSUME NEW t \in Curated, NEW unmet \in SUBSET Guards, CallCurated(t, unmet)
        PROVE  IInv'
    <2> DEFINE k == IF t.lists THEN "list" ELSE "object"
    <2>1. k \in Kinds /\ t.name \in Names
      BY DEF Kinds, Names
    <2>2. ASSUME NEW o \in Resolve(t.name), Send(k, t.name, o)
          PROVE  TypeOK' /\ CallInv'
      <3>1. o \in Paths
        BY <2>2, ResolveUnique DEF TypeOK, StartTypeOK, Paths
      <3>2. t.name \in {Name(o), Unqualified(o)}
        BY <2>2 DEF Resolve, Direct, Candidates
      <3>3. ~IsCommand(o)
        BY <3>1, <3>2, CuratedAssumption
      <3> QED BY <1>5, <2>1, <2>2, <3>3, SendKeeps DEF CallCurated
    <2> QED BY <1>2, <1>5, <2>1, <2>2, RefuseCallKeeps DEF CallCurated
  <1>6. ASSUME NEW done \in BOOLEAN, NEW b \in Bodies, Answer(done, b)
        PROVE  IInv'
    <2> DEFINE how == IF Failed(call.operation, b) THEN "tool error"
                      ELSE Shaped(call.kind, b)
    <2>1. call.kind \in Kinds
      BY <1>6, SentIsRecord DEF Answer, SentCalls
    <2>2. how \in Outcomes
      BY <2>1 DEF Shaped, Outcomes, Kinds
    <2> QED BY <1>2, <1>6, <2>2, RepliedKeeps DEF Answer
  <1>7. ASSUME NEW done \in BOOLEAN, ClientFails(done)
        PROVE  IInv'
    <2>1. call \in SentCalls
      BY <1>7, SentIsRecord DEF ClientFails
    <2>2. call' = [call EXCEPT !.pc = "replied", !.done = done,
                               !.body = call.body, !.outcome = "lost"]
      BY <1>7, <2>1 DEF ClientFails, SentCalls
    <2>3. call.body \in Bodies
      BY <2>1 DEF SentCalls
    <2> QED
      BY <1>2, <1>7, <2>2, <2>3, RepliedKeeps DEF ClientFails, Outcomes
  <1>8. CASE Return
    <2>1. TypeOK'
      BY <1>8 DEF Return, startVars, TypeOK, StartTypeOK
    <2>2. CallInv'
      BY <1>8 DEF Return, Idle, CallInv, Permitted, NameMeansOperation
    <2> QED BY <1>2, <1>8, <2>1, <2>2 DEF Return
  <1>9. CASE UNCHANGED vars
    <2>1. TypeOK' /\ CallInv'
      BY <1>9
      DEF vars, startVars, TypeOK, StartTypeOK, CallInv, Permitted,
          NameMeansOperation, IsCommand, Name, Unqualified
    <2> QED BY <1>2, <1>9, <2>1 DEF vars
  <1> QED
    BY <1>1, <1>3, <1>4, <1>5, <1>6, <1>7, <1>8, <1>9 DEF Next

\* The inductive invariant holds of every behaviour.
THEOREM Invariance == Spec => []IInv
  BY InitIInv, NextIInv, PTL DEF Spec

\* Every variable keeps its type (what TLC checks as TypeOK).
THEOREM TypeCorrect == Spec => []TypeOK
  <1>1. IInv => TypeOK
    BY DEF IInv
  <1> QED BY Invariance, <1>1, PTL

\* A write is sent only where writes may execute, an excluded operation
\* never, and a generated tool sends nothing but the writes opted into
\* (gateway.py clm_invoke, commands.py register, registry.py EXCLUDED_TAGS).
THEOREM PermittedHolds == Spec => []Permitted
  <1>1. IInv => Permitted
    BY DEF IInv, CallInv
  <1> QED BY Invariance, <1>1, PTL

\* The operation sent is the only one its name can mean, whatever the
\* documents share (registry.py resolve).
THEOREM NameMeansOperationHolds == Spec => []NameMeansOperation
  <1>1. IInv => NameMeansOperation
    BY DEF IInv, CallInv
  <1> QED BY Invariance, <1>1, PTL

\* A server that starts has a tool for every write asked for and no other
\* (commands.py register).
THEOREM EveryWriteHasItsToolHolds == Spec => []EveryWriteHasItsTool
  <1>1. IInv => EveryWriteHasItsTool
    BY DEF IInv, ToolsInv, EveryWriteHasItsTool
  <1> QED BY Invariance, <1>1, PTL

-----------------------------------------------------------------------------
\* What unwrap_envelope and the shape of a tool make of a failure's body.
LEMMA FailureShows ==
    ASSUME NEW o, NEW k \in Kinds, NEW b \in Answers(o, FALSE), ~Failed(o, b)
    PROVE  /\ b.data = "null"
           /\ Shaped(k, b) # "ok"
  <1>1. b \in Bodies
    BY DEF Answers
  <1>2. b.flags = {} \/ Failed(o, b)
    BY DEF Failed, Signalled, Excused
  <1>3. b.isSuccess = "false" => Name(o) \in FalseOnSuccess /\ ~b.errorMessage
    BY DEF Failed, Signalled, Excused
  <1>4. b.data = "null"
    BY <1>2, <1>3 DEF Answers
  <1> QED BY <1>4 DEF Shaped, ObjectShapes, Kinds

LEMMA NextNoFailureHidden ==
    IInv /\ NoFailureHidden /\ [Next]_vars => NoFailureHidden'
  <1> SUFFICES ASSUME IInv, NoFailureHidden, [Next]_vars
               PROVE  NoFailureHidden'
    OBVIOUS
  <1>1. ASSUME NEW k, NEW n, NEW o, Send(k, n, o)
        PROVE  NoFailureHidden'
    BY <1>1 DEF Send, NoFailureHidden
  <1>2. ASSUME NEW k, NEW n, NEW how, RefuseCall(k, n, how)
        PROVE  NoFailureHidden'
    BY <1>2 DEF RefuseCall, NoFailureHidden
  <1>3. CASE UNCHANGED call
    BY <1>3 DEF NoFailureHidden
  <1>4. ASSUME NEW n \in Names, NEW valid \in BOOLEAN, Invoke(n, valid)
        PROVE  NoFailureHidden'
    BY <1>1, <1>2, <1>4 DEF Invoke
  <1>5. ASSUME NEW t \in DOMAIN tools, CallGenerated(t)
        PROVE  NoFailureHidden'
    BY <1>1, <1>2, <1>5 DEF CallGenerated
  <1>6. ASSUME NEW t \in Curated, NEW unmet \in SUBSET Guards, CallCurated(t, unmet)
        PROVE  NoFailureHidden'
    BY <1>1, <1>2, <1>6 DEF CallCurated
  <1>7. ASSUME NEW done \in BOOLEAN, NEW b \in Bodies, Answer(done, b)
        PROVE  NoFailureHidden'
    <2>1. call \in SentCalls
      BY <1>7, SentIsRecord DEF Answer, IInv
    <2>2. /\ call'.done = done
          /\ call'.body = b
          /\ call'.outcome = IF Failed(call.operation, b) THEN "tool error"
                             ELSE Shaped(call.kind, b)
      BY <1>7, <2>1 DEF Answer, SentCalls
    <2>3. CASE done
      BY <2>2, <2>3 DEF NoFailureHidden
    <2>4. CASE ~done /\ Failed(call.operation, b)
      BY <2>2, <2>4 DEF NoFailureHidden
    <2>5. CASE ~done /\ ~Failed(call.operation, b)
      <3>1. call.kind \in Kinds /\ b \in Answers(call.operation, FALSE)
        BY <1>7, <2>1, <2>5 DEF Answer, SentCalls
      <3>2. b.data = "null" /\ Shaped(call.kind, b) # "ok"
        BY <2>5, <3>1, FailureShows
      <3> QED BY <2>2, <2>5, <3>2 DEF NoFailureHidden
    <2> QED BY <2>3, <2>4, <2>5
  <1>8. ASSUME NEW done \in BOOLEAN, ClientFails(done)
        PROVE  NoFailureHidden'
    <2>1. call \in SentCalls
      BY <1>8, SentIsRecord DEF ClientFails, IInv
    <2>2. call'.outcome = "lost"
      BY <1>8, <2>1 DEF ClientFails, SentCalls
    <2> QED BY <2>2 DEF NoFailureHidden
  <1>9. CASE Return
    BY <1>9 DEF Return, Idle, NoFailureHidden
  <1> QED
    BY <1>3, <1>4, <1>5, <1>6, <1>7, <1>8, <1>9 DEF Next, vars

\* A failure the body signals is never reported as a success, whatever the
\* operation, the tool and the list of operations that always signal one: the
\* override is given up as soon as another signal joins in (envelope.py
\* unwrap_envelope, common.py call_list and call_object).
THEOREM NoFailureHiddenHolds == Spec => []NoFailureHidden
  <1>1. Init => NoFailureHidden
    <2>1. ASSUME Init PROVE call.pc = "idle"
      BY <2>1 DEF Init, Idle
    <2> QED BY <2>1 DEF NoFailureHidden
  <1> QED BY Invariance, <1>1, NextNoFailureHidden, PTL DEF Spec

-----------------------------------------------------------------------------
\* A call_object tool is sent to an operation that declares an object.
AskedInv ==
    call.pc = "sent" /\ call.kind = "object" => call.operation.answers \subseteq ObjectShapes

\* What unwrap_envelope and the shape of a tool make of a success' body.
LEMMA SuccessShows ==
    ASSUME NEW o \in Paths, NEW k \in Kinds, NEW b \in Answers(o, TRUE),
           k = "object" => o.answers \subseteq ObjectShapes,
           k = "generated" => IsCommand(o)
    PROVE  /\ ~Failed(o, b)
           /\ Shaped(k, b) = "tool error" => k = "generated" /\ o.answers = Untyped
  <1>1. /\ b.flags = {} /\ ~b.errorMessage
        /\ b.isSuccess = "false" <=> Name(o) \in FalseOnSuccess
        /\ b.data \in o.answers
        /\ Name(o) \in FalseOnSuccess => b.data # "null"
    BY DEF Answers
  <1>2. ~Failed(o, b)
    <2>1. Name(o) \in FalseOnSuccess => b.data \notin {"absent", "null"}
      BY <1>1, DeclaredShapes
    <2> QED BY <1>1, <2>1 DEF Failed, Signalled, Excused
  <1>3. ASSUME Shaped(k, b) = "tool error"
        PROVE  k = "generated" /\ o.answers = Untyped
    <2>1. k \in {"object", "generated"} /\ b.data \notin ObjectShapes
      BY <1>3 DEF Shaped, Kinds
    <2>2. k = "generated"
      BY <1>1, <2>1
    <2> QED BY <1>1, <2>1, <2>2, DeclaredShapes
  <1> QED BY <1>2, <1>3

LEMMA NextNoSuccessHidden ==
    IInv /\ AskedInv /\ NoSuccessHidden /\ [Next]_vars => AskedInv' /\ NoSuccessHidden'
  <1> SUFFICES ASSUME IInv, AskedInv, NoSuccessHidden, [Next]_vars
               PROVE  AskedInv' /\ NoSuccessHidden'
    OBVIOUS
  <1>1. ASSUME NEW k, NEW n, NEW o, Send(k, n, o),
               k = "object" => o.answers \subseteq ObjectShapes
        PROVE  AskedInv' /\ NoSuccessHidden'
    BY <1>1 DEF Send, AskedInv, NoSuccessHidden
  <1>2. ASSUME NEW k, NEW n, NEW how, RefuseCall(k, n, how)
        PROVE  AskedInv' /\ NoSuccessHidden'
    BY <1>2 DEF RefuseCall, AskedInv, NoSuccessHidden
  <1>3. CASE UNCHANGED call
    BY <1>3 DEF AskedInv, NoSuccessHidden
  <1>4. ASSUME NEW n \in Names, NEW valid \in BOOLEAN, Invoke(n, valid)
        PROVE  AskedInv' /\ NoSuccessHidden'
    BY <1>1, <1>2, <1>4 DEF Invoke
  <1>5. ASSUME NEW t \in DOMAIN tools, CallGenerated(t)
        PROVE  AskedInv' /\ NoSuccessHidden'
    BY <1>1, <1>2, <1>5 DEF CallGenerated
  <1>6. ASSUME NEW t \in Curated, NEW unmet \in SUBSET Guards, CallCurated(t, unmet)
        PROVE  AskedInv' /\ NoSuccessHidden'
    <2> DEFINE k == IF t.lists THEN "list" ELSE "object"
    <2>1. ASSUME NEW o \in Resolve(t.name), Send(k, t.name, o)
          PROVE  AskedInv' /\ NoSuccessHidden'
      <3>1. o \in Paths
        BY <2>1, ResolveUnique DEF IInv, TypeOK, StartTypeOK, Paths
      <3>2. t.name \in {Name(o), Unqualified(o)}
        BY <2>1 DEF Resolve, Direct, Candidates
      <3>3. k = "object" => o.answers \subseteq ObjectShapes
        BY <3>1, <3>2, DeclaredShapes
      <3> QED BY <1>1, <2>1, <3>3
    <2> QED BY <1>2, <1>6, <2>1 DEF CallCurated
  <1>7. ASSUME NEW done \in BOOLEAN, NEW b \in Bodies, Answer(done, b)
        PROVE  AskedInv' /\ NoSuccessHidden'
    <2>1. call \in SentCalls
      BY <1>7, SentIsRecord DEF Answer, IInv
    <2>2. /\ call'.pc = "replied"
          /\ call'.done = done
          /\ call'.kind = call.kind /\ call'.operation = call.operation
          /\ call'.outcome = IF Failed(call.operation, b) THEN "tool error"
                             ELSE Shaped(call.kind, b)
      BY <1>7, <2>1 DEF Answer, SentCalls
    <2>3. CASE done
      <3>1. /\ call.kind \in Kinds /\ call.operation \in Paths
            /\ b \in Answers(call.operation, TRUE)
        BY <1>7, <2>1, <2>3 DEF Answer, SentCalls
      <3>2. /\ call.kind = "object" => call.operation.answers \subseteq ObjectShapes
            /\ call.kind = "generated" => IsCommand(call.operation)
        BY <1>7 DEF Answer, AskedInv, IInv, CallInv, Permitted
      <3>3. call'.outcome = "tool error" =>
              call.kind = "generated" /\ call.operation.answers = Untyped
        BY <2>2, <3>1, <3>2, SuccessShows
      <3> QED BY <2>2, <3>3 DEF AskedInv, NoSuccessHidden
    <2>4. CASE ~done
      BY <2>2, <2>4 DEF AskedInv, NoSuccessHidden
    <2> QED BY <2>3, <2>4
  <1>8. ASSUME NEW done \in BOOLEAN, ClientFails(done)
        PROVE  AskedInv' /\ NoSuccessHidden'
    <2>1. call \in SentCalls
      BY <1>8, SentIsRecord DEF ClientFails, IInv
    <2>2. call'.outcome = "lost" /\ call'.pc = "replied"
      BY <1>8, <2>1 DEF ClientFails, SentCalls
    <2> QED BY <2>2 DEF AskedInv, NoSuccessHidden
  <1>9. CASE Return
    BY <1>9 DEF Return, Idle, AskedInv, NoSuccessHidden
  <1> QED
    BY <1>3, <1>4, <1>5, <1>6, <1>7, <1>8, <1>9 DEF Next, vars

\* An operation that was carried out and answered is reported as failed by no
\* tool but a generated one whose operation declares no type for its Data, as long
\* as the documents declare what the curated tools ask for (envelope.py
\* unwrap_envelope, common.py call_list and call_object).
THEOREM NoSuccessHiddenHolds == Spec => []NoSuccessHidden
  <1>1. Init => AskedInv /\ NoSuccessHidden
    <2>1. ASSUME Init PROVE call.pc = "idle"
      BY <2>1 DEF Init, Idle
    <2> QED BY <2>1 DEF AskedInv, NoSuccessHidden
  <1> QED BY Invariance, <1>1, NextNoSuccessHidden, PTL DEF Spec

=============================================================================
