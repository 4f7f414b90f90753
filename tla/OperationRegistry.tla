-------------------------- MODULE OperationRegistry --------------------------
(***************************************************************************)
(* From process start to a serving server:                                 *)
(* src/clm_mcp/spec/registry.py merges the vendored specs into one index   *)
(* of operations, and src/clm_mcp/tools/commands.py registers a tool for   *)
(* each Command operation of the services opted into.  Either may refuse   *)
(* to start the process rather than serve a wrong operation under a name.  *)
(***************************************************************************)
EXTENDS Integers

CONSTANTS
    Services,        \* the slugs of services_catalog.SERVICES
    CommandTags,     \* the tags that end in "Command"
    ExcludedTags,    \* EXCLUDED_TAGS
    Documents,       \* vendored specs to start from, each a set of paths
    OptIns,          \* values of CLM_WRITE_TOOLS, each a set of slugs
    ToolName         \* tag and tail to the name _tool_name derives from them

\* One path and method of a spec document, and what its operation answers.
Paths == UNION Documents

ASSUME PathAssumption ==
    \A p \in Paths : /\ p.service \in Services
                     /\ p.prefixed \in BOOLEAN
                     /\ <<p.tag, p.tail>> \in DOMAIN ToolName

VARIABLES
    document,        \* the vendored specs
    writes,          \* settings.enable_writes
    optedIn,         \* settings.write_tools
    phase,           \* how far the start has come
    todo,            \* the paths, then the operations, not yet visited
    operations,      \* OperationRegistry._operations
    tools            \* the generated tools: their names to operation names

startVars == <<document, writes, optedIn, phase, todo, operations, tools>>

Phases == {"indexing", "registering", "serving", "refused"}

StartTypeOK ==
    /\ document \in Documents
    /\ writes \in BOOLEAN
    /\ optedIn \in OptIns
    /\ phase \in Phases
    /\ todo \subseteq document
    /\ operations \subseteq document
    /\ DOMAIN tools \subseteq {ToolName[w] : w \in DOMAIN ToolName}

StartInit ==
    /\ document \in Documents
    /\ writes \in BOOLEAN
    /\ optedIn \in OptIns
    /\ phase = "indexing"
    /\ todo = document
    /\ operations = {}
    /\ tools = [n \in {} |-> n]

-----------------------------------------------------------------------------
(* Names.  Two operations with one canonical name cannot both be indexed;  *)
(* two with one unqualified name can, and then the name is ambiguous.      *)

Name(p) == <<p.service, p.tag, p.tail>>
Unqualified(p) == <<p.tag, p.tail>>
IsCommand(p) == p.tag \in CommandTags

Direct(n) == {o \in operations : Name(o) = n}
Candidates(n) == {o \in operations : Unqualified(o) = n}

\* The first service loaded wins an unqualified name.
ResolveToAny(n) ==
    LET found == Direct(n) \cup Candidates(n)
    IN  IF found = {} THEN {} ELSE {CHOOSE o \in found : TRUE}

\* resolve: at most one operation, none when the name is unknown, and none
\* when AmbiguousOperationError is raised.
Resolve(n) ==
    IF Direct(n) # {} THEN Direct(n)
    ELSE {o \in Candidates(n) : Candidates(n) = {o}}

-----------------------------------------------------------------------------
Refuse ==
    /\ phase' = "refused"
    /\ UNCHANGED <<todo, operations, tools>>

Admissible(p) == p.tag \notin ExcludedTags

\* One path of _build_service: checked for its prefix before anything else,
\* skipped under an excluded tag, refused if its name is taken.
IndexPath(p) ==
    /\ phase = "indexing"
    /\ p \in todo
    /\ UNCHANGED <<document, writes, optedIn>>
    /\ \/ /\ ~p.prefixed \/ (Admissible(p) /\ Direct(Name(p)) # {})
          /\ Refuse
       \/ /\ p.prefixed
          /\ Admissible(p) => Direct(Name(p)) = {}
          /\ todo' = todo \ {p}
          /\ operations' = IF Admissible(p) THEN operations \cup {p}
                                            ELSE operations
          /\ UNCHANGED <<phase, tools>>

\* The operations that get a tool: none unless writes may execute.
Wanted ==
    {o \in operations : writes /\ IsCommand(o) /\ o.service \in optedIn}

\* An unknown slug in CLM_WRITE_TOOLS ends the process before any tool.
CheckSettings ==
    /\ phase = "indexing"
    /\ todo = {}
    /\ UNCHANGED <<document, writes, optedIn>>
    /\ \/ /\ ~(optedIn \subseteq Services)
          /\ Refuse
       \/ /\ optedIn \subseteq Services
          /\ phase' = "registering"
          /\ todo' = Wanted
          /\ UNCHANGED <<operations, tools>>

\* Registered under the operation's name, not the one derived from it.
WithToolByName(o) ==
    [t \in DOMAIN tools \cup {Name(o)} |->
        IF t = Name(o) THEN Name(o) ELSE tools[t]]

WithTool(o) ==
    LET n == ToolName[Unqualified(o)]
    IN  [t \in DOMAIN tools \cup {n} |-> IF t = n THEN Name(o) ELSE tools[t]]

\* add_tool as the SDK does it: a tool already there is replaced.
RegisterOverwriting(o) ==
    /\ phase = "registering"
    /\ o \in todo
    /\ tools' = WithTool(o)
    /\ todo' = todo \ {o}
    /\ UNCHANGED <<phase, operations, document, writes, optedIn>>

\* One operation of register's loop; a name seen twice ends the process.
RegisterTool(o) ==
    /\ phase = "registering"
    /\ o \in todo
    /\ UNCHANGED <<document, writes, optedIn>>
    /\ \/ /\ ToolName[Unqualified(o)] \in DOMAIN tools
          /\ Refuse
       \/ /\ ToolName[Unqualified(o)] \notin DOMAIN tools
          /\ tools' = WithTool(o)
          /\ todo' = todo \ {o}
          /\ UNCHANGED <<phase, operations>>

Serve ==
    /\ phase = "registering"
    /\ todo = {}
    /\ phase' = "serving"
    /\ UNCHANGED <<document, writes, optedIn, todo, operations, tools>>

StartStep ==
    \/ \E p \in todo : IndexPath(p) \/ RegisterTool(p)
    \/ CheckSettings
    \/ Serve

-----------------------------------------------------------------------------
\* A server that starts has exactly the tools it was asked for: every write
\* operation of an opted-in service has a tool of its own that runs it, none
\* was overwritten on the way, and there is no other generated tool
\* (commands.py register; the add_tool hazard of its comment).
EveryWriteHasItsTool ==
    phase = "serving" =>
        /\ \A o \in Wanted : \E t \in DOMAIN tools : tools[t] = Name(o)
        /\ \A t \in DOMAIN tools : \E o \in Wanted : tools[t] = Name(o)
=============================================================================
