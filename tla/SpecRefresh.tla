---------------------------- MODULE SpecRefresh ----------------------------
(***************************************************************************)
(* One run of scripts/refresh_spec.py: each targeted service's OpenAPI     *)
(* document is downloaded, built into a registry of its own, compared with *)
(* the vendored file, and, with --write, written over it.                  *)
(*                                                                         *)
(* The targets, one service or all, are visited in any order; the run may  *)
(* be killed at any point of it, and every use of a file may fail.         *)
(***************************************************************************)
EXTENDS Integers

CONSTANTS
    Services,       \* the slugs of services_catalog.SERVICES
    Documents,      \* JSON documents, each [paths, dangling]
    ExcludedTags    \* EXCLUDED_TAGS

\* What else a vendored file may be: not there, or no JSON because a write of
\* it was cut short.
CONSTANTS Absent, Torn

\* A path is known by its service's prefix, its tag and its tail; two paths of
\* a document may share tag and tail, so they are told apart by an id.
ASSUME ServicesAssumption == Services # {}
ASSUME DocumentAssumption ==
    /\ Absent \notin Documents /\ Torn \notin Documents /\ Absent # Torn
    /\ \A d \in Documents : /\ d.dangling \in BOOLEAN
                            /\ \A p \in d.paths : p.prefixed \in BOOLEAN

-----------------------------------------------------------------------------
(* OperationRegistry(specs): specs maps slugs to documents                 *)

Listed(d) == {p \in d.paths : p.tag \notin ExcludedTags}

\* The unqualified name, as if tails were unique across services.
TagAndTail(slug, p) == <<p.tag, p.tail>>

Name(slug, p) == <<slug, p.tag, p.tail>>

Names(slug, d) == {Name(slug, p) : p \in Listed(d)}

\* The constructor returns: prefixes as the catalogue has them, no name twice,
\* no $ref of a listed operation to a schema that is not there.
Sound(d) == d \in Documents /\ ~d.dangling /\ \A p \in d.paths : p.prefixed

Constructs(specs) ==
    /\ \A s \in DOMAIN specs : Sound(specs[s])
    /\ \A s, t \in DOMAIN specs :
          \A p \in Listed(specs[s]), q \in Listed(specs[t]) :
              Name(s, p) = Name(t, q) => s = t /\ p = q

Alone(slug, d) == Constructs([s \in {slug} |-> d])

-----------------------------------------------------------------------------
VARIABLES
    targets,        \* the services asked for
    write,          \* --write
    vendored,       \* the spec files
    original,       \* the spec files before the run
    todo,           \* targets not finished
    current,        \* the service refresh_one is at
    got,            \* the document downloaded for a service, or Absent
    removed,        \* the names reported as removed, by service
    exitCode,
    pc

refreshVars == <<targets, write, vendored, original, todo, current, got,
                 removed, exitCode, pc>>

Files == Documents \cup {Absent, Torn}
Over == {"exited", "aborted", "killed"}

RefreshTypeOK ==
    /\ targets \subseteq Services
    /\ write \in BOOLEAN
    /\ vendored \in [Services -> Files]
    /\ original \in [Services -> Files]
    /\ todo \subseteq targets
    /\ current \in Services
    /\ got \in [Services -> Documents \cup {Absent}]
    /\ removed = [s \in Services |-> removed[s]]
    /\ exitCode \in {0, 1}
    /\ pc \in {"next", "fetched", "accepted", "compared", "truncated"} \cup Over

AnyService == CHOOSE s \in Services : TRUE

RefreshInit ==
    /\ targets \in {{s} : s \in Services} \cup {Services}
    /\ write \in BOOLEAN
    /\ vendored \in [Services -> Files]
    /\ original = vendored
    /\ todo = targets
    /\ current = AnyService
    /\ got = [s \in Services |-> Absent]
    /\ removed = [s \in Services |-> {}]
    /\ exitCode = 0
    /\ pc = "next"

\* fetch_spec returns whatever JSON the service answers with.
Fetch(s, d) ==
    /\ pc = "next"
    /\ s \in todo
    /\ current' = s
    /\ got' = [got EXCEPT ![s] = d]
    /\ pc' = "fetched"
    /\ UNCHANGED <<targets, write, vendored, original, todo, removed, exitCode>>

\* No exception but the constructor's is caught: the process ends with status 1.
Raised ==
    /\ pc' = "aborted"
    /\ exitCode' = 1
    /\ UNCHANGED <<targets, write, original, todo, current, got, removed>>

Abort == Raised /\ UNCHANGED vendored

\* The 30 seconds pass, the status is an error, or the body is no JSON.
FetchFails == pc = "next" /\ todo # {} /\ Abort

\* The last service's result.
Latest(code, result) == result

\* Failures counted.
Counted(code, result) == code + result

Worst(code, result) == IF code > result THEN code ELSE result

\* refresh_one returned: main's loop goes on to the next service.
Returned(result) ==
    /\ exitCode' = Worst(exitCode, result)
    /\ todo' = todo \ {current}
    /\ pc' = "next"

\* The loop does not advance past a failure.
Retried ==
    /\ exitCode' = 1
    /\ pc' = "next"
    /\ UNCHANGED <<todo, targets, write, vendored, original, current, got, removed>>

Rejected ==
    /\ Returned(1)
    /\ UNCHANGED <<targets, write, vendored, original, current, got, removed>>

Accepted ==
    /\ pc' = "accepted"
    /\ UNCHANGED <<targets, write, vendored, original, todo, current, got, removed, exitCode>>

\* Whatever was fetched.
CheckNothing == pc = "fetched" /\ Accepted

Check ==
    /\ pc = "fetched"
    /\ IF Alone(current, got[current]) THEN Accepted ELSE Rejected

\* Old and new the wrong way round.
AddedNames(slug, old, new) == Names(slug, new) \ Names(slug, old)

RemovedNames(slug, old, new) == Names(slug, old) \ Names(slug, new)

\* The vendored file is read and built as it is: if it is torn, or no longer
\* builds, the run ends here.
Compare ==
    /\ pc = "accepted"
    /\ LET old == vendored[current]
       IN  IF old # Absent /\ ~Alone(current, old) THEN Abort
           ELSE /\ pc' = "compared"
                /\ removed' = [removed EXCEPT ![current] =
                       IF old = Absent THEN {} ELSE RemovedNames(current, old, got[current])]
                /\ UNCHANGED <<targets, write, vendored, original, todo, current, got, exitCode>>

DryRun ==
    /\ pc = "compared"
    /\ ~write
    /\ Returned(0)
    /\ UNCHANGED <<targets, write, vendored, original, current, got, removed>>

\* write_text opens the file and so empties it, and then writes: not atomic.
Truncate ==
    /\ pc = "compared"
    /\ write
    /\ vendored' = [vendored EXCEPT ![current] = Torn]
    /\ pc' = "truncated"
    /\ UNCHANGED <<targets, write, original, todo, current, got, removed, exitCode>>

\* The vendored file cannot be opened, to be read or to be written (OSError).
OpenFails ==
    /\ \/ pc = "accepted" /\ vendored[current] # Absent
       \/ pc = "compared" /\ write
    /\ Abort

\* The disk is full, or the device fails, once the file is empty: what was written
\* stays, which is all of it if only closing the file failed.
WriteFails ==
    /\ pc = "truncated"
    /\ vendored' \in {vendored, [vendored EXCEPT ![current] = got[current]]}
    /\ Raised

Write ==
    /\ pc = "truncated"
    /\ vendored' = [vendored EXCEPT ![current] = got[current]]
    /\ Returned(0)
    /\ UNCHANGED <<targets, write, original, current, got, removed>>

Exit ==
    /\ pc = "next"
    /\ todo = {}
    /\ pc' = "exited"
    /\ UNCHANGED <<targets, write, vendored, original, todo, current, got, removed, exitCode>>

Die ==
    /\ pc \notin Over
    /\ pc' = "killed"
    /\ UNCHANGED <<targets, write, vendored, original, todo, current, got, removed, exitCode>>

RefreshNext ==
    \/ \E s \in Services, d \in Documents : Fetch(s, d)
    \/ FetchFails \/ Check \/ Compare \/ DryRun \/ Truncate \/ Write
    \/ OpenFails \/ WriteFails \/ Exit \/ Die

RefreshSpec == RefreshInit /\ [][RefreshNext]_refreshVars

\* The run takes its next step as long as it lives; fetch_spec gives up after 30
\* seconds, which is FetchFails.
RefreshFairness == WF_refreshVars(RefreshNext)

-----------------------------------------------------------------------------
(* Correctness *)

\* Status 0 says that every service asked for answered with a document that
\* builds, and with --write that the file now holds it; status 1 of a run that
\* was not cut short, that some answer did not build.
ExitCodeHonest ==
    pc = "exited" =>
        /\ exitCode = 0 => \A s \in targets : /\ got[s] \in Documents
                                              /\ Alone(s, got[s])
                                              /\ write => vendored[s] = got[s]
        /\ exitCode = 1 => \E s \in targets : ~Alone(s, got[s])

\* A vendored spec is touched only by --write, only for a service asked for and
\* only to put in its place a document that builds; it is torn only while that
\* goes on or when it did not come to its end, and so never more than one of them.
OnlyAcceptedReplace ==
    \A s \in Services : vendored[s] # original[s] =>
        /\ write /\ s \in targets /\ Alone(s, got[s])
        /\ \/ vendored[s] = got[s]
           \/ /\ vendored[s] = Torn
              /\ s = current
              /\ pc \in {"truncated", "aborted", "killed"}

\* No operation disappears unreported: a name that the old file had and the
\* document in its place has not was listed as removed, and before the old file
\* was opened for writing.
RemovalsReported ==
    \A s \in Services : vendored[s] # original[s] /\ original[s] \in Documents =>
        removed[s] = Names(s, original[s]) \ Names(s, got[s])

\* Building each document alone is enough for the server, which builds all of
\* them together: whenever a run stops and whatever was refreshed by then, all the
\* specs still build together but for one that was being written; a run that reached
\* its end leaves a registry that loads.
StillLoads ==
    Constructs(original) =>
        LET whole == {s \in Services : vendored[s] # Torn}
        IN  /\ Constructs([s \in whole |-> vendored[s]])
            /\ \A s \in Services \ whole : s = current /\ pc # "exited"

\* The run comes to its end, whatever the services answer.
RunEnds == <>(pc \in Over)

=============================================================================
