# clm-mcp in TLA+

`clm-mcp` is an MCP server for the CLM business API: an LLM client calls its
tools, it calls the API with the user's token and brings the answers down to a
size a model can read. This directory holds a specification of the parts of it
where something can go wrong that a unit test hardly reaches, the TLC
configurations that check it on small instances, and proofs about it for every
value of the constants. Paths such as `auth/token_manager.py` are relative to
`src/clm_mcp/` of the repository; `PROJECT.json` maps each definition to the
lines it models.

Contents: [inventory](#the-system), [modules](#the-modules),
[correspondence](#how-the-modules-correspond-to-the-code), [runs](#the-runs),
[fairness](#fairness), [proofs](#the-proofs), [divergences](#where-code-and-documents-differ),
[limits](#what-is-not-modelled), [plan](#plan).

## The system

```
                        MCP client (calls and cancels tools)
                                      |
   curated tools (tools/*.py)   generated write tools     clm_invoke & co.
        |                        (tools/commands.py)      (tools/gateway.py)
   services/*.py                        |                        |
        |        call_list / call_object (services/common.py)    |
        +----------------+--------------+                        |
                         |              OperationRegistry (spec/registry.py)
                 shape_list_response    |                        |
                  (spec/shaping.py)     |                        |
                         +--------------+---------+--------------+
                                                  |
                       ClmApiClient (api/client.py), unwrap_envelope (api/envelope.py)
                                                  |
              TokenManager (auth/token_manager.py) --- credential file (auth/store.py)
                       |                                        |
                identity service                `clm-mcp login`, other servers
```

One asyncio process serves all tool calls. They share one `TokenManager`, one
HTTP client and one registry; the credential file is shared with other
processes.

| Component | State | Operations | What makes it correct |
|---|---|---|---|
| Token manager (`auth/token_manager.py`) | the access token and its expiry, the refresh token and its source, an `asyncio.Lock` | `get_access_token`, `force_refresh`, the refresh and password grants, write-back of a rotated token | one grant at a time; no expired token from the cache; no replaced refresh token presented; the file follows the memory; every call ends |
| Credential store (`auth/store.py`) | the credential file, a temporary file per process | `save_credentials` in a thread, `load_credentials` | the file is whole at every instant; a save is atomic; nothing is left behind |
| Models and errors (`auth/models.py`, `auth/errors.py`) | none | parse grants, decode claims | data of the above |
| API client (`api/client.py`) | per call: attempt counter, `auth_retry_used`, token | `_request_with_retry`, `_fetch_body`, `fetch_*` | a command is never repeated after it may have been carried out; retries are bounded and do not multiply; a rejected token is not sent again |
| Envelope (`api/envelope.py`) | none | `unwrap_envelope` | four failure signals in a 200, one documented exception: no failure hidden, no success turned into an error |
| Shaping (`spec/shaping.py`) | none | `shape_list_response`, `_fit_to_byte_budget` | the most rows that fit, and an honest note; a client that pages on is not led past rows it was not given |
| Registry (`spec/registry.py`, `services_catalog.py`) | the index of operations by name and by unqualified name, resolved schemas | build, `resolve`, `list_operations`, `_resolve_ref` | a name means one operation; excluded ones are not there; recursive schemas are cut where they recur and nowhere else |
| Write tools (`tools/commands.py`) | the server's table of tools | `register`, each generated tool | each write opted into has a tool of its own, which sends what `clm_invoke` would |
| Gateway (`tools/gateway.py`) | none | `clm_invoke`, `clm_list_operations`, `clm_describe_operation` | nothing the settings forbid is sent, and no request refused that the spec allows |
| Curated tools (`services/*.py`, `tools/*.py`) | none | forty reads | each asks for the shape its operation answers in |
| Settings (`config.py`) | fixed at start | parse, `write_tool_services` | a bad value refuses to start |
| Server (`server.py`) | the lifespan's singletons | start, stop | one token manager per process |
| Command line (`__main__.py`) | the credential file | `login`, run | a login reaches the next server |
| Enums (`enums.py`) | none | lookup of labels | a table |
| Logging (`logging.py`) | none | format and redact | no state |
| Vendored specs (`spec/specs/*.json`, `scripts/refresh_spec.py`) | files | `refresh_one` for each service, by hand | only a document that builds replaces one; what disappears is reported; the server still starts; the exit status is true |

What is hard in it: tool calls interleave at every `await`, and any of them may
be cancelled at any of them; the identity service may rotate a refresh token
and its answer may be lost, so a token that is used once may be gone; the thread
that writes the credential file outlives the task that started it; two
processes share that file; a timeout of a write operation leaves open whether
it happened; four services share one name space; the API signals failures
inside a 200 in several ways and, for one operation, on success too; half of the
lists count their pages from one and half from zero, and a byte limit cuts pages the
API takes for delivered; schemas refer to themselves; and the refresh of the
specs may fail, or be killed, half way through, a file it writes included.
`PROJECT.json` lists each of these at its line, with the properties about it.

## The modules

| Module | What it is |
|---|---|
| `TokenService` | abstract: what callers of a token manager may rely on |
| `TokenManager` | `auth/token_manager.py` with the identity service, the credential file, cancellation, crashes and time; implements `TokenService` |
| `MCTokenManager` | its instances for TLC |
| `TokenManagerProofs` | type correctness, single flight, liveness of a cached token, the session kept, the refinement |
| `TokenStoreProofs` | the refresh tokens: who is turned down, what is in the file, one save at a time |
| `ApiClient` | `api/client.py`, composed with `TokenService` |
| `ApiClientProofs` | types, bounded attempts, honest outcomes, no rejected token sent again |
| `CredentialRegister` | abstract: the credential file as a register |
| `CredentialFile` | `auth/store.py` step by step, on inodes; implements `CredentialRegister` |
| `MCCredentialFile` | its instance for TLC |
| `CredentialFileProofs` | types, the file is whole, no stray temporary file, the refinement |
| `ListShaping` | `spec/shaping.py` |
| `ListPaging` | extends it with a client that walks the pages of a list tool (`tools/*.py`, `call_list`) |
| `ListPagingProofs` | of both: the most rows that fit, an honest note, no row lost, good advice |
| `OperationRegistry` | start of the server: index of operations, generated tools |
| `ToolServer` | extends it with a tool call: lookup, gate, request, envelope, shape of the answer |
| `CuratedTools` | the catalogue of the forty curated tools |
| `MCToolServer` | the vendored specs' slices, and specs that drifted, for TLC |
| `ToolServerProofs` | types, generated tools, names, the gate, no failure and no success hidden |
| `SchemaResolution` | `_resolve_ref`, and the two ways params are checked against its result |
| `SpecRefresh` | `scripts/refresh_spec.py` |
| `RefreshedServer` | composes the two: a refresh, the start of a server from its files, a request |
| `MCRefreshedServer` | its documents, schemas and requests for TLC |
| `SpecRefreshProofs` | types and the four promises of a refresh |
| `RefreshedServerProofs` | the same beside a server, and what the check of a request is worth: nothing refused that the spec allows but nulls, nothing lost before a cycle, one body for both tools but for dates |

How they compose. `ApiClient` instantiates `TokenService`, one call of it for
each `get_access_token` and `force_refresh` of the retry loop, and so sees
every behaviour that `TokenManager` has been proved to have, without its
credentials. `TokenManager` takes a save for one step (`SaveDone`), which is
what `CredentialRegister` says and `CredentialFile` implements. `ToolServer`
takes the client for one step (`Answer`, `ClientFails`): what the client does
meanwhile is `ApiClient`'s. `ListPaging` runs the search of `ListShaping` once for
every page. `RefreshedServer` starts from the files that `SpecRefresh` leaves, however it
ended, and checks a request with `SchemaResolution`, which takes the place of the input
`valid` of `ToolServer`'s `Invoke`.

## How the modules correspond to the code

**TokenManager.** A step runs from one `await` to the next, because asyncio
switches tasks nowhere else. `Call` is either method up to its first await: the
look at the cached token without the lock (`Fresh`; only `get_access_token`),
then `Enter`, which is `Lock.acquire()`: at once if the lock is free and nobody
queues, else to the end of `waiters`. `Acquire` is the first of the queue waking
up with the lock. `CriticalSection` is the body of `async with`, with its second
look, and `Refresh` the choice of a credential. `IdentityAnswers` is the
service: it accepts a valid refresh token, with or without rotation, or turns
an invalid one down; it accepts or turns down a password. `Receive` is the rest of the grant:
`Granted` is `_store_active_token` up to the save, `Refused` the fall-through
from `InvalidRefreshTokenError` to the password. `SaveDone` ends the save's
thread and, if its task still waits for it, the call. `End` is every way out of
the section; it gives the lock back.

The failures are actions switched on by `Faults`: `GrantFails` (no answer, an
error status, or unreadable claims), `GrantMalformed` (the `ValidationError`
no caller translates), `SaveFails`, `Cancel` (a thread that has started goes on;
one that has not, does not), `Restart`, `Revoke`, `Login` in another process. A login
is a password grant and a save (`"login"`), or, with `--refresh-token`
(`"relogin"`), a refresh grant with the token given, which may rotate it, and a save
of the token given.
Time is a monotonic clock; the wall clock differs from it by a drift that may
be another one each time a claim is read.

Refresh tokens are numbered as they are minted. `excused` is a history
variable: the tokens that a fault, not the code, made useless to the process.
These are the revoked ones, those whose successor was in an answer that was lost
or dropped, the one in the file when the save of its successor failed, was dropped with a
cancelled call or died with the process, and a configured one after a restart, since the program cannot write
its successor into the user's settings. `RejectionExcused` says that no other
token of ours is ever turned down.

**ApiClient.** A turn of `_request_with_retry`'s loop is `NextAttempt`,
`TokenStep`s of the token service, one of eight answers, and perhaps `backoff`
or `force`. An answer that may follow the change (5xx, timeout, broken
connection, an unreadable body, and a cancellation) may or may not have `applied` the operation: that
is what makes `CommandOutcomeHonest` say something.

**CredentialFile.** An inode is named by the save that created it, `path` and
`tmp` are directory entries, `fd` and `handle` open files. `Open`, `Write`,
`Replace` are the steps of `save_credentials` (its `chmod` and rename go by the same
name and are one step), each with its failure; `Die` kills a process between any two, and
a later save of the same process id finds what it left. `OpenToRead` and `Read`
are `load_credentials`. A payload goes out in one `write(2)` when the text file
is closed: it is far below the buffer's size. `Overlap` says whether a
process may start a save while another of its saves runs. It is `FALSE` where
the token manager's lock serializes saves (`OneSaveAtATime`), and `TRUE` for what a cancelled
call makes possible.

**ListShaping.** Rows are known by the sizes of their prefixes. `Measure` is
`shape_list_response`'s first comparison, `Probe` a turn of the binary search,
`Finish` its end and the note.

**ListPaging.** `FirstPages` has the ten paged tools whose lists have rows, each with the least
`page_number` it accepts, which is its default too; the tools of a module agree.
`CountsFromOne` (external) says how the operation behind each counts. `Called` is
a call: the API's slice for page and size, and its rows, by the sizes of their prefixes, handed
to `shape_list_response`. The client is not part of the repository. It may
take a page and ask for the next (`TakePage`) until the total count is reached, or do what the note of the
response says: ask for pages of the size that fitted
(`NarrowPageSize`), or for fewer columns (`PassFields`), and start over.
`marked` records that it went past a page that said it was truncated.

**SpecRefresh.** `Fetch` or `FetchFails` is `fetch_spec`, `Check` the registry built
in isolation, `Compare` reading the vendored file and `report_diff`, `Truncate` and `Write`
the two halves of `write_text`, `Returned` a turn of `main`'s loop, `Exit` its
end, `Die` a kill. An exception nobody catches is `Abort`: status 1, the rest not
visited. That is also what an `OSError` comes to: of opening the vendored file, to read or to write it
(`OpenFails`), and of writing it once it is empty (`WriteFails`), which leaves it torn or, if only its closing failed, whole.
`main` visits the services in the order of the catalogue; the model in any, so
that nothing depends on it. A document is the set of its paths, and whether a `$ref`
in it dangles: that, the prefix and the uniqueness of names is what `OperationRegistry`
raises on.

**SchemaResolution.** A schema is a tree of objects, arrays, references by name, and scalars, of which dates (strings with
`format: date-time` or `date`) and enumerations are told apart; scalars and arrays say whether they are nullable.
`ResolveRef` counts depth as the code does: a schema's keywords lie one level below
it, the schemas of its properties two, its `items` one and the elements of its enumeration two. The cap replaces what is too deep by a
placeholder, also where a keyword should be (`Malformed`). `Validated` is
`_validate_params` with `jsonschema` external, `WriteBody` the model that `_build_params_model` derives and what
its tool dumps: without the top-level fields that are null, and with a date at the top written anew (`Rewritten`) or,
if it is none, nothing. `Allowed` is the document's own verdict, with references followed
as deep as the params go and null where the document says `nullable: true`: what the resolved schema is compared with.
`Admits` is `jsonschema`'s word on one part, which knows no `nullable`; `Complies` is the document's.
To both a format is an annotation, which is not checked.
A JSON value is given by its parts: a function from their paths, sequences of the names of fields (`Fields`)
and of indices of lists (`Places`), to what is there. A scalar is one of the type its place asks for: a date that
pydantic writes as it reads it, another one (`looseDate`: a day, an offset of zero spelt `+00:00`), or none. `SchemasOf` says which schema `jsonschema` checks each
part against, and `Valid` that all admit their parts; `Recurs`, that a part and
something around it are checked against the same named schema. Recursion is by
recursive functions throughout, over the depth, the paths or the number of steps,
so that it can be proved about; `Schemas`, the domain of `ResolveRef`'s, is the schemas of the
documents at hand with all that is inside them. `ResolutionAssumption` and `IsComponents` say what is so
of the four vendored documents: references lead somewhere, a named schema is an object or an enumeration, no array
has arrays for items, and the cap (40) is at least one. In them objects and references are never nullable, and no
schema of a request has a `required` list.

**RefreshedServer.** `StartServer` is `get_registry` at import. The schemas are one choice
while files vary, and vary after a dry run that found nothing new: what becomes of the one does not
depend on the other, and the product would only be larger.

**OperationRegistry and ToolServer.** `IndexPath` is a turn of the loop of
`_build_service`, in any order: prefix, excluded tag, name taken. The order of
a dict of JSON paths is fixed in the code; the model explores all of them so
that the refusals are seen not to depend on it. `CheckSettings` is the check of
`CLM_WRITE_TOOLS`, `RegisterTool` a turn of `register`'s loop, `Serve` the
start. A call is `Invoke`, `CallGenerated` or `CallCurated`, up to the request;
then `Answer`, which has `unwrap_envelope` (`Failed`, `Excused`) and what the
tool makes of `Data` (`Shaped`); then `Return`. Calls share no state here, so one at a
time is all there is. `Answers` (external) says which bodies the API may send:
those of a success have the shape that the spec declares, those of a failure
one of the signals. `DeclaredShapes` says what is so of the vendored specs: an object for
each operation that a curated tool reads one from, and for a command no `Data`
at all, or one without a type, which may then be anything (`Untyped`).

Definitions such as `EndHolding`, `AnyOperationRetries` or `WriteFailsUntidy`,
each next to the definition it varies, are what a plausible bug would make of it.
Nothing uses them but the mutants of `PROJECT.json`: for each property of each
passing run, one of them makes TLC find the property violated.

## The runs

The passing runs:

| Run | Instance | Shows |
|---|---|---|
| `token_manager` | 3 calls (two of `get_access_token`, one of `force_refresh`), every way to configure a process, time 0..2, lifetimes 2, skew 1, clocks that differ by 0 or -2, one token to mint, lost and malformed answers, failed saves, cancellations, a login elsewhere | `SingleFlight`, `CachedTokenLive`, `SessionKept`, `SaveKeepsFileUsable`, `EveryCallEnds`, `ImplementsTokenService` |
| `token_store` | 3 calls (one of `get_access_token`, two of `force_refresh`), three tokens to mint, no time, lost and malformed answers, crashes, revocation | `RejectionExcused`, `StoreInSync`, `ImplementsTokenService` |
| `api_client` | a query and a command | `CommandOutcomeHonest`, `AttemptsBounded`, `RejectedTokenNotReused`, `EveryCallEnds` |
| `credential_file` | 3 saves, two of them of one process, 2 loads | `FileWhole`, `TempFilesOwned`, `ImplementsRegister` |
| `list_paging` | ten tools, up to 4 rows of 1 or 4 bytes, page sizes 1, 2, 3 and 5, eleven budgets from 0 to 21 bytes | `LargestPrefix`, `NoteHonest`, `NoSilentGap`, `AdviceSuffices`, `WalkEnds` |
| `tool_server` | 12 documents, 4 opt-ins, writes on and off, all forty curated tools | `EveryWriteHasItsTool`, `Permitted`, `NameMeansOperation`, `NoFailureHidden`, `NoSuccessHidden` |
| `refreshed_server` | 2 services, 6 documents, every state of the files; 2 named schemas, of one or two properties with every reference between them, or one of them an enumeration; a body, a GET with a parameter and one without; params of up to 4 levels, nulls and dates up to the second, depth cap 7 | `ExitCodeHonest`, `OnlyAcceptedReplace`, `RemovalsReported`, `StillLoads`, `RunEnds`, `RefusalJustified`, `CheckedToTheCycle`, `WriteToolAgrees` |

Each but `token_store` also has its module's `TypeOK`. The five `violation` runs are the findings
[below](#where-code-and-documents-differ).

Why the bounds are enough. *Three calls*: one in the critical section, one
queued behind it and one that arrives, is cancelled or is resumed meanwhile; a
fourth would be a second of one of these. Each call is made once: a task that called
again would be a further caller. *Two skews and a lifetime of two*: a token
can be fresh, within the skew, and expired, and either of its two deadlines can
be the wrong one. *Three tokens to mint*: two rotations, and one more for a password
grant. `token_store` has no clock and `token_manager` few tokens because
neither's properties need the other's; the refinement is checked in both.
*Two tasks* of the client can refresh against each other, and a third would only
do it again; the counter's bound is the code's. *Three saves*: one that
dies, one that finds its temporary file, one in another process. *Four rows* give
the search intervals of every parity, and pages of which the last is full, short or
empty; with two sizes of row a budget can fit one row and not another, and the eleven
budgets are those at which some prefix of some page just fits, and those around them. A page size of
5 is larger than any list. `LargestRow` bounds a row, and with it the size of a list; `MaxSize`
is as large as the largest list needs. *Two services* are enough for a name to clash between them and for one to
fail while the other succeeds; the six documents add, drop and repeat a name, move one to an excluded
tag, have a foreign prefix, and a reference to nothing. *Two named schemas* give a cycle of
one, of two, entered from outside or inside, and a name used twice in two branches,
which is none; an enumeration is a name that leads to no object. A *depth cap of 7* is met by the recursive schemas of the instance and not by
the flat ones, as 40 is by none of the vendored ones (17 is the deepest);
*four levels* of params go twice around each cycle. Nulls and dates reach down to the
*second level* (`MaxMarks`): the top, where a tool treats them by themselves, its lists and objects, and below a
placeholder. After a refresh the schemas are one choice and the params empty, since the refresh bears on neither. `Fields` has one name that no schema has. The *documents* are slices of the
vendored specs, since exploring the order of indexing costs 2^n states for n
paths; every operation a curated tool names is in one of them, with the
shape of `Data` that its spec declares, and the rest are the smallest in which a
start is refused, a name ambiguous, or two generated names the same.

`SYMMETRY` (in `token_store`) permutes calls of the same method; they are used in
no other way, and no liveness is checked there. `CHECK_DEADLOCK FALSE` stands where the system
really may stop: all calls made and ended, the bound on time or tokens reached,
a start refused.

## Fairness

`TokenManager`'s `FairSpec` is weak fairness of each task's `Progress`: the event loop runs
what can run (`Acquire`, `Receive`), `save_credentials` comes back
(`SaveDone`), and the HTTP client's timeouts bound the wait for an answer
(`IdentityAnswers`; where it is `GrantFails` in reality, the call ends as well).
Nothing is assumed of `Call`, of faults, of time, or of a cancellation. One weak
fairness per task is enough because its steps are one after the other, and a
waiter stays enabled once the lock is free and it is at the head: nobody
overtakes, since `Enter` only takes a free lock that nobody queues for.

`ApiClient` assumes the same of each task's `Step`: a request ends with an
answer or a timeout, a backoff is a sleep, and a call of the manager ends,
which is `EveryCallEnds` of `TokenManager`. `PagingSpec` assumes that a client goes on
with the walk it began; the shaping within a page awaits nothing. `RefreshFairness`
is weak fairness of the run's next step, whichever it is: `fetch_spec` gives up after 30
seconds (`FetchFails`), and the rest waits for nobody. A server's start and calls are under no fairness.

## The proofs

All are checked by TLAPS from the modules' definitions and named `ASSUME`s, for
every number of callers, tasks, saves, rows, pages, services, documents, schemas and params, every lifetime, skew and
drift.

**Token manager** (`TokenManagerProofs`): `TypeCorrect`, `SingleFlightHolds`,
`CachedTokenLiveHolds`, `SessionKeptHolds`, `Refinement`. `SingleFlight` is not inductive: nothing in it
says that the lock is held by who is in the section. The invariant is `IInv`:
`LockInv` (the holder is exactly the task in the section), `QueueInv` (the queue
holds suspended tasks, each once: a cancelled one is out of it), `ReplyInv` (an
answer is only on its way to a task that waits for it), `StaleInv` (a
`get_access_token` that asks for a token has seen the cached one stale, and it
still is: nobody else can have replaced it, and time does not make it
fresh), `OwnInv` and `SavingInv` (whose token is cached) and `DeadlineInv` (the
expiry is no later than either deadline). Single flight is `LockInv`;
`CachedTokenLive` is `DeadlineInv` with the definition of fresh; the refinement
needs `StaleInv` for "no `get_access_token` replaces a fresh token" and
`OwnInv`, `SavingInv` for which token a call is served. `SessionKept` needs a second
invariant on top, `SessionInv`: a cached token has its refresh token and source beside it, and a refresh
grant under way presents that one, unless a restart emptied the cache. No
assumption is made on which faults happen.

**Refresh tokens** (`TokenStoreProofs`): `RejectionExcusedHolds`, `StoreInSyncHolds`,
`SaveKeepsFileUsableHolds`, `OneSaveAtATimeHolds`, over `IInv`. A token is *good* if the service
accepts it or a fault explains that it does not, and *known* if it is good or the answer with
its successor is on its way. `GoodInv` says that what the process may yet present is known:
the token in memory, the one in the file unless a save of its successor is under
way, the configured one as long as memory is empty; and that a grant under way presents a good one, unless it
has been answered. It is not inductive without `SourceInv`, by which a token is in memory and
in the file only if it came from the file (else a rotation would leave the replaced one there, and
nothing would write its successor), and `MintedInv`, by which the next token to be minted is none of those.
This takes that nobody is cancelled. With cancellations a save thread may write late and the file is not to
be relied on: `RunningInv` says the same of the memory, and of the file only while memory is empty,
which is enough as long as the process is not restarted. The two together
make `RejectionExcused` a theorem for all faults but `login --refresh-token`, and but a cancellation with a
restart; it fails with either (`login_replaced`, and the late save [below](#where-code-and-documents-differ)). `StoreInSync` follows from `SyncInv` (a stored token in memory is in the file or being written; who
presents a stored token presents the one in the file) as long as no save
fails (`token_sync`), nobody is cancelled and nobody else writes the file. `SaveKeepsFileUsable` is about just the
case where others do write it, and calls are cancelled, restarted and their saves fail: all faults but `relogin`.
It rests on `UsableInv`: a token that is granted or being saved for a call that waits is good, the one
being saved is that in memory (`WaitedInv`, by the lock: nobody replaces it meanwhile), and a process configured with a token presents none
from the file and saves none (`ConfiguredInv`). `OneSaveAtATime`
is what the proofs about the credential file assume; it needs the lock, and that
the task of each save waits for it (`AwaitedInv`), which a cancellation ends.

**API client** (`ApiClientProofs`): `TypeCorrect`, `AttemptsBoundedHolds`,
`CommandOutcomeIsHonest`, `RejectedTokenNotReusedHolds`. `Turns` relates the counter to
the place in the loop: `sends` is one less than `attempt` in `get`, and equal to it once the
request is out, and an attempt beyond the limit was bought by a 401. `Effects` and `CommandEffects` say that a
command's `applied` is 0 until its call is over, because whatever may have applied it
ends the call. For the rejected token, `TokenInv` follows the shared manager: `UnbornUnknown` (no call
has a token that is yet to be obtained), `HolderSaves`, and `Obtained` and
`Replaced`: after a 401 the call goes through a grant of its own, so by the next
`get_access_token` the rejected token is no longer the cached one and never becomes it again.

**Credential file** (`CredentialFileProofs`): `TypeCorrect`, `FileWholeHolds`,
`TempFilesOwnedHolds`, `FileImplementsRegister`, all under `~Overlap` (the run `save_threads`
shows that they fail otherwise). The argument: an inode is only written while it goes by a
temporary name; it goes by one name at a time (`Apart`), and only its own
process' one save (`OneActive`, `TempHeld`) changes that name; so no inode that a
load can reach is ever written again (`Whole`). A save takes effect with its
rename, a load with its open.

**Shaping** (`ListPagingProofs`): `LargestPrefixHolds` and `NoteHonestHolds`, with the loop
invariant that `low` rows fit and nothing longer than `high` does; it rests on
the sizes of prefixes being strictly increasing, which `TypeOK` says of them.

**Paging** (in the same module): `NoSilentGapHolds`, `AdviceSufficesHolds`, `PagingTypeCorrect`,
`EveryPageShaped`, for any lists, budgets and page sizes. The walk's invariant,
`PagingInv`, has the two properties, the loop invariant of the search (`IInv`), the ranges of the
client's variables (`WalkOK`), that what is shaped is the slice of the page that was asked for (`AtPage`), that a
response is whole or says that it is not (`Responded`), and that rows asked for with fewer
fields are of the smallest size (`Projected`). That the tools of
a module and the operations behind them agree on the number of the first page enters
with `FirstPageFacts`. The search is only about lists whose prefixes grow: the sizes of prefixes are a recursive
function, and that it exists and grows is proved by looking at the
shortest prefix of which it is false (`LeastElement`).

**Tools** (`ToolServerProofs`): `TypeCorrect`, `EveryWriteHasItsToolHolds`,
`PermittedHolds`, `NameMeansOperationHolds`, `NoFailureHiddenHolds`, `NoSuccessHiddenHolds`, for all
documents and settings,
from `IndexInv` (no two operations have one name, none is excluded) and
`ToolsInv` (while tools are registered, the wanted operations are those still to
visit and those that have a tool). `CuratedAssumption`, that the names in
`services/*.py` are of queries, is needed for `Permitted`: `call_object` has no gate.
`NoFailureHidden` is inductive beside the types: what could break it is one step, `Answer`.
`NoSuccessHidden` needs `AskedInv`, that a tool that reads an object has called an operation that declares
one: by `DeclaredShapes`, which TLC evaluates on slices of the vendored specs, and by names being unique.

**Refresh** (`SpecRefreshProofs`): `TypeCorrect`, `ReplacementSafe`, `RemovalsAreReported`,
`ExitCodeIsHonest`, `ServerStillLoads`, for any set of services and documents. The
invariant says of each service how far the run has come with it: what is still to do is as it was and
not reported, what is done was checked and, with `--write`, replaced, and the exit code is 1
exactly if some answer did not build. A torn file is that of the service being written, and only after the
truncation: until the end of the write, or for good after a failed write or a kill. `StillLoads` rests on names
beginning with their service, so that documents that build alone never clash together.

**Requests** (`RefreshedServerProofs`): `ServerTypes`, `NoUndueRefusal`, `NothingLostBeforeTheCycle`,
`ToolSendsTheSame`, and `RefreshOfTheServer`, the four promises above for the composition, for any schemas within
`ResolutionAssumption`, recursive in any way, any depth cap, and any params; the second and the third are about
schemas that the cap does not cut (`Shallow`), as it cuts none of the vendored ones. The invariant, `ServerInv`, is that
of the refresh with `Answered`: an answer was computed from what is still served. What has to be proved is
about the operators. None of the recursive functions is given: that each exists is proved first
(`ResolverExists` from the cap upwards, `GoverningExists` from the whole of a value to its parts,
`WaysOnward`, `InsideExists`), with `Induction`, stated over a set of naturals. Then:

- *The resolver on a shallow body* (`ShallowIsOpen`). A *way* is a schema with the names followed to it and its
  depth. Every step onward leads deeper, so the ways `Shallow` looks at, as many steps as the cap and one, are
  all there are: the set of them is closed, none is too deep, and the names followed to anything but an
  enumeration lead to objects.
- *What is made of a way* (`MadeOf`) is either the placeholder, of a `$ref` to a name already followed,
  or of the same type as what the way leads to, with inside it what is made of the ways onward (`Like`).
  Hence it is a JSON Schema (`MadeIsWellFormed`): a set closed under what its members hold has no `Malformed`.
- *Nothing allowed is refused but nulls* (`MadeAllows`): without a null the document's word and `jsonschema`'s on a part are
  the same; and from the whole to its parts, what checks a part is either
  anything, below a placeholder, or is made of what the document checks it against. The placeholder admits what
  the name admits, because a name that leads back into itself is that of an object.
- *Nothing is lost before the cycle* (`UpToTheCycle`): the same walk, with the names followed to a part being
  names of schemas around it. To come to a placeholder is then to enter a schema twice, which
  `Recurs` excludes, so every part is checked as the document does, and none is null (`NoNullIsValid`). That the names are those around the part and not those
  seen anywhere before is what makes this true; `SeenEverything` is the mutant.
- *One body for both tools but for dates* (`SentIsDumped`): a body schema that lets an object pass is an object, never
  the placeholder (`BodyIsNotCut`), so each part of the params is in a field the tool has;
  and a field's type, one level deep, asks no more than its schema, unless it is a date (`FieldAccepts`), because no resolved array has
  arrays for items. A field is a date to the tool exactly if it is one to the document, or was cut
  (`FieldOfBody`). This needs no shallow schema: the tool agrees with `clm_invoke` even where the cap cuts.

Only model-checked: liveness (`EveryCallEnds` of two modules, `WalkEnds`, `RunEnds`), which is beyond
the prover. Every invariant and every action property of a passing run, and both refinements, are
theorems. The `violation` runs say where a theorem's hypothesis is needed.

## Where code and documents differ

Each of the first five has a run that TLC ends with a counterexample.

1. `token_sync`: after one save that failed, the file keeps the replaced refresh
   token for good, since only a token that differs from memory is saved.
2. `login_ignored`: a running server whose token was rejected goes on presenting
   it and never looks at the file again, although the README's remedy is to log in.
3. `login_replaced`: `login --refresh-token` verifies the token with a refresh grant, throws the
   answer away and saves the token it was given (`__main__.py:109-125`). If the
   service rotates, the saved token is one that was replaced by the verification itself.
4. `save_threads`: two save threads of one process share the temporary name; the
   file can be empty or torn under its real name.
5. `konshub_lists`: `clm_list_konshub_incoming_shipments` and
   `clm_list_konshub_outgoing_shipments` always answer with no rows: the API
   answers with an object that has the rows inside, and `call_list` takes what is
   not a list for no rows.

Seen while modelling, with no run of their own:

- The save thread of a cancelled call may end after the save of the next call
  (`auth/token_manager.py:230`). The file then has the token that the later grant replaced, and a
  server that is restarted from it is turned down, though nothing failed: what `RejectionExcused` of
  `MCTokenStore.cfg` comes to with `Faults = {"cancel", "crash"}`.
- A query can be sent four times, three and one more after a 401;
  `api/client.py:11-13` says up to 3 attempts. `AttemptsBounded` states what
  holds.
- `api/client.py:5-6` says that a call fails, if at all, with `ToolError`. The `ValidationError` of a
  malformed grant (`auth/token_manager.py:264`) and the `OSError` of a save
  (`auth/token_manager.py:230-235`) get through: the outcome `escaped`.
- A stored refresh token is presented before a configured password is tried
  (`auth/token_manager.py:168-175`), against the order of the module's docstring (lines 10-13)
  and of `README.md:51-53`.
- A running server that rotates its token overwrites what `clm-mcp login` stored
  meanwhile (`auth/token_manager.py:229`), or what the next call saved, if it is the thread of a cancelled one.
  `SaveKeepsFileUsable` says what is so all the same: a save that its call waits for leaves a token that works.
- The password fallback may change the account between the lookup of the default site and the
  request: `SessionKept` is about refresh grants only.
- Concurrent `force_refresh` calls are queued, not merged: each runs a grant.
  `TokenService` says so (`Begin` of a forcing call needs no stale token).
- A budget below two bytes, which no list meets, gives a truncated answer
  even of an empty list; `NoteHonest` leaves it out.
- Three KonsHub commands declare a `Data` without a type that may be null; a generated tool
  reports a success with null, or with anything but an object, as an error, which is the
  exception in `NoSuccessHidden`.
- `register` compares generated names only with each other, not with the curated
  tools'; none coincide today.
- `scripts/refresh_spec.py:6-9` says that the refresh catches any structural problem that would
  surface later as a broken tool. It builds each document alone, so it does not see an
  unqualified name that becomes ambiguous between services, nor two generated tool
  names that coincide: those are found when the server starts or a tool is called.
- A 200 with a JSON object without `paths` builds as an empty registry: with `--write` it replaces a
  spec by nothing, reported as removals and with status 0.
- A vendored spec that a killed `--write`, or one that ran into a full disk (`scripts/refresh_spec.py:91`), left torn makes every later refresh of that service
  abort in `json.loads`; it has to be restored by other means.
- `nullable: true` means nothing to `jsonschema` (`tools/gateway.py:81`), so `clm_invoke` refuses an explicit null that
  the spec allows for nearly every field; a generated tool drops it. `CheckedToTheCycle` says so, and
  `RefusalJustified` is about params without one.
- A generated tool reads the dates at the top of its params and writes them anew, or turns down a string that is none
  (`tools/commands.py:134,177`); `clm_invoke` sends any string as it is. `WriteToolAgrees` says so.
- The placeholder of a cycle says "use clm_describe_operation for its shape", and
  `clm_describe_operation` answers with the same placeholder.
- The depth cap may replace the value of `type` or `properties`, which makes the schema
  malformed and `jsonschema` raise a `SchemaError` nobody catches. No vendored schema is so deep.
- The placeholder is an object: a recursive schema that is an array or an enumeration would be refused
  for what it is. The vendored named schemas are objects, and a few integer enumerations that
  refer to nothing; `IsComponents` says so, and `MadeAllows` needs it.
- A generated tool drops top-level fields the schema does not have, where `clm_invoke` refuses
  them; it would refuse an array of arrays, which no vendored command has.
- An operation with neither a body nor parameters accepts any params (`tools/gateway.py:86`: the empty list
  of parameters is falsy), though the document allows none, and of query parameters only the names are checked:
  `CheckedToTheCycle` is about bodies, and leaves out those that enter a
  schema twice and schemas that the cap cuts.
- `clm_list_operations` cuts its answer at 50 without saying so.
- A credential file that is not UTF-8 raises `UnicodeDecodeError` out of
  `load_credentials`, which catches `OSError` and `ValidationError`.

## What is not modelled

- File modes, `fsync` and power loss, an I/O error in the middle of a read: the
  program does nothing about them that has an order.
- The contents of rows. `strip_nulls` and `project_fields` change the sizes of rows and not
  their number, so they are in `size`. The values of a curated tool's parameters, but for the paging. Of
  the keywords of a schema, those that say which of object, array, date and other scalar a value is, and `nullable`. A
  scalar of the wrong type or outside its enumeration is not a value of the model, nor are numbers beyond 2^53, which
  pydantic's floats round; two nested schemas that name no type are left out.
- The claims of a token but its expiry: the default site is the guard `"site"`,
  met or not.
- `clm_list_operations`, `clm_describe_operation`, enums, logging, addresses, wording: no
  state that anything else depends on.
- A second server process on the same file is only there as `Login`, which is
  what it does to this one, and as a process of `CredentialFile`.

## Plan

What is built, in the order it was:

1. `TokenService`, `TokenManager`, its runs, its proofs and those of `TokenStoreProofs`: the one part
   of the system with shared mutable state between tasks; `login`, with a password and with
   `--refresh-token`.
2. `ApiClient` over `TokenService`, and `ApiClientProofs`.
3. `CredentialRegister`, `CredentialFile`, the refinement and its proof.
4. `ListShaping` and its proofs; `ListPaging` over it, and its proofs.
5. `OperationRegistry`, `ToolServer`, `CuratedTools`, and the proofs of the
   start, the names, the gate, and of `NoFailureHidden` and `NoSuccessHidden`.
6. `SchemaResolution`, `SpecRefresh` with its proofs, `RefreshedServer` and, with recursive functions in
   place of `RECURSIVE` operators, its proofs.

What is left, most useful first:

1. Two processes of `TokenManager` over one `CredentialRegister`, rotating one stored token:
   which of the two is left with a token that works.
2. The claims of a token: the account it belongs to, the default site that
   `resolve_site_id` reads, and the password fallback between that and the request.
3. `clm_list_operations` and its limit, `clm_describe_operation`.
