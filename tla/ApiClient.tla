------------------------------ MODULE ApiClient ------------------------------
(***************************************************************************)
(* src/clm_mcp/api/client.py: ClmApiClient._request_with_retry and its     *)
(* caller _fetch_body, for tasks that share one TokenManager.  The manager *)
(* is the one TokenService describes: each turn of the retry loop makes    *)
(* one get_access_token, each 401 one force_refresh, and a call of either  *)
(* is named by its task, its turn and its method.                          *)
(***************************************************************************)
EXTENDS Naturals

CONSTANTS
    Tasks,          \* the tool calls under way, one operation each
    Queries,        \* those whose operation is a *Query; the others are *Command
    NoCaller        \* no token, and no call of the manager

MAX_QUERY_ATTEMPTS == 3
MaxAttempts == MAX_QUERY_ATTEMPTS + 1    \* a turn more for the 401, at most

Requests == Tasks \X (1..MaxAttempts) \X {"get", "force"}
Forcing == {r \in Requests : r[3] = "force"}

ASSUME TaskAssumption == Queries \subseteq Tasks /\ NoCaller \notin Requests

VARIABLES
    by, fresh, refresher, phase,    \* the shared TokenService
    pc,             \* where each task is suspended in the loop
    attempt,        \* attempt
    authRetryUsed,  \* auth_retry_used
    token,          \* access_token: the manager call whose token it is
    outcome,        \* how the call ended
    sends,          \* history: how often the operation was sent
    applied,        \* history: how often the API carried it out
    rejected        \* history: the token the API answered with 401

manager == <<by, fresh, refresher, phase>>
history == <<sends, applied, rejected>>
vars == <<manager, pc, attempt, authRetryUsed, token, outcome, history>>

Manager == INSTANCE TokenService WITH Callers <- Requests

\* "escaped" is an exception that _fetch_body does not turn into a ToolError.
Outcomes == {"ok", "authError", "escaped", "timedOut", "unreachable", "unreadable",
             "refused", "serverError", "cancelled"}

TypeOK ==
    /\ Manager!TypeOK
    /\ pc \in [Tasks -> {"ready", "get", "sent", "force", "backoff", "done"}]
    /\ attempt \in [Tasks -> 0..MaxAttempts]
    /\ authRetryUsed \in [Tasks -> BOOLEAN]
    /\ token \in [Tasks -> Requests \cup {NoCaller}]
    /\ outcome \in [Tasks -> Outcomes \cup {"none"}]
    /\ sends \in [Tasks -> 0..MaxAttempts]
    /\ applied \in [Tasks -> 0..MaxAttempts]
    /\ rejected \in [Tasks -> Requests \cup {NoCaller}]

Init ==
    /\ Manager!Init
    /\ pc = [t \in Tasks |-> "ready"]
    /\ attempt = [t \in Tasks |-> 0]
    /\ authRetryUsed = [t \in Tasks |-> FALSE]
    /\ token = [t \in Tasks |-> NoCaller]
    /\ outcome = [t \in Tasks |-> "none"]
    /\ sends = [t \in Tasks |-> 0]
    /\ applied = [t \in Tasks |-> 0]
    /\ rejected = [t \in Tasks |-> NoCaller]

-----------------------------------------------------------------------------

Finish(t, result) ==
    /\ pc' = [pc EXCEPT ![t] = "done"]
    /\ outcome' = [outcome EXCEPT ![t] = result]

\* The head of the loop, up to the await of get_access_token.
NextAttempt(t) ==
    /\ attempt' = [attempt EXCEPT ![t] = @ + 1]
    /\ pc' = [pc EXCEPT ![t] = "get"]

Start(t) ==
    /\ pc[t] = "ready"
    /\ NextAttempt(t)
    /\ UNCHANGED <<manager, authRetryUsed, token, outcome, history>>

\* The manager's call the task awaits.
Awaited(t) == <<t, attempt[t], pc[t]>>

\* One step of the manager on t's behalf; t goes on in the same step when its call
\* is over: with its token into _send_once, or back to the head of the loop.
TokenStep(t) ==
    /\ pc[t] \in {"get", "force"}
    /\ Manager!CallStep(Awaited(t))
    /\ CASE phase'[Awaited(t)] = "open" ->
              UNCHANGED <<pc, attempt, token, outcome, history>>
         [] phase'[Awaited(t)] = "served" /\ pc[t] = "get" ->
              /\ token' = [token EXCEPT ![t] = by']
              /\ sends' = [sends EXCEPT ![t] = @ + 1]
              /\ pc' = [pc EXCEPT ![t] = "sent"]
              /\ UNCHANGED <<attempt, outcome, applied, rejected>>
         [] phase'[Awaited(t)] = "served" /\ pc[t] = "force" ->
              NextAttempt(t) /\ UNCHANGED <<token, outcome, history>>
         [] phase'[Awaited(t)] = "failed" ->
              /\ Finish(t, "authError") \/ Finish(t, "escaped")
              /\ UNCHANGED <<attempt, token, history>>
    /\ UNCHANGED authRetryUsed

-----------------------------------------------------------------------------
(* What comes of a request.  A 401 and a 429 leave the API's data alone; a *)
(* 5xx, a timeout and a broken connection may come after the change.       *)

Applied(t) == applied' = [applied EXCEPT ![t] = @ + 1]
MaybeApplied(t) == Applied(t) \/ UNCHANGED applied

\* A server error is retried whatever the operation.
AnyOperationRetries(t) == attempt[t] < MAX_QUERY_ATTEMPTS

\* The comparison is off by one.
RetriesOnceMore(t) == t \in Queries /\ attempt[t] <= MAX_QUERY_ATTEMPTS

\* allow_transport_retry and attempt < MAX_QUERY_ATTEMPTS
MayRetry(t) == t \in Queries /\ attempt[t] < MAX_QUERY_ATTEMPTS

\* The caller backs off and goes round again, or the call ends with `result`.
RetryOr(t, result) ==
    IF MayRetry(t)
    THEN pc' = [pc EXCEPT ![t] = "backoff"] /\ UNCHANGED outcome
    ELSE Finish(t, result)

Timeout(t) ==
    /\ pc[t] = "sent"
    /\ MaybeApplied(t)
    /\ RetryOr(t, "timedOut")
    /\ UNCHANGED <<manager, attempt, authRetryUsed, token, sends, rejected>>

\* Any other httpx error leaves the loop: _fetch_body turns it into a ToolError.
Unreachable(t) ==
    /\ pc[t] = "sent"
    /\ MaybeApplied(t)
    /\ Finish(t, "unreachable")
    /\ UNCHANGED <<manager, attempt, authRetryUsed, token, sends, rejected>>

\* A 2xx or 3xx whose body is no JSON, such as a redirect, is a ToolError as well.
Unreadable(t) ==
    /\ pc[t] = "sent"
    /\ MaybeApplied(t)
    /\ Finish(t, "unreadable")
    /\ UNCHANGED <<manager, attempt, authRetryUsed, token, sends, rejected>>

\* A 401 goes straight back to the head of the loop.
RetryWithoutRefresh(t) == NextAttempt(t)

\* The first 401 of a call awaits force_refresh.
AfterUnauthorized(t) ==
    /\ pc' = [pc EXCEPT ![t] = "force"]
    /\ UNCHANGED attempt

Unauthorized(t) ==
    /\ pc[t] = "sent"
    /\ rejected' = [rejected EXCEPT ![t] = token[t]]
    /\ IF authRetryUsed[t]
       THEN Finish(t, "refused") /\ UNCHANGED <<authRetryUsed, attempt>>
       ELSE /\ authRetryUsed' = [authRetryUsed EXCEPT ![t] = TRUE]
            /\ AfterUnauthorized(t)
            /\ UNCHANGED outcome
    /\ UNCHANGED <<manager, token, sends, applied>>

TooManyRequests(t) ==
    /\ pc[t] = "sent"
    /\ RetryOr(t, "refused")
    /\ UNCHANGED <<manager, attempt, authRetryUsed, token, history>>

ServerError(t) ==
    /\ pc[t] = "sent"
    /\ MaybeApplied(t)
    /\ RetryOr(t, "serverError")
    /\ UNCHANGED <<manager, attempt, authRetryUsed, token, sends, rejected>>

\* Any other 4xx
ClientError(t) ==
    /\ pc[t] = "sent"
    /\ Finish(t, "refused")
    /\ UNCHANGED <<manager, attempt, authRetryUsed, token, history>>

\* What the body of a 200 says is api/envelope.py's business.
Ok(t) ==
    /\ pc[t] = "sent"
    /\ Applied(t)
    /\ Finish(t, "ok")
    /\ UNCHANGED <<manager, attempt, authRetryUsed, token, sends, rejected>>

BackoffDone(t) ==
    /\ pc[t] = "backoff"
    /\ NextAttempt(t)
    /\ UNCHANGED <<manager, authRetryUsed, token, outcome, history>>

\* The client cancels the tool call, wherever it is suspended.
Cancel(t) ==
    /\ pc[t] \in {"get", "sent", "force", "backoff"}
    /\ IF pc[t] \in {"get", "force"} THEN Manager!Cancel(Awaited(t)) ELSE UNCHANGED manager
    /\ IF pc[t] = "sent" THEN MaybeApplied(t) ELSE UNCHANGED applied
    /\ Finish(t, "cancelled")
    /\ UNCHANGED <<attempt, authRetryUsed, token, sends, rejected>>

\* The cached token runs into the skew.
Age == Manager!Age /\ UNCHANGED <<pc, attempt, authRetryUsed, token, outcome, history>>

Response(t) == Timeout(t) \/ Unreachable(t) \/ Unreadable(t) \/ Unauthorized(t)
               \/ TooManyRequests(t) \/ ServerError(t) \/ ClientError(t) \/ Ok(t)

Step(t) == Start(t) \/ TokenStep(t) \/ Response(t) \/ BackoffDone(t)

Next == (\E t \in Tasks : Step(t) \/ Cancel(t)) \/ Age

Spec == Init /\ [][Next]_vars

\* The HTTP client's timeouts bound every request, the backoff is a sleep, and a
\* call of the manager ends (EveryCallEnds of TokenManager).
FairSpec == Spec /\ \A t \in Tasks : WF_vars(Step(t))

-----------------------------------------------------------------------------
(* Correctness *)

\* A command is carried out at most once, and what its caller is told is true: it
\* was, if the call succeeded; it was not, if the API or the login refused it; a
\* timeout, a 5xx, a lost connection or an unreadable answer leaves it open.
CommandOutcomeHonest ==
    \A t \in Tasks \ Queries :
        /\ applied[t] <= 1
        /\ outcome[t] = "ok" => applied[t] = 1
        /\ outcome[t] \in {"refused", "authError", "escaped"} => applied[t] = 0

\* A command is sent once and a query three times, and once more after a 401: the
\* two kinds of retry do not multiply.
AttemptsBounded ==
    \A t \in Tasks :
        sends[t] <= (IF t \in Queries THEN MAX_QUERY_ATTEMPTS ELSE 1)
                    + (IF authRetryUsed[t] THEN 1 ELSE 0)

\* No request goes out with a token that the API has answered with a 401 to the
\* same call, whatever the other tasks refresh meanwhile.
RejectedTokenNotReused ==
    [][\A t \in Tasks :
          sends'[t] # sends[t] /\ rejected[t] # NoCaller => token'[t] # rejected[t]]_vars

\* Every tool call comes to an end.
EveryCallEnds == \A t \in Tasks : pc[t] # "ready" ~> pc[t] = "done"

=============================================================================
