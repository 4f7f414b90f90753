-------------------------- MODULE ApiClientProofs --------------------------
(***************************************************************************)
(* ApiClient for any number of tasks: its types, the bound on how often an *)
(* operation is sent, the truth of a command's outcome, and that no        *)
(* request goes out with a token that has been rejected.                   *)
(***************************************************************************)
EXTENDS ApiClient, TLAPS

-----------------------------------------------------------------------------
(* The inductive invariant.  `attempt` counts the turns of the loop: none  *)
(* has sent its request yet in "get", every one has in the other places.   *)

Limit(t) == IF t \in Queries THEN MAX_QUERY_ATTEMPTS ELSE 1
Extra(t) == IF authRetryUsed[t] THEN 1 ELSE 0

Turns(t) ==
    /\ pc[t] = "ready" => attempt[t] = 0 /\ sends[t] = 0
    /\ pc[t] = "get" => attempt[t] >= 1 /\ sends[t] = attempt[t] - 1
    /\ pc[t] \in {"sent", "force", "backoff"} => attempt[t] >= 1 /\ sends[t] = attempt[t]
    /\ pc[t] = "force" => authRetryUsed[t] /\ attempt[t] <= Limit(t)
    /\ pc[t] = "backoff" => t \in Queries /\ attempt[t] < MAX_QUERY_ATTEMPTS
    /\ attempt[t] <= Limit(t) + Extra(t)
    /\ sends[t] <= Limit(t) + Extra(t)

\* The API carries out no more than it was sent, and what is under way has not
\* been carried out.
Effects(t) ==
    /\ applied[t] <= sends[t]
    /\ pc[t] = "sent" => applied[t] < sends[t]
    /\ pc[t] # "done" => outcome[t] = "none"

\* A command that was or may have been carried out is over.
CommandEffects(t) ==
    t \notin Queries =>
        /\ pc[t] # "done" => applied[t] = 0
        /\ applied[t] <= 1
        /\ outcome[t] = "ok" => applied[t] = 1
        /\ outcome[t] \in {"refused", "authError", "escaped"} => applied[t] = 0

TaskInv(t) == Turns(t) /\ Effects(t) /\ CommandEffects(t)

IInv == TypeOK /\ \A t \in Tasks : TaskInv(t)

LEMMA InitIInv == Init => IInv
<1> SUFFICES ASSUME Init PROVE IInv
  OBVIOUS
<1>1. Manager!TypeOK
  BY DEF Init, Manager!Init, Manager!TypeOK
<1>2. TypeOK
  BY <1>1 DEF Init, TypeOK, MaxAttempts, MAX_QUERY_ATTEMPTS
<1>3. ASSUME NEW t \in Tasks PROVE TaskInv(t)
  BY <1>2 DEF Init, TaskInv, Turns, Effects, CommandEffects, Limit, Extra, MAX_QUERY_ATTEMPTS
<1> QED
  BY <1>2, <1>3 DEF IInv

-----------------------------------------------------------------------------
(* The shared manager                                                      *)

LEMMA ManagerTypes ==
    ASSUME Manager!TypeOK, NEW c \in Requests, Manager!CallStep(c) \/ Manager!Cancel(c)
    PROVE  Manager!TypeOK'
<1>1. CASE Manager!Begin(c)
  BY <1>1 DEF Manager!Begin, Manager!TypeOK
<1>2. CASE Manager!Install(c)
  BY <1>2 DEF Manager!Install, Manager!TypeOK
<1>3. CASE Manager!Serve(c)
  BY <1>3 DEF Manager!Serve, Manager!Release, Manager!TypeOK
<1>4. CASE Manager!Fail(c)
  BY <1>4 DEF Manager!Fail, Manager!Release, Manager!TypeOK
<1>5. CASE Manager!Cancel(c)
  BY <1>5 DEF Manager!Cancel, Manager!Release, Manager!TypeOK
<1> QED
  BY <1>1, <1>2, <1>3, <1>4, <1>5 DEF Manager!CallStep

\* A task that awaits the manager awaits one of its calls.
LEMMA AwaitedIsRequest ==
    ASSUME IInv, NEW t \in Tasks, pc[t] \in {"get", "force"}
    PROVE  Awaited(t) \in Requests
BY DEF IInv, TypeOK, TaskInv, Turns, Awaited, Requests

\* What the other tasks know is not touched by a step of t.
Private(t) == \A u \in Tasks \ {t} :
    /\ pc'[u] = pc[u] /\ attempt'[u] = attempt[u] /\ authRetryUsed'[u] = authRetryUsed[u]
    /\ outcome'[u] = outcome[u] /\ sends'[u] = sends[u] /\ applied'[u] = applied[u]

LEMMA PrivateKeeps ==
    ASSUME IInv, NEW t \in Tasks, Private(t), TaskInv(t)', TypeOK'
    PROVE  IInv'
<1>1. ASSUME NEW u \in Tasks \ {t} PROVE TaskInv(u)'
  BY DEF IInv, Private, TaskInv, Turns, Effects, CommandEffects, Limit, Extra
<1> QED
  BY <1>1 DEF IInv

-----------------------------------------------------------------------------
(* The steps of a task                                                     *)

\* What is known of t before its step.
LEMMA TaskFacts ==
    ASSUME IInv, NEW t \in Tasks
    PROVE  /\ Turns(t) /\ Effects(t) /\ CommandEffects(t)
           /\ attempt[t] \in Nat /\ sends[t] \in Nat /\ applied[t] \in Nat
           /\ authRetryUsed[t] \in BOOLEAN
           /\ Limit(t) \in 1..3
BY DEF IInv, TypeOK, TaskInv, Limit, MAX_QUERY_ATTEMPTS

LEMMA LoopKeeps ==
    ASSUME IInv, NEW t \in Tasks, Start(t) \/ BackoffDone(t)
    PROVE  IInv'
<1>1. Private(t)
  BY DEF IInv, TypeOK, Start, BackoffDone, NextAttempt, history, Private
<1>2. TypeOK'
  BY TaskFacts DEF IInv, TypeOK, Start, BackoffDone, NextAttempt, history, manager,
                   Manager!TypeOK, Turns, Limit, Extra, MaxAttempts, MAX_QUERY_ATTEMPTS
<1>3. TaskInv(t)'
  BY TaskFacts DEF IInv, TypeOK, Start, BackoffDone, NextAttempt, history,
                   TaskInv, Turns, Effects, CommandEffects, Limit, Extra, MAX_QUERY_ATTEMPTS
<1> QED
  BY <1>1, <1>2, <1>3, PrivateKeeps

LEMMA TokenStepKeeps ==
    ASSUME IInv, NEW t \in Tasks, TokenStep(t)
    PROVE  IInv'
<1>1. Awaited(t) \in Requests
  BY AwaitedIsRequest DEF TokenStep
<1>2. Manager!TypeOK'
  BY <1>1, ManagerTypes DEF IInv, TypeOK, TokenStep
<1>3. phase'[Awaited(t)] \in {"open", "served", "failed"}
  BY <1>1, <1>2 DEF Manager!TypeOK
<1>4. CASE phase'[Awaited(t)] = "open"
  <2>1. UNCHANGED <<pc, attempt, token, outcome, history, authRetryUsed>>
    BY <1>4 DEF TokenStep
  <2> QED
    BY <1>2, <2>1 DEF IInv, TypeOK, history, TaskInv, Turns, Effects, CommandEffects, Limit, Extra
<1>5. CASE phase'[Awaited(t)] = "served" /\ pc[t] = "get"
  <2>1. /\ token' = [token EXCEPT ![t] = by']
        /\ sends' = [sends EXCEPT ![t] = @ + 1]
        /\ pc' = [pc EXCEPT ![t] = "sent"]
        /\ UNCHANGED <<attempt, outcome, applied, rejected, authRetryUsed>>
    BY <1>5 DEF TokenStep
  <2>2. by' \in Requests \cup {NoCaller}
    BY <1>2 DEF Manager!TypeOK
  <2>3. Private(t)
    BY <2>1 DEF IInv, TypeOK, Private
  <2>4. TypeOK'
    BY <1>2, <1>5, <2>1, <2>2, TaskFacts
       DEF IInv, TypeOK, Turns, Limit, Extra, MaxAttempts, MAX_QUERY_ATTEMPTS
  <2>5. TaskInv(t)'
    BY <1>5, <2>1, TaskFacts
       DEF IInv, TypeOK, TaskInv, Turns, Effects, CommandEffects, Limit, Extra
  <2> QED
    BY <2>3, <2>4, <2>5, PrivateKeeps
<1>6. CASE phase'[Awaited(t)] = "served" /\ pc[t] = "force"
  <2>1. NextAttempt(t) /\ UNCHANGED <<token, outcome, history, authRetryUsed>>
    BY <1>6 DEF TokenStep
  <2>2. Private(t)
    BY <2>1 DEF IInv, TypeOK, NextAttempt, history, Private
  <2>3. TypeOK'
    BY <1>2, <1>6, <2>1, TaskFacts
       DEF IInv, TypeOK, NextAttempt, history, Turns, Limit, Extra, MaxAttempts,
           MAX_QUERY_ATTEMPTS
  <2>4. TaskInv(t)'
    BY <1>6, <2>1, TaskFacts
       DEF IInv, TypeOK, NextAttempt, history, TaskInv, Turns, Effects, CommandEffects,
           Limit, Extra
  <2> QED
    BY <2>2, <2>3, <2>4, PrivateKeeps
<1>7. CASE phase'[Awaited(t)] = "failed"
  <2>1. /\ Finish(t, "authError") \/ Finish(t, "escaped")
        /\ UNCHANGED <<attempt, token, history, authRetryUsed>>
        /\ pc[t] \in {"get", "force"}
    BY <1>7 DEF TokenStep
  <2>2. Private(t)
    BY <2>1 DEF IInv, TypeOK, Finish, history, Private
  <2>3. TypeOK'
    BY <1>2, <2>1 DEF IInv, TypeOK, Finish, history, Outcomes
  <2>4. TaskInv(t)'
    BY <2>1, TaskFacts
       DEF IInv, TypeOK, Finish, history, TaskInv, Turns, Effects, CommandEffects, Limit, Extra
  <2> QED
    BY <2>2, <2>3, <2>4, PrivateKeeps
<1> QED
  BY <1>3, <1>4, <1>5, <1>6, <1>7 DEF TokenStep

\* The answers, but for the 401: the call is over, or a query backs off.
LEMMA AnswerKeeps ==
    ASSUME IInv, NEW t \in Tasks, pc[t] = "sent",
           \/ Timeout(t) \/ Unreachable(t) \/ Unreadable(t) \/ TooManyRequests(t)
           \/ ServerError(t) \/ ClientError(t) \/ Ok(t)
    PROVE  IInv'
<1>1. /\ UNCHANGED <<manager, attempt, authRetryUsed, token, sends, rejected>>
      /\ applied' = applied \/ applied' = [applied EXCEPT ![t] = @ + 1]
      /\ \/ /\ pc' = [pc EXCEPT ![t] = "backoff"]
            /\ MayRetry(t)
            /\ outcome' = outcome
         \/ /\ pc' = [pc EXCEPT ![t] = "done"]
            /\ \E result \in Outcomes :
                  /\ outcome' = [outcome EXCEPT ![t] = result]
                  /\ result = "ok" => applied' = [applied EXCEPT ![t] = @ + 1]
                  /\ result \in {"refused", "authError", "escaped"} => applied' = applied
  BY DEF Timeout, Unreachable, Unreadable, TooManyRequests, ServerError, ClientError, Ok,
         RetryOr, Finish, MaybeApplied, Applied, Outcomes, history
<1>2. Private(t)
  BY <1>1 DEF IInv, TypeOK, Private
<1>3. TypeOK'
  BY <1>1, TaskFacts DEF IInv, TypeOK, manager, Manager!TypeOK, Effects, MaxAttempts,
                         MAX_QUERY_ATTEMPTS
<1>4. TaskInv(t)'
  BY <1>1, TaskFacts DEF IInv, TypeOK, MayRetry, TaskInv, Turns, Effects, CommandEffects,
                         Limit, Extra, MAX_QUERY_ATTEMPTS
<1> QED
  BY <1>2, <1>3, <1>4, PrivateKeeps

LEMMA UnauthorizedKeeps ==
    ASSUME IInv, NEW t \in Tasks, Unauthorized(t)
    PROVE  IInv'
<1>1. Private(t)
  BY DEF IInv, TypeOK, Unauthorized, Finish, AfterUnauthorized, Private
<1>2. TypeOK'
  BY DEF IInv, TypeOK, Unauthorized, Finish, AfterUnauthorized, manager, Manager!TypeOK,
         Outcomes
<1>3. TaskInv(t)'
  BY TaskFacts DEF IInv, TypeOK, Unauthorized, Finish, AfterUnauthorized,
                   TaskInv, Turns, Effects, CommandEffects, Limit, Extra
<1> QED
  BY <1>1, <1>2, <1>3, PrivateKeeps

LEMMA CancelKeeps ==
    ASSUME IInv, NEW t \in Tasks, Cancel(t)
    PROVE  IInv'
<1>1. Manager!TypeOK'
  <2>1. CASE pc[t] \in {"get", "force"}
    BY <2>1, AwaitedIsRequest, ManagerTypes DEF IInv, TypeOK, Cancel
  <2>2. CASE pc[t] \notin {"get", "force"}
    BY <2>2 DEF IInv, TypeOK, Cancel, manager, Manager!TypeOK
  <2> QED
    BY <2>1, <2>2
<1>2. /\ Finish(t, "cancelled")
      /\ UNCHANGED <<attempt, authRetryUsed, token, sends, rejected>>
      /\ \/ applied' = applied
         \/ pc[t] = "sent" /\ applied' = [applied EXCEPT ![t] = @ + 1]
  BY DEF Cancel, MaybeApplied, Applied
<1>3. Private(t)
  BY <1>2 DEF IInv, TypeOK, Finish, Private
<1>4. TypeOK'
  BY <1>1, <1>2, TaskFacts DEF IInv, TypeOK, Finish, Outcomes, Effects, MaxAttempts,
                               MAX_QUERY_ATTEMPTS
<1>5. TaskInv(t)'
  BY <1>2, TaskFacts DEF IInv, TypeOK, Cancel, Finish, TaskInv, Turns, Effects, CommandEffects,
                         Limit, Extra
<1> QED
  BY <1>3, <1>4, <1>5, PrivateKeeps

LEMMA NextIInv == IInv /\ [Next]_vars => IInv'
<1> SUFFICES ASSUME IInv, [Next]_vars PROVE IInv'
  OBVIOUS
<1>1. ASSUME NEW t \in Tasks, Step(t) PROVE IInv'
  BY <1>1, LoopKeeps, TokenStepKeeps, AnswerKeeps, UnauthorizedKeeps
     DEF Step, Response, Timeout, Unreachable, Unreadable, TooManyRequests, ServerError,
         ClientError, Ok
<1>2. ASSUME NEW t \in Tasks, Cancel(t) PROVE IInv'
  BY <1>2, CancelKeeps
<1>3. CASE Age
  BY <1>3 DEF Age, Manager!Age, Manager!TypeOK, IInv, TypeOK, history,
              TaskInv, Turns, Effects, CommandEffects, Limit, Extra
<1>4. CASE UNCHANGED vars
  BY <1>4 DEF vars, manager, history, Manager!TypeOK, IInv, TypeOK,
              TaskInv, Turns, Effects, CommandEffects, Limit, Extra
<1> QED
  BY <1>1, <1>2, <1>3, <1>4 DEF Next

-----------------------------------------------------------------------------
THEOREM Invariance == Spec => []IInv
<1> QED
  BY InitIInv, NextIInv, PTL DEF Spec

\* The types of the loop, the bound on its turns among them.
THEOREM TypeCorrect == Spec => []TypeOK
<1>1. IInv => TypeOK
  BY DEF IInv
<1> QED
  BY <1>1, Invariance, PTL

\* A command is sent once and a query three times, and once more after a 401.
THEOREM AttemptsBoundedHolds == Spec => []AttemptsBounded
<1>1. IInv => AttemptsBounded
  BY DEF IInv, TaskInv, Turns, Limit, Extra, AttemptsBounded
<1> QED
  BY <1>1, Invariance, PTL

\* A command is carried out at most once, and its caller is told the truth of it.
THEOREM CommandOutcomeIsHonest == Spec => []CommandOutcomeHonest
<1>1. IInv => CommandOutcomeHonest
  BY DEF IInv, TaskInv, CommandEffects, CommandOutcomeHonest
<1> QED
  BY <1>1, Invariance, PTL

-----------------------------------------------------------------------------
(* A rejected token is not sent again.  Every token in use was obtained by *)
(* some call of the manager, and a call whose token has been replaced is   *)
(* over, so that it cannot obtain it again: a force_refresh that is served *)
(* has left the rejected token behind for good.                            *)

\* The call has not been made yet.
Unborn(t, n, m) ==
    \/ n > attempt[t]
    \/ n = attempt[t] /\ m = "force" /\ pc[t] \in {"get", "sent"}

UnbornUnknown ==
    \A t \in Tasks, n \in 1..MaxAttempts, m \in {"get", "force"} :
        Unborn(t, n, m) => by # <<t, n, m>> /\ phase[<<t, n, m>>] = "open"

\* A call that has obtained the token and is not over still holds the lock.
HolderSaves == \A c \in Requests : by = c /\ phase[c] = "open" => refresher = c

Obtained(r) == r \in Requests => by = r \/ phase[r] # "open"

Replaced(r) == r \in Requests => by # r /\ phase[r] # "open"

TokenFacts(t) ==
    /\ Obtained(token[t])
    /\ Obtained(rejected[t])
    /\ pc[t] = "force" => rejected[t] # Awaited(t)
    /\ pc[t] \notin {"force", "done"} => Replaced(rejected[t])

TokenInv == UnbornUnknown /\ HolderSaves /\ \A t \in Tasks : TokenFacts(t)

LEMMA InitTokenInv == Init => TokenInv
<1> SUFFICES ASSUME Init PROVE TokenInv
  OBVIOUS
<1>1. \A c \in Requests : by # c
  BY TaskAssumption DEF Init, Manager!Init
<1>2. UnbornUnknown
  BY <1>1 DEF Init, Manager!Init, UnbornUnknown, Requests
<1>3. HolderSaves
  BY <1>1 DEF HolderSaves
<1>4. ASSUME NEW t \in Tasks PROVE TokenFacts(t)
  BY TaskAssumption DEF Init, TokenFacts, Obtained, Replaced
<1> QED
  BY <1>2, <1>3, <1>4 DEF TokenInv

\* What a step of the manager for c does to the other calls: nothing, but for
\* taking their place as the one that obtained the token.
LEMMA ManagerMoves ==
    ASSUME Manager!TypeOK, NEW c \in Requests, Manager!CallStep(c) \/ Manager!Cancel(c)
    PROVE  /\ phase[c] = "open"
           /\ \A d \in Requests : d # c => phase'[d] = phase[d]
           /\ by' = by \/ (by' = c /\ refresher = c)
           /\ \A d \in Requests : d # c /\ refresher = d => refresher' = d
           /\ by' = c /\ phase'[c] = "open" => refresher' = c \/ by = c
           /\ by' = c /\ phase'[c] = "open" /\ refresher = c => refresher' = c
<1>1. CASE Manager!Begin(c)
  BY <1>1, TaskAssumption DEF Manager!Begin, Manager!TypeOK
<1>2. CASE Manager!Install(c)
  BY <1>2 DEF Manager!Install, Manager!TypeOK
<1>3. CASE Manager!Serve(c)
  BY <1>3 DEF Manager!Serve, Manager!Release, Manager!TypeOK
<1>4. CASE Manager!Fail(c)
  BY <1>4 DEF Manager!Fail, Manager!Release, Manager!TypeOK
<1>5. CASE Manager!Cancel(c)
  BY <1>5 DEF Manager!Cancel, Manager!Release, Manager!TypeOK
<1> QED
  BY <1>1, <1>2, <1>3, <1>4, <1>5 DEF Manager!CallStep

\* A force_refresh that is served returns the token it obtained itself.
LEMMA ForceServesItsOwn ==
    ASSUME Manager!TypeOK, NEW c \in Forcing, Manager!CallStep(c), phase'[c] = "served"
    PROVE  by' = c
<1>1. c \in Requests
  BY DEF Forcing
<1>2. CASE Manager!Begin(c)
  BY <1>1, <1>2 DEF Manager!Begin, Manager!TypeOK
<1>3. CASE Manager!Install(c)
  BY <1>3 DEF Manager!Install
<1>4. CASE Manager!Serve(c)
  BY <1>4 DEF Manager!Serve
<1>5. CASE Manager!Fail(c)
  BY <1>1, <1>5 DEF Manager!Fail, Manager!TypeOK
<1> QED
  BY <1>2, <1>3, <1>4, <1>5 DEF Manager!CallStep

\* The loop only goes forward.
Advances ==
    \A t \in Tasks :
        \/ attempt'[t] = attempt[t] /\ (pc'[t] \in {"get", "sent"} => pc[t] \in {"get", "sent"})
        \/ attempt'[t] = attempt[t] + 1

LEMMA UnbornBefore ==
    ASSUME IInv, Advances, NEW t \in Tasks, NEW n \in 1..MaxAttempts,
           NEW m \in {"get", "force"}, Unborn(t, n, m)'
    PROVE  Unborn(t, n, m)
BY DEF IInv, TypeOK, Advances, Unborn

\* Across a step of the manager for a call under way, what is known of all calls
\* is kept, and so is what has become of a token.
LEMMA ManagerKeeps ==
    ASSUME IInv, TokenInv, Advances, NEW t \in Tasks, pc[t] \in {"get", "force"},
           Manager!CallStep(Awaited(t)) \/ Manager!Cancel(Awaited(t))
    PROVE  /\ UnbornUnknown' /\ HolderSaves'
           /\ \A r : Obtained(r) => Obtained(r)'
           /\ \A r : Replaced(r) => Replaced(r)'
<1> DEFINE c == Awaited(t)
<1>1. c \in Requests
  BY AwaitedIsRequest
<1>2. /\ phase[c] = "open"
      /\ \A d \in Requests : d # c => phase'[d] = phase[d]
      /\ by' = by \/ (by' = c /\ refresher = c)
      /\ \A d \in Requests : d # c /\ refresher = d => refresher' = d
      /\ by' = c /\ phase'[c] = "open" => refresher' = c \/ by = c
      /\ by' = c /\ phase'[c] = "open" /\ refresher = c => refresher' = c
  BY <1>1, ManagerMoves DEF IInv, TypeOK
<1>3. UnbornUnknown'
  <2>1. SUFFICES ASSUME NEW u \in Tasks, NEW n \in 1..MaxAttempts, NEW m \in {"get", "force"},
                        Unborn(u, n, m)'
                 PROVE  by' # <<u, n, m>> /\ phase'[<<u, n, m>>] = "open"
    BY DEF UnbornUnknown
  <2>2. Unborn(u, n, m)
    BY <2>1, UnbornBefore
  <2>3. <<u, n, m>> \in Requests /\ <<u, n, m>> # c
    BY <2>2 DEF Requests, Unborn, Awaited, IInv, TypeOK
  <2>4. by # <<u, n, m>> /\ phase[<<u, n, m>>] = "open"
    BY <2>2 DEF TokenInv, UnbornUnknown
  <2> QED
    BY <1>2, <2>3, <2>4
<1>4. HolderSaves'
  BY <1>1, <1>2 DEF TokenInv, HolderSaves
<1> HIDE DEF c
<1>5. ASSUME NEW r, Obtained(r) PROVE Obtained(r)'
  <2>1. SUFFICES ASSUME r \in Requests, phase'[r] = "open" PROVE by' = r
    BY DEF Obtained
  <2>2. phase[r] = "open"
    BY <1>2, <2>1
  <2>3. by = r /\ refresher = r
    BY <1>5, <2>1, <2>2 DEF Obtained, TokenInv, HolderSaves
  <2> QED
    BY <1>2, <2>3
<1>6. ASSUME NEW r, Replaced(r) PROVE Replaced(r)'
  BY <1>2, <1>6 DEF Replaced
<1> QED
  BY <1>3, <1>4, <1>5, <1>6

\* The four ways in which a step of the manager goes on, for the proofs that follow.
LEMMA TokenStepEnds ==
    ASSUME IInv, NEW t \in Tasks, TokenStep(t)
    PROVE  /\ pc[t] \in {"get", "force"} /\ Awaited(t) \in Requests
           /\ Manager!CallStep(Awaited(t))
           /\ Manager!TypeOK /\ Manager!TypeOK'
           /\ rejected' = rejected
           /\ \/ UNCHANGED <<pc, attempt, token, sends>>
              \/ /\ phase'[Awaited(t)] = "served" /\ pc[t] = "get"
                 /\ token' = [token EXCEPT ![t] = by']
                 /\ sends' = [sends EXCEPT ![t] = @ + 1]
                 /\ pc' = [pc EXCEPT ![t] = "sent"]
                 /\ attempt' = attempt
              \/ /\ phase'[Awaited(t)] = "served" /\ pc[t] = "force"
                 /\ attempt' = [attempt EXCEPT ![t] = @ + 1]
                 /\ pc' = [pc EXCEPT ![t] = "get"]
                 /\ UNCHANGED <<token, sends>>
              \/ /\ pc' = [pc EXCEPT ![t] = "done"]
                 /\ UNCHANGED <<attempt, token, sends>>
<1>1. /\ pc[t] \in {"get", "force"} /\ Awaited(t) \in Requests
      /\ Manager!CallStep(Awaited(t))
      /\ Manager!TypeOK /\ Manager!TypeOK'
  BY AwaitedIsRequest, ManagerTypes DEF TokenStep, IInv, TypeOK
<1>2. phase'[Awaited(t)] \in {"open", "served", "failed"}
  BY <1>1 DEF Manager!TypeOK
<1>3. CASE phase'[Awaited(t)] = "open"
  BY <1>1, <1>3 DEF TokenStep, history
<1>4. CASE phase'[Awaited(t)] = "served" /\ pc[t] = "get"
  BY <1>1, <1>4 DEF TokenStep
<1>5. CASE phase'[Awaited(t)] = "served" /\ pc[t] = "force"
  <2>1. NextAttempt(t) /\ UNCHANGED <<token, history>>
    BY <1>5 DEF TokenStep
  <2> QED
    BY <1>1, <1>5, <2>1 DEF NextAttempt, history
<1>6. CASE phase'[Awaited(t)] = "failed"
  <2>1. (Finish(t, "authError") \/ Finish(t, "escaped")) /\ UNCHANGED <<attempt, token, history>>
    BY <1>6 DEF TokenStep
  <2> QED
    BY <1>1, <2>1 DEF Finish, history
<1> QED
  BY <1>1, <1>2, <1>3, <1>4, <1>5, <1>6

LEMMA EveryStepAdvances ==
    ASSUME IInv, NEW t \in Tasks, Step(t) \/ Cancel(t)
    PROVE  Advances
<1>1. CASE TokenStep(t)
  BY <1>1, TokenStepEnds DEF Advances, IInv, TypeOK
<1>2. CASE Start(t) \/ BackoffDone(t) \/ Response(t) \/ Cancel(t)
  BY <1>2 DEF Start, BackoffDone, Response, Timeout, Unreachable, Unreadable, Unauthorized,
              TooManyRequests, ServerError, ClientError, Ok, Cancel, RetryOr, Finish,
              AfterUnauthorized, NextAttempt, Advances, IInv, TypeOK
<1> QED
  BY <1>1, <1>2 DEF Step

\* What the facts about a task rest on, when the step is another's.
LEMMA OthersKeep ==
    ASSUME TokenInv, NEW u \in Tasks,
           pc'[u] = pc[u], attempt'[u] = attempt[u],
           token'[u] = token[u], rejected'[u] = rejected[u],
           \A r : Obtained(r) => Obtained(r)',
           \A r : Replaced(r) => Replaced(r)'
    PROVE  TokenFacts(u)'
<1>1. TokenFacts(u)
  BY DEF TokenInv
<1>2. Obtained(token[u])' /\ Obtained(rejected[u])'
  BY <1>1 DEF TokenFacts, Obtained
<1>3. pc[u] \notin {"force", "done"} => Replaced(rejected[u])'
  BY <1>1 DEF TokenFacts, Replaced
<1> QED
  BY <1>1, <1>2, <1>3 DEF TokenFacts, Awaited

\* A step of t that leaves the manager and the tokens alone.
LEMMA QuietKeeps ==
    ASSUME IInv, TokenInv, Advances, NEW t \in Tasks,
           UNCHANGED <<manager, token, rejected>>,
           \A u \in Tasks \ {t} : pc'[u] = pc[u] /\ attempt'[u] = attempt[u],
           pc'[t] # "force", pc[t] \notin {"force", "done"}
    PROVE  TokenInv'
<1>1. UnbornUnknown'
  BY UnbornBefore DEF TokenInv, UnbornUnknown, manager
<1>2. HolderSaves'
  BY DEF TokenInv, HolderSaves, manager
<1>3. ASSUME NEW u \in Tasks \ {t} PROVE TokenFacts(u)'
  BY DEF TokenInv, TokenFacts, Obtained, Replaced, Awaited, manager
<1>4. TokenFacts(t)'
  BY DEF TokenInv, TokenFacts, Obtained, Replaced, manager
<1> QED
  BY <1>1, <1>2, <1>3, <1>4 DEF TokenInv

\* The answer 401: the rejected token is none that the call's force_refresh, which
\* has not been made, has obtained.
LEMMA UnauthorizedKeepsTokens ==
    ASSUME IInv, TokenInv, Advances, NEW t \in Tasks, Unauthorized(t)
    PROVE  TokenInv'
<1>1. /\ UNCHANGED <<manager, token>>
      /\ pc[t] = "sent"
      /\ rejected' = [rejected EXCEPT ![t] = token[t]]
      /\ attempt' = attempt
      /\ pc' = [pc EXCEPT ![t] = "force"] \/ pc' = [pc EXCEPT ![t] = "done"]
  BY DEF Unauthorized, Finish, AfterUnauthorized
<1>2. UnbornUnknown'
  BY <1>1, UnbornBefore DEF TokenInv, UnbornUnknown, manager
<1>3. HolderSaves'
  BY <1>1 DEF TokenInv, HolderSaves, manager
<1>4. ASSUME NEW u \in Tasks \ {t} PROVE TokenFacts(u)'
  BY <1>1 DEF IInv, TypeOK, TokenInv, TokenFacts, Obtained, Replaced, Awaited, manager
<1>5. rejected'[t] = token[t] /\ Obtained(token[t]) /\ Obtained(token[t])'
  BY <1>1 DEF IInv, TypeOK, TokenInv, TokenFacts, Obtained, manager
<1>6. Obtained(rejected[t])'
  BY <1>1, <1>5 DEF Obtained
<1>7. token[t] # <<t, attempt[t], "force">>
  <2>1. attempt[t] \in 1..MaxAttempts
    BY <1>1, TaskFacts DEF IInv, TypeOK, Turns
  <2>2. Unborn(t, attempt[t], "force")
    BY <1>1 DEF Unborn
  <2>3. by # <<t, attempt[t], "force">> /\ phase[<<t, attempt[t], "force">>] = "open"
    BY <2>1, <2>2 DEF TokenInv, UnbornUnknown
  <2>4. <<t, attempt[t], "force">> \in Requests
    BY <2>1 DEF Requests
  <2> QED
    BY <1>5, <2>3, <2>4 DEF Obtained
<1>8. TokenFacts(t)'
  BY <1>1, <1>5, <1>6, <1>7 DEF IInv, TypeOK, TokenFacts, Awaited
<1> QED
  BY <1>2, <1>3, <1>4, <1>8 DEF TokenInv

LEMMA TokenStepKeepsTokens ==
    ASSUME IInv, TokenInv, Advances, NEW t \in Tasks, TokenStep(t)
    PROVE  TokenInv'
<1> DEFINE c == Awaited(t)
<1>1. /\ pc[t] \in {"get", "force"} /\ c \in Requests
      /\ Manager!CallStep(c) /\ Manager!TypeOK
      /\ rejected' = rejected
  BY TokenStepEnds
<1>2. /\ UnbornUnknown' /\ HolderSaves'
      /\ \A r : Obtained(r) => Obtained(r)'
      /\ \A r : Replaced(r) => Replaced(r)'
  BY <1>1, ManagerKeeps
<1>3. ASSUME NEW u \in Tasks \ {t} PROVE TokenFacts(u)'
  <2>1. pc'[u] = pc[u] /\ attempt'[u] = attempt[u] /\ token'[u] = token[u]
    BY TokenStepEnds DEF IInv, TypeOK
  <2> QED
    BY <1>1, <1>2, <2>1, OthersKeep
<1>4. TokenFacts(t)
  BY DEF TokenInv
<1>5. Obtained(rejected[t])'
  BY <1>1, <1>2, <1>4 DEF TokenFacts, Obtained
<1>6. CASE UNCHANGED <<pc, attempt, token>>
  BY <1>1, <1>2, <1>3, <1>6, OthersKeep DEF TokenInv
<1>7. CASE pc[t] = "get" /\ token' = [token EXCEPT ![t] = by'] /\ pc' = [pc EXCEPT ![t] = "sent"]
  <2>1. token'[t] = by' /\ pc'[t] = "sent"
    BY <1>7 DEF IInv, TypeOK
  <2>2. Obtained(token[t])'
    BY <2>1 DEF Obtained
  <2>3. Replaced(rejected[t])'
    BY <1>1, <1>2, <1>4, <1>7 DEF TokenFacts, Replaced
  <2>4. TokenFacts(t)'
    BY <1>5, <2>1, <2>2, <2>3 DEF TokenFacts
  <2> QED
    BY <1>2, <1>3, <2>4 DEF TokenInv
<1>8. CASE /\ phase'[c] = "served" /\ pc[t] = "force"
           /\ token' = token /\ pc' = [pc EXCEPT ![t] = "get"]
  <2>1. pc'[t] = "get"
    BY <1>8 DEF IInv, TypeOK
  <2>2. Obtained(token[t])'
    BY <1>2, <1>4, <1>8 DEF TokenFacts, Obtained
  <2>3. c \in Forcing
    BY <1>1, <1>8 DEF Forcing, Awaited
  <2>4. by' = c
    BY <1>1, <1>8, <2>3, ForceServesItsOwn
  <2>5. rejected[t] # c /\ Obtained(rejected[t])
    BY <1>4, <1>8 DEF TokenFacts
  <2>6. rejected[t] \in Requests => phase[rejected[t]] # "open"
    <3> SUFFICES ASSUME rejected[t] \in Requests, phase[rejected[t]] = "open" PROVE FALSE
      OBVIOUS
    <3>1. by = rejected[t] /\ refresher = rejected[t]
      BY <2>5 DEF Obtained, TokenInv, HolderSaves
    <3>2. by' = by \/ (by' = c /\ refresher = c)
      BY <1>1, ManagerMoves
    <3> QED
      BY <2>4, <2>5, <3>1, <3>2
  <2>7. \A d \in Requests : d # c => phase'[d] = phase[d]
    BY <1>1, ManagerMoves
  <2>8. Replaced(rejected[t])'
    BY <1>1, <2>4, <2>5, <2>6, <2>7 DEF Replaced
  <2>9. TokenFacts(t)'
    BY <1>5, <2>1, <2>2, <2>8 DEF TokenFacts
  <2> QED
    BY <1>2, <1>3, <2>9 DEF TokenInv
<1>9. CASE pc' = [pc EXCEPT ![t] = "done"] /\ token' = token
  <2>1. pc'[t] = "done"
    BY <1>9 DEF IInv, TypeOK
  <2>2. Obtained(token[t])'
    BY <1>2, <1>4, <1>9 DEF TokenFacts, Obtained
  <2>3. TokenFacts(t)'
    BY <1>5, <2>1, <2>2 DEF TokenFacts
  <2> QED
    BY <1>2, <1>3, <2>3 DEF TokenInv
<1> QED
  BY <1>6, <1>7, <1>8, <1>9, TokenStepEnds

LEMMA CancelKeepsTokens ==
    ASSUME IInv, TokenInv, Advances, NEW t \in Tasks, Cancel(t)
    PROVE  TokenInv'
<1>1. /\ pc' = [pc EXCEPT ![t] = "done"]
      /\ UNCHANGED <<attempt, token, rejected>>
      /\ pc[t] \in {"get", "sent", "force", "backoff"}
  BY DEF Cancel, Finish
<1>2. CASE pc[t] \in {"get", "force"}
  <2>1. Manager!Cancel(Awaited(t))
    BY <1>2 DEF Cancel
  <2>2. /\ UnbornUnknown' /\ HolderSaves'
        /\ \A r : Obtained(r) => Obtained(r)'
        /\ \A r : Replaced(r) => Replaced(r)'
    BY <1>2, <2>1, ManagerKeeps
  <2>3. ASSUME NEW u \in Tasks \ {t} PROVE TokenFacts(u)'
    <3>1. pc'[u] = pc[u]
      BY <1>1 DEF IInv, TypeOK
    <3> QED
      BY <1>1, <2>2, <3>1, OthersKeep
  <2>4. Obtained(token[t])' /\ Obtained(rejected[t])'
    BY <1>1, <2>2 DEF TokenInv, TokenFacts, Obtained
  <2>5. TokenFacts(t)'
    BY <1>1, <2>4 DEF TokenFacts, IInv, TypeOK
  <2> QED
    BY <2>2, <2>3, <2>5 DEF TokenInv
<1>3. CASE pc[t] \notin {"get", "force"}
  <2>1. UNCHANGED manager
    BY <1>3 DEF Cancel
  <2> QED
    BY <1>1, <1>3, <2>1, QuietKeeps DEF IInv, TypeOK
<1> QED
  BY <1>2, <1>3

LEMMA NextTokenInv == IInv /\ TokenInv /\ [Next]_vars => TokenInv'
<1> SUFFICES ASSUME IInv, TokenInv, [Next]_vars PROVE TokenInv'
  OBVIOUS
<1>1. ASSUME NEW t \in Tasks, Start(t) \/ BackoffDone(t) PROVE TokenInv'
  <2>1. Advances
    BY <1>1, EveryStepAdvances DEF Step
  <2> QED
    BY <1>1, <2>1, QuietKeeps DEF Start, BackoffDone, NextAttempt, history, IInv, TypeOK
<1>2. ASSUME NEW t \in Tasks, Response(t), ~Unauthorized(t) PROVE TokenInv'
  <2>1. Advances
    BY <1>2, EveryStepAdvances DEF Step
  <2>2. /\ UNCHANGED <<manager, attempt, token, rejected>>
        /\ pc[t] = "sent"
        /\ pc' = [pc EXCEPT ![t] = "backoff"] \/ pc' = [pc EXCEPT ![t] = "done"]
    BY <1>2 DEF Response, Timeout, Unreachable, Unreadable, TooManyRequests, ServerError,
                ClientError, Ok, RetryOr, Finish, history
  <2> QED
    BY <2>1, <2>2, QuietKeeps DEF IInv, TypeOK
<1>3. ASSUME NEW t \in Tasks, Step(t) PROVE TokenInv'
  BY <1>1, <1>2, <1>3, EveryStepAdvances, UnauthorizedKeepsTokens, TokenStepKeepsTokens
     DEF Step
<1>4. ASSUME NEW t \in Tasks, Cancel(t) PROVE TokenInv'
  BY <1>4, EveryStepAdvances, CancelKeepsTokens
<1>5. CASE Age
  BY <1>5 DEF Age, Manager!Age, history, TokenInv, UnbornUnknown, Unborn, HolderSaves,
              TokenFacts, Obtained, Replaced, Awaited
<1>6. CASE UNCHANGED vars
  BY <1>6 DEF vars, manager, history, TokenInv, UnbornUnknown, Unborn, HolderSaves,
              TokenFacts, Obtained, Replaced, Awaited
<1> QED
  BY <1>3, <1>4, <1>5, <1>6 DEF Next

\* Only a get_access_token that is served sends: with its own token, or with one
\* that has replaced the rejected one.
LEMMA SendsAnother ==
    ASSUME IInv, TokenInv, Next, NEW t \in Tasks, sends'[t] # sends[t], rejected[t] # NoCaller
    PROVE  token'[t] # rejected[t]
<1>1. TokenStep(t) /\ phase'[Awaited(t)] = "served" /\ pc[t] = "get"
  <2>1. PICK u \in Tasks : Step(u) \/ Cancel(u)
    BY DEF Next, Age, history
  <2>2. CASE TokenStep(u)
    BY <2>2, TokenStepEnds DEF IInv, TypeOK
  <2>3. CASE ~TokenStep(u)
    BY <2>1, <2>3 DEF Step, Start, BackoffDone, Response, Timeout, Unreachable, Unreadable,
                      Unauthorized, TooManyRequests, ServerError, ClientError, Ok, Cancel,
                      history
  <2> QED
    BY <2>2, <2>3
<1>2. token'[t] = by'
  BY <1>1, TokenStepEnds DEF IInv, TypeOK
<1>3. rejected[t] \in Requests /\ Replaced(rejected[t])
  BY <1>1 DEF IInv, TypeOK, TokenInv, TokenFacts
<1>4. phase[Awaited(t)] = "open" /\ (by' = by \/ by' = Awaited(t))
  BY <1>1, TokenStepEnds, ManagerMoves
<1> QED
  BY <1>2, <1>3, <1>4 DEF Replaced

\* No request goes out with a token that the API has answered with a 401 to the
\* same call, whatever the other tasks refresh meanwhile.
THEOREM RejectedTokenNotReusedHolds == Spec => RejectedTokenNotReused
<1>1. Spec => [](IInv /\ TokenInv)
  BY InitIInv, NextIInv, InitTokenInv, NextTokenInv, PTL DEF Spec
<1>2. IInv /\ TokenInv /\ [Next]_vars =>
        [\A t \in Tasks :
            sends'[t] # sends[t] /\ rejected[t] # NoCaller => token'[t] # rejected[t]]_vars
  BY SendsAnother
<1> QED
  BY <1>1, <1>2, PTL DEF Spec, RejectedTokenNotReused

=============================================================================
