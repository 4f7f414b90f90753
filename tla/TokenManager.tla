---------------------------- MODULE TokenManager ----------------------------
(***************************************************************************)
(* src/clm_mcp/auth/token_manager.py: one server process' TokenManager,    *)
(* shared by the asyncio tasks of its tool calls, with what surrounds it:  *)
(* the identity service, the credential file and the threads that write    *)
(* it, `clm-mcp login` in another process, and the process' own restarts.  *)
(*                                                                         *)
(* A step runs from one await to the next: asyncio switches tasks nowhere  *)
(* else.  Refresh tokens are numbers in the order the identity service     *)
(* mints them: 1 is the user's own, for the settings or for                *)
(* `clm-mcp login --refresh-token`, 2 the one an earlier login stored.  An *)
(* access token is known by the task whose grant obtained it, `by`.        *)
(***************************************************************************)
EXTENDS Integers, Sequences, SequencesExt

CONSTANTS
    Callers,       \* the tasks: each makes one call
    Forcing,       \* those that call force_refresh; the others get_access_token
    NoCaller,      \* nobody (not a caller)
    Settings,      \* the configurations a process may be started with
    Stored,        \* the tokens the credential file may hold at the start
    MaxToken,      \* bound: how many refresh tokens the service can mint
    MaxTime,       \* bound: the last second of the model
    Skew,          \* token_refresh_skew_seconds
    Lifetimes,     \* the lifetimes of an access token, as granted or as declared
    Drifts,        \* wall clock minus monotonic clock, whenever a claim is read
    Faults         \* the faults of this instance, a subset of FaultKinds

FaultKinds == {"cancel", "loss", "malformed", "savefail", "crash", "revoke", "login",
               "relogin"}

NoToken == 0
UserToken == 1
Tokens == 1..MaxToken
MaybeTokens == Tokens \cup {NoToken}

ASSUME CallersAssumption == NoCaller \notin Callers /\ Forcing \subseteq Callers
ASSUME TokenAssumption == /\ MaxToken \in Nat \ {0, 1}
                          /\ Stored \subseteq {NoToken, 2}
ASSUME SettingsAssumption ==
    Settings \subseteq [refreshToken : {NoToken, UserToken}, password : BOOLEAN]
ASSUME TimeAssumption == /\ MaxTime \in Nat
                         /\ Skew \in Nat
                         /\ Lifetimes \subseteq Nat
                         /\ Drifts \subseteq Int
ASSUME FaultAssumption == Faults \subseteq FaultKinds

Sources == {"REFRESH_TOKEN_SETTING", "PASSWORD_SETTING", "STORE"}
NoSource == "none"

VARIABLES
    now,           \* the monotonic clock
    settings,      \* Settings: fixed when the process starts
    active,        \* _active: the current access token
    refreshToken,  \* _refresh_token
    source,        \* _refresh_token_source
    holder,        \* the task holding _lock
    waiters,       \* the tasks queued on _lock
    pc,            \* where each task is suspended, or how its call ended
    sent,          \* the refresh token and source of each task's grant request
    reply,         \* the identity service's answer on its way to each task
    saving,        \* the refresh token each task's save thread has yet to write
    stored,        \* the refresh token in the credential file
    minted,        \* the refresh tokens the identity service has minted so far
    valid,         \* those of them it still accepts
    excused        \* history: those a fault made the process lose track of

memory  == <<active, refreshToken, source>>
lock    == <<holder, waiters>>
service == <<minted, valid>>
vars == <<now, settings, memory, lock, pc, sent, reply, saving, stored,
          service, excused>>

Granting  == {"refreshGrant", "passwordGrant"}
InSection == Granting \cup {"saving"}
Running   == InSection \cup {"waiting"}
Failures  == {"missing", "refused", "identityError", "crashed", "cancelled"}
Ended     == Failures \cup {"served"}

NoAccess == [by |-> NoCaller, exp |-> 0, ttlEnd |-> 0, claimEnd |-> 0, expiry |-> 0]
AccessTokens == [by : Callers, exp : Nat, ttlEnd : Int, claimEnd : Int, expiry : Int]

Unsent == [token |-> NoToken, source |-> NoSource]
Unanswered == [status |-> "none", token |-> NoToken, exp |-> 0, ttl |-> 0]
Refusal == [Unanswered EXCEPT !.status = "refused"]
Grants == [status : {"ok"}, token : Tokens, exp : Nat, ttl : Nat]

TypeOK ==
    /\ now \in 0..MaxTime
    /\ settings \in Settings
    /\ active \in AccessTokens \cup {NoAccess}
    /\ refreshToken \in MaybeTokens
    /\ source \in Sources \cup {NoSource}
    /\ holder \in Callers \cup {NoCaller}
    /\ waiters \in Seq(Callers)
    /\ pc \in [Callers -> {"ready"} \cup Running \cup Ended]
    /\ sent \in [Callers -> [token : MaybeTokens, source : Sources \cup {NoSource}]]
    /\ reply \in [Callers -> Grants \cup {Unanswered, Refusal}]
    /\ saving \in [Callers -> MaybeTokens]
    /\ stored \in MaybeTokens
    /\ minted \in Tokens
    /\ valid \subseteq Tokens
    /\ excused \subseteq Tokens

Init ==
    /\ now = 0
    /\ settings \in Settings
    /\ active = NoAccess
    /\ refreshToken = NoToken
    /\ source = NoSource
    /\ holder = NoCaller
    /\ waiters = <<>>
    /\ pc = [c \in Callers |-> "ready"]
    /\ sent = [c \in Callers |-> Unsent]
    /\ reply = [c \in Callers |-> Unanswered]
    /\ saving = [c \in Callers |-> NoToken]
    /\ stored \in Stored
    /\ minted = 2
    /\ valid = {1, 2}
    /\ excused = {}

-----------------------------------------------------------------------------
(* Freshness and the choice of a credential *)

\* _is_active_token_fresh
Fresh(access) == access # NoAccess /\ access.expiry - now > Skew

\* Trusting the later of the two.
Later(a, b) == IF a >= b THEN a ELSE b

\* The two deadlines of _store_active_token: the earlier one counts.
Earlier(a, b) == IF a <= b THEN a ELSE b

\* The credential file comes first: it may have been replaced meanwhile.
StoredFirst ==
    IF stored # NoToken
    THEN [token |-> stored, source |-> "STORE"]
    ELSE IF refreshToken # NoToken /\ source # NoSource
         THEN [token |-> refreshToken, source |-> source]
         ELSE IF settings.refreshToken # NoToken
              THEN [token |-> settings.refreshToken, source |-> "REFRESH_TOKEN_SETTING"]
              ELSE Unsent

\* _resolve_refresh_token: memory, then the setting, then the credential file.
ResolvedRefreshToken ==
    IF refreshToken # NoToken /\ source # NoSource
    THEN [token |-> refreshToken, source |-> source]
    ELSE IF settings.refreshToken # NoToken
         THEN [token |-> settings.refreshToken, source |-> "REFRESH_TOKEN_SETTING"]
         ELSE IF stored # NoToken
              THEN [token |-> stored, source |-> "STORE"]
              ELSE Unsent

-----------------------------------------------------------------------------
(* The critical section.  `end` is what the caller's call comes to. *)

\* A failure that leaves the lock locked.
EndHolding(c, end) ==
    /\ pc' = [pc EXCEPT ![c] = end]
    /\ holder' = IF holder = c /\ end = "served" THEN NoCaller ELSE holder
    /\ reply' = [reply EXCEPT ![c] = Unanswered]

\* The task leaves the critical section, if it is in it, and its call is over.
End(c, end) ==
    /\ pc' = [pc EXCEPT ![c] = end]
    /\ holder' = IF holder = c THEN NoCaller ELSE holder
    /\ reply' = [reply EXCEPT ![c] = Unanswered]

\* No MissingCredentialsError: the method returns None.
PasswordGrantOrNone(c) ==
    IF settings.password
    THEN /\ pc' = [pc EXCEPT ![c] = "passwordGrant"]
         /\ holder' = c
         /\ reply' = [reply EXCEPT ![c] = Unanswered]
    ELSE End(c, "None")

\* _refresh without a usable refresh token: the password grant, or nothing.
PasswordGrant(c) ==
    IF settings.password
    THEN /\ pc' = [pc EXCEPT ![c] = "passwordGrant"]
         /\ holder' = c
         /\ reply' = [reply EXCEPT ![c] = Unanswered]
    ELSE End(c, "missing")

\* _refresh, up to its first await.
Refresh(c) ==
    /\ IF ResolvedRefreshToken # Unsent
       THEN /\ pc' = [pc EXCEPT ![c] = "refreshGrant"]
            /\ holder' = c
            /\ sent' = [sent EXCEPT ![c] = ResolvedRefreshToken]
            /\ UNCHANGED reply
       ELSE PasswordGrant(c) /\ UNCHANGED sent

\* No second look at the token once the lock is held.
CriticalSectionUnchecked(c) == Refresh(c)

\* A second look in force_refresh too.
CriticalSectionAlwaysChecked(c) ==
    IF Fresh(active)
    THEN End(c, "served") /\ UNCHANGED sent
    ELSE Refresh(c)

\* The body of `async with self._lock`: only get_access_token looks again.
CriticalSection(c) ==
    IF c \notin Forcing /\ Fresh(active)
    THEN End(c, "served") /\ UNCHANGED sent
    ELSE Refresh(c)

\* The lock is taken whoever holds it.
EnterAlways(c) == CriticalSection(c) /\ UNCHANGED waiters

\* Lock.acquire(): at once if the lock is free and nobody queues for it.
Enter(c) ==
    IF holder = NoCaller /\ waiters = <<>>
    THEN CriticalSection(c) /\ UNCHANGED waiters
    ELSE /\ waiters' = Append(waiters, c)
         /\ pc' = [pc EXCEPT ![c] = "waiting"]
         /\ UNCHANGED <<holder, sent, reply>>

-----------------------------------------------------------------------------
(* The two methods *)

\* get_access_token and force_refresh, up to their first await.
Call(c) ==
    /\ pc[c] = "ready"
    /\ IF c \notin Forcing /\ Fresh(active)
       THEN End(c, "served") /\ UNCHANGED <<waiters, sent>>
       ELSE Enter(c)
    /\ UNCHANGED <<now, settings, memory, saving, stored, service, excused>>

\* The first task of the queue wakes up with the lock.
Acquire(c) ==
    /\ holder = NoCaller
    /\ waiters # <<>>
    /\ Head(waiters) = c
    /\ waiters' = Tail(waiters)
    /\ CriticalSection(c)
    /\ UNCHANGED <<now, settings, memory, saving, stored, service, excused>>

\* The service accepts c's grant, with the same refresh token or a new one.
Accept(c, token) ==
    \E lifetime, ttl \in Lifetimes :
        reply' = [reply EXCEPT ![c] = [status |-> "ok", token |-> token,
                                       exp |-> now + lifetime, ttl |-> ttl]]

\* The identity service (external) answers c's grant.
IdentityAnswers(c) ==
    /\ pc[c] \in Granting
    /\ reply[c] = Unanswered
    /\ \/ /\ pc[c] = "refreshGrant"
          /\ sent[c].token \in valid
          /\ \/ Accept(c, sent[c].token) /\ UNCHANGED service
             \/ /\ minted < MaxToken
                /\ Accept(c, minted + 1)
                /\ minted' = minted + 1
                /\ valid' = (valid \ {sent[c].token}) \cup {minted + 1}
       \/ /\ pc[c] = "passwordGrant"
          /\ minted < MaxToken
          /\ Accept(c, minted + 1)
          /\ minted' = minted + 1
          /\ valid' = valid \cup {minted + 1}
       \/ /\ pc[c] = "passwordGrant" \/ sent[c].token \notin valid
          /\ reply' = [reply EXCEPT ![c] = Refusal]
          /\ UNCHANGED service
    /\ UNCHANGED <<now, settings, memory, lock, pc, sent, saving, stored, excused>>

\* The source _store_active_token is called with.
GrantSource(c) ==
    IF pc[c] = "refreshGrant" THEN sent[c].source ELSE "PASSWORD_SETTING"

\* A rotated token is kept in memory and never written back.
NeverWrittenBack(c) == FALSE

\* Whatever its source, a new token goes to the credential file.
AlwaysWrittenBack(c) == reply[c].token # refreshToken

\* The first refresh of a process does not count as a rotation.
WrittenBackOnceKnown(c) ==
    /\ GrantSource(c) = "STORE"
    /\ refreshToken # NoToken
    /\ reply[c].token # refreshToken

\* Only a token that comes from the credential file goes back to it, if it is new.
WrittenBack(c) == GrantSource(c) = "STORE" /\ reply[c].token # refreshToken

\* _store_active_token, up to the save.
Granted(c) ==
    /\ reply[c].status = "ok"
    /\ \E drift \in Drifts :
          LET ttlEnd == now + reply[c].ttl
              claimEnd == reply[c].exp - drift
          IN  active' = [by |-> c, exp |-> reply[c].exp,
                         ttlEnd |-> ttlEnd, claimEnd |-> claimEnd,
                         expiry |-> Earlier(ttlEnd, claimEnd)]
    /\ refreshToken' = reply[c].token
    /\ source' = GrantSource(c)
    /\ IF WrittenBack(c)
       THEN /\ saving' = [saving EXCEPT ![c] = reply[c].token]
            /\ pc' = [pc EXCEPT ![c] = "saving"]
            /\ reply' = [reply EXCEPT ![c] = Unanswered]
            /\ UNCHANGED holder
       ELSE End(c, "served") /\ UNCHANGED saving

\* InvalidRefreshTokenError falls through to the password; a refused password ends it.
Refused(c) ==
    /\ reply[c] = Refusal
    /\ IF pc[c] = "refreshGrant" THEN PasswordGrant(c) ELSE End(c, "refused")
    /\ UNCHANGED <<memory, saving>>

\* The answer to c's grant arrives.
Receive(c) ==
    /\ pc[c] \in Granting
    /\ Granted(c) \/ Refused(c)
    /\ UNCHANGED <<now, settings, waiters, sent, stored, service, excused>>

\* The thread of save_credentials is done, whether or not its task still waits.
SaveDone(c) ==
    /\ saving[c] # NoToken
    /\ stored' = saving[c]
    /\ saving' = [saving EXCEPT ![c] = NoToken]
    /\ IF pc[c] = "saving" THEN End(c, "served") ELSE UNCHANGED <<pc, holder, reply>>
    /\ UNCHANGED <<now, settings, memory, waiters, sent, service, excused>>

-----------------------------------------------------------------------------
(* Failures *)

\* The tokens whose replacement was on its way to one of `tasks` and will not arrive.
Orphaned(tasks) ==
    {t \in Tokens : \E c \in tasks : /\ reply[c].status = "ok"
                                    /\ sent[c].token = t
                                    /\ reply[c].token # t}

\* The token that stays in the file when a save of one of `tasks` will not be made.
Unsaved(tasks) == {t \in Tokens : t = stored /\ \E c \in tasks : saving[c] # NoToken}

\* No answer, whether or not the service processed the grant; any other error
\* status; an access token that _decode_claims cannot read.
GrantFails(c) ==
    /\ "loss" \in Faults
    /\ pc[c] \in Granting
    /\ End(c, "identityError")
    /\ excused' = excused \cup Orphaned({c})
    /\ UNCHANGED <<now, settings, memory, waiters, sent, saving, stored, service>>

\* A 200 whose body is no TokenResponse: the ValidationError is nobody's ClmAuthError.
GrantMalformed(c) ==
    /\ "malformed" \in Faults
    /\ reply[c].status = "ok"
    /\ End(c, "crashed")
    /\ excused' = excused \cup Orphaned({c})
    /\ UNCHANGED <<now, settings, memory, waiters, sent, saving, stored, service>>

\* save_credentials raises OSError; what the file holds is now out of date.
SaveFails(c) ==
    /\ "savefail" \in Faults
    /\ saving[c] # NoToken
    /\ saving' = [saving EXCEPT ![c] = NoToken]
    /\ excused' = excused \cup Unsaved({c})
    /\ IF pc[c] = "saving" THEN End(c, "crashed") ELSE UNCHANGED <<pc, holder, reply>>
    /\ UNCHANGED <<now, settings, memory, waiters, sent, stored, service>>

\* The client cancels the tool call.  A save thread that has started runs on;
\* one still queued in the executor never runs.
Cancel(c) ==
    /\ "cancel" \in Faults
    /\ pc[c] \in Running
    /\ End(c, "cancelled")
    /\ IF pc[c] = "waiting"
       THEN \E i \in 1..Len(waiters) : waiters[i] = c /\ waiters' = RemoveAt(waiters, i)
       ELSE UNCHANGED waiters
    /\ \/ /\ UNCHANGED saving
          /\ excused' = excused \cup Orphaned({c})
       \/ /\ saving' = [saving EXCEPT ![c] = NoToken]
          /\ excused' = excused \cup Orphaned({c}) \cup Unsaved({c})
    /\ UNCHANGED <<now, settings, memory, sent, stored, service>>

\* The process dies and is started again with the same settings.  A configured
\* token that the service replaced is not in the settings: it is the user's.
Restart ==
    /\ "crash" \in Faults
    /\ active' = NoAccess
    /\ refreshToken' = NoToken
    /\ source' = NoSource
    /\ holder' = NoCaller
    /\ waiters' = <<>>
    /\ pc' = [c \in Callers |-> IF pc[c] \in Running THEN "cancelled" ELSE pc[c]]
    /\ reply' = [c \in Callers |-> Unanswered]
    /\ saving' = [c \in Callers |-> NoToken]
    /\ excused' = excused \cup Orphaned(Callers) \cup
           ({settings.refreshToken} \cap Tokens) \cup Unsaved(Callers)
    /\ UNCHANGED <<now, settings, sent, stored, service>>

\* The identity service (external) revokes a refresh token, or lets it expire.
Revoke(token) ==
    /\ "revoke" \in Faults
    /\ token \in valid
    /\ valid' = valid \ {token}
    /\ excused' = excused \cup {token}
    /\ UNCHANGED <<now, settings, memory, lock, pc, sent, reply, saving, stored, minted>>

\* `clm-mcp login` in another process.  Without a token it makes a password grant
\* and saves what that returns.  A token it is given is verified with a refresh
\* grant, which may rotate it, and then saved as it was given.
Login ==
    /\ \/ /\ "login" \in Faults
          /\ minted < MaxToken
          /\ minted' = minted + 1
          /\ valid' = valid \cup {minted + 1}
          /\ stored' = minted + 1
       \/ /\ "relogin" \in Faults
          /\ UserToken \in valid
          /\ \/ UNCHANGED service
             \/ /\ minted < MaxToken
                /\ minted' = minted + 1
                /\ valid' = (valid \ {UserToken}) \cup {minted + 1}
          /\ stored' = UserToken
    /\ UNCHANGED <<now, settings, memory, lock, pc, sent, reply, saving, excused>>

Tick ==
    /\ now < MaxTime
    /\ now' = now + 1
    /\ UNCHANGED <<settings, memory, lock, pc, sent, reply, saving, stored,
                   service, excused>>

-----------------------------------------------------------------------------

Progress(c) == Acquire(c) \/ IdentityAnswers(c) \/ Receive(c) \/ SaveDone(c)
Failure(c) == GrantFails(c) \/ GrantMalformed(c) \/ SaveFails(c) \/ Cancel(c)

Next ==
    \/ \E c \in Callers : Call(c) \/ Progress(c) \/ Failure(c)
    \/ \E token \in Tokens : Revoke(token)
    \/ Restart \/ Login \/ Tick

Spec == Init /\ [][Next]_vars

\* The event loop runs every task that can run, every thread finishes, and the
\* timeouts of the shared HTTP client bound the wait for an answer.
FairSpec == Spec /\ \A c \in Callers : WF_vars(Progress(c))

-----------------------------------------------------------------------------
(* Correctness *)

\* At most one task talks to the identity service or writes the file for the
\* manager's sake, however the tasks interleave and whichever are cancelled:
\* the single flight of the class' docstring.
SingleFlight ==
    \A c, d \in Callers : pc[c] \in InSection /\ pc[d] \in InSection => c = d

\* A token served out of the cache is one the API still accepts, if either of
\* the two deadlines it was given erred by no more than the skew: the wall
\* clock was not behind by more, or the answer that declared `expires_in` was
\* not longer under way.  What taking the earlier of the two is for.
CachedTokenLive ==
    [][\A c \in Callers :
          /\ pc[c] # "served" /\ pc'[c] = "served" /\ active'.by # c
          /\ \/ active'.claimEnd - active'.exp <= Skew
             \/ active'.ttlEnd - active'.exp <= Skew
          => now < active'.exp]_vars

\* The service turns down a refresh token of ours only if a fault explains it:
\* it revoked the token, or the answer or the write that carried the successor
\* was lost.  No interleaving, rotation or restart alone makes the manager
\* present a token that was replaced.
RejectionExcused ==
    [][\A c \in Callers :
          pc[c] = "refreshGrant" /\ reply[c] # Refusal /\ reply'[c] = Refusal
          => sent[c].token \in excused]_vars

\* A save replaces what the file holds by then, be it what another login stored
\* meanwhile.  It never costs a working file: what a waiting call saves is the token
\* the process goes on with, and the service accepts it, whatever was queued,
\* cancelled or stored since the grant.  And a process that is configured with a
\* token leaves the file to whoever logs in, password fallback or not.
SaveKeepsFileUsable ==
    [][\A c \in Callers :
          SaveDone(c) =>
              /\ settings.refreshToken = NoToken
              /\ pc[c] = "saving" => /\ stored' = refreshToken'
                                     /\ stored' \in valid \cup excused]_vars

\* When a call returns the token it obtained with a stored refresh token, and no
\* write is under way, the file holds the refresh token that goes with it: what
\* _CredentialSource calls kept in sync, so that a restart can go on from there.
StoreInSync ==
    [][\A c \in Callers :
          /\ pc[c] # "served" /\ pc'[c] = "served" /\ active'.by = c
          /\ source' = "STORE"
          /\ \A d \in Callers : saving'[d] = NoToken
          => stored' = refreshToken']_vars

\* A refresh token that came from the credential file is not presented after it
\* was revoked while the file holds one that works: the remedy the README gives
\* for a rejected refresh token, `clm-mcp login` again, reaches the server.
LoginRepairs ==
    [][\A c \in Callers :
          /\ pc[c] # "refreshGrant" /\ pc'[c] = "refreshGrant"
          /\ sent'[c].source = "STORE"
          /\ stored \in valid
          => sent'[c].token \in valid]_vars

\* A refresh grant renews the session the cached token belongs to, whoever logged in
\* or restarted meanwhile: the site that resolve_site_id reads out of the claims
\* after its await is still that of the account the request goes out with, unless
\* the password grant came in between.
SessionKept ==
    [][\A c \in Callers :
          /\ active' # active /\ active # NoAccess /\ active'.by = c
          /\ pc[c] = "refreshGrant"
          => sent[c].token = refreshToken]_vars

\* Every call ends, whoever else is cancelled, fails or waits.
EveryCallEnds == \A c \in Callers : pc[c] \in Running ~> pc[c] \in Ended

\* What a caller sees of the manager.
Phase ==
    [c \in Callers |-> CASE pc[c] = "served" -> "served"
                         [] pc[c] \in Failures -> "failed"
                         [] OTHER -> "open"]

Service ==
    INSTANCE TokenService
    WITH by <- active.by, fresh <- Fresh(active), refresher <- holder, phase <- Phase

\* Whatever the identity service, the credential file, the clock and the client
\* do, the callers see a TokenService: the promises of the class' docstring and
\* of the two methods.
ImplementsTokenService == Service!Spec

=============================================================================
