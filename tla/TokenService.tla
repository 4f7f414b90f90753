---------------------------- MODULE TokenService ----------------------------
(***************************************************************************)
(* What a TokenManager promises its callers, whatever credentials it has   *)
(* and whatever the identity service does: a call that succeeds returns    *)
(* the token it obtained itself or, unless it is a force_refresh, a cached *)
(* one that is fresh; only one call at a time obtains a token; and no      *)
(* get_access_token replaces a token that is still fresh.                  *)
(***************************************************************************)
EXTENDS Naturals

CONSTANTS
    Callers,       \* the calls
    Forcing,       \* those of force_refresh; the others are of get_access_token
    NoCaller       \* nobody (not a caller)

VARIABLES
    by,            \* the call that obtained the current access token, or nobody
    fresh,         \* whether that token has more than the skew left to live
    refresher,     \* the call that is obtaining a token, or nobody
    phase          \* how far each call is

vars == <<by, fresh, refresher, phase>>

TypeOK ==
    /\ by \in Callers \cup {NoCaller}
    /\ fresh \in BOOLEAN
    /\ refresher \in Callers \cup {NoCaller}
    /\ phase \in [Callers -> {"open", "served", "failed"}]

Init ==
    /\ by = NoCaller
    /\ fresh = FALSE
    /\ refresher = NoCaller
    /\ phase = [c \in Callers |-> "open"]

Begin(c) ==
    /\ phase[c] = "open"
    /\ refresher = NoCaller
    /\ c \in Forcing \/ ~fresh
    /\ refresher' = c
    /\ UNCHANGED <<by, fresh, phase>>

\* c has its token, and returns it now or after it has saved what came with it.
Install(c) ==
    /\ phase[c] = "open"
    /\ refresher = c
    /\ by # c
    /\ c \in Forcing \/ ~fresh
    /\ by' = c
    /\ fresh' \in BOOLEAN
    /\ \/ UNCHANGED <<phase, refresher>>
       \/ phase' = [phase EXCEPT ![c] = "served"] /\ refresher' = NoCaller

\* A call that fails while it obtains a token goes on keeping others from it.
KeepHeld(c) == UNCHANGED refresher

Release(c) == refresher' = IF refresher = c THEN NoCaller ELSE refresher

Serve(c) ==
    /\ phase[c] = "open"
    /\ by = c \/ (c \notin Forcing /\ fresh)
    /\ phase' = [phase EXCEPT ![c] = "served"]
    /\ Release(c)
    /\ UNCHANGED <<by, fresh>>

\* The call cannot have a token: it finds no credential, or what it tried failed.
Fail(c) ==
    /\ phase[c] = "open"
    /\ refresher = c \/ (refresher = NoCaller /\ (c \in Forcing \/ ~fresh))
    /\ phase' = [phase EXCEPT ![c] = "failed"]
    /\ Release(c)
    /\ UNCHANGED <<by, fresh>>

\* The caller gives up, wherever its call has got to.
Cancel(c) ==
    /\ phase[c] = "open"
    /\ phase' = [phase EXCEPT ![c] = "failed"]
    /\ Release(c)
    /\ UNCHANGED <<by, fresh>>

Age ==
    /\ fresh' = FALSE
    /\ UNCHANGED <<by, refresher, phase>>

\* The process is restarted: the calls under way are over, the token forgotten.
Forget ==
    /\ by' = NoCaller
    /\ fresh' = FALSE
    /\ refresher' = NoCaller
    /\ phase' \in [Callers -> {"open", "served", "failed"}]
    /\ \A c \in Callers : phase'[c] = phase[c] \/ (phase[c] = "open" /\ phase'[c] = "failed")

CallStep(c) == Begin(c) \/ Install(c) \/ Serve(c) \/ Fail(c)

Next == (\E c \in Callers : CallStep(c) \/ Cancel(c)) \/ Age \/ Forget

Spec == Init /\ [][Next]_vars

=============================================================================
