------------------------ MODULE TokenManagerProofs ------------------------
(***************************************************************************)
(* Proofs about TokenManager, for every number of tasks, every lifetime,   *)
(* skew and clock drift, and every set of faults.                          *)
(***************************************************************************)
EXTENDS TokenManager, SequenceTheorems, TLAPS

\* The lock is held by exactly the task in the critical section.
LockInv == \A c \in Callers : pc[c] \in InSection <=> holder = c

\* The queue holds suspended tasks, each once.
QueueInv ==
    /\ \A i \in 1..Len(waiters) : pc[waiters[i]] = "waiting"
    /\ \A i, j \in 1..Len(waiters) : waiters[i] = waiters[j] => i = j

\* Only a task whose grant is under way has an answer coming.
ReplyInv == \A c \in Callers : reply[c] # Unanswered => pc[c] \in Granting

\* A get_access_token that asks for a token has seen the cached one stale; as
\* nobody else can replace it meanwhile, it still is.
StaleInv ==
    \A c \in Callers : pc[c] \in Granting /\ c \notin Forcing => ~Fresh(active)

\* The token whose refresh token is being written is still the cached one.
SavingInv == \A c \in Callers : pc[c] = "saving" => active.by = c

\* A task that has yet to obtain a token did not obtain the cached one.
OwnInv ==
    \A c \in Callers : pc[c] \in {"ready", "waiting"} \cup Granting => active.by # c

\* The cached token is given the earlier of its two deadlines.
DeadlineInv == active.expiry <= active.ttlEnd /\ active.expiry <= active.claimEnd

\* The inductive invariant.
IInv ==
    /\ TypeOK
    /\ LockInv
    /\ QueueInv
    /\ ReplyInv
    /\ StaleInv
    /\ SavingInv
    /\ OwnInv
    /\ DeadlineInv

-----------------------------------------------------------------------------
(* The shape of the values *)

\* A step sees the constants through these facts only.
LEMMA ConstantFacts ==
    /\ NoCaller \notin Callers
    /\ Forcing \subseteq Callers
    /\ MaxToken \in Nat /\ MaxToken >= 2
    /\ MaxTime \in Nat /\ Skew \in Nat
    /\ Lifetimes \subseteq Nat /\ Drifts \subseteq Int
    /\ NoToken \notin Tokens
    /\ \A s \in Settings : s.refreshToken \in MaybeTokens
<1>1. MaxToken \in Nat /\ MaxToken >= 2
  BY TokenAssumption
<1>2. \A s \in Settings : s.refreshToken \in MaybeTokens
  BY <1>1, SettingsAssumption DEF MaybeTokens, Tokens, NoToken, UserToken
<1> QED
  BY <1>1, <1>2, CallersAssumption, TimeAssumption DEF Tokens, NoToken

\* The credential a grant presents is one of the known ones, from a known source.
LEMMA ResolvedType ==
    ASSUME TypeOK
    PROVE  ResolvedRefreshToken \in [token : MaybeTokens, source : Sources \cup {NoSource}]
BY ConstantFacts DEF TypeOK, ResolvedRefreshToken, Unsent, MaybeTokens, Sources, NoSource

THEOREM InitIInv == Init => IInv
<1> SUFFICES ASSUME Init PROVE IInv
  OBVIOUS
<1> USE ConstantFacts
<1>1. TypeOK
  BY TokenAssumption DEF Init, TypeOK, Tokens, MaybeTokens, NoAccess, Unsent, Running,
     Granting, InSection
<1>2. LockInv /\ QueueInv /\ ReplyInv /\ StaleInv /\ SavingInv /\ OwnInv /\ DeadlineInv
  BY DEF Init, LockInv, QueueInv, ReplyInv, StaleInv, SavingInv, OwnInv, DeadlineInv, InSection,
     Granting, NoAccess
<1> QED
  BY <1>1, <1>2 DEF IInv

-----------------------------------------------------------------------------
(* The critical section preserves the invariant *)

\* What taking the lock and running to the first await changes.
LEMMA CriticalSectionType ==
    ASSUME IInv, NEW c \in Callers, holder = NoCaller, CriticalSection(c)
    PROVE  /\ pc' \in [Callers -> {"ready"} \cup Running \cup Ended]
           /\ \A d \in Callers : d # c => pc'[d] = pc[d]
           /\ pc'[c] \in Granting \cup {"served", "missing"}
           /\ holder' = (IF pc'[c] \in Granting THEN c ELSE NoCaller)
           /\ pc'[c] \in Granting /\ c \notin Forcing => ~Fresh(active)
           /\ sent' \in [Callers -> [token : MaybeTokens, source : Sources \cup {NoSource}]]
           /\ reply' = [reply EXCEPT ![c] = Unanswered] \/ reply' = reply
<1> USE ConstantFacts
<1>1. TypeOK
  BY DEF IInv
<1>2. CASE End(c, "served") /\ UNCHANGED sent
  BY <1>1, <1>2 DEF TypeOK, End, Running, Ended, InSection, Granting
<1>3. CASE Refresh(c) /\ (c \notin Forcing => ~Fresh(active))
  <2>1. CASE ResolvedRefreshToken # Unsent
    <3>1. ResolvedRefreshToken \in [token : MaybeTokens, source : Sources \cup {NoSource}]
      BY <1>1, ResolvedType
    <3>2. /\ pc' = [pc EXCEPT ![c] = "refreshGrant"]
          /\ holder' = c
          /\ sent' = [sent EXCEPT ![c] = ResolvedRefreshToken]
          /\ reply' = reply
      BY <1>3, <2>1 DEF Refresh
    <3>3. sent' \in [Callers -> [token : MaybeTokens, source : Sources \cup {NoSource}]]
      BY <1>1, <3>1, <3>2 DEF TypeOK
    <3> QED
      BY <1>1, <1>3, <3>2, <3>3 DEF TypeOK, Running, Ended, InSection, Granting
  <2>2. CASE ResolvedRefreshToken = Unsent /\ settings.password
    BY <1>1, <1>3, <2>2
       DEF TypeOK, Refresh, PasswordGrant, Running, Ended, InSection, Granting
  <2>3. CASE ResolvedRefreshToken = Unsent /\ ~settings.password
    BY <1>1, <1>3, <2>3
       DEF TypeOK, Refresh, PasswordGrant, End, Running, Ended, InSection, Granting, Failures
  <2> QED
    BY <2>1, <2>2, <2>3
<1> QED
  BY <1>2, <1>3 DEF CriticalSection

\* Nothing but the fields of the lock and of the tasks changes.
Elsewhere == UNCHANGED <<now, settings, memory, saving, stored, service, excused>>

LEMMA CallIInv == ASSUME IInv, NEW c \in Callers, Call(c) PROVE IInv'
<1> USE ConstantFacts
<1>1. TypeOK /\ Elsewhere /\ pc[c] = "ready"
  BY DEF IInv, Call, Elsewhere
<1>2. CASE pc[c] = "ready" /\ End(c, "served") /\ UNCHANGED <<waiters, sent>>
  <2>1. TypeOK'
    BY <1>1, <1>2 DEF TypeOK, Elsewhere, End, Ended, memory, service
  <2>2. LockInv'
    BY <1>1, <1>2 DEF IInv, LockInv, TypeOK, End, InSection, Granting
  <2>3. QueueInv'
    BY <1>1, <1>2 DEF IInv, QueueInv, TypeOK, End
  <2>4. ReplyInv' /\ StaleInv' /\ SavingInv' /\ OwnInv' /\ DeadlineInv'
    BY <1>1, <1>2 DEF IInv, ReplyInv, StaleInv, SavingInv, OwnInv, DeadlineInv, TypeOK, End,
       Elsewhere, memory, Fresh, Granting
  <2> QED
    BY <2>1, <2>2, <2>3, <2>4 DEF IInv
<1>3. CASE holder = NoCaller /\ CriticalSection(c) /\ UNCHANGED waiters
  <2> USE <1>3, CriticalSectionType
  <2>1. TypeOK'
    BY <1>1 DEF TypeOK, Elsewhere, memory, service
  <2>2. LockInv'
    BY <1>1 DEF IInv, LockInv, TypeOK, InSection, Granting
  <2>3. QueueInv'
    BY <1>1 DEF IInv, QueueInv, TypeOK
  <2>4. ReplyInv' /\ StaleInv' /\ SavingInv' /\ OwnInv' /\ DeadlineInv'
    BY <1>1 DEF IInv, ReplyInv, StaleInv, SavingInv, OwnInv, DeadlineInv, TypeOK, Elsewhere,
       memory, Fresh, Granting
  <2> QED
    BY <2>1, <2>2, <2>3, <2>4 DEF IInv
<1>4. CASE /\ waiters' = Append(waiters, c)
           /\ pc' = [pc EXCEPT ![c] = "waiting"]
           /\ UNCHANGED <<holder, sent, reply>>
  <2>1. TypeOK'
    BY <1>1, <1>4 DEF TypeOK, Elsewhere, memory, service, Running
  <2>2. LockInv' /\ ReplyInv' /\ StaleInv' /\ SavingInv' /\ OwnInv' /\ DeadlineInv'
    BY <1>1, <1>4 DEF IInv, LockInv, ReplyInv, StaleInv, SavingInv, OwnInv, DeadlineInv, TypeOK,
       Elsewhere, memory, Fresh, Granting, InSection
  <2>3. QueueInv'
    BY <1>1, <1>4 DEF IInv, QueueInv, TypeOK
  <2> QED
    BY <2>1, <2>2, <2>3 DEF IInv
<1> QED
  BY <1>1, <1>2, <1>3, <1>4 DEF Call, Enter

LEMMA AcquireIInv == ASSUME IInv, NEW c \in Callers, Acquire(c) PROVE IInv'
<1> USE ConstantFacts, CriticalSectionType
<1>1. /\ TypeOK /\ Elsewhere /\ holder = NoCaller
      /\ waiters \in Seq(Callers) /\ waiters # <<>> /\ Head(waiters) = c
      /\ waiters' = Tail(waiters) /\ CriticalSection(c)
  BY DEF IInv, TypeOK, Acquire, Elsewhere
<1>2. TypeOK'
  BY <1>1 DEF TypeOK, Elsewhere, memory, service
<1>3. LockInv'
  BY <1>1 DEF IInv, LockInv, TypeOK, InSection, Granting
<1>4. QueueInv'
  <2>1. \A i \in 1..Len(waiters') : i + 1 \in 1..Len(waiters) /\ waiters'[i] = waiters[i + 1]
    BY <1>1
  <2>2. \A i \in 1..Len(waiters') : waiters'[i] # c /\ waiters'[i] \in Callers
    BY <1>1, <2>1 DEF IInv, QueueInv
  <2> QED
    BY <1>1, <2>1, <2>2 DEF IInv, QueueInv, TypeOK
<1>5. pc[c] = "waiting"
  BY <1>1 DEF IInv, QueueInv
<1>6. ReplyInv' /\ StaleInv' /\ SavingInv' /\ OwnInv' /\ DeadlineInv'
  BY <1>1, <1>5 DEF IInv, ReplyInv, StaleInv, SavingInv, OwnInv, DeadlineInv, TypeOK, Elsewhere,
     memory, Fresh, Granting
<1> QED
  BY <1>2, <1>3, <1>4, <1>6 DEF IInv

-----------------------------------------------------------------------------
(* The identity service and the manager's side of a grant *)

LEMMA AnswerIInv == ASSUME IInv, NEW c \in Callers, IdentityAnswers(c) PROVE IInv'
<1> USE ConstantFacts
<1>1. /\ TypeOK
      /\ pc[c] \in Granting
      /\ UNCHANGED <<now, settings, memory, lock, pc, sent, saving, stored, excused>>
  BY DEF IInv, IdentityAnswers
<1>2. /\ minted' \in Tokens
      /\ valid' \subseteq Tokens
      /\ \E r \in Grants \cup {Refusal} : reply' = [reply EXCEPT ![c] = r]
  <2>1. ASSUME NEW t \in Tokens, Accept(c, t)
        PROVE  \E r \in Grants : reply' = [reply EXCEPT ![c] = r]
    <3>1. PICK l \in Lifetimes, ttl \in Lifetimes :
             reply' = [reply EXCEPT ![c] = [status |-> "ok", token |-> t,
                                            exp |-> now + l, ttl |-> ttl]]
      BY <2>1 DEF Accept
    <3>2. [status |-> "ok", token |-> t, exp |-> now + l, ttl |-> ttl] \in Grants
      BY <1>1, <2>1 DEF TypeOK, Grants
    <3> QED
      BY <3>1, <3>2
  <2>2. minted < MaxToken => minted + 1 \in Tokens
    BY <1>1 DEF TypeOK, Tokens
  <2>3. minted \in Tokens /\ valid \subseteq Tokens
    BY <1>1 DEF TypeOK
  <2> QED
    BY <2>1, <2>2, <2>3 DEF IdentityAnswers, service
<1>3. TypeOK'
  BY <1>1, <1>2 DEF TypeOK, memory, lock
<1>4. LockInv' /\ QueueInv' /\ StaleInv' /\ SavingInv' /\ OwnInv' /\ DeadlineInv'
  BY <1>1 DEF IInv, LockInv, QueueInv, StaleInv, SavingInv, OwnInv, DeadlineInv, memory, lock, Fresh
<1>5. ReplyInv'
  BY <1>1, <1>2 DEF IInv, ReplyInv, TypeOK
<1> QED
  BY <1>3, <1>4, <1>5 DEF IInv

LEMMA ReceiveIInv == ASSUME IInv, NEW c \in Callers, Receive(c) PROVE IInv'
<1> USE ConstantFacts
<1>1. /\ TypeOK
      /\ pc[c] \in Granting
      /\ holder = c
      /\ \A d \in Callers : d # c => pc[d] \notin InSection
      /\ UNCHANGED <<now, settings, waiters, sent, stored, service, excused>>
  BY DEF IInv, Receive, LockInv, InSection
<1>2. CASE Granted(c)
  <2>1. reply[c] \in Grants /\ reply[c].token \in Tokens
    BY <1>1, <1>2 DEF TypeOK, Granted, Grants, Unanswered, Refusal
  <2>2. GrantSource(c) \in Sources \cup {NoSource}
    BY <1>1 DEF TypeOK, GrantSource, Sources
  <2>3. /\ active' \in AccessTokens
        /\ active'.by = c
        /\ DeadlineInv'
    <3>1. PICK drift \in Drifts :
             active' = [by |-> c, exp |-> reply[c].exp,
                        ttlEnd |-> now + reply[c].ttl,
                        claimEnd |-> reply[c].exp - drift,
                        expiry |-> Earlier(now + reply[c].ttl, reply[c].exp - drift)]
      BY <1>2 DEF Granted
    <3>2. /\ now \in Nat /\ reply[c].exp \in Nat /\ reply[c].ttl \in Nat /\ drift \in Int
      BY <1>1, <2>1 DEF TypeOK, Grants
    <3> QED
      BY <3>1, <3>2 DEF AccessTokens, Earlier, DeadlineInv
  <2>4. /\ pc' = [pc EXCEPT ![c] = IF WrittenBack(c) THEN "saving" ELSE "served"]
        /\ holder' = (IF WrittenBack(c) THEN c ELSE NoCaller)
        /\ reply' = [reply EXCEPT ![c] = Unanswered]
        /\ saving' \in [Callers -> MaybeTokens]
    BY <1>1, <1>2, <2>1 DEF Granted, End, TypeOK, MaybeTokens
  <2>5. refreshToken' \in MaybeTokens /\ source' \in Sources \cup {NoSource}
    BY <1>2, <2>1, <2>2 DEF Granted, MaybeTokens
  <2>6. TypeOK'
    BY <1>1, <2>3, <2>4, <2>5 DEF TypeOK, service, Running, InSection, Ended
  <2>7. LockInv'
    BY <1>1, <2>4 DEF LockInv, TypeOK, InSection, Granting
  <2>8. QueueInv'
    BY <1>1, <2>4 DEF IInv, QueueInv, TypeOK, Granting
  <2>9. ReplyInv' /\ StaleInv' /\ SavingInv' /\ OwnInv'
    BY <1>1, <2>3, <2>4 DEF IInv, ReplyInv, StaleInv, SavingInv, OwnInv, TypeOK, InSection, Granting
  <2> QED
    BY <2>3, <2>6, <2>7, <2>8, <2>9 DEF IInv
<1>3. CASE Refused(c)
  <2>1. /\ UNCHANGED <<memory, saving>>
        /\ reply' = [reply EXCEPT ![c] = Unanswered]
        /\ \/ pc' = [pc EXCEPT ![c] = "passwordGrant"] /\ holder' = c
           \/ \E end \in Failures : pc' = [pc EXCEPT ![c] = end] /\ holder' = NoCaller
    BY <1>1, <1>3 DEF Refused, PasswordGrant, End, Failures
  <2>2. TypeOK'
    BY <1>1, <2>1 DEF TypeOK, memory, service, Running, InSection, Granting, Ended
  <2>3. LockInv'
    BY <1>1, <2>1 DEF LockInv, TypeOK, InSection, Granting, Failures
  <2>4. QueueInv'
    BY <1>1, <2>1 DEF IInv, QueueInv, TypeOK, Granting
  <2>5. ReplyInv' /\ StaleInv' /\ SavingInv' /\ OwnInv' /\ DeadlineInv'
    BY <1>1, <2>1 DEF IInv, ReplyInv, StaleInv, SavingInv, OwnInv, DeadlineInv, TypeOK, Granting,
       Fresh, memory, Failures
  <2> QED
    BY <2>2, <2>3, <2>4, <2>5 DEF IInv
<1> QED
  BY <1>2, <1>3 DEF Receive

LEMMA SaveDoneIInv == ASSUME IInv, NEW c \in Callers, SaveDone(c) PROVE IInv'
<1> USE ConstantFacts
<1>1. /\ TypeOK
      /\ stored' \in MaybeTokens
      /\ saving' = [saving EXCEPT ![c] = NoToken]
      /\ UNCHANGED <<now, settings, memory, waiters, sent, service, excused>>
  BY DEF IInv, TypeOK, SaveDone
<1>2. CASE pc[c] = "saving" /\ End(c, "served")
  <2>1. TypeOK'
    BY <1>1, <1>2 DEF TypeOK, End, memory, service, MaybeTokens, Ended
  <2>2. LockInv'
    BY <1>1, <1>2 DEF IInv, LockInv, TypeOK, End, InSection, Granting
  <2>3. QueueInv'
    BY <1>1, <1>2 DEF IInv, QueueInv, TypeOK, End
  <2>4. ReplyInv' /\ StaleInv' /\ SavingInv' /\ OwnInv' /\ DeadlineInv'
    BY <1>1, <1>2 DEF IInv, ReplyInv, StaleInv, SavingInv, OwnInv, DeadlineInv, TypeOK, End,
       memory, Fresh, Granting
  <2> QED
    BY <2>1, <2>2, <2>3, <2>4 DEF IInv
<1>3. CASE UNCHANGED <<pc, holder, reply>>
  <2>1. TypeOK'
    BY <1>1, <1>3 DEF TypeOK, memory, service, MaybeTokens
  <2>2. LockInv' /\ QueueInv' /\ ReplyInv' /\ StaleInv' /\ SavingInv' /\ OwnInv' /\ DeadlineInv'
    BY <1>1, <1>3 DEF IInv, LockInv, QueueInv, ReplyInv, StaleInv, SavingInv, OwnInv, DeadlineInv,
       memory, Fresh
  <2> QED
    BY <2>1, <2>2 DEF IInv
<1> QED
  BY <1>2, <1>3 DEF SaveDone

-----------------------------------------------------------------------------
(* Failures *)

\* A task of the critical section gives up: whichever way, the invariant survives.
LEMMA GiveUp ==
    ASSUME IInv, NEW c \in Callers, NEW end \in Ended, pc[c] \in InSection, End(c, end),
           saving' \in [Callers -> MaybeTokens], excused' \subseteq Tokens,
           UNCHANGED <<now, settings, memory, waiters, sent, stored, service>>
    PROVE  IInv'
<1> USE ConstantFacts
<1>1. TypeOK
  BY DEF IInv
<1>2. TypeOK'
  BY <1>1 DEF TypeOK, End, memory, service
<1>3. LockInv'
  BY <1>1 DEF IInv, LockInv, TypeOK, End, InSection, Granting, Ended, Failures
<1>4. QueueInv'
  BY <1>1 DEF IInv, QueueInv, TypeOK, End, InSection, Granting
<1>5. ReplyInv' /\ StaleInv' /\ SavingInv' /\ OwnInv' /\ DeadlineInv'
  BY <1>1 DEF IInv, ReplyInv, StaleInv, SavingInv, OwnInv, DeadlineInv, TypeOK, End, memory,
     Fresh, Granting, Ended, Failures
<1> QED
  BY <1>2, <1>3, <1>4, <1>5 DEF IInv

LEMMA FailureIInv ==
    ASSUME IInv, NEW c \in Callers, GrantFails(c) \/ GrantMalformed(c) \/ SaveFails(c)
    PROVE  IInv'
<1> USE ConstantFacts
<1>1. TypeOK /\ Orphaned({c}) \subseteq Tokens /\ excused \subseteq Tokens
  BY DEF IInv, TypeOK, Orphaned
<1>2. CASE GrantFails(c)
  BY <1>1, <1>2, GiveUp DEF GrantFails, TypeOK, InSection, Ended, Failures
<1>3. CASE GrantMalformed(c)
  <2>1. pc[c] \in Granting
    BY <1>3 DEF IInv, ReplyInv, GrantMalformed, Unanswered
  <2> QED
    BY <1>1, <1>3, <2>1, GiveUp DEF GrantMalformed, TypeOK, InSection, Ended, Failures
<1>4. CASE SaveFails(c) /\ pc[c] = "saving"
  <2>1. saving' \in [Callers -> MaybeTokens] /\ excused' \subseteq Tokens
    BY <1>1, <1>4 DEF SaveFails, TypeOK, MaybeTokens, Unsaved
  <2> QED
    BY <1>4, <2>1, GiveUp DEF SaveFails, InSection, Ended, Failures
<1>5. CASE SaveFails(c) /\ pc[c] # "saving"
  <2>1. saving' \in [Callers -> MaybeTokens] /\ excused' \subseteq Tokens
    BY <1>1, <1>5 DEF SaveFails, TypeOK, MaybeTokens, Unsaved
  <2>2. TypeOK'
    BY <1>1, <1>5, <2>1 DEF SaveFails, TypeOK, memory, service
  <2>3. LockInv' /\ QueueInv' /\ ReplyInv' /\ StaleInv' /\ SavingInv' /\ OwnInv' /\ DeadlineInv'
    BY <1>5 DEF SaveFails, IInv, LockInv, QueueInv, ReplyInv, StaleInv, SavingInv,
       OwnInv, DeadlineInv, memory, Fresh
  <2> QED
    BY <2>2, <2>3 DEF IInv
<1> QED
  BY <1>2, <1>3, <1>4, <1>5

\* Taking one entry out of the queue leaves the others, in their order.
LEMMA RemoveAtFacts ==
    ASSUME NEW S, NEW s \in Seq(S), NEW i \in 1..Len(s)
    PROVE  /\ RemoveAt(s, i) \in Seq(S)
           /\ Len(RemoveAt(s, i)) = Len(s) - 1
           /\ \A j \in 1..(Len(s) - 1) :
                 RemoveAt(s, i)[j] = IF j < i THEN s[j] ELSE s[j + 1]
<1> DEFINE before == SubSeq(s, 1, i - 1)
           after  == SubSeq(s, i + 1, Len(s))
<1>1. /\ before \in Seq(S) /\ Len(before) = i - 1
      /\ \A j \in 1..(i - 1) : before[j] = s[j]
  OBVIOUS
<1>2. /\ after \in Seq(S) /\ Len(after) = Len(s) - i
      /\ \A j \in 1..(Len(s) - i) : after[j] = s[i + j]
  OBVIOUS
<1>3. RemoveAt(s, i) = before \o after
  BY DEF RemoveAt
<1> HIDE DEF before, after
<1>4. Len(s) \in Nat /\ i \in 1..Len(s)
  OBVIOUS
<1>5. /\ before \o after \in Seq(S)
      /\ Len(before \o after) = Len(s) - 1
      /\ \A j \in 1..(Len(s) - 1) :
            (before \o after)[j] = IF j <= i - 1 THEN before[j] ELSE after[j - (i - 1)]
  <2>1. /\ before \o after \in Seq(S)
        /\ Len(before \o after) = Len(before) + Len(after)
        /\ \A j \in 1..(Len(before) + Len(after)) :
              (before \o after)[j] =
                 IF j <= Len(before) THEN before[j] ELSE after[j - Len(before)]
    BY <1>1, <1>2, ConcatProperties, Zenon
  <2>2. Len(before) = i - 1 /\ Len(before) + Len(after) = Len(s) - 1
    BY <1>1, <1>2, <1>4
  <2> QED
    BY <2>1, <2>2, Zenon
<1>6. \A j \in 1..(Len(s) - 1) :
         (IF j <= i - 1 THEN before[j] ELSE after[j - (i - 1)])
         = (IF j < i THEN s[j] ELSE s[j + 1])
  <2> SUFFICES ASSUME NEW j \in 1..(Len(s) - 1), j >= i
               PROVE  after[j - (i - 1)] = s[j + 1]
    BY <1>1, <1>4
  <2>1. j - (i - 1) \in 1..(Len(s) - i) /\ i + (j - (i - 1)) = j + 1
    BY <1>4
  <2> QED
    BY <1>2, <2>1
<1> QED
  BY <1>3, <1>5, <1>6

LEMMA CancelIInv == ASSUME IInv, NEW c \in Callers, Cancel(c) PROVE IInv'
<1> USE ConstantFacts
<1>1. /\ TypeOK /\ End(c, "cancelled")
      /\ saving' \in [Callers -> MaybeTokens] /\ excused' \subseteq Tokens
      /\ UNCHANGED <<now, settings, memory, sent, stored, service>>
  BY DEF IInv, TypeOK, Cancel, Orphaned, Unsaved, MaybeTokens
<1>2. CASE pc[c] \in InSection
  <2>1. UNCHANGED waiters
    BY <1>2 DEF Cancel, InSection, Granting
  <2> QED
    BY <1>1, <1>2, <2>1, GiveUp DEF Ended, Failures
<1>3. CASE pc[c] = "waiting"
  <2>1. PICK i \in 1..Len(waiters) : waiters[i] = c /\ waiters' = RemoveAt(waiters, i)
    BY <1>3 DEF Cancel
  <2>2. /\ waiters \in Seq(Callers)
        /\ waiters' \in Seq(Callers)
        /\ Len(waiters') = Len(waiters) - 1
        /\ \A j \in 1..(Len(waiters) - 1) :
              waiters'[j] = IF j < i THEN waiters[j] ELSE waiters[j + 1]
    BY <1>1, <2>1, RemoveAtFacts DEF TypeOK
  <2>3. holder' = holder /\ holder # c
    BY <1>1, <1>3 DEF IInv, LockInv, End, InSection, Granting
  <2>4. TypeOK'
    BY <1>1, <2>2, <2>3 DEF TypeOK, End, memory, service, Ended, Failures
  <2>5. LockInv'
    BY <1>1, <1>3, <2>3 DEF IInv, LockInv, TypeOK, End, InSection, Granting
  <2>6. QueueInv'
    <3>1. \A j \in 1..Len(waiters') :
             \E k \in 1..Len(waiters) : k # i /\ waiters'[j] = waiters[k]
                                        /\ k = IF j < i THEN j ELSE j + 1
      BY <2>1, <2>2
    <3>2. \A j \in 1..Len(waiters') : waiters'[j] # c /\ pc[waiters'[j]] = "waiting"
      BY <2>1, <3>1 DEF IInv, QueueInv
    <3>3. \A j \in 1..Len(waiters') : pc'[waiters'[j]] = "waiting"
      BY <1>1, <2>2, <3>2 DEF TypeOK, End
    <3>4. ASSUME NEW j \in 1..Len(waiters'), NEW k \in 1..Len(waiters'),
                 waiters'[j] = waiters'[k]
          PROVE  j = k
      BY <2>2, <3>1, <3>4 DEF IInv, QueueInv
    <3> QED
      BY <3>3, <3>4 DEF QueueInv
  <2>7. ReplyInv' /\ StaleInv' /\ SavingInv' /\ OwnInv' /\ DeadlineInv'
    BY <1>1, <1>3 DEF IInv, ReplyInv, StaleInv, SavingInv, OwnInv, DeadlineInv, TypeOK, End,
       memory, Fresh, Granting
  <2> QED
    BY <2>4, <2>5, <2>6, <2>7 DEF IInv
<1> QED
  BY <1>2, <1>3 DEF Cancel, Running

LEMMA RestartIInv == ASSUME IInv, Restart PROVE IInv'
<1> USE ConstantFacts
<1>1. /\ TypeOK /\ active' = NoAccess /\ holder' = NoCaller /\ waiters' = <<>>
      /\ pc' = [c \in Callers |-> IF pc[c] \in Running THEN "cancelled" ELSE pc[c]]
      /\ reply' = [c \in Callers |-> Unanswered]
  BY DEF IInv, Restart
<1>2. excused' \subseteq Tokens
  BY <1>1 DEF Restart, TypeOK, Orphaned, Unsaved
<1>3. TypeOK'
  BY <1>1, <1>2 DEF Restart, TypeOK, MaybeTokens, Ended, Failures, service
<1>4. LockInv' /\ ReplyInv' /\ StaleInv' /\ SavingInv' /\ OwnInv'
  BY <1>1 DEF IInv, TypeOK, LockInv, ReplyInv, StaleInv, SavingInv, OwnInv, NoAccess, Running, InSection,
     Granting
<1>5. QueueInv' /\ DeadlineInv'
  BY <1>1 DEF QueueInv, DeadlineInv, NoAccess
<1> QED
  BY <1>3, <1>4, <1>5 DEF IInv

LEMMA EnvironmentIInv ==
    ASSUME IInv, Tick \/ Login \/ (\E t \in Tokens : Revoke(t))
    PROVE  IInv'
<1> USE ConstantFacts
<1>1. /\ TypeOK
      /\ UNCHANGED <<settings, memory, lock, pc, sent, reply, saving>>
      /\ now' \in 0..MaxTime /\ now' >= now
      /\ minted' \in Tokens /\ valid' \subseteq Tokens /\ stored' \in MaybeTokens
      /\ excused' \subseteq Tokens
  <2>1. CASE Tick
    BY <2>1 DEF IInv, TypeOK, Tick, lock, service
  <2>2. CASE Login
    <3>1. /\ UNCHANGED <<now, settings, memory, lock, pc, sent, reply, saving, excused>>
          /\ minted' = minted \/ (minted < MaxToken /\ minted' = minted + 1)
          /\ stored' \in {UserToken, minted'}
          /\ valid' \subseteq valid \cup {minted'}
      BY <2>2 DEF Login, service
    <3>2. minted' \in Tokens /\ UserToken \in Tokens
      BY <3>1 DEF IInv, TypeOK, Tokens, UserToken
    <3> QED
      BY <3>1, <3>2 DEF IInv, TypeOK, MaybeTokens
  <2>3. CASE \E t \in Tokens : Revoke(t)
    BY <2>3 DEF IInv, TypeOK, Revoke, lock
  <2> QED
    BY <2>1, <2>2, <2>3
<1>2. TypeOK'
  BY <1>1 DEF TypeOK, memory, lock
<1>3. StaleInv'
  <2>1. active \in AccessTokens \cup {NoAccess} /\ now \in Int /\ now' \in Int
    BY <1>1 DEF TypeOK
  <2>2. active.expiry \in Int
    BY <2>1 DEF AccessTokens, NoAccess
  <2>3. ~Fresh(active) => ~Fresh(active)'
    BY <1>1, <2>1, <2>2 DEF Fresh, memory
  <2> QED
    BY <1>1, <2>3 DEF IInv, StaleInv
<1>4. LockInv' /\ QueueInv' /\ ReplyInv' /\ SavingInv' /\ OwnInv' /\ DeadlineInv'
  BY <1>1 DEF IInv, LockInv, QueueInv, ReplyInv, SavingInv, OwnInv, DeadlineInv, memory, lock
<1> QED
  BY <1>2, <1>3, <1>4 DEF IInv

-----------------------------------------------------------------------------
(* What a call returns *)

\* A call that ends well returns its own token or a fresh one out of the cache.
LEMMA ServedStep ==
    ASSUME IInv, [Next]_vars, NEW c \in Callers,
           pc[c] # "served", pc'[c] = "served", active'.by # c
    PROVE  active' = active /\ Fresh(active) /\ c \notin Forcing
<1> USE ConstantFacts
<1>1. TypeOK
  BY DEF IInv
<1>2. ASSUME NEW d \in Callers, NEW end \in Ended, End(d, end)
      PROVE  end = "served" /\ d = c
  BY <1>1, <1>2 DEF TypeOK, End
<1>3. ASSUME NEW d \in Callers, CriticalSection(d), memory' = memory
      PROVE  active' = active /\ Fresh(active) /\ c \notin Forcing
  <2>1. (d \notin Forcing /\ Fresh(active)) \/ Refresh(d)
    BY <1>3 DEF CriticalSection
  <2>2. ~Refresh(d)
    BY <1>1, <1>2 DEF Refresh, PasswordGrant, Ended, Failures, TypeOK
  <2>3. End(d, "served")
    BY <1>3, <2>2 DEF CriticalSection
  <2> QED
    BY <1>2, <1>3, <2>1, <2>2, <2>3 DEF memory, Ended
<1>4. ASSUME NEW d \in Callers, Call(d)
      PROVE  active' = active /\ Fresh(active) /\ c \notin Forcing
  <2>1. memory' = memory
    BY <1>4 DEF Call
  <2>2. CASE d \notin Forcing /\ Fresh(active) /\ End(d, "served")
    BY <1>2, <2>1, <2>2 DEF memory, Ended
  <2>3. CASE CriticalSection(d)
    BY <1>3, <2>1, <2>3
  <2>4. pc' # [pc EXCEPT ![d] = "waiting"]
    BY <1>1 DEF TypeOK
  <2> QED
    BY <1>4, <2>2, <2>3, <2>4 DEF Call, Enter
<1>5. ASSUME NEW d \in Callers, Acquire(d)
      PROVE  active' = active /\ Fresh(active) /\ c \notin Forcing
  BY <1>3, <1>5 DEF Acquire
<1>6. ASSUME NEW d \in Callers, IdentityAnswers(d) PROVE FALSE
  BY <1>6 DEF IdentityAnswers
<1>7. ASSUME NEW d \in Callers, Receive(d) PROVE FALSE
  <2>1. CASE Granted(d)
    <3>1. active'.by = d
      BY <2>1 DEF Granted
    <3>2. pc'[c] = pc[c] \/ d = c
      BY <1>1, <2>1 DEF TypeOK, Granted, End
    <3> QED
      BY <3>1, <3>2
  <2>2. CASE Refused(d)
    BY <1>1, <1>2, <2>2 DEF Refused, PasswordGrant, TypeOK, Ended, Failures
  <2> QED
    BY <1>7, <2>1, <2>2 DEF Receive
<1>8. ASSUME NEW d \in Callers, SaveDone(d) PROVE FALSE
  <2>1. pc[d] = "saving" /\ End(d, "served") /\ active' = active
    BY <1>8 DEF SaveDone, memory
  <2> QED
    BY <1>2, <2>1 DEF IInv, SavingInv, Ended
<1>9. ASSUME NEW d \in Callers, Failure(d) PROVE FALSE
  <2>1. \E end \in Failures : End(d, end) \/ UNCHANGED pc
    BY <1>9 DEF Failure, GrantFails, GrantMalformed, SaveFails, Cancel, Failures
  <2> QED
    BY <1>2, <2>1 DEF Ended, Failures
<1>10. ASSUME Restart PROVE FALSE
  BY <1>1, <1>10 DEF TypeOK, Restart
<1>11. ASSUME Tick \/ Login \/ (\E t \in Tokens : Revoke(t)) \/ UNCHANGED vars PROVE FALSE
  BY <1>11 DEF Tick, Login, Revoke, vars
<1> QED
  BY <1>4, <1>5, <1>6, <1>7, <1>8, <1>9, <1>10, <1>11 DEF Next, Progress

-----------------------------------------------------------------------------
(* The theorems *)

LEMMA NextIInv == IInv /\ [Next]_vars => IInv'
<1> SUFFICES ASSUME IInv, [Next]_vars PROVE IInv'
  OBVIOUS
<1>1. ASSUME NEW c \in Callers, Call(c) \/ Progress(c) \/ Failure(c) PROVE IInv'
  BY <1>1, CallIInv, AcquireIInv, AnswerIInv, ReceiveIInv, SaveDoneIInv, FailureIInv,
     CancelIInv DEF Progress, Failure
<1>2. CASE Restart
  BY <1>2, RestartIInv
<1>3. CASE Tick \/ Login \/ (\E t \in Tokens : Revoke(t))
  BY <1>3, EnvironmentIInv
<1>4. CASE UNCHANGED vars
  BY <1>4 DEF vars, memory, lock, service, IInv, TypeOK, LockInv, QueueInv, ReplyInv,
     StaleInv, SavingInv, OwnInv, DeadlineInv, Fresh
<1> QED
  BY <1>1, <1>2, <1>3, <1>4 DEF Next

\* IInv holds in every reachable state.
THEOREM Invariance == Spec => []IInv
BY InitIInv, NextIInv, PTL DEF Spec

\* Every variable keeps its type (TypeOK), under every interleaving and fault.
THEOREM TypeCorrect == Spec => []TypeOK
<1>1. IInv => TypeOK
  BY DEF IInv
<1> QED
  BY <1>1, Invariance, PTL

\* At most one task at a time refreshes (SingleFlight), whoever is cancelled or fails
\* while it holds the lock or queues for it.
THEOREM SingleFlightHolds == Spec => []SingleFlight
<1>1. IInv => SingleFlight
  BY DEF IInv, LockInv, SingleFlight
<1> QED
  BY <1>1, Invariance, PTL

\* A token served out of the cache is still accepted by the API if either of its two
\* deadlines was right to within the skew (CachedTokenLive).
THEOREM CachedTokenLiveHolds == Spec => CachedTokenLive
<1> USE ConstantFacts
<1> DEFINE Live == \A c \in Callers :
              /\ pc[c] # "served" /\ pc'[c] = "served" /\ active'.by # c
              /\ \/ active'.claimEnd - active'.exp <= Skew
                 \/ active'.ttlEnd - active'.exp <= Skew
              => now < active'.exp
<1>1. ASSUME IInv, [Next]_vars PROVE Live
  <2> SUFFICES ASSUME NEW c \in Callers,
                      pc[c] # "served", pc'[c] = "served", active'.by # c,
                      \/ active'.claimEnd - active'.exp <= Skew
                      \/ active'.ttlEnd - active'.exp <= Skew
               PROVE  now < active'.exp
    OBVIOUS
  <2>1. active' = active /\ Fresh(active)
    BY <1>1, ServedStep
  <2>2. active \in AccessTokens /\ now \in Int /\ DeadlineInv
    BY <1>1, <2>1 DEF IInv, TypeOK, Fresh
  <2>3. /\ active.expiry \in Int /\ active.ttlEnd \in Int /\ active.claimEnd \in Int
        /\ active.exp \in Int /\ active.expiry - now > Skew
    BY <2>1, <2>2 DEF AccessTokens, Fresh
  <2> QED
    BY <2>1, <2>2, <2>3 DEF DeadlineInv
<1>2. Spec => [][Live]_vars
  BY <1>1, Invariance, PTL DEF Spec
<1> QED
  BY <1>2 DEF CachedTokenLive

-----------------------------------------------------------------------------
(* The session of the cached token *)

\* A cached token has a refresh token beside it, of a known source, and a refresh
\* grant under way while one is cached presents that refresh token.
SessionInv ==
    /\ active # NoAccess => refreshToken # NoToken /\ source # NoSource
    /\ \A c \in Callers :
          pc[c] = "refreshGrant" => /\ sent[c].source # NoSource
                                    /\ active = NoAccess \/ sent[c].token = refreshToken

\* A task that takes the lock presents the refresh token in memory, if a token is cached.
LEMMA CriticalSectionSession ==
    ASSUME IInv, SessionInv, NEW c \in Callers, holder = NoCaller, CriticalSection(c),
           memory' = memory
    PROVE  SessionInv'
<1>1. TypeOK /\ active' = active /\ refreshToken' = refreshToken /\ source' = source
  BY DEF IInv, memory
<1>2. \A d \in Callers : pc[d] # "refreshGrant"
  BY ConstantFacts DEF IInv, LockInv, InSection, Granting
<1>3. CASE pc' = [pc EXCEPT ![c] = "refreshGrant"]
           /\ sent' = [sent EXCEPT ![c] = ResolvedRefreshToken] /\ ResolvedRefreshToken # Unsent
  <2>1. ResolvedRefreshToken.source # NoSource
    BY <1>3 DEF ResolvedRefreshToken, NoSource, Unsent
  <2>2. active # NoAccess => ResolvedRefreshToken.token = refreshToken
    BY DEF SessionInv, ResolvedRefreshToken
  <2> QED
    BY <1>1, <1>2, <1>3, <2>1, <2>2 DEF SessionInv, TypeOK
<1>4. CASE \E p : p # "refreshGrant" /\ pc' = [pc EXCEPT ![c] = p]
  BY <1>1, <1>2, <1>4 DEF SessionInv, TypeOK
<1> QED
  BY <1>3, <1>4 DEF CriticalSection, Refresh, PasswordGrant, End

\* The answer to a grant caches a token with the refresh token of its session.
LEMMA ReceiveSession ==
    ASSUME IInv, SessionInv, NEW c \in Callers, Receive(c) PROVE SessionInv'
<1>1. TypeOK /\ pc[c] \in Granting /\ sent' = sent
  BY DEF IInv, Receive
<1>2. \A d \in Callers : d # c => pc[d] # "refreshGrant"
  BY <1>1 DEF IInv, LockInv, InSection, Granting
<1>3. CASE Granted(c)
  <2>1. reply[c].token \in Tokens
    BY <1>1, <1>3 DEF TypeOK, Granted, Grants, Unanswered, Refusal
  <2>2. refreshToken' # NoToken /\ source' # NoSource
    BY <1>1, <1>3, <2>1, ConstantFacts DEF Granted, GrantSource, Granting, SessionInv, NoSource
  <2>3. \A d \in Callers : pc'[d] # "refreshGrant"
    BY <1>1, <1>2, <1>3 DEF Granted, End, TypeOK
  <2> QED
    BY <2>2, <2>3 DEF SessionInv
<1>4. CASE Refused(c)
  <2>1. \A d \in Callers : pc'[d] # "refreshGrant"
    BY <1>1, <1>2, <1>4 DEF Refused, PasswordGrant, End, TypeOK
  <2> QED
    BY <1>4, <2>1 DEF Refused, SessionInv, memory
<1> QED
  BY <1>3, <1>4 DEF Receive

LEMMA NextSession == IInv /\ SessionInv /\ [Next]_vars => SessionInv'
<1> SUFFICES ASSUME IInv, SessionInv, [Next]_vars PROVE SessionInv'
  OBVIOUS
<1>1. TypeOK
  BY DEF IInv
<1>2. ASSUME memory' = memory, sent' = sent,
             \A d \in Callers : pc'[d] = "refreshGrant" => pc[d] = "refreshGrant"
      PROVE  SessionInv'
  BY <1>2 DEF SessionInv, memory
<1>3. ASSUME NEW c \in Callers, NEW end, end # "refreshGrant", End(c, end) \/ pc' = pc,
             memory' = memory, sent' = sent
      PROVE  SessionInv'
  BY <1>1, <1>2, <1>3 DEF End, TypeOK
<1>4. ASSUME NEW c \in Callers, Call(c) PROVE SessionInv'
  <2>1. CASE holder = NoCaller /\ CriticalSection(c)
    BY <1>4, <2>1, CriticalSectionSession DEF Call
  <2>2. CASE End(c, "served") /\ sent' = sent
    BY <1>3, <1>4, <2>2 DEF Call
  <2>3. CASE pc' = [pc EXCEPT ![c] = "waiting"] /\ sent' = sent
    BY <1>1, <1>2, <1>4, <2>3 DEF Call, TypeOK
  <2> QED
    BY <1>4, <2>1, <2>2, <2>3 DEF Call, Enter
<1>5. ASSUME NEW c \in Callers, Progress(c) PROVE SessionInv'
  <2>1. CASE Acquire(c)
    BY <2>1, CriticalSectionSession DEF Acquire
  <2>2. CASE IdentityAnswers(c)
    BY <1>2, <2>2 DEF IdentityAnswers, memory, lock
  <2>3. CASE SaveDone(c)
    BY <1>3, <2>3 DEF SaveDone
  <2> QED
    BY <1>5, <2>1, <2>2, <2>3, ReceiveSession DEF Progress
<1>6. ASSUME NEW c \in Callers, Failure(c) PROVE SessionInv'
  BY <1>3, <1>6 DEF Failure, GrantFails, GrantMalformed, SaveFails, Cancel
<1>7. CASE Restart
  BY <1>1, <1>7 DEF Restart, SessionInv, TypeOK, Running, InSection, Granting
<1>8. CASE Tick \/ Login \/ (\E t \in Tokens : Revoke(t)) \/ UNCHANGED vars
  BY <1>2, <1>8 DEF Tick, Login, Revoke, vars, memory, lock
<1> QED
  BY <1>4, <1>5, <1>6, <1>7, <1>8 DEF Next

\* A refresh grant renews the session of the cached token and no other (SessionKept),
\* whoever logged in, restarted or was cancelled meanwhile.
THEOREM SessionKeptHolds == Spec => SessionKept
<1> DEFINE Renews == \A c \in Callers :
              /\ active' # active /\ active # NoAccess /\ active'.by = c
              /\ pc[c] = "refreshGrant"
              => sent[c].token = refreshToken
<1>1. Init => SessionInv
  BY DEF Init, SessionInv
<1>2. IInv /\ SessionInv /\ [Next]_vars => SessionInv'
  BY NextSession
<1>3. SessionInv => Renews
  BY DEF SessionInv
<1>4. Spec => [][Renews]_vars
  BY <1>1, <1>2, <1>3, Invariance, PTL DEF Spec
<1> QED
  BY <1>4 DEF SessionKept

-----------------------------------------------------------------------------
(* TokenManager implements TokenService *)

\* One task's phase is all a step of that task changes of what callers see.
LEMMA PhaseStep ==
    ASSUME TypeOK, NEW c \in Callers, NEW p, pc' = [pc EXCEPT ![c] = p]
    PROVE  /\ p = "served" => Phase' = [Phase EXCEPT ![c] = "served"]
           /\ p \in Failures => Phase' = [Phase EXCEPT ![c] = "failed"]
           /\ p \in Running /\ pc[c] \in {"ready"} \cup Running => Phase' = Phase
BY DEF TypeOK, Phase, Failures, Running, InSection, Granting

\* The end of a call that has not ended yet is a step of the service's.
LEMMA EndRefines ==
    ASSUME IInv, NEW c \in Callers, pc[c] \in {"ready"} \cup Running, active' = active,
           now' = now, NEW end \in Ended, End(c, end),
           end = "served" => active.by = c \/ (c \notin Forcing /\ Fresh(active)),
           end \in Failures \ {"cancelled"}
              => \/ holder = c
                 \/ holder = NoCaller /\ (c \in Forcing \/ ~Fresh(active))
    PROVE  Service!CallStep(c) \/ Service!Cancel(c)
<1>1. TypeOK
  BY DEF IInv
<1>2. Phase[c] = "open"
  BY DEF Phase, Running, InSection, Granting, Failures
<1>3. active.by' = active.by /\ Fresh(active)' = Fresh(active) /\ Service!Release(c)
  BY DEF End, Fresh, Service!Release
<1>4. CASE end = "served"
  <2>1. Phase' = [Phase EXCEPT ![c] = "served"]
    BY <1>1, <1>4, PhaseStep DEF End
  <2> QED
    BY <1>2, <1>3, <1>4, <2>1 DEF Service!CallStep, Service!Serve
<1>5. CASE end \in Failures
  <2>1. Phase' = [Phase EXCEPT ![c] = "failed"]
    BY <1>1, <1>5, PhaseStep DEF End
  <2>2. CASE end = "cancelled"
    BY <1>2, <1>3, <2>1, <2>2 DEF Service!Cancel
  <2>3. CASE end # "cancelled"
    BY <1>2, <1>3, <1>5, <2>1, <2>3 DEF Service!CallStep, Service!Fail
  <2> QED
    BY <2>2, <2>3
<1> QED
  BY <1>4, <1>5 DEF Ended

LEMMA CriticalSectionRefines ==
    ASSUME IInv, NEW c \in Callers, pc[c] \in {"ready", "waiting"}, holder = NoCaller,
           CriticalSection(c), active' = active, now' = now
    PROVE  Service!CallStep(c) \/ Service!Cancel(c)
<1> USE ConstantFacts
<1>1. TypeOK
  BY DEF IInv
<1>2. CASE c \notin Forcing /\ Fresh(active) /\ End(c, "served")
  BY <1>2, EndRefines DEF Running, Ended, Failures
<1>3. CASE Refresh(c) /\ (c \in Forcing \/ ~Fresh(active))
  <2>1. \/ End(c, "missing")
        \/ \E p \in Granting : pc' = [pc EXCEPT ![c] = p] /\ holder' = c
    BY <1>3 DEF Refresh, PasswordGrant, Granting
  <2>2. CASE End(c, "missing")
    BY <1>3, <2>2, EndRefines DEF Running, Ended, Failures
  <2>3. CASE \E p \in Granting : pc' = [pc EXCEPT ![c] = p] /\ holder' = c
    <3>1. Phase' = Phase
      BY <1>1, <2>3, PhaseStep DEF Running, InSection
    <3>2. Phase[c] = "open"
      BY DEF Phase, Failures
    <3>3. active.by' = active.by /\ Fresh(active)' = Fresh(active)
      BY DEF Fresh
    <3> QED
      BY <1>3, <2>3, <3>1, <3>2, <3>3 DEF Service!CallStep, Service!Begin
  <2> QED
    BY <2>1, <2>2, <2>3
<1> QED
  BY <1>2, <1>3 DEF CriticalSection

LEMMA AcquireFacts ==
    ASSUME IInv, NEW c \in Callers, Acquire(c)
    PROVE  /\ pc[c] = "waiting" /\ holder = NoCaller /\ CriticalSection(c)
           /\ active' = active /\ now' = now
<1>1. 1 \in 1..Len(waiters) /\ waiters[1] = c
  BY DEF IInv, TypeOK, Acquire
<1> QED
  BY <1>1 DEF IInv, QueueInv, Acquire, memory

LEMMA CallRefines ==
    ASSUME IInv, NEW c \in Callers, Call(c)
    PROVE  Service!CallStep(c) \/ Service!Cancel(c) \/ UNCHANGED Service!vars
<1>1. TypeOK /\ pc[c] = "ready" /\ active' = active /\ now' = now
  BY DEF IInv, Call, memory
<1>2. CASE c \notin Forcing /\ Fresh(active) /\ End(c, "served")
  BY <1>1, <1>2, EndRefines DEF Ended, Failures
<1>3. CASE holder = NoCaller /\ CriticalSection(c)
  BY <1>1, <1>3, CriticalSectionRefines
<1>4. CASE pc' = [pc EXCEPT ![c] = "waiting"] /\ holder' = holder
  <2>1. Phase' = Phase
    BY <1>1, <1>4, PhaseStep DEF Running
  <2> QED
    BY <1>1, <1>4, <2>1 DEF Service!vars, Fresh
<1> QED
  BY <1>2, <1>3, <1>4 DEF Call, Enter

LEMMA ReceiveRefines ==
    ASSUME IInv, NEW c \in Callers, Receive(c)
    PROVE  Service!CallStep(c) \/ Service!Cancel(c) \/ UNCHANGED Service!vars
<1> USE ConstantFacts
<1>1. TypeOK /\ pc[c] \in Granting /\ holder = c /\ now' = now
  BY DEF IInv, Receive, LockInv, InSection
<1>2. Phase[c] = "open"
  BY <1>1 DEF Phase, Granting, Failures
<1>3. CASE Granted(c)
  <2>1. active.by' = c /\ Fresh(active)' \in BOOLEAN
    BY <1>3 DEF Granted, Fresh
  <2>2. (c \in Forcing \/ ~Fresh(active)) /\ active.by # c
    BY <1>1 DEF IInv, StaleInv, OwnInv
  <2>3. \/ pc' = [pc EXCEPT ![c] = "saving"] /\ holder' = holder
        \/ pc' = [pc EXCEPT ![c] = "served"] /\ holder' = NoCaller
    BY <1>1, <1>3 DEF Granted, End
  <2>4. \/ Phase' = Phase /\ holder' = holder
        \/ Phase' = [Phase EXCEPT ![c] = "served"] /\ holder' = NoCaller
    BY <1>1, <2>3, PhaseStep DEF Running, InSection
  <2> QED
    BY <1>1, <1>2, <2>1, <2>2, <2>4 DEF Service!CallStep, Service!Install
<1>4. CASE Refused(c)
  <2>1. active' = active
    BY <1>4 DEF Refused, memory
  <2>2. CASE \E end \in Failures : End(c, end)
    BY <1>1, <2>1, <2>2, EndRefines DEF Running, InSection, Ended, Failures
  <2>3. CASE pc' = [pc EXCEPT ![c] = "passwordGrant"] /\ holder' = c
    <3>1. Phase' = Phase
      BY <1>1, <2>3, PhaseStep DEF Running, InSection, Granting
    <3> QED
      BY <1>1, <2>1, <2>3, <3>1 DEF Service!vars, Fresh
  <2> QED
    BY <1>4, <2>2, <2>3 DEF Refused, PasswordGrant, Failures
<1> QED
  BY <1>3, <1>4 DEF Receive

LEMMA SaveDoneRefines ==
    ASSUME IInv, NEW c \in Callers, SaveDone(c)
    PROVE  Service!CallStep(c) \/ Service!Cancel(c) \/ UNCHANGED Service!vars
<1>1. active' = active /\ now' = now
  BY DEF SaveDone, memory
<1>2. CASE pc[c] = "saving" /\ End(c, "served")
  BY <1>1, <1>2, EndRefines DEF IInv, SavingInv, Running, InSection, Ended, Failures
<1>3. CASE UNCHANGED <<pc, holder>>
  BY <1>1, <1>3 DEF Service!vars, Phase, Fresh
<1> QED
  BY <1>2, <1>3 DEF SaveDone

LEMMA FailureRefines ==
    ASSUME IInv, NEW c \in Callers, Failure(c)
    PROVE  Service!CallStep(c) \/ Service!Cancel(c) \/ UNCHANGED Service!vars
<1>1. active' = active /\ now' = now
  BY DEF Failure, GrantFails, GrantMalformed, SaveFails, Cancel, memory
<1>2. CASE pc[c] \in Running /\ End(c, "cancelled")
  BY <1>1, <1>2, EndRefines DEF Ended, Failures
<1>3. CASE pc[c] \in InSection /\ \E end \in Failures : End(c, end)
  <2>1. holder = c
    BY <1>3 DEF IInv, LockInv
  <2> QED
    BY <1>1, <1>3, <2>1, EndRefines DEF Ended, Failures, Running
<1>4. CASE UNCHANGED <<pc, holder>>
  BY <1>1, <1>4 DEF Service!vars, Phase, Fresh
<1>5. GrantMalformed(c) => pc[c] \in Granting
  BY DEF IInv, ReplyInv, GrantMalformed, Unanswered
<1> QED
  BY <1>2, <1>3, <1>4, <1>5 DEF Failure, GrantFails, GrantMalformed, SaveFails, Cancel,
     Failures, InSection

LEMMA RestartRefines == ASSUME IInv, Restart PROVE Service!Forget
<1>1. TypeOK /\ active' = NoAccess /\ holder' = NoCaller
      /\ pc' = [c \in Callers |-> IF pc[c] \in Running THEN "cancelled" ELSE pc[c]]
  BY DEF IInv, Restart
<1>2. active.by' = NoCaller /\ Fresh(active)' = FALSE
  BY <1>1 DEF NoAccess, Fresh
<1>3. Phase' \in [Callers -> {"open", "served", "failed"}]
  BY DEF Phase
<1>4. \A c \in Callers : \/ Phase'[c] = Phase[c]
                         \/ Phase[c] = "open" /\ Phase'[c] = "failed"
  BY <1>1 DEF TypeOK, Phase, Running, InSection, Granting, Failures
<1> QED
  BY <1>1, <1>2, <1>3, <1>4 DEF Service!Forget

LEMMA EnvironmentRefines ==
    ASSUME IInv, Tick \/ Login \/ (\E t \in Tokens : Revoke(t))
    PROVE  Service!Age \/ UNCHANGED Service!vars
<1> USE ConstantFacts
<1>1. /\ active' = active /\ holder' = holder /\ pc' = pc
      /\ now' = now \/ now' = now + 1
  BY DEF Tick, Login, Revoke, memory, lock
<1>2. now \in Int /\ active.expiry \in Int
  BY DEF IInv, TypeOK, AccessTokens, NoAccess
<1>3. Fresh(active)' = Fresh(active) \/ Fresh(active)' = FALSE
  BY <1>1, <1>2 DEF Fresh
<1> QED
  BY <1>1, <1>3 DEF Service!Age, Service!vars, Phase

\* Whatever happens to it, a TokenManager gives its callers what TokenService says.
THEOREM Refinement == Spec => ImplementsTokenService
<1>1. Init => Service!Init
  BY ConstantFacts DEF Init, Service!Init, NoAccess, Fresh, Phase, Failures
<1>2. ASSUME IInv, [Next]_vars PROVE [Service!Next]_(Service!vars)
  <2>1. ASSUME NEW c \in Callers, Call(c) \/ Progress(c) \/ Failure(c)
        PROVE  Service!CallStep(c) \/ Service!Cancel(c) \/ UNCHANGED Service!vars
    <3>1. CASE Acquire(c)
      BY <1>2, <3>1, CriticalSectionRefines, AcquireFacts
    <3>2. CASE IdentityAnswers(c)
      BY <3>2 DEF IdentityAnswers, Service!vars, memory, lock, Phase, Fresh
    <3> QED
      BY <1>2, <2>1, <3>1, <3>2, CallRefines, ReceiveRefines, SaveDoneRefines, FailureRefines
         DEF Progress
  <2>2. CASE UNCHANGED vars
    BY <2>2 DEF vars, memory, lock, Service!vars, Phase, Fresh
  <2> QED
    BY <1>2, <2>1, <2>2, RestartRefines, EnvironmentRefines DEF Next, Service!Next
<1> QED
  BY <1>1, <1>2, Invariance, PTL DEF Spec, ImplementsTokenService, Service!Spec
=============================================================================
