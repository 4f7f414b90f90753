-------------------------- MODULE TokenStoreProofs --------------------------
(***************************************************************************)
(* The refresh tokens a TokenManager has in memory, in a request, in a save*)
(* and in the credential file: why the service only turns one of them down *)
(* when a fault explains it, and why the file follows the memory, for any  *)
(* number of tasks and tokens.  Each theorem names the faults it excludes: *)
(* a cancellation lets a save thread outlive its task and write late, and  *)
(* `login --refresh-token` stores a token that it may have replaced.       *)
(***************************************************************************)
EXTENDS TokenManagerProofs

Orderly == Faults \cap {"cancel", "relogin"} = {}

\* The service accepts the token, or a fault explains that it does not.
Good(t) == t \in valid \cup excused

\* The answer to c's refresh grant is on its way to c.
Pending(c) == pc[c] = "refreshGrant" /\ reply[c].status = "ok"

\* A token that is good, or whose replacement is on its way.
Known(t) == t = NoToken \/ Good(t) \/ \E c \in Callers : Pending(c) /\ sent[c].token = t

\* Every token in use is one the service has minted: the next one it mints is new.
MintedInv ==
    /\ minted >= 2
    /\ refreshToken <= minted /\ stored <= minted
    /\ \A c \in Callers : /\ saving[c] <= minted
                          /\ pc[c] = "refreshGrant" => sent[c].token <= minted
                          /\ reply[c].status = "ok" => reply[c].token <= minted

\* A token is in the credential file only if it, and all its successors, come
\* from there; and only the task that waits for a save has one under way.
SourceInv ==
    /\ refreshToken # NoToken <=> source # NoSource
    /\ stored # UserToken
    /\ source = "STORE" => refreshToken # UserToken
    /\ source # "STORE" /\ refreshToken # NoToken => refreshToken # stored
    /\ \A c \in Callers :
          /\ pc[c] = "refreshGrant" =>
                /\ sent[c].token # NoToken /\ sent[c].source # NoSource
                /\ refreshToken = NoToken
                      \/ (sent[c].token = refreshToken /\ sent[c].source = source)
                /\ sent[c].source = "STORE" => sent[c].token # UserToken
                /\ sent[c].source # "STORE" => sent[c].token # stored
          /\ reply[c].status = "ok" => IF GrantSource(c) = "STORE"
                                       THEN reply[c].token # UserToken
                                       ELSE reply[c].token # stored
          /\ saving[c] # NoToken => /\ pc[c] = "saving"
                                    /\ source = "STORE" /\ saving[c] = refreshToken

\* What the process may yet present is good, or about to be replaced.
GoodInv ==
    /\ Known(refreshToken)
    /\ Known(stored) \/ \E c \in Callers : saving[c] # NoToken
    /\ refreshToken = NoToken => Known(settings.refreshToken)
    /\ \A c \in Callers :
          /\ saving[c] # NoToken => Good(saving[c])
          /\ reply[c].status = "ok" => Good(reply[c].token)
          /\ pc[c] = "refreshGrant" /\ ~Pending(c) => Good(sent[c].token)

StoreInv == MintedInv /\ SourceInv /\ GoodInv

-----------------------------------------------------------------------------
(* What the steps share *)

\* Tokens are numbers, and an answer is one of the three kinds.
LEMMA TokenFacts ==
    ASSUME TypeOK
    PROVE  /\ minted \in Int /\ refreshToken \in Int /\ stored \in Int
           /\ refreshToken \in MaybeTokens /\ stored \in MaybeTokens
           /\ settings.refreshToken \in {NoToken, UserToken}
           /\ \A c \in Callers :
                 /\ saving[c] \in Int /\ saving[c] \in MaybeTokens
                 /\ sent[c].token \in Int /\ sent[c].token \in MaybeTokens
                 /\ reply[c].status = "ok" => reply[c].token \in Tokens
                                              /\ reply[c].token \in Int
<1>1. MaybeTokens \subseteq Int /\ Tokens \subseteq Int
  BY ConstantFacts DEF MaybeTokens, Tokens, NoToken
<1>2. settings.refreshToken \in {NoToken, UserToken}
  BY SettingsAssumption DEF TypeOK
<1>3. \A c \in Callers : reply[c].status = "ok" => reply[c] \in Grants
  BY DEF TypeOK, Unanswered, Refusal
<1> QED
  BY <1>1, <1>2, <1>3 DEF TypeOK, Grants

\* Outside the critical section a task has no answer coming and no save under way.
LEMMA OutsideFacts ==
    ASSUME IInv, SourceInv, NEW c \in Callers, pc[c] \notin InSection
    PROVE  reply[c] = Unanswered /\ saving[c] = NoToken /\ ~Pending(c)
BY DEF IInv, ReplyInv, SourceInv, InSection, Granting, Pending

\* While a task is in the critical section, everybody else is outside.
LEMMA AloneFacts ==
    ASSUME IInv, SourceInv, NEW c \in Callers, pc[c] \in InSection
    PROVE  \A d \in Callers :
              d # c => /\ pc[d] \notin InSection /\ pc[d] # "refreshGrant"
                       /\ reply[d] = Unanswered /\ reply[d].status # "ok"
                       /\ saving[d] = NoToken /\ ~Pending(d)
<1>1. \A d \in Callers : d # c => pc[d] \notin InSection
  BY DEF IInv, LockInv
<1> QED
  BY <1>1, OutsideFacts DEF InSection, Granting, Unanswered

-----------------------------------------------------------------------------
(* The steps *)

LEMMA InitStoreInv == Init => StoreInv
<1> SUFFICES ASSUME Init PROVE StoreInv
  OBVIOUS
<1>1. settings.refreshToken \in {NoToken, UserToken} /\ stored \in {NoToken, 2}
  BY SettingsAssumption, TokenAssumption DEF Init
<1>2. MintedInv /\ SourceInv
  BY <1>1 DEF Init, MintedInv, SourceInv, Unanswered, NoToken, UserToken, NoSource
<1>3. GoodInv
  BY <1>1 DEF Init, GoodInv, Known, Good, Unanswered, NoToken, UserToken
<1> QED
  BY <1>2, <1>3 DEF StoreInv

\* The places of the tasks only matter as far as grants and saves go.
LEMMA PlacesStoreInv ==
    ASSUME StoreInv,
           UNCHANGED <<settings, refreshToken, source, sent, reply, saving, stored,
                       service, excused>>,
           \A d \in Callers : /\ pc'[d] = "refreshGrant" <=> pc[d] = "refreshGrant"
                              /\ pc'[d] = "saving" <=> pc[d] = "saving"
    PROVE  StoreInv'
<1>1. /\ \A d \in Callers : GrantSource(d)' = GrantSource(d) /\ Pending(d)' = Pending(d)
      /\ \A t : Known(t)' = Known(t) /\ Good(t)' = Good(t)
  BY DEF GrantSource, Pending, Known, Good, service
<1>2. MintedInv'
  BY DEF StoreInv, MintedInv, service
<1>3. SourceInv'
  BY <1>1 DEF StoreInv, SourceInv
<1>4. GoodInv'
  BY <1>1 DEF StoreInv, GoodInv
<1> QED
  BY <1>2, <1>3, <1>4 DEF StoreInv

\* A task takes the free lock: what it presents is good and of a known source.
LEMMA CriticalSectionStoreInv ==
    ASSUME IInv, StoreInv, NEW c \in Callers, pc[c] \notin InSection, holder = NoCaller,
           CriticalSection(c),
           UNCHANGED <<settings, memory, saving, stored, service, excused>>
    PROVE  StoreInv'
<1>1. TypeOK /\ MintedInv /\ SourceInv /\ GoodInv
  BY DEF IInv, StoreInv
<1>2. \A d \in Callers : /\ pc[d] \notin InSection /\ pc[d] # "refreshGrant"
                         /\ reply[d] = Unanswered /\ reply[d].status # "ok"
                         /\ saving[d] = NoToken /\ ~Pending(d)
  <2>1. \A d \in Callers : pc[d] \notin InSection
    BY ConstantFacts DEF IInv, LockInv
  <2> QED
    BY <1>1, <2>1, OutsideFacts DEF InSection, Granting, Unanswered
<1>3. CASE /\ pc' = [pc EXCEPT ![c] = "refreshGrant"]
           /\ sent' = [sent EXCEPT ![c] = ResolvedRefreshToken]
           /\ reply' = reply
           /\ ResolvedRefreshToken # Unsent
  <2> DEFINE r == ResolvedRefreshToken
  <2>1. /\ r.token # NoToken /\ r.source # NoSource
        /\ refreshToken = NoToken \/ (r.token = refreshToken /\ r.source = source)
        /\ r.source = "STORE" => r.token # UserToken
        /\ r.source # "STORE" => r.token # stored
        /\ r.token <= minted
        /\ Known(r.token)
    BY <1>1, <1>2, <1>3, TokenFacts
       DEF ResolvedRefreshToken, Unsent, MintedInv, SourceInv, GoodInv, NoSource, NoToken,
           UserToken, Sources
  <2>2. Good(r.token)
    BY <1>2, <2>1 DEF Known
  <2> HIDE DEF r
  <2>3. /\ sent'[c] = r /\ pc'[c] = "refreshGrant"
        /\ \A d \in Callers : d # c => pc'[d] = pc[d] /\ sent'[d] = sent[d]
        /\ \A d \in Callers : ~Pending(d)'
    BY <1>1, <1>2, <1>3 DEF TypeOK, Pending, r
  <2>4. MintedInv'
    BY <1>1, <1>2, <1>3, <2>1, <2>3 DEF MintedInv, memory, service
  <2>5. SourceInv'
    BY <1>1, <1>2, <1>3, <2>1, <2>3 DEF SourceInv, memory
  <2>6. GoodInv'
    <3>1. \A t : (Known(t) => Known(t)') /\ Good(t)' = Good(t)
      BY <1>2 DEF Known, Good, service
    <3> QED
      BY <1>1, <1>2, <1>3, <2>2, <2>3, <3>1 DEF GoodInv, memory
  <2> QED
    BY <2>4, <2>5, <2>6 DEF StoreInv
<1>4. CASE \E p \in {"served", "missing", "passwordGrant"} :
             pc' = [pc EXCEPT ![c] = p] /\ sent' = sent
             /\ reply' = [reply EXCEPT ![c] = Unanswered]
  <2>1. reply' = reply
    BY <1>1, <1>2, <1>4 DEF TypeOK
  <2>2. \A d \in Callers : /\ pc'[d] = "refreshGrant" <=> pc[d] = "refreshGrant"
                           /\ pc'[d] = "saving" <=> pc[d] = "saving"
    BY <1>1, <1>2, <1>4 DEF TypeOK, InSection, Granting
  <2> QED
    BY <1>4, <2>1, <2>2, PlacesStoreInv DEF memory
<1> QED
  BY <1>3, <1>4 DEF CriticalSection, Refresh, PasswordGrant, End


LEMMA CallStoreInv == ASSUME IInv, StoreInv, NEW c \in Callers, Call(c) PROVE StoreInv'
<1>1. /\ TypeOK /\ SourceInv /\ pc[c] = "ready"
      /\ UNCHANGED <<settings, memory, saving, stored, service, excused>>
  BY DEF IInv, StoreInv, Call
<1>2. pc[c] \notin InSection /\ reply[c] = Unanswered
  BY <1>1, OutsideFacts DEF InSection, Granting
<1>3. CASE holder = NoCaller /\ CriticalSection(c)
  BY <1>1, <1>2, <1>3, CriticalSectionStoreInv
<1>4. CASE \E p \in {"served", "waiting"} :
             pc' = [pc EXCEPT ![c] = p] /\ sent' = sent
             /\ (reply' = reply \/ reply' = [reply EXCEPT ![c] = Unanswered])
  <2>1. reply' = reply
    BY <1>1, <1>2, <1>4 DEF TypeOK
  <2>2. \A d \in Callers : /\ pc'[d] = "refreshGrant" <=> pc[d] = "refreshGrant"
                           /\ pc'[d] = "saving" <=> pc[d] = "saving"
    BY <1>1, <1>4 DEF TypeOK
  <2> QED
    BY <1>1, <1>4, <2>1, <2>2, PlacesStoreInv DEF memory
<1> QED
  BY <1>3, <1>4 DEF Call, Enter, End

LEMMA AcquireStoreInv == ASSUME IInv, StoreInv, NEW c \in Callers, Acquire(c) PROVE StoreInv'
<1>1. pc[c] \notin InSection /\ holder = NoCaller /\ CriticalSection(c)
  BY AcquireFacts DEF InSection, Granting
<1> QED
  BY <1>1, CriticalSectionStoreInv DEF Acquire

\* The service accepts c's grant: a token it replaces is about to be replaced in memory.
LEMMA AcceptStoreInv ==
    ASSUME IInv, StoreInv, NEW c \in Callers, pc[c] \in Granting, reply[c] = Unanswered,
           NEW t \in Tokens, Accept(c, t), minted' \in Int,
           UNCHANGED <<settings, memory, lock, pc, sent, saving, stored, excused>>,
           \/ /\ pc[c] = "refreshGrant" /\ t = sent[c].token /\ t \in valid
              /\ UNCHANGED service
           \/ /\ t = minted + 1 /\ minted' = t
              /\ \/ /\ pc[c] = "refreshGrant"
                    /\ valid' = (valid \ {sent[c].token}) \cup {t}
                 \/ /\ pc[c] = "passwordGrant" /\ valid' = valid \cup {t}
    PROVE  StoreInv'
<1>1. TypeOK /\ MintedInv /\ SourceInv /\ GoodInv
  BY DEF IInv, StoreInv
<1>2. \A d \in Callers : d # c => /\ pc[d] # "refreshGrant" /\ reply[d].status # "ok"
                                  /\ saving[d] = NoToken /\ ~Pending(d)
  BY <1>1, AloneFacts DEF InSection
<1>3. saving[c] = NoToken /\ ~Pending(c)
  BY <1>1 DEF SourceInv, Granting, Pending, Unanswered
<1>4. /\ reply'[c].status = "ok" /\ reply'[c].token = t
      /\ \A d \in Callers : d # c => reply'[d] = reply[d]
  BY <1>1 DEF Accept, TypeOK
<1>5. /\ UNCHANGED <<refreshToken, source>>
      /\ \A d \in Callers : GrantSource(d)' = GrantSource(d)
  BY DEF memory, GrantSource
<1>6. minted <= minted' /\ t <= minted' /\ t \in valid'
  <2>1. minted \in Int /\ (\A d \in Callers : sent[d].token \in Int)
    BY <1>1, TokenFacts
  <2> QED
    BY <1>1, <2>1 DEF MintedInv, service
<1>7. MintedInv'
  BY <1>1, <1>2, <1>4, <1>5, <1>6, TokenFacts DEF MintedInv
<1>8. SourceInv'
  <2>1. IF GrantSource(c) = "STORE" THEN t # UserToken ELSE t # stored
    <3>1. CASE t = minted + 1
      BY <1>1, <3>1, TokenFacts DEF MintedInv, UserToken
    <3>2. CASE pc[c] = "refreshGrant" /\ t = sent[c].token
      BY <1>1, <3>2 DEF SourceInv, GrantSource
    <3> QED
      BY <3>1, <3>2
  <2> QED
    BY <1>1, <1>2, <1>4, <1>5, <2>1 DEF SourceInv
<1>9. GoodInv'
  <2>1. \A u : Known(u) => Known(u)'
    <3> SUFFICES ASSUME NEW u, Known(u) PROVE Known(u)'
      OBVIOUS
    <3>1. CASE u = NoToken \/ Good(u)'
      BY <3>1 DEF Known
    <3>2. CASE u # NoToken /\ ~Good(u)'
      <4>1. Good(u)
        BY <1>2, <1>3, <3>2 DEF Known
      <4>2. pc[c] = "refreshGrant" /\ u = sent[c].token
        BY <3>2, <4>1 DEF Good, service
      <4> QED
        BY <1>4, <4>2 DEF Known, Pending
    <3> QED
      BY <3>1, <3>2
  <2>2. Good(t)' /\ (pc[c] = "refreshGrant" => Pending(c)')
    BY <1>4, <1>6 DEF Good, Pending
  <2> QED
    BY <1>1, <1>2, <1>3, <1>4, <1>5, <2>1, <2>2 DEF GoodInv
<1> QED
  BY <1>7, <1>8, <1>9 DEF StoreInv

LEMMA AnswerStoreInv ==
    ASSUME IInv, StoreInv, NEW c \in Callers, IdentityAnswers(c) PROVE StoreInv'
<1>1. /\ TypeOK /\ pc[c] \in Granting /\ reply[c] = Unanswered /\ minted \in Int
      /\ UNCHANGED <<settings, memory, lock, pc, sent, saving, stored, excused>>
  BY TokenFacts DEF IInv, IdentityAnswers
<1>2. CASE reply' = [reply EXCEPT ![c] = Refusal] /\ UNCHANGED service
  <2>1. /\ \A d \in Callers : /\ reply'[d].status = "ok" <=> reply[d].status = "ok"
                              /\ reply'[d].status = "ok" => reply'[d] = reply[d]
    BY <1>1, <1>2 DEF TypeOK, Unanswered, Refusal
  <2>2. /\ \A d \in Callers : GrantSource(d)' = GrantSource(d) /\ Pending(d)' = Pending(d)
        /\ \A t : Known(t)' = Known(t) /\ Good(t)' = Good(t)
    BY <1>1, <1>2, <2>1 DEF GrantSource, Pending, Known, Good, service
  <2>3. MintedInv' /\ SourceInv'
    BY <1>1, <1>2, <2>1, <2>2 DEF StoreInv, MintedInv, SourceInv, memory, service
  <2>4. GoodInv'
    BY <1>1, <2>1, <2>2 DEF StoreInv, GoodInv, memory
  <2> QED
    BY <2>3, <2>4 DEF StoreInv
<1>3. CASE ~(reply' = [reply EXCEPT ![c] = Refusal] /\ UNCHANGED service)
  <2>1. valid \subseteq Tokens /\ (minted < MaxToken => minted + 1 \in Tokens)
    BY <1>1, ConstantFacts DEF TypeOK, Tokens
  <2>2. PICK t \in Tokens :
          /\ Accept(c, t)
          /\ \/ /\ pc[c] = "refreshGrant" /\ t = sent[c].token /\ t \in valid
                /\ UNCHANGED service
             \/ /\ t = minted + 1 /\ minted' = t
                /\ \/ /\ pc[c] = "refreshGrant"
                      /\ valid' = (valid \ {sent[c].token}) \cup {t}
                   \/ /\ pc[c] = "passwordGrant" /\ valid' = valid \cup {t}
    BY <1>1, <1>3, <2>1 DEF IdentityAnswers
  <2>3. minted' \in Int
    BY <1>1, <2>2 DEF service
  <2> QED
    BY <1>1, <2>2, <2>3, AcceptStoreInv
<1> QED
  BY <1>2, <1>3


\* The manager takes the token of the answer: memory and file are good afterwards.
LEMMA GrantedStoreInv ==
    ASSUME IInv, StoreInv, NEW c \in Callers, pc[c] \in Granting, Granted(c),
           UNCHANGED <<settings, sent, stored, service, excused>>
    PROVE  StoreInv'
<1>1. TypeOK /\ MintedInv /\ SourceInv /\ GoodInv
  BY DEF IInv, StoreInv
<1>2. \A d \in Callers : d # c => /\ pc[d] # "refreshGrant" /\ reply[d].status # "ok"
                                  /\ saving[d] = NoToken /\ ~Pending(d)
  BY <1>1, AloneFacts DEF InSection
<1>3. saving[c] = NoToken
  BY <1>1 DEF SourceInv, Granting
<1>t. PICK t : t = reply[c].token
  OBVIOUS
<1>4. /\ reply[c].status = "ok" /\ refreshToken' = t /\ source' = GrantSource(c)
      /\ t \in Tokens /\ t # NoToken /\ Good(t) /\ Good(t)' /\ t <= minted
  BY <1>1, <1>t, TokenFacts, ConstantFacts DEF Granted, GoodInv, MintedInv, Good, service
<1>5. /\ \A d \in Callers : reply'[d].status # "ok" /\ pc'[d] # "refreshGrant"
      /\ \A d \in Callers : d # c => saving'[d] = saving[d]
      /\ IF WrittenBack(c) THEN saving'[c] = t /\ pc'[c] = "saving" ELSE saving'[c] = NoToken
  <2>1. /\ reply' = [reply EXCEPT ![c] = Unanswered]
        /\ IF WrittenBack(c)
           THEN saving' = [saving EXCEPT ![c] = t] /\ pc' = [pc EXCEPT ![c] = "saving"]
           ELSE saving' = saving /\ pc' = [pc EXCEPT ![c] = "served"]
    BY <1>t DEF Granted, End
  <2> QED
    BY <1>1, <1>2, <1>3, <2>1 DEF TypeOK, Unanswered
<1>6. MintedInv'
  BY <1>1, <1>2, <1>3, <1>4, <1>5, TokenFacts DEF MintedInv, service, NoToken
<1>7. /\ GrantSource(c) # NoSource
      /\ IF GrantSource(c) = "STORE" THEN t # UserToken ELSE t # stored
  BY <1>1, <1>4, <1>t DEF SourceInv, GrantSource, NoSource
<1>8. SourceInv'
  BY <1>1, <1>2, <1>3, <1>4, <1>5, <1>7, <1>t DEF SourceInv, WrittenBack
<1>9. Known(stored)' \/ \E d \in Callers : saving'[d] # NoToken
  <2>1. CASE WrittenBack(c)
    BY <1>4, <1>5, <2>1
  <2>2. CASE ~WrittenBack(c)
    <3>1. Known(stored)
      BY <1>1, <1>2, <1>3 DEF GoodInv
    <3>2. CASE stored = NoToken \/ Good(stored)
      BY <3>2 DEF Known, Good, service
    <3>3. CASE Pending(c) /\ sent[c].token = stored
      <4>1. sent[c].source = "STORE" /\ stored # NoToken
        BY <1>1, <3>3 DEF Pending, SourceInv
      <4>2. t = refreshToken
        BY <1>t, <2>2, <3>3, <4>1 DEF WrittenBack, Pending, GrantSource
      <4>3. t = stored
        BY <1>1, <1>4, <3>3, <4>2 DEF SourceInv, Pending
      <4> QED
        BY <1>4, <4>3 DEF Known, Good, service
    <3> QED
      BY <1>2, <3>1, <3>2, <3>3 DEF Known
  <2> QED
    BY <2>1, <2>2
<1>10. GoodInv'
  <2>1. Known(refreshToken)'
    BY <1>4 DEF Known, Good
  <2> QED
    BY <1>1, <1>2, <1>3, <1>4, <1>5, <1>9, <2>1 DEF GoodInv
<1> QED
  BY <1>6, <1>8, <1>10 DEF StoreInv

\* A grant under way comes to nothing: what its answer would have replaced is excused.
LEMMA GiveUpStoreInv ==
    ASSUME IInv, StoreInv, NEW c \in Callers, pc[c] \in Granting,
           NEW p \in {"passwordGrant"} \cup Ended, pc' = [pc EXCEPT ![c] = p],
           reply' = [reply EXCEPT ![c] = Unanswered],
           excused' = excused \cup Orphaned({c}) \/ (excused' = excused /\ ~Pending(c)),
           UNCHANGED <<settings, memory, sent, saving, stored, service>>
    PROVE  StoreInv'
<1>1. TypeOK /\ MintedInv /\ SourceInv /\ GoodInv
  BY DEF IInv, StoreInv
<1>2. \A d \in Callers : d # c => /\ pc[d] # "refreshGrant" /\ reply[d].status # "ok"
                                  /\ saving[d] = NoToken /\ ~Pending(d)
  BY <1>1, AloneFacts DEF InSection
<1>3. saving[c] = NoToken
  BY <1>1 DEF SourceInv, Granting
<1>4. /\ \A d \in Callers : reply'[d].status # "ok" /\ pc'[d] # "refreshGrant"
      /\ UNCHANGED <<refreshToken, source>>
  BY <1>1, <1>2 DEF TypeOK, Unanswered, Ended, Failures, memory
<1>5. MintedInv'
  BY <1>1, <1>4 DEF MintedInv, service
<1>6. SourceInv'
  BY <1>1, <1>2, <1>3, <1>4 DEF SourceInv
<1>7. \A t \in MaybeTokens : Known(t) => Known(t)'
  <2> SUFFICES ASSUME NEW t \in MaybeTokens, Known(t) PROVE Known(t)'
    OBVIOUS
  <2>1. CASE t = NoToken \/ Good(t)
    BY <2>1 DEF Known, Good, service
  <2>2. CASE t # NoToken /\ Pending(c) /\ sent[c].token = t
    <3>1. CASE reply[c].token = t
      BY <1>1, <2>2, <3>1 DEF GoodInv, Pending, Known, Good, service
    <3>2. CASE reply[c].token # t
      BY <2>2, <3>2 DEF Orphaned, Pending, Known, Good, MaybeTokens
    <3> QED
      BY <3>1, <3>2
  <2> QED
    BY <1>2, <2>1, <2>2 DEF Known
<1>8. GoodInv'
  <2>1. settings.refreshToken \in MaybeTokens
    BY <1>1, ConstantFacts DEF TypeOK
  <2> QED
    BY <1>1, <1>2, <1>3, <1>4, <1>7, <2>1, TokenFacts DEF GoodInv
<1> QED
  BY <1>5, <1>6, <1>8 DEF StoreInv

LEMMA ReceiveStoreInv == ASSUME IInv, StoreInv, NEW c \in Callers, Receive(c) PROVE StoreInv'
<1>1. pc[c] \in Granting /\ UNCHANGED <<settings, sent, stored, service, excused>>
  BY DEF Receive
<1>2. CASE Granted(c)
  BY <1>1, <1>2, GrantedStoreInv
<1>3. CASE Refused(c)
  <2>1. /\ ~Pending(c) /\ UNCHANGED <<memory, saving>>
        /\ reply' = [reply EXCEPT ![c] = Unanswered]
        /\ \E p \in {"passwordGrant"} \cup Ended : pc' = [pc EXCEPT ![c] = p]
    BY <1>3 DEF Refused, PasswordGrant, End, Pending, Refusal, Unanswered, Ended, Failures
  <2> QED
    BY <1>1, <2>1, GiveUpStoreInv
<1> QED
  BY <1>2, <1>3 DEF Receive

LEMMA GrantLostStoreInv ==
    ASSUME IInv, StoreInv, NEW c \in Callers, GrantFails(c) \/ GrantMalformed(c)
    PROVE  StoreInv'
<1>1. pc[c] \in Granting
  BY DEF IInv, ReplyInv, GrantFails, GrantMalformed, Unanswered
<1> QED
  BY <1>1, GiveUpStoreInv DEF GrantFails, GrantMalformed, End, Ended, Failures

\* A save ends: the file holds what memory does, or a fault explains that it does not.
LEMMA SaveStoreInv ==
    ASSUME IInv, StoreInv, NEW c \in Callers, SaveDone(c) \/ SaveFails(c)
    PROVE  StoreInv'
<1>1. TypeOK /\ MintedInv /\ SourceInv /\ GoodInv /\ saving[c] # NoToken
  BY DEF IInv, StoreInv, SaveDone, SaveFails
<1>2. /\ pc[c] = "saving" /\ source = "STORE" /\ saving[c] = refreshToken
      /\ Good(saving[c])
  BY <1>1 DEF SourceInv, GoodInv
<1>3. \A d \in Callers : /\ pc[d] # "refreshGrant" /\ reply[d].status # "ok" /\ ~Pending(d)
                         /\ d # c => saving[d] = NoToken
  BY <1>1, <1>2, AloneFacts DEF InSection, Pending, IInv, ReplyInv, Granting, Unanswered
<1>4. /\ \A d \in Callers : /\ reply'[d].status # "ok" /\ pc'[d] # "refreshGrant"
                            /\ saving'[d] = NoToken
      /\ UNCHANGED <<settings, refreshToken, source, sent, service>>
      /\ excused \subseteq excused'
  BY <1>1, <1>2, <1>3 DEF SaveDone, SaveFails, End, TypeOK, Unanswered, memory
<1>5. (stored' = refreshToken) \/ (stored' = stored /\ excused' = excused \cup ({stored} \cap Tokens))
  BY <1>1, <1>2 DEF SaveDone, SaveFails, Unsaved
<1>6. \A t : Known(t) => Known(t)'
  BY <1>3, <1>4 DEF Known, Good, service
<1>7. Known(stored)'
  BY <1>1, <1>2, <1>4, <1>5, TokenFacts DEF Known, Good, MaybeTokens, service
<1>8. MintedInv'
  BY <1>1, <1>4, <1>5, TokenFacts DEF MintedInv, service, NoToken
<1>9. SourceInv'
  BY <1>1, <1>2, <1>4, <1>5 DEF SourceInv
<1>10. GoodInv'
  BY <1>1, <1>4, <1>6, <1>7 DEF GoodInv
<1> QED
  BY <1>8, <1>9, <1>10 DEF StoreInv

-----------------------------------------------------------------------------
(* Restarts and the world outside *)

LEMMA RestartStoreInv == ASSUME IInv, StoreInv, Restart PROVE StoreInv'
<1>1. TypeOK /\ MintedInv /\ SourceInv /\ GoodInv
  BY DEF IInv, StoreInv
<1>2. /\ \A d \in Callers : /\ reply'[d].status # "ok" /\ pc'[d] # "refreshGrant"
                            /\ saving'[d] = NoToken
      /\ refreshToken' = NoToken /\ source' = NoSource
      /\ UNCHANGED <<settings, sent, stored, service>>
      /\ excused \cup Orphaned(Callers) \cup ({settings.refreshToken} \cap Tokens)
           \subseteq excused'
      /\ (\E c \in Callers : saving[c] # NoToken) => {stored} \cap Tokens \subseteq excused'
  BY <1>1 DEF Restart, Unsaved, TypeOK, Unanswered, Running, InSection, Granting
<1>3. Known(stored)'
  <2>1. CASE \E c \in Callers : saving[c] # NoToken
    BY <1>1, <1>2, <2>1, TokenFacts DEF Known, Good, MaybeTokens
  <2>2. CASE stored = NoToken \/ Good(stored)
    BY <1>2, <2>2 DEF Known, Good, service
  <2>3. ASSUME NEW c \in Callers, Pending(c), sent[c].token = stored, stored # NoToken
        PROVE  Known(stored)'
    <3>1. CASE reply[c].token = stored
      BY <1>1, <1>2, <2>3, <3>1 DEF GoodInv, Pending, Known, Good, service
    <3>2. CASE reply[c].token # stored
      <4>1. stored \in Orphaned(Callers)
        BY <1>1, <2>3, <3>2, TokenFacts DEF Orphaned, Pending, MaybeTokens
      <4> QED
        BY <1>2, <4>1 DEF Known, Good
    <3> QED
      BY <3>1, <3>2
  <2> QED
    BY <1>1, <2>1, <2>2, <2>3 DEF GoodInv, Known
<1>4. Known(settings.refreshToken)'
  BY <1>1, <1>2, ConstantFacts DEF TypeOK, Known, Good, MaybeTokens
<1>5. MintedInv'
  BY <1>1, <1>2, TokenFacts DEF MintedInv, service, NoToken
<1>6. SourceInv'
  BY <1>1, <1>2 DEF SourceInv, NoSource
<1>7. GoodInv'
  BY <1>2, <1>3, <1>4 DEF GoodInv, Known
<1> QED
  BY <1>5, <1>6, <1>7 DEF StoreInv

LEMMA EnvironmentStoreInv ==
    ASSUME IInv, StoreInv, Orderly, Tick \/ Login \/ (\E t \in Tokens : Revoke(t))
    PROVE  StoreInv'
<1>1. TypeOK /\ MintedInv /\ SourceInv /\ GoodInv
  BY DEF IInv, StoreInv
<1>2. /\ UNCHANGED <<settings, refreshToken, source, pc, sent, reply, saving>>
      /\ \A d \in Callers : GrantSource(d)' = GrantSource(d) /\ Pending(d)' = Pending(d)
  BY DEF Tick, Login, Revoke, memory, lock, GrantSource, Pending
<1>3. /\ valid \cup excused \subseteq valid' \cup excused'
      /\ \/ stored' = stored /\ minted' = minted
         \/ stored' = minted + 1 /\ minted' = minted + 1 /\ stored' \in valid'
  <2>1. CASE Login
    BY <2>1 DEF Login, Orderly
  <2>2. CASE Tick \/ (\E t \in Tokens : Revoke(t))
    BY <2>2 DEF Tick, Revoke, service
  <2> QED
    BY <2>1, <2>2
<1>4. \A t : (Known(t) => Known(t)') /\ (Good(t) => Good(t)')
  BY <1>2, <1>3 DEF Known, Good
<1>5. Known(stored)' \/ (stored' = stored)
  BY <1>3 DEF Known, Good
<1>6. MintedInv'
  BY <1>1, <1>2, <1>3, TokenFacts DEF MintedInv
<1>7. SourceInv'
  BY <1>1, <1>2, <1>3, TokenFacts DEF SourceInv, MintedInv, UserToken
<1>8. GoodInv'
  BY <1>1, <1>2, <1>4, <1>5 DEF GoodInv
<1> QED
  BY <1>6, <1>7, <1>8 DEF StoreInv

LEMMA NextStoreInv ==
    ASSUME IInv, StoreInv, Orderly, [Next]_vars
    PROVE  StoreInv'
<1>1. ASSUME NEW c \in Callers, Call(c) \/ Progress(c) PROVE StoreInv'
  BY <1>1, CallStoreInv, AcquireStoreInv, AnswerStoreInv, ReceiveStoreInv, SaveStoreInv
     DEF Progress
<1>2. ASSUME NEW c \in Callers, Failure(c) PROVE StoreInv'
  BY <1>2, GrantLostStoreInv, SaveStoreInv DEF Failure, Cancel, Orderly
<1>3. CASE Restart
  BY <1>3, RestartStoreInv
<1>4. CASE Tick \/ Login \/ (\E t \in Tokens : Revoke(t))
  BY <1>4, EnvironmentStoreInv
<1>5. CASE UNCHANGED vars
  BY <1>5, PlacesStoreInv DEF vars, memory
<1> QED
  BY <1>1, <1>2, <1>3, <1>4, <1>5 DEF Next


LEMMA StoreInvariance == ASSUME Orderly PROVE Spec => [](IInv /\ StoreInv)
<1>1. IInv /\ StoreInv /\ [Next]_vars => (IInv /\ StoreInv)'
  BY NextIInv, NextStoreInv
<1>2. Init => IInv /\ StoreInv
  BY InitIInv, InitStoreInv
<1> QED
  BY <1>1, <1>2, PTL DEF Spec

-----------------------------------------------------------------------------
(* Cancelled calls.  A save thread that outlives its task may write the file *)
(* late, so the file is not to be relied on; but a process that is not       *)
(* restarted never goes back to it once it has a token in memory.            *)

Restartless == Faults \cap {"crash", "relogin"} = {}

\* What a process that keeps running may present is good, or about to be replaced.
RunningInv ==
    /\ refreshToken # NoToken => Known(refreshToken) /\ source # NoSource
    /\ refreshToken = NoToken => /\ Known(stored) /\ Known(settings.refreshToken)
                                 /\ \A c \in Callers : saving[c] = NoToken
    /\ \A c \in Callers :
          /\ reply[c].status = "ok" => Good(reply[c].token)
          /\ pc[c] = "refreshGrant" =>
                sent[c].source # NoSource /\ (Pending(c) \/ Good(sent[c].token))

\* While a task waits for the identity service, no other has an answer coming.
LEMMA GrantAlone ==
    ASSUME IInv, NEW c \in Callers, pc[c] \in Granting
    PROVE  \A d \in Callers : d # c => pc[d] # "refreshGrant" /\ reply[d].status # "ok"
BY DEF IInv, LockInv, ReplyInv, InSection, Granting, Unanswered

\* A task takes the free lock.
LEMMA CriticalSectionRunning ==
    ASSUME IInv, RunningInv, NEW c \in Callers, pc[c] \notin InSection, holder = NoCaller,
           CriticalSection(c),
           UNCHANGED <<settings, memory, saving, stored, service, excused>>
    PROVE  RunningInv'
<1>1. TypeOK /\ \A d \in Callers : /\ pc[d] # "refreshGrant" /\ reply[d].status # "ok"
                                   /\ ~Pending(d)
  BY ConstantFacts DEF IInv, LockInv, ReplyInv, InSection, Granting, Unanswered, Pending
<1>2. /\ \A d \in Callers : reply'[d].status # "ok"
      /\ \A d \in Callers : pc'[d] = "refreshGrant" => sent'[d] = ResolvedRefreshToken
      /\ (\E d \in Callers : pc'[d] = "refreshGrant") => ResolvedRefreshToken # Unsent
  BY <1>1 DEF CriticalSection, Refresh, PasswordGrant, End, TypeOK, Unanswered
<1>3. ResolvedRefreshToken # Unsent => /\ ResolvedRefreshToken.source # NoSource
                                       /\ Good(ResolvedRefreshToken.token)
  BY <1>1 DEF ResolvedRefreshToken, Unsent, RunningInv, Known, NoSource
<1>4. \A t : (Known(t) => Known(t)') /\ Good(t)' = Good(t)
  BY <1>1 DEF Known, Good, service
<1> QED
  BY <1>2, <1>3, <1>4 DEF RunningInv, memory

\* The service answers: a token it replaces is about to be replaced in memory.
LEMMA AnswerRunning ==
    ASSUME IInv, RunningInv, NEW c \in Callers, IdentityAnswers(c) PROVE RunningInv'
<1>1. /\ TypeOK /\ pc[c] \in Granting /\ reply[c] = Unanswered
      /\ UNCHANGED <<settings, refreshToken, source, pc, sent, saving, stored, excused>>
  BY DEF IInv, IdentityAnswers, memory
<1>2. \A d \in Callers : d # c => /\ pc[d] # "refreshGrant" /\ reply[d].status # "ok"
                                  /\ ~Pending(d)
  BY <1>1, GrantAlone DEF Pending
<1>3. ~Pending(c) /\ \A d \in Callers : d # c => reply'[d] = reply[d]
  BY <1>1 DEF Pending, Unanswered, IdentityAnswers, Accept, TypeOK
<1>4. CASE reply'[c].status = "ok" /\ Good(reply[c].token)'
           /\ valid \ valid' \subseteq (IF pc[c] = "refreshGrant" THEN {sent[c].token} ELSE {})
  <2>1. pc[c] = "refreshGrant" => Pending(c)' /\ sent'[c] = sent[c]
    BY <1>1, <1>4 DEF Pending
  <2>2. \A t : Known(t) => Known(t)'
    BY <1>1, <1>2, <1>3, <1>4, <2>1 DEF Known, Good
  <2> QED
    BY <1>1, <1>2, <1>3, <1>4, <2>1, <2>2 DEF RunningInv
<1>5. CASE reply'[c] = Refusal /\ UNCHANGED service
  <2>1. /\ \A d \in Callers : reply'[d].status # "ok" /\ ~Pending(d)
        /\ \A t : (Known(t) => Known(t)') /\ Good(t)' = Good(t)
    BY <1>1, <1>2, <1>3, <1>5 DEF Refusal, Unanswered, Known, Good, service
  <2> QED
    BY <1>1, <2>1 DEF RunningInv
<1>6. (reply'[c].status = "ok" /\ Good(reply[c].token)'
         /\ valid \ valid' \subseteq (IF pc[c] = "refreshGrant" THEN {sent[c].token} ELSE {}))
      \/ (reply'[c] = Refusal /\ UNCHANGED service)
  <2>1. reply \in [Callers -> Grants \cup {Unanswered, Refusal}]
    BY <1>1 DEF TypeOK
  <2>2. ASSUME NEW t, Accept(c, t) PROVE reply'[c].status = "ok" /\ reply'[c].token = t
    BY <2>1, <2>2 DEF Accept
  <2>3. CASE /\ pc[c] = "refreshGrant" /\ sent[c].token \in valid
             /\ Accept(c, sent[c].token) /\ UNCHANGED service
    BY <2>2, <2>3 DEF Good, service
  <2>4. CASE /\ Accept(c, minted + 1)
             /\ \/ /\ pc[c] = "refreshGrant"
                   /\ valid' = (valid \ {sent[c].token}) \cup {minted + 1}
                \/ valid' = valid \cup {minted + 1}
    BY <2>2, <2>4 DEF Good
  <2>5. CASE reply' = [reply EXCEPT ![c] = Refusal] /\ UNCHANGED service
    BY <2>1, <2>5
  <2> QED
    BY <2>3, <2>4, <2>5 DEF IdentityAnswers
<1> QED
  BY <1>4, <1>5, <1>6

\* The manager takes the token of the answer, and from now on has one in memory.
LEMMA GrantedRunning ==
    ASSUME IInv, RunningInv, NEW c \in Callers, pc[c] \in Granting, Granted(c),
           UNCHANGED <<settings, sent, stored, service, excused>>
    PROVE  RunningInv'
<1>1. TypeOK /\ \A d \in Callers : d # c => pc[d] # "refreshGrant" /\ reply[d].status # "ok"
  BY GrantAlone DEF IInv
<1>2. /\ refreshToken' = reply[c].token /\ refreshToken' # NoToken
      /\ Good(reply[c].token)
  BY <1>1, TokenFacts, ConstantFacts DEF Granted, RunningInv
<1>3. \A d \in Callers : reply'[d].status # "ok" /\ pc'[d] # "refreshGrant"
  BY <1>1 DEF Granted, End, TypeOK, Unanswered
<1>4. Known(refreshToken)' /\ source' # NoSource
  BY <1>2 DEF Known, Good, service, Granted, GrantSource, RunningInv, NoSource
<1> QED
  BY <1>2, <1>3, <1>4 DEF RunningInv

\* A grant under way comes to nothing: what its answer would have replaced is excused.
LEMMA GiveUpRunning ==
    ASSUME IInv, RunningInv, NEW c \in Callers, pc[c] \in Granting,
           NEW p \in {"passwordGrant"} \cup Ended, pc' = [pc EXCEPT ![c] = p],
           reply' = [reply EXCEPT ![c] = Unanswered],
           excused \subseteq excused',
           Orphaned({c}) \subseteq excused' \/ ~Pending(c),
           refreshToken = NoToken => saving' = saving,
           UNCHANGED <<settings, memory, sent, stored, service>>
    PROVE  RunningInv'
<1>1. TypeOK /\ \A d \in Callers : d # c => /\ pc[d] # "refreshGrant" /\ reply[d].status # "ok"
                                            /\ ~Pending(d)
  BY GrantAlone DEF IInv, Pending
<1>2. \A d \in Callers : reply'[d].status # "ok" /\ pc'[d] # "refreshGrant"
  BY <1>1 DEF TypeOK, Unanswered, Ended, Failures
<1>3. \A t \in MaybeTokens : Known(t) => Known(t)'
  <2> SUFFICES ASSUME NEW t \in MaybeTokens, Known(t) PROVE Known(t)'
    OBVIOUS
  <2>1. CASE t = NoToken \/ Good(t)
    BY <2>1 DEF Known, Good, service
  <2>2. CASE t # NoToken /\ Pending(c) /\ sent[c].token = t
    <3>1. CASE reply[c].token = t
      BY <2>2, <3>1 DEF RunningInv, Pending, Known, Good, service
    <3>2. CASE reply[c].token # t
      BY <2>2, <3>2 DEF Orphaned, Pending, Known, Good, MaybeTokens
    <3> QED
      BY <3>1, <3>2
  <2> QED
    BY <1>1, <2>1, <2>2 DEF Known
<1>4. settings.refreshToken \in MaybeTokens
  BY <1>1, ConstantFacts DEF TypeOK
<1> QED
  BY <1>1, <1>2, <1>3, <1>4, TokenFacts DEF RunningInv, memory

\* Nothing that is presented or on its way changes, and good tokens stay good.
LEMMA AsideRunning ==
    ASSUME RunningInv,
           UNCHANGED <<settings, refreshToken, source, sent>>,
           \A d \in Callers : /\ pc'[d] = "refreshGrant" <=> pc[d] = "refreshGrant"
                              /\ reply'[d].status = "ok" <=> reply[d].status = "ok"
                              /\ reply[d].status = "ok" => reply'[d].token = reply[d].token,
           \A t : Good(t) => Good(t)',
           refreshToken = NoToken => /\ saving' = saving
                                     /\ stored' = stored \/ Good(stored)'
    PROVE  RunningInv'
<1>1. \A d \in Callers : Pending(d)' <=> Pending(d)
  BY DEF Pending
<1>2. \A t : Known(t) => Known(t)'
  BY <1>1 DEF Known
<1>3. refreshToken = NoToken => Known(stored)'
  BY <1>2 DEF RunningInv, Known
<1> QED
  BY <1>1, <1>2, <1>3 DEF RunningInv

LEMMA CallRunning ==
    ASSUME IInv, RunningInv, NEW c \in Callers, Call(c) \/ Acquire(c) PROVE RunningInv'
<1>1. /\ TypeOK /\ pc[c] \notin InSection /\ pc[c] # "refreshGrant" /\ reply[c] = Unanswered
      /\ UNCHANGED <<settings, memory, saving, stored, service, excused>>
  <2>1. pc[c] \notin InSection
    BY AcquireFacts DEF Call, InSection, Granting
  <2> QED
    BY <2>1 DEF IInv, ReplyInv, Call, Acquire, InSection, Granting
<1>2. CASE holder = NoCaller /\ CriticalSection(c)
  BY <1>1, <1>2, CriticalSectionRunning
<1>3. CASE \E p \in {"served", "waiting"} :
             pc' = [pc EXCEPT ![c] = p] /\ sent' = sent
             /\ (reply' = reply \/ reply' = [reply EXCEPT ![c] = Unanswered])
  <2>1. reply' = reply
    BY <1>1, <1>3 DEF TypeOK
  <2>2. \A d \in Callers : pc'[d] = "refreshGrant" <=> pc[d] = "refreshGrant"
    BY <1>1, <1>3 DEF TypeOK
  <2> QED
    BY <1>1, <1>3, <2>1, <2>2, AsideRunning DEF memory, Good, service
<1> QED
  BY <1>2, <1>3 DEF Call, Acquire, Enter, End

LEMMA ReceiveRunning ==
    ASSUME IInv, RunningInv, NEW c \in Callers, Receive(c) PROVE RunningInv'
<1>1. pc[c] \in Granting /\ UNCHANGED <<settings, sent, stored, service, excused>>
  BY DEF Receive
<1>2. CASE Granted(c)
  BY <1>1, <1>2, GrantedRunning
<1>3. CASE Refused(c)
  <2>1. /\ ~Pending(c) /\ UNCHANGED <<memory, saving>>
        /\ reply' = [reply EXCEPT ![c] = Unanswered]
        /\ \E p \in {"passwordGrant"} \cup Ended : pc' = [pc EXCEPT ![c] = p]
    BY <1>3 DEF Refused, PasswordGrant, End, Pending, Refusal, Unanswered, Ended, Failures
  <2> QED
    BY <1>1, <2>1, GiveUpRunning
<1> QED
  BY <1>2, <1>3 DEF Receive

\* A save that ends, in whatever order, finds a token in memory.
LEMMA SaveRunning ==
    ASSUME IInv, RunningInv, NEW c \in Callers, SaveDone(c) \/ SaveFails(c)
    PROVE  RunningInv'
<1>1. TypeOK /\ refreshToken # NoToken /\ (pc[c] = "saving" => reply[c] = Unanswered)
  BY DEF IInv, ReplyInv, Granting, RunningInv, SaveDone, SaveFails
<1>2. /\ UNCHANGED <<settings, refreshToken, source, sent>>
      /\ \A t : Good(t) => Good(t)'
  BY DEF SaveDone, SaveFails, memory, Good, service
<1>3. /\ reply' = reply
      /\ \A d \in Callers : pc'[d] = "refreshGrant" <=> pc[d] = "refreshGrant"
  BY <1>1 DEF SaveDone, SaveFails, End, TypeOK
<1> QED
  BY <1>1, <1>2, <1>3, AsideRunning

LEMMA FailureRunning ==
    ASSUME IInv, RunningInv, NEW c \in Callers, Failure(c) PROVE RunningInv'
<1>1. TypeOK /\ (pc[c] \notin Granting => reply[c] = Unanswered)
  BY DEF IInv, ReplyInv
<1>2. CASE GrantFails(c) \/ GrantMalformed(c)
  <2>1. pc[c] \in Granting
    BY <1>1, <1>2 DEF GrantFails, GrantMalformed, Unanswered
  <2> QED
    BY <1>2, <2>1, GiveUpRunning DEF GrantFails, GrantMalformed, End, Ended, Failures
<1>3. CASE Cancel(c)
  <2>1. /\ refreshToken = NoToken => saving' = saving
        /\ UNCHANGED <<settings, memory, sent, stored, service>>
        /\ pc' = [pc EXCEPT ![c] = "cancelled"]
        /\ reply' = [reply EXCEPT ![c] = Unanswered]
        /\ excused \cup Orphaned({c}) \subseteq excused'
    BY <1>1, <1>3 DEF Cancel, End, RunningInv, TypeOK
  <2>2. CASE pc[c] \in Granting
    BY <2>1, <2>2, GiveUpRunning DEF Ended, Failures
  <2>3. CASE pc[c] \notin Granting
    <3>1. /\ reply' = reply
          /\ \A d \in Callers : pc'[d] = "refreshGrant" <=> pc[d] = "refreshGrant"
      BY <1>1, <2>1, <2>3 DEF TypeOK, Granting
    <3> QED
      BY <2>1, <3>1, AsideRunning DEF memory, Good, service
  <2> QED
    BY <2>2, <2>3
<1> QED
  BY <1>2, <1>3, SaveRunning DEF Failure

LEMMA NextRunning ==
    ASSUME IInv, RunningInv, Restartless, [Next]_vars PROVE RunningInv'
<1>1. ASSUME NEW c \in Callers, Call(c) \/ Progress(c) \/ Failure(c) PROVE RunningInv'
  BY <1>1, CallRunning, AnswerRunning, ReceiveRunning, SaveRunning, FailureRunning
     DEF Progress
<1>2. CASE Tick \/ Login \/ (\E t \in Tokens : Revoke(t)) \/ UNCHANGED vars
  <2>1. /\ UNCHANGED <<settings, refreshToken, source, pc, sent, reply, saving>>
        /\ valid \cup excused \subseteq valid' \cup excused'
        /\ stored' = stored \/ stored' \in valid'
    <3>1. CASE Login
      BY <3>1 DEF Login, Restartless, memory
    <3>2. CASE Tick \/ (\E t \in Tokens : Revoke(t)) \/ UNCHANGED vars
      BY <3>2 DEF Tick, Revoke, vars, memory, service
    <3> QED
      BY <1>2, <3>1, <3>2
  <2> QED
    BY <2>1, AsideRunning DEF Good
<1>3. ~Restart
  BY DEF Restart, Restartless
<1> QED
  BY <1>1, <1>2, <1>3 DEF Next

LEMMA RunningInvariance == ASSUME Restartless PROVE Spec => [](IInv /\ RunningInv)
<1>1. Init => RunningInv
  BY SettingsAssumption, TokenAssumption
     DEF Init, RunningInv, Known, Good, NoToken, UserToken, Unanswered
<1>2. IInv /\ RunningInv /\ [Next]_vars => (IInv /\ RunningInv)'
  BY NextIInv, NextRunning
<1> QED
  BY <1>1, <1>2, InitIInv, PTL DEF Spec

-----------------------------------------------------------------------------
(* Who is turned down *)

\* Only an answer of the service is a refusal, and only of a token it does not accept.
LEMMA RefusalStep ==
    ASSUME IInv, [Next]_vars, NEW c \in Callers,
           pc[c] = "refreshGrant", reply[c] # Refusal, reply'[c] = Refusal
    PROVE  reply[c] = Unanswered /\ sent[c].token \notin valid
<1>1. TypeOK /\ Refusal # Unanswered
  BY DEF IInv, Refusal, Unanswered
<1>2. ASSUME NEW d \in Callers,
             reply' = reply \/ reply' = [reply EXCEPT ![d] = Unanswered]
      PROVE  FALSE
  BY <1>1, <1>2 DEF TypeOK
<1>3. ASSUME NEW d \in Callers, Call(d) \/ Acquire(d) PROVE FALSE
  BY <1>2, <1>3 DEF Call, Acquire, Enter, CriticalSection, Refresh, PasswordGrant, End
<1>4. ASSUME NEW d \in Callers, Receive(d) \/ SaveDone(d) \/ Failure(d) PROVE FALSE
  <2>1. reply' = reply \/ reply' = [reply EXCEPT ![d] = Unanswered]
    BY <1>4 DEF Receive, Granted, Refused, PasswordGrant, SaveDone, Failure, GrantFails,
       GrantMalformed, SaveFails, Cancel, End
  <2> QED
    BY <1>2, <2>1
<1>5. ASSUME NEW d \in Callers, IdentityAnswers(d)
      PROVE  reply[c] = Unanswered /\ sent[c].token \notin valid
  <2>1. d = c
    BY <1>1, <1>5 DEF IdentityAnswers, Accept, TypeOK
  <2>2. ASSUME NEW t, Accept(c, t) PROVE FALSE
    BY <1>1, <2>2 DEF Accept, TypeOK, Refusal, Unanswered
  <2> QED
    BY <1>5, <2>1, <2>2 DEF IdentityAnswers
<1>6. CASE Restart
  BY <1>1, <1>6 DEF Restart
<1>7. CASE Tick \/ Login \/ (\E t \in Tokens : Revoke(t)) \/ UNCHANGED vars
  BY <1>7 DEF Tick, Login, Revoke, vars
<1> QED
  BY <1>3, <1>4, <1>5, <1>6, <1>7 DEF Next, Progress

\* The service turns down a refresh token of the process only if a fault explains it
\* (RejectionExcused): no interleaving of calls, no rotation, password fallback, failed
\* save or login of somebody else makes it present one that was replaced; nor does a
\* cancelled call, or a restart, unless a process is restarted whose call was cancelled.
THEOREM RejectionExcusedHolds ==
    ASSUME "relogin" \notin Faults, "cancel" \notin Faults \/ "crash" \notin Faults
    PROVE  Spec => RejectionExcused
<1> DEFINE Presented == \A c \in Callers :
              pc[c] = "refreshGrant" => Pending(c) \/ Good(sent[c].token)
           Excuse == \A c \in Callers :
              pc[c] = "refreshGrant" /\ reply[c] # Refusal /\ reply'[c] = Refusal
              => sent[c].token \in excused
<1>1. ASSUME IInv, Presented, [Next]_vars PROVE Excuse
  <2> SUFFICES ASSUME NEW c \in Callers,
                      pc[c] = "refreshGrant", reply[c] # Refusal, reply'[c] = Refusal
               PROVE  sent[c].token \in excused
    OBVIOUS
  <2>1. reply[c] = Unanswered /\ sent[c].token \notin valid
    BY <1>1, RefusalStep
  <2> QED
    BY <1>1, <2>1 DEF Good, Pending, Unanswered
<1>2. Spec => [](IInv /\ Presented)
  <2>1. CASE "cancel" \notin Faults
    <3>1. StoreInv => Presented
      BY DEF StoreInv, GoodInv
    <3>2. Spec => [](IInv /\ StoreInv)
      BY <2>1, StoreInvariance DEF Orderly
    <3> QED
      BY <3>1, <3>2, PTL
  <2>2. CASE "crash" \notin Faults
    <3>1. RunningInv => Presented
      BY DEF RunningInv
    <3>2. Spec => [](IInv /\ RunningInv)
      BY <2>2, RunningInvariance DEF Restartless
    <3> QED
      BY <3>1, <3>2, PTL
  <2> QED
    BY <2>1, <2>2
<1>3. Spec => [][Excuse]_vars
  BY <1>1, <1>2, PTL DEF Spec
<1> QED
  BY <1>3 DEF RejectionExcused

-----------------------------------------------------------------------------
(* The file follows the memory *)

\* Nobody else writes the file either, and no save fails.
Undisturbed == Faults \cap {"cancel", "relogin", "login", "savefail"} = {}

\* A stored token is in memory and in the file, or its successor is being written;
\* who presents a stored token presents the one in the file.
SyncInv ==
    /\ source = "STORE" => stored = refreshToken \/ \E c \in Callers : saving[c] # NoToken
    /\ \A c \in Callers :
          /\ pc[c] = "refreshGrant" /\ sent[c].source = "STORE" => sent[c].token = stored
          /\ saving[c] # NoToken => sent[c].token = stored

LEMMA CriticalSectionSync ==
    ASSUME IInv, StoreInv, SyncInv, NEW c \in Callers, holder = NoCaller,
           CriticalSection(c), UNCHANGED <<memory, saving, stored>>
    PROVE  SyncInv'
<1>1. TypeOK /\ SourceInv
  BY DEF IInv, StoreInv
<1>2. \A d \in Callers : pc[d] # "refreshGrant" /\ saving[d] = NoToken
  <2>1. \A d \in Callers : pc[d] \notin InSection
    BY ConstantFacts DEF IInv, LockInv
  <2> QED
    BY <1>1, <2>1, OutsideFacts DEF InSection, Granting
<1>3. CASE /\ pc' = [pc EXCEPT ![c] = "refreshGrant"]
           /\ sent' = [sent EXCEPT ![c] = ResolvedRefreshToken]
  <2>1. ResolvedRefreshToken.source = "STORE" => ResolvedRefreshToken.token = stored
    BY <1>2 DEF SyncInv, ResolvedRefreshToken, Unsent, NoSource
  <2> QED
    BY <1>1, <1>2, <1>3, <2>1 DEF SyncInv, TypeOK, memory
<1>4. CASE \E p : p # "refreshGrant" /\ pc' = [pc EXCEPT ![c] = p] /\ sent' = sent
  BY <1>1, <1>2, <1>4 DEF SyncInv, TypeOK, memory
<1> QED
  BY <1>3, <1>4 DEF CriticalSection, Refresh, PasswordGrant, End

LEMMA ReceiveSync ==
    ASSUME IInv, StoreInv, SyncInv, NEW c \in Callers, Receive(c) PROVE SyncInv'
<1>1. TypeOK /\ SourceInv /\ pc[c] \in Granting /\ sent' = sent /\ stored' = stored
  BY DEF IInv, StoreInv, Receive
<1>2. \A d \in Callers : d # c => pc[d] # "refreshGrant" /\ saving[d] = NoToken
  BY <1>1, AloneFacts DEF InSection
<1>3. saving[c] = NoToken
  BY <1>1 DEF SourceInv, Granting
<1>4. CASE Granted(c)
  <2>1. /\ refreshToken' = reply[c].token /\ source' = GrantSource(c)
        /\ reply[c].status = "ok" /\ reply[c].token # NoToken
        /\ IF WrittenBack(c)
           THEN /\ saving' = [saving EXCEPT ![c] = reply[c].token]
                /\ pc' = [pc EXCEPT ![c] = "saving"]
           ELSE saving' = saving /\ pc' = [pc EXCEPT ![c] = "served"]
    BY <1>1, <1>4, TokenFacts, ConstantFacts DEF Granted, End
  <2>2. GrantSource(c) = "STORE" => pc[c] = "refreshGrant" /\ sent[c].source = "STORE"
    BY DEF GrantSource
  <2>3. CASE WrittenBack(c)
    BY <1>1, <1>2, <2>1, <2>2, <2>3 DEF SyncInv, WrittenBack, TypeOK
  <2>4. CASE ~WrittenBack(c)
    <3>1. source' = "STORE" => stored = refreshToken'
      BY <1>1, <2>1, <2>2, <2>4 DEF SyncInv, SourceInv, WrittenBack
    <3> QED
      BY <1>1, <1>2, <1>3, <2>1, <2>4, <3>1 DEF SyncInv, TypeOK
  <2> QED
    BY <2>3, <2>4
<1>5. CASE Refused(c)
  BY <1>1, <1>2, <1>5 DEF SyncInv, Refused, PasswordGrant, End, TypeOK, memory
<1> QED
  BY <1>4, <1>5 DEF Receive

LEMMA SaveDoneSync ==
    ASSUME IInv, StoreInv, SyncInv, NEW c \in Callers, SaveDone(c) PROVE SyncInv'
<1>1. TypeOK /\ SourceInv /\ saving[c] # NoToken /\ pc[c] = "saving"
  BY DEF IInv, StoreInv, SourceInv, SaveDone
<1>2. \A d \in Callers : pc[d] # "refreshGrant" /\ (d # c => saving[d] = NoToken)
  BY <1>1, AloneFacts DEF InSection
<1> QED
  BY <1>1, <1>2 DEF SyncInv, SourceInv, SaveDone, End, TypeOK, memory

LEMMA NextSync ==
    ASSUME IInv, StoreInv, SyncInv, Undisturbed, [Next]_vars
    PROVE  SyncInv'
<1>1. TypeOK /\ SourceInv
  BY DEF IInv, StoreInv
<1>2. ASSUME UNCHANGED <<memory, sent, saving, stored>>,
             \A d \in Callers : pc'[d] = "refreshGrant" => pc[d] = "refreshGrant"
      PROVE  SyncInv'
  BY <1>2 DEF SyncInv, memory
<1>3. ASSUME NEW c \in Callers, Call(c) PROVE SyncInv'
  <2>1. CASE holder = NoCaller /\ CriticalSection(c)
    BY <1>3, <2>1, CriticalSectionSync DEF Call
  <2>2. CASE \E p \in {"served", "waiting"} : pc' = [pc EXCEPT ![c] = p] /\ sent' = sent
    BY <1>1, <1>2, <1>3, <2>2 DEF Call, TypeOK
  <2> QED
    BY <1>3, <2>1, <2>2 DEF Call, Enter, End
<1>4. ASSUME NEW c \in Callers, Progress(c) PROVE SyncInv'
  <2>1. CASE Acquire(c)
    BY <2>1, CriticalSectionSync DEF Acquire
  <2>2. CASE IdentityAnswers(c)
    BY <1>2, <2>2 DEF IdentityAnswers
  <2> QED
    BY <1>4, <2>1, <2>2, ReceiveSync, SaveDoneSync DEF Progress
<1>5. ASSUME NEW c \in Callers, Failure(c) PROVE SyncInv'
  <2>1. GrantFails(c) \/ GrantMalformed(c)
    BY <1>5 DEF Failure, SaveFails, Cancel, Undisturbed
  <2> QED
    BY <1>1, <1>2, <2>1 DEF GrantFails, GrantMalformed, End, TypeOK
<1>6. CASE Restart
  BY <1>1, <1>6 DEF Restart, SyncInv, TypeOK, Running, InSection, Granting, NoSource
<1>7. CASE Tick \/ (\E t \in Tokens : Revoke(t)) \/ UNCHANGED vars
  BY <1>2, <1>7 DEF Tick, Revoke, vars
<1>8. ~Login
  BY DEF Login, Undisturbed
<1> QED
  BY <1>3, <1>4, <1>5, <1>6, <1>7, <1>8 DEF Next

LEMMA SyncInvariance == ASSUME Undisturbed PROVE Spec => [](IInv /\ StoreInv /\ SyncInv)
<1>1. Init => SyncInv
  BY DEF Init, SyncInv, NoSource
<1>2. Orderly
  BY DEF Undisturbed, Orderly
<1>3. IInv /\ StoreInv /\ SyncInv /\ [Next]_vars => SyncInv'
  BY NextSync
<1>4. Spec => [](IInv /\ StoreInv)
  BY <1>2, StoreInvariance
<1> QED
  BY <1>1, <1>3, <1>4, PTL DEF Spec

\* When a call returns the token it obtained with a stored refresh token, and no save is
\* under way, the file holds the refresh token that goes with it (StoreInSync).
THEOREM StoreInSyncHolds ==
    ASSUME Faults \cap {"cancel", "relogin", "login", "savefail"} = {}
    PROVE  Spec => StoreInSync
<1> DEFINE InSync == \A c \in Callers :
              /\ pc[c] # "served" /\ pc'[c] = "served" /\ active'.by = c
              /\ source' = "STORE"
              /\ \A d \in Callers : saving'[d] = NoToken
              => stored' = refreshToken'
<1>1. SyncInv' => InSync
  BY DEF SyncInv
<1>2. Spec => [](IInv /\ StoreInv /\ SyncInv)
  BY SyncInvariance DEF Undisturbed
<1>3. Spec => [][InSync]_vars
  BY <1>1, <1>2, PTL DEF Spec
<1> QED
  BY <1>3 DEF StoreInSync

-----------------------------------------------------------------------------
(* What a save puts in the place of what somebody else stored *)

\* An answer on its way carries a good token, and so does a save that is waited for:
\* the one in memory, which nobody replaces while the lock is held.
WaitedInv ==
    \A c \in Callers :
        /\ reply[c].status = "ok" => Good(reply[c].token)
        /\ pc[c] = "saving" /\ saving[c] # NoToken =>
              saving[c] = refreshToken /\ Good(saving[c])

\* A process that is configured with a token takes none from the credential file.
ConfiguredInv ==
    settings.refreshToken # NoToken =>
        /\ source # "STORE"
        /\ \A c \in Callers : /\ saving[c] = NoToken
                              /\ pc[c] = "refreshGrant" => sent[c].source # "STORE"

UsableInv == WaitedInv /\ ConfiguredInv

\* A step that starts no save and brings no answer, and replaces no good token.
LEMMA AsideUsable ==
    ASSUME UsableInv, UNCHANGED <<settings, memory>>,
           \A t : Good(t) => Good(t)',
           \A c \in Callers :
              /\ reply'[c] = reply[c] \/ reply'[c].status # "ok"
              /\ pc'[c] = "saving" => pc[c] = "saving"
              /\ saving'[c] \in {saving[c], NoToken}
              /\ pc'[c] = "refreshGrant" => \/ pc[c] = "refreshGrant" /\ sent'[c] = sent[c]
                                            \/ sent'[c] = ResolvedRefreshToken
    PROVE  UsableInv'
<1>1. WaitedInv'
  BY DEF UsableInv, WaitedInv, memory
<1>2. settings.refreshToken # NoToken => ResolvedRefreshToken.source # "STORE"
  BY DEF UsableInv, ConfiguredInv, ResolvedRefreshToken
<1>3. ConfiguredInv'
  BY <1>2 DEF UsableInv, ConfiguredInv, memory
<1> QED
  BY <1>1, <1>3 DEF UsableInv

LEMMA AnswerUsable ==
    ASSUME IInv, UsableInv, NEW c \in Callers, IdentityAnswers(c) PROVE UsableInv'
<1>1. /\ TypeOK /\ pc[c] \in Granting
      /\ UNCHANGED <<settings, memory, pc, sent, saving, excused>>
  BY DEF IInv, IdentityAnswers
<1>2. \A d \in Callers : d # c => pc[d] # "saving" /\ reply[d].status # "ok"
  BY <1>1 DEF IInv, LockInv, ReplyInv, InSection, Granting, Unanswered
<1>3. reply'[c].status = "ok" => reply'[c].token \in valid'
  <2>1. reply \in [Callers -> Grants \cup {Unanswered, Refusal}]
    BY <1>1 DEF TypeOK
  <2>2. ASSUME NEW t, Accept(c, t) PROVE reply'[c].token = t
    BY <2>1, <2>2 DEF Accept
  <2>3. reply' = [reply EXCEPT ![c] = Refusal] => reply'[c].status # "ok"
    BY <2>1 DEF Refusal, Unanswered
  <2> QED
    BY <2>2, <2>3 DEF IdentityAnswers, service
<1>4. \A d \in Callers : d # c => reply'[d] = reply[d]
  BY <1>1 DEF IdentityAnswers, Accept, TypeOK
<1>5. WaitedInv'
  BY <1>1, <1>2, <1>3, <1>4 DEF WaitedInv, Good, Granting
<1>6. ConfiguredInv'
  BY <1>1 DEF UsableInv, ConfiguredInv, memory
<1> QED
  BY <1>5, <1>6 DEF UsableInv

LEMMA GrantedUsable ==
    ASSUME IInv, UsableInv, NEW c \in Callers, pc[c] \in Granting, Granted(c),
           UNCHANGED <<settings, sent, service, excused>>
    PROVE  UsableInv'
<1>1. TypeOK /\ \A d \in Callers : d # c => /\ pc[d] \notin InSection
                                            /\ reply[d].status # "ok"
  BY DEF IInv, LockInv, ReplyInv, InSection, Granting, Unanswered
<1>2. /\ refreshToken' = reply[c].token /\ source' = GrantSource(c)
      /\ reply' = [reply EXCEPT ![c] = Unanswered]
      /\ reply[c].token \in valid' \cup excused'
      /\ \/ /\ WrittenBack(c) /\ saving' = [saving EXCEPT ![c] = reply[c].token]
            /\ pc' = [pc EXCEPT ![c] = "saving"]
         \/ saving' = saving /\ pc' = [pc EXCEPT ![c] = "served"]
  BY DEF Granted, End, UsableInv, WaitedInv, Good, service
<1>3. WaitedInv'
  <2>1. \A d \in Callers : reply'[d].status # "ok"
    BY <1>1, <1>2 DEF TypeOK, Unanswered
  <2>2. \A d \in Callers : pc'[d] = "saving" => d = c /\ saving'[c] = reply[c].token
    BY <1>1, <1>2 DEF TypeOK, InSection
  <2> QED
    BY <1>1, <1>2, <2>1, <2>2 DEF WaitedInv, Good
<1>4. ConfiguredInv'
  <2>1. SUFFICES ASSUME settings.refreshToken # NoToken PROVE ConfiguredInv'
    BY DEF ConfiguredInv
  <2>2. GrantSource(c) # "STORE"
    BY <2>1 DEF UsableInv, ConfiguredInv, GrantSource
  <2>3. ~WrittenBack(c)
    BY <2>2 DEF WrittenBack
  <2>4. \A d \in Callers : pc'[d] # "refreshGrant"
    BY <1>1, <1>2 DEF TypeOK, InSection, Granting
  <2> QED
    BY <1>2, <2>1, <2>2, <2>3, <2>4 DEF UsableInv, ConfiguredInv
<1> QED
  BY <1>3, <1>4 DEF UsableInv

LEMMA NextUsable ==
    ASSUME IInv, UsableInv, "relogin" \notin Faults, [Next]_vars PROVE UsableInv'
<1>1. TypeOK /\ Unanswered.status # "ok"
  BY DEF IInv, Unanswered
<1>2. ASSUME NEW c \in Callers, Call(c) \/ Acquire(c) PROVE UsableInv'
  <2>1. /\ UNCHANGED <<settings, memory, saving, service, excused>>
        /\ \A d \in Callers : d # c => pc'[d] = pc[d] /\ sent'[d] = sent[d]
        /\ reply' = reply \/ reply' = [reply EXCEPT ![c] = Unanswered]
        /\ pc'[c] # "saving"
        /\ pc'[c] = "refreshGrant" => sent'[c] = ResolvedRefreshToken
    BY <1>1, <1>2 DEF Call, Acquire, Enter, CriticalSection, Refresh, PasswordGrant, End, TypeOK
  <2>2. \A d \in Callers : reply'[d] = reply[d] \/ reply'[d].status # "ok"
    BY <1>1, <2>1 DEF TypeOK
  <2>3. \A t : Good(t) => Good(t)'
    BY <2>1 DEF Good, service
  <2> QED
    BY <2>1, <2>2, <2>3, AsideUsable
<1>3. ASSUME NEW c \in Callers, NEW end, end \notin {"saving", "refreshGrant"},
             pc' = [pc EXCEPT ![c] = end] \/ pc' = pc,
             reply' = [reply EXCEPT ![c] = Unanswered] \/ reply' = reply,
             saving' = [saving EXCEPT ![c] = NoToken] \/ saving' = saving,
             excused \subseteq excused', UNCHANGED <<settings, memory, sent, service>>
      PROVE  UsableInv'
  <2>1. \A d \in Callers : /\ reply'[d] = reply[d] \/ reply'[d].status # "ok"
                           /\ pc'[d] = "saving" => pc[d] = "saving"
                           /\ saving'[d] \in {saving[d], NoToken}
                           /\ pc'[d] = "refreshGrant" => pc[d] = "refreshGrant"
    BY <1>1, <1>3 DEF TypeOK
  <2>2. \A t : Good(t) => Good(t)'
    BY <1>3 DEF Good, service
  <2> QED
    BY <1>3, <2>1, <2>2, AsideUsable
<1>4. ASSUME NEW c \in Callers, Receive(c) PROVE UsableInv'
  <2>1. CASE Granted(c)
    BY <1>4, <2>1, GrantedUsable DEF Receive
  <2>2. CASE Refused(c)
    BY <1>3, <1>4, <2>2 DEF Receive, Refused, PasswordGrant, End
  <2> QED
    BY <1>4, <2>1, <2>2 DEF Receive
<1>5. ASSUME NEW c \in Callers, SaveDone(c) \/ Failure(c) PROVE UsableInv'
  <2>1. CASE SaveDone(c)
    <3>1. /\ saving' = [saving EXCEPT ![c] = NoToken]
          /\ excused' = excused /\ UNCHANGED <<settings, memory, sent, service>>
          /\ reply' = reply \/ reply' = [reply EXCEPT ![c] = Unanswered]
          /\ pc' = pc \/ pc' = [pc EXCEPT ![c] = "served"]
      BY <2>1 DEF SaveDone, End
    <3>2. \A d \in Callers : /\ reply'[d] = reply[d] \/ reply'[d].status # "ok"
                             /\ pc'[d] = "saving" => pc[d] = "saving"
                             /\ saving'[d] \in {saving[d], NoToken}
                             /\ pc'[d] = "refreshGrant" => pc[d] = "refreshGrant"
      BY <1>1, <3>1 DEF TypeOK
    <3>3. \A t : Good(t) => Good(t)'
      BY <3>1 DEF Good, service
    <3> QED
      BY <3>1, <3>2, <3>3, AsideUsable
  <2>2. CASE GrantFails(c) \/ GrantMalformed(c)
    BY <1>3, <2>2 DEF GrantFails, GrantMalformed, End
  <2>3. CASE SaveFails(c)
    BY <1>3, <2>3 DEF SaveFails, End
  <2>4. CASE Cancel(c)
    <3>1. /\ pc' = [pc EXCEPT ![c] = "cancelled"]
          /\ reply' = [reply EXCEPT ![c] = Unanswered]
          /\ saving' = [saving EXCEPT ![c] = NoToken] \/ saving' = saving
          /\ excused \subseteq excused' /\ UNCHANGED <<settings, memory, sent, service>>
      BY <2>4 DEF Cancel, End
    <3>2. \A d \in Callers : /\ reply'[d] = reply[d] \/ reply'[d].status # "ok"
                             /\ pc'[d] = "saving" => pc[d] = "saving"
                             /\ saving'[d] \in {saving[d], NoToken}
                             /\ pc'[d] = "refreshGrant" => pc[d] = "refreshGrant"
      BY <1>1, <3>1 DEF TypeOK
    <3>3. \A t : Good(t) => Good(t)'
      BY <3>1 DEF Good, service
    <3> QED
      BY <3>1, <3>2, <3>3, AsideUsable
  <2> QED
    BY <1>5, <2>1, <2>2, <2>3, <2>4 DEF Failure
<1>6. CASE Restart
  <2>1. \A c \in Callers : /\ pc'[c] \notin {"saving", "refreshGrant"}
                           /\ reply'[c] = Unanswered /\ saving'[c] = NoToken
    BY <1>1, <1>6 DEF Restart, TypeOK, Running, InSection, Granting
  <2> QED
    BY <1>1, <1>6, <2>1 DEF Restart, UsableInv, WaitedInv, ConfiguredInv, NoSource
<1>7. CASE Tick \/ Login \/ (\E t \in Tokens : Revoke(t)) \/ UNCHANGED vars
  <2>1. /\ UNCHANGED <<settings, memory, pc, sent, reply, saving>>
        /\ valid \cup excused \subseteq valid' \cup excused'
    <3>1. CASE Login
      BY <3>1 DEF Login
    <3>2. CASE Tick \/ (\E t \in Tokens : Revoke(t)) \/ UNCHANGED vars
      BY <3>2 DEF Tick, Revoke, vars, service
    <3> QED
      BY <1>7, <3>1, <3>2
  <2> QED
    BY <2>1, AsideUsable DEF Good
<1> QED
  BY <1>2, <1>4, <1>5, <1>6, <1>7, AnswerUsable DEF Next, Progress

\* A save replaces what the file holds, a login's token included, only by the token
\* that the process goes on with and the service accepts, and only in a process that
\* is configured with none (SaveKeepsFileUsable): with any faults, cancelled calls and
\* restarts and failed saves among them, but `login --refresh-token`.
THEOREM SaveKeepsFileUsableHolds ==
    ASSUME "relogin" \notin Faults
    PROVE  Spec => SaveKeepsFileUsable
<1> DEFINE Usable == \A c \in Callers :
              SaveDone(c) =>
                  /\ settings.refreshToken = NoToken
                  /\ pc[c] = "saving" => /\ stored' = refreshToken'
                                         /\ stored' \in valid \cup excused
<1>1. UsableInv => Usable
  BY DEF UsableInv, WaitedInv, ConfiguredInv, SaveDone, memory, Good
<1>2. Init => UsableInv
  BY DEF Init, UsableInv, WaitedInv, ConfiguredInv, Unanswered, NoSource
<1>3. IInv /\ UsableInv /\ [Next]_vars => UsableInv'
  BY NextUsable
<1>4. Spec => []UsableInv
  BY <1>2, <1>3, Invariance, PTL DEF Spec
<1>5. Spec => [][Usable]_vars
  BY <1>1, <1>4, PTL DEF Spec
<1> QED
  BY <1>5 DEF SaveKeepsFileUsable

-----------------------------------------------------------------------------
(* One save at a time *)

\* Two save threads of the process never run at once, unless a call was cancelled
\* whose thread goes on: what CredentialFile assumes where Overlap is FALSE.
OneSaveAtATime ==
    \A c, d \in Callers : saving[c] # NoToken /\ saving[d] # NoToken => c = d

\* Every save thread has a task that waits for it.
AwaitedInv == \A c \in Callers : saving[c] # NoToken => pc[c] = "saving"

LEMMA NextAwaited ==
    ASSUME IInv, AwaitedInv, "cancel" \notin Faults, [Next]_vars PROVE AwaitedInv'
<1>1. TypeOK
  BY DEF IInv
<1>2. ASSUME NEW c \in Callers, saving' = saving, pc[c] # "saving",
             \A d \in Callers : d # c => pc'[d] = pc[d]
      PROVE  AwaitedInv'
  BY <1>2 DEF AwaitedInv
<1>3. ASSUME NEW c \in Callers, Call(c) \/ Acquire(c) PROVE AwaitedInv'
  <2>1. pc[c] # "saving"
    BY <1>3, AcquireFacts DEF Call, InSection
  <2>2. saving' = saving /\ \A d \in Callers : d # c => pc'[d] = pc[d]
    BY <1>1, <1>3 DEF Call, Acquire, Enter, CriticalSection, Refresh, PasswordGrant, End, TypeOK
  <2> QED
    BY <1>2, <2>1, <2>2
<1>4. ASSUME NEW c \in Callers, Receive(c) PROVE AwaitedInv'
  BY <1>1, <1>4 DEF AwaitedInv, Receive, Granted, Refused, PasswordGrant, End, TypeOK,
     Granting, NoToken
<1>5. ASSUME NEW c \in Callers, SaveDone(c) \/ SaveFails(c) PROVE AwaitedInv'
  BY <1>1, <1>5 DEF AwaitedInv, SaveDone, SaveFails, End, TypeOK
<1>6. ASSUME NEW c \in Callers, GrantFails(c) \/ GrantMalformed(c) PROVE AwaitedInv'
  BY <1>1, <1>6 DEF AwaitedInv, GrantFails, GrantMalformed, End, IInv, ReplyInv, Granting,
     Unanswered, TypeOK
<1>7. ASSUME NEW c \in Callers, IdentityAnswers(c) PROVE AwaitedInv'
  BY <1>7 DEF AwaitedInv, IdentityAnswers
<1>8. CASE Restart
  BY <1>8 DEF AwaitedInv, Restart
<1>9. CASE Tick \/ Login \/ (\E t \in Tokens : Revoke(t)) \/ UNCHANGED vars
  BY <1>9 DEF AwaitedInv, Tick, Login, Revoke, vars
<1> QED
  BY <1>3, <1>4, <1>5, <1>6, <1>7, <1>8, <1>9 DEF Next, Progress, Failure, Cancel

\* No two save threads of one process run at once (OneSaveAtATime): the lock is held
\* across the save, and its task waits for it, if no call is cancelled.  It is what
\* the proofs about CredentialFile assume.
THEOREM OneSaveAtATimeHolds ==
    ASSUME "cancel" \notin Faults
    PROVE  Spec => []OneSaveAtATime
<1>1. Init => AwaitedInv
  BY DEF Init, AwaitedInv
<1>2. IInv /\ AwaitedInv /\ [Next]_vars => AwaitedInv'
  BY NextAwaited
<1>3. IInv /\ AwaitedInv => OneSaveAtATime
  BY DEF IInv, LockInv, AwaitedInv, OneSaveAtATime, InSection
<1> QED
  BY <1>1, <1>2, <1>3, Invariance, PTL DEF Spec

=============================================================================
