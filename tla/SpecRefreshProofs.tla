------------------------- MODULE SpecRefreshProofs -------------------------
(***************************************************************************)
(* What one run of scripts/refresh_spec.py leaves behind, for any services *)
(* and documents.                                                          *)
(***************************************************************************)
EXTENDS SpecRefresh, TLAPS

-----------------------------------------------------------------------------
(* The inductive invariant.  A service is untouched until its turn comes;  *)
(* at its turn, what the later steps rely on has been checked; afterwards  *)
(* it is either refreshed or rejected, and the exit code knows which.      *)

AtWork == {"fetched", "accepted", "compared", "truncated"}
Checked == {"accepted", "compared", "truncated"}

Turn ==
    /\ pc \in AtWork => current \in todo /\ got[current] \in Documents
    /\ pc \in Checked => Alone(current, got[current])
    /\ pc = "truncated" => write /\ vendored[current] = Torn
    /\ pc \in {"compared", "truncated"} /\ original[current] \in Documents =>
          removed[current] = Names(current, original[current]) \ Names(current, got[current])

Untouched ==
    pc # "killed" =>
        \A s \in Services : s \notin targets \/ s \in todo =>
            vendored[s] = original[s] \/ (s = current /\ pc \in {"truncated", "aborted"})

Settled ==
    \A s \in targets \ todo :
        \/ Alone(s, got[s]) /\ (write => vendored[s] = got[s])
        \/ exitCode = 1 /\ ~Alone(s, got[s]) /\ vendored[s] = original[s]

Blamed ==
    pc # "aborted" /\ exitCode = 1 => \E s \in targets \ todo : ~Alone(s, got[s])

IInv ==
    /\ RefreshTypeOK
    /\ Turn
    /\ Untouched
    /\ Settled
    /\ Blamed
    /\ pc = "exited" => todo = {}
    /\ OnlyAcceptedReplace
    /\ RemovalsReported

LEMMA InitIInv == RefreshInit => IInv
<1> SUFFICES ASSUME RefreshInit PROVE IInv
  OBVIOUS
<1> USE DEF RefreshInit
<1>1. RefreshTypeOK
  BY ServicesAssumption DEF RefreshTypeOK, Files, Over, AnyService
<1>2. Turn /\ Untouched /\ Settled /\ Blamed
  BY DEF Turn, Untouched, Settled, Blamed, AtWork, Checked
<1> QED
  BY <1>1, <1>2 DEF IInv, OnlyAcceptedReplace, RemovalsReported

\* Every step of the run preserves it.  Only `current` is ever at work, so each
\* action is looked at for that service and leaves the others as they were.
LEMMA NextIInv == IInv /\ [RefreshNext]_refreshVars => IInv'
<1> SUFFICES ASSUME IInv, [RefreshNext]_refreshVars PROVE IInv'
  OBVIOUS
<1> USE DEF IInv, RefreshTypeOK, Files, Over, AtWork, Checked
<1>1. ASSUME NEW s \in Services, NEW d \in Documents, Fetch(s, d) PROVE IInv'
  BY <1>1 DEF Fetch, Turn, Untouched, Settled, Blamed, OnlyAcceptedReplace, RemovalsReported
<1>2. CASE FetchFails
  BY <1>2 DEF FetchFails, Abort, Raised, Turn, Untouched, Settled, Blamed,
              OnlyAcceptedReplace, RemovalsReported
<1>3. CASE Check
  <2>1. CASE Accepted /\ Alone(current, got[current])
    BY <1>3, <2>1 DEF Check, Accepted, Turn, Untouched, Settled, Blamed,
                      OnlyAcceptedReplace, RemovalsReported
  <2>2. CASE Rejected /\ ~Alone(current, got[current])
    BY <1>3, <2>2 DEF Check, Rejected, Returned, Worst, Turn, Untouched, Settled, Blamed,
                      OnlyAcceptedReplace, RemovalsReported
  <2> QED
    BY <1>3, <2>1, <2>2 DEF Check
<1>4. CASE Compare
  <2> DEFINE old == vendored[current]
  <2>1. CASE old # Absent /\ ~Alone(current, old)
    BY <1>4, <2>1 DEF Compare, Abort, Raised, Turn, Untouched, Settled, Blamed,
                      OnlyAcceptedReplace, RemovalsReported
  <2>2. CASE ~(old # Absent /\ ~Alone(current, old))
    <3>1. /\ pc = "accepted" /\ pc' = "compared"
          /\ removed' = [removed EXCEPT ![current] =
                 IF old = Absent THEN {} ELSE RemovedNames(current, old, got[current])]
          /\ UNCHANGED <<targets, write, vendored, original, todo, current, got, exitCode>>
      BY <1>4, <2>2 DEF Compare
    <3>2. old = original[current] /\ current \in Services
      BY <3>1 DEF Turn, Untouched
    <3>3. original[current] \in Documents =>
             removed'[current] = Names(current, original[current]) \ Names(current, got[current])
      BY <3>1, <3>2, DocumentAssumption DEF RemovedNames
    <3>4. \A s \in Services : s # current => removed'[s] = removed[s]
      BY <3>1
    <3>5. vendored[current] = original[current]
      BY <3>2
    <3>6. RefreshTypeOK' /\ Untouched' /\ Settled' /\ Blamed' /\ OnlyAcceptedReplace'
      BY <3>1 DEF Untouched, Settled, Blamed, OnlyAcceptedReplace
    <3>7. Turn'
      BY <3>1, <3>3 DEF Turn
    <3>8. RemovalsReported'
      BY <3>1, <3>4, <3>5 DEF RemovalsReported
    <3> QED
      BY <3>1, <3>6, <3>7, <3>8
  <2> QED
    BY <2>1, <2>2
<1>5. CASE DryRun
  BY <1>5 DEF DryRun, Returned, Worst, Turn, Untouched, Settled, Blamed,
              OnlyAcceptedReplace, RemovalsReported
<1>6. CASE Truncate
  BY <1>6 DEF Truncate, Turn, Untouched, Settled, Blamed,
              OnlyAcceptedReplace, RemovalsReported
<1>7. CASE Write
  BY <1>7 DEF Write, Returned, Worst, Turn, Untouched, Settled, Blamed,
              OnlyAcceptedReplace, RemovalsReported
<1>8. CASE Exit
  BY <1>8 DEF Exit, Turn, Untouched, Settled, Blamed, OnlyAcceptedReplace, RemovalsReported
<1>9. CASE Die
  BY <1>9 DEF Die, Turn, Untouched, Settled, Blamed, OnlyAcceptedReplace, RemovalsReported
<1>10. CASE UNCHANGED refreshVars
  BY <1>10 DEF refreshVars, Turn, Untouched, Settled, Blamed,
               OnlyAcceptedReplace, RemovalsReported
<1>11. CASE OpenFails
  BY <1>11 DEF OpenFails, Abort, Raised, Turn, Untouched, Settled, Blamed,
               OnlyAcceptedReplace, RemovalsReported
<1>12. CASE WriteFails
  <2>1. /\ pc = "truncated" /\ pc' = "aborted" /\ current \in todo /\ current \in Services
        /\ vendored' = vendored \/ vendored' = [vendored EXCEPT ![current] = got[current]]
        /\ UNCHANGED <<targets, write, original, todo, current, got, removed>>
    BY <1>12 DEF WriteFails, Raised, Turn
  <2>2. \A s \in Services : s # current => vendored'[s] = vendored[s]
    BY <2>1
  <2>3. vendored'[current] \in {Torn, got[current]} /\ got[current] \in Documents
        /\ Alone(current, got[current]) /\ write
    BY <2>1 DEF Turn
  <2>4. RefreshTypeOK' /\ Turn' /\ Untouched' /\ Blamed'
    BY <1>12, <2>1, <2>2, <2>3 DEF WriteFails, Raised, Turn, Untouched, Blamed
  <2>5. Settled'
    BY <1>12, <2>1, <2>2 DEF WriteFails, Raised, Settled
  <2>6. OnlyAcceptedReplace'
    BY <2>1, <2>2, <2>3 DEF OnlyAcceptedReplace
  <2>7. RemovalsReported'
    BY <2>1, <2>2 DEF RemovalsReported, Turn
  <2> QED
    BY <2>1, <2>4, <2>5, <2>6, <2>7
<1> QED
  BY <1>1, <1>2, <1>3, <1>4, <1>5, <1>6, <1>7, <1>8, <1>9, <1>10, <1>11, <1>12
     DEF RefreshNext

THEOREM InductiveInvariant == RefreshSpec => []IInv
<1> QED
  BY InitIInv, NextIInv, PTL DEF RefreshSpec

\* Types of the run.
THEOREM TypeCorrect == RefreshSpec => []RefreshTypeOK
<1>1. IInv => RefreshTypeOK
  BY DEF IInv
<1> QED
  BY <1>1, InductiveInvariant, PTL

\* A vendored spec is only ever replaced on --write, for a service asked for and
\* by a document that builds; a write that fails leaves at most the one it was
\* writing torn.
THEOREM ReplacementSafe == RefreshSpec => []OnlyAcceptedReplace
<1>1. IInv => OnlyAcceptedReplace
  BY DEF IInv
<1> QED
  BY <1>1, InductiveInvariant, PTL

\* No operation of a vendored spec disappears without having been reported.
THEOREM RemovalsAreReported == RefreshSpec => []RemovalsReported
<1>1. IInv => RemovalsReported
  BY DEF IInv
<1> QED
  BY <1>1, InductiveInvariant, PTL

LEMMA ExitIsHonest == IInv => ExitCodeHonest
<1> SUFFICES ASSUME IInv, pc = "exited" PROVE ExitCodeHonest
  BY DEF ExitCodeHonest
<1>1. targets \ todo = targets
  BY DEF IInv
<1>2. ASSUME NEW s \in targets, exitCode = 0
      PROVE  got[s] \in Documents /\ Alone(s, got[s]) /\ (write => vendored[s] = got[s])
  <2>1. Alone(s, got[s]) /\ (write => vendored[s] = got[s])
    BY <1>1, <1>2 DEF IInv, Settled
  <2> QED
    BY <2>1 DEF Alone, Constructs, Sound
<1>3. exitCode = 1 => \E s \in targets : ~Alone(s, got[s])
  BY <1>1 DEF IInv, Blamed
<1> QED
  BY <1>2, <1>3 DEF ExitCodeHonest

\* The exit status of a run that reached its end tells success from failure.
THEOREM ExitCodeIsHonest == RefreshSpec => []ExitCodeHonest
<1> QED
  BY ExitIsHonest, InductiveInvariant, PTL

-----------------------------------------------------------------------------
(* Alone and together *)

\* Documents that build one by one build together: canonical names carry their
\* service, so documents of two services never share one.
LEMMA AloneSufficesTogether ==
    ASSUME NEW specs, \A s \in DOMAIN specs : Alone(s, specs[s])
    PROVE  Constructs(specs)
<1>1. ASSUME NEW s \in DOMAIN specs PROVE Sound(specs[s])
  BY DEF Alone, Constructs
<1>2. ASSUME NEW s \in DOMAIN specs, NEW t \in DOMAIN specs,
             NEW p \in Listed(specs[s]), NEW q \in Listed(specs[t]),
             Name(s, p) = Name(t, q)
      PROVE  s = t /\ p = q
  <2>1. s = t
    BY <1>2 DEF Name
  <2> DEFINE one == [u \in {s} |-> specs[s]]
  <2>2. Constructs(one)
    BY DEF Alone
  <2>3. s \in DOMAIN one /\ one[s] = specs[s]
    OBVIOUS
  <2> HIDE DEF one
  <2>4. p = q
    BY <1>2, <2>1, <2>2, <2>3 DEF Constructs
  <2> QED
    BY <2>1, <2>4
<1> QED
  BY <1>1, <1>2 DEF Constructs

LEMMA TogetherMeansAlone ==
    ASSUME NEW specs, Constructs(specs), NEW s \in DOMAIN specs
    PROVE  Alone(s, specs[s])
<1> DEFINE one == [u \in {s} |-> specs[s]]
<1>1. DOMAIN one = {s} /\ one[s] = specs[s]
  OBVIOUS
<1> HIDE DEF one
<1>2. Constructs(one)
  BY <1>1 DEF Constructs
<1> QED
  BY <1>2 DEF Alone, one

LEMMA LoadsAfterwards == IInv => StillLoads
<1> DEFINE whole == {s \in Services : vendored[s] # Torn}
           specs == [s \in whole |-> vendored[s]]
<1> SUFFICES ASSUME IInv, Constructs(original)
             PROVE  Constructs(specs) /\ \A s \in Services \ whole : s = current /\ pc # "exited"
  BY DEF StillLoads
<1>1. DOMAIN original = Services /\ DOMAIN vendored = Services
  BY DEF IInv, RefreshTypeOK
<1>2. ASSUME NEW s \in Services PROVE Alone(s, original[s]) /\ original[s] # Torn
  <2>1. Alone(s, original[s])
    BY <1>1, TogetherMeansAlone
  <2>2. original[s] \in Documents
    BY <1>1 DEF Constructs, Sound
  <2> QED
    BY <2>1, <2>2, DocumentAssumption
<1>3. ASSUME NEW s \in whole PROVE Alone(s, vendored[s])
  <2>1. CASE vendored[s] = original[s]
    BY <1>2, <2>1
  <2>2. CASE vendored[s] # original[s]
    BY <2>2 DEF IInv, OnlyAcceptedReplace
  <2> QED
    BY <2>1, <2>2
<1>4. Constructs(specs)
  <2>1. DOMAIN specs = whole /\ \A s \in whole : specs[s] = vendored[s]
    OBVIOUS
  <2> HIDE DEF specs, whole
  <2> QED
    BY <1>3, <2>1, AloneSufficesTogether
<1>5. ASSUME NEW s \in Services \ whole PROVE s = current /\ pc # "exited"
  <2>1. Alone(s, got[s]) => got[s] # Torn
    <3>1. Alone(s, got[s]) => got[s] \in Documents
      BY DEF Alone, Constructs, Sound
    <3> QED
      BY <3>1, DocumentAssumption
  <2> QED
    BY <1>2, <1>5, <2>1 DEF IInv, OnlyAcceptedReplace
<1> QED
  BY <1>4, <1>5

\* A server that loaded before a refresh loads after it, if the run reached its
\* end; if it stopped before, by failing or by a kill, at most one file is torn and
\* the others load together.
THEOREM ServerStillLoads == RefreshSpec => []StillLoads
<1> QED
  BY LoadsAfterwards, InductiveInvariant, PTL

=============================================================================
