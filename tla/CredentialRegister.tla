------------------------- MODULE CredentialRegister -------------------------
(***************************************************************************)
(* What the credential file is to those who use it: a register.  A save    *)
(* takes effect as a whole at one instant, or not at all if it fails; a    *)
(* load returns what the last save before some instant of the load left,   *)
(* or nothing if the file cannot be opened.                                *)
(***************************************************************************)
CONSTANTS
    Saves,         \* the calls of save_credentials, each with a token of its own
    Loads          \* the calls of load_credentials

VARIABLES
    value,         \* the save whose token the file holds, "before" or "absent"
    phase,         \* how far each save is
    seen           \* what each load returned

vars == <<value, phase, seen>>

Init ==
    /\ value \in {"before", "absent"}
    /\ phase = [s \in Saves |-> "open"]
    /\ seen = [l \in Loads |-> "nothing yet"]

Save(s) ==
    /\ phase[s] = "open"
    /\ phase' = [phase EXCEPT ![s] = "saved"]
    /\ value' = s
    /\ UNCHANGED seen

\* One save fails, or the process of several of them dies.
Fail ==
    /\ phase' \in [Saves -> {"open", "saved", "failed"}]
    /\ \A s \in Saves : phase'[s] = phase[s] \/ (phase[s] = "open" /\ phase'[s] = "failed")
    /\ UNCHANGED <<value, seen>>

Load(l) ==
    /\ seen[l] = "nothing yet"
    /\ seen' = [seen EXCEPT ![l] = value]
    /\ UNCHANGED <<value, phase>>

LoadFails(l) ==
    /\ seen[l] = "nothing yet"
    /\ seen' = [seen EXCEPT ![l] = "absent"]
    /\ UNCHANGED <<value, phase>>

Next ==
    \/ \E s \in Saves : Save(s)
    \/ Fail
    \/ \E l \in Loads : Load(l) \/ LoadFails(l)

Spec == Init /\ [][Next]_vars

=============================================================================
