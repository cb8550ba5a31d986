----------------------------- MODULE AtMostOnce -----------------------------
(***************************************************************************)
(* What the ledger promises of an action, without its rows, its callers    *)
(* and its failures: the tool is entered at most once, and at most one     *)
(* outcome is ever recorded -- the tool's answer, only after it was        *)
(* entered, or "unknown", after which it is not entered any more.          *)
(***************************************************************************)
EXTENDS Naturals

CONSTANTS Actions, Envelopes, Unknown, None

VARIABLES entered, outcome

onceVars == <<entered, outcome>>

Init ==
    /\ entered = [a \in Actions |-> 0]
    /\ outcome = [a \in Actions |-> None]

Enter(a) ==
    /\ entered[a] = 0 /\ outcome[a] = None
    /\ entered' = [entered EXCEPT ![a] = 1]
    /\ UNCHANGED outcome

Record(a, r) ==
    /\ entered[a] = 1 /\ outcome[a] = None
    /\ outcome' = [outcome EXCEPT ![a] = r]
    /\ UNCHANGED entered

GiveUp(a) ==
    /\ outcome[a] = None
    /\ outcome' = [outcome EXCEPT ![a] = Unknown]
    /\ UNCHANGED entered

Next ==
    \E a \in Actions : Enter(a) \/ GiveUp(a) \/ \E r \in Envelopes : Record(a, r)

Spec == Init /\ [][Next]_onceVars
=============================================================================
