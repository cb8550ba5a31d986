--------------------------- MODULE MCActionLedger ---------------------------
(* Small instances of two records that several workers race for: the ledger  *)
(* of irreversible actions and the rolling summary of a session.  They share *)
(* no variable, so a behaviour is one of them, chosen at the start.  The     *)
(* ledger's callers and the compressions share their model values: one       *)
(* permutation renames both.                                                 *)
EXTENDS ActionLedger, RollingSummary, TLC

VARIABLE part

CallerSymmetry == Permutations(Callers)

RacingInit == part \in {"ledger", "summary"} /\ Init /\ SummaryInit

RacingNext ==
    \/ part = "ledger" /\ Next /\ UNCHANGED <<part, summaryVars>>
    \/ part = "summary" /\ SummaryNext /\ UNCHANGED <<part, ledgerVars>>

RacingSpec == RacingInit /\ [][RacingNext]_<<part, ledgerVars, summaryVars>>
=============================================================================
