--------------------------- MODULE MCConfirmation ---------------------------
(* Small instances of a turn that acts: an irreversible action from its      *)
(* staging to its receipt, a public shopping chat with its locks, and what a *)
(* shopping turn's tools let the model do and show.  They share no variable, *)
(* so a behaviour is one of them, chosen at the start.                       *)
EXTENDS Confirmation, PublicChat, ShoppingTurn, TLC

VARIABLE part

(* ShoppingTurn: two stocked categories that share a product, two that are   *)
(* empty, one of which the provider would mint.                              *)
RankingMC == [lamps |-> <<"l1", "l2", "l3">>, desks |-> <<"l2", "d1", "d2">>,
              none |-> <<>>, sweets |-> <<>>]
MintedMC == [sweets |-> <<"w1">>]

-----------------------------------------------------------------------------

TurnsInit ==
    /\ part \in {"confirmation", "chat", "shopping"}
    /\ ConfirmationInit /\ PublicInit /\ ShoppingInit

TurnsNext ==
    \/ part = "confirmation" /\ ConfirmationNext /\ UNCHANGED <<part, publicVars, shoppingVars>>
    \/ part = "chat" /\ PublicNext /\ UNCHANGED <<part, vars, shoppingVars>>
    \/ part = "shopping" /\ ShoppingNext /\ UNCHANGED <<part, vars, publicVars>>

TurnsSpec == TurnsInit /\ [][TurnsNext]_<<part, vars, publicVars, shoppingVars>>
=============================================================================
