------------------------------ MODULE MCPurchase ------------------------------
EXTENDS Purchase
CONSTANTS t1, t2, s1, me
MCKeys == 1..MaxOps
MCStock == [s \in Skus |-> 1]
MCPrice == [s \in Skus |-> 3]
MCBasket == {[s \in Skus |-> 1]}
MCTools == [c \in Callers |->
    IF c = t1 THEN {"search", "cart", "quote", "commit", "mock_pay"}
    ELSE {"commit", "mock_pay"}]
\* A version that was captured is only compared with the current one.
Fresh(c, v) == \E i \in Ids : Exists(i) /\ purchases[i].version = v
MCView == <<providerVars, serviceVars, wire, faults,
            [c \in Callers |-> [caller[c] EXCEPT !.seen = Fresh(c, @),
                                                 !.curVersion = Fresh(c, @)]]>>
=============================================================================
