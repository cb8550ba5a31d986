-------------------------- MODULE MCKnowledgeReads --------------------------
(* A small instance of KnowledgeReads.  Either two documents change, each    *)
(* with one revision and questions alone refreshing the keyword index, or    *)
(* one document changes, up to a second revision, and the server's periodic  *)
(* refresher is at work too.                                                 *)
EXTENDS KnowledgeReads, TLC

CONSTANTS s1, r1

VARIABLE part    \* "two", or the document that changes

Home1 == r1 :> s1

DocumentSymmetry == Permutations(Docs)

KnowledgeInit ==
    /\ part \in {"two"} \cup Docs
    /\ Init
    /\ part \in Docs => \A d \in Docs \ {part} : published[d] = 0

KnowledgeNext ==
    /\ Next
    /\ IF part \in Docs
       THEN \A d \in Docs \ {part} : job'[d] = job[d]
       ELSE (\A d \in Docs : job'[d].rev <= 1) /\ (\A s \in Refreshers : pc'[s] = pc[s])
    /\ UNCHANGED part

KnowledgeSpec == KnowledgeInit /\ [][KnowledgeNext]_<<part, vars>>
=============================================================================
