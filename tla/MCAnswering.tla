------------------------------ MODULE MCAnswering ------------------------------
(* The four sides of answering one chat message, which meet only through     *)
(* what each leaves to the next (the dialogue's state, the stream, the       *)
(* provider call, the shared answer).  They share no variable, so a behaviour *)
(* of this instance is one of them, chosen at the start.                     *)
EXTENDS Dialogue, ChatStream, SharedAnswers, ProviderChain, TLC

CONSTANTS t1, t2, t3, refund, complaint, order, detail

VARIABLE side

\* Dialogue: one irreversible task and one that is not, which share no
\* required answer.
MCRequired == (refund :> {order}) @@ (complaint :> {detail})
MCOptional == (refund :> {}) @@ (complaint :> {order})

\* ChatStream: the two streamed turns are alike.
Symmetric == Permutations(StreamTurns)

\* SharedAnswers: two turns in one session, one grounded and one chatting, and
\* one in another that asks what the grounded one asked: it may be told the
\* same, or chat as well and be told what the other one was.
Sessions12 == [t \in Asks |-> IF t = t3 THEN "s2" ELSE "s1"]
Questions12 == [t \in Asks |-> IF t = t2 THEN "q2" ELSE "q1"]
Texts12 == [t \in Asks |-> IF t = t1 THEN "x1" ELSE "x2"]
Lanes == [t \in Asks |-> IF t = t1 THEN "grounded" ELSE "chitchat"]

\* ProviderChain: three calls of one request: two streams and one whole answer.
OneRequest == [c \in LlmCalls |-> "r1"]

AnsweringInit ==
    /\ side \in {"dialogue", "stream", "shared", "chain"}
    /\ DialogueInit /\ StreamInit /\ SharedInit /\ ChainInit

AnsweringNext ==
    \/ /\ side = "dialogue" /\ DialogueNext
       /\ UNCHANGED <<side, streamVars, sharedVars, chainVars>>
    \/ /\ side = "stream" /\ StreamNext
       /\ UNCHANGED <<side, dialogueVars, sharedVars, chainVars>>
    \/ /\ side = "shared" /\ SharedNext
       /\ UNCHANGED <<side, dialogueVars, streamVars, chainVars>>
    \/ /\ side = "chain" /\ ChainNext
       /\ UNCHANGED <<side, dialogueVars, streamVars, sharedVars>>

AnsweringSpec == AnsweringInit /\ [][AnsweringNext]_<<side, dialogueVars, streamVars, sharedVars, chainVars>>
===============================================================================
