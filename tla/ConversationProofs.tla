-------------------------- MODULE ConversationProofs --------------------------
(***************************************************************************)
(* One private conversation, for every set of requests, staff, messages    *)
(* and reasons and every bound: one voice at a time, new starts that are   *)
(* new, messages kept once.  The inductive invariant ConversationInv adds  *)
(* to them what each locked step may rely on.  Two more specifications     *)
(* follow: the accounts that hold conversations, and the HTTP endpoints    *)
(* that reach one.                                                         *)
(***************************************************************************)
EXTENDS Conversation, Accounts, SessionApi, FiniteSetTheorems, TLAPS

ClearingSteps == {"discard", "forget", "purge", "erase"}

\* What a request may rely on at its step.
RequestInv(r) ==
    /\ pc[r] # "idle" => req[r] \in Commands /\ req[r].key <= lastKey
    /\ pc[r] = "held" /\ alive /\ req[r].key = key => InBounds(req[r])
    /\ pc[r] \in {"graph", "persist"} =>
          /\ req[r].op = "turn" /\ Claimed = {}
          /\ alive /\ req[r].key = key /\ thread[r] = epoch
    /\ pc[r] \in ClearingSteps => alive /\ req[r].op \in {"clear", "delete"}
    /\ pc[r] \in ClearingSteps /\ req[r].op = "clear" =>
          /\ pc[r] # "erase" /\ thread[r] + 1 = epoch /\ ckpt[epoch] = None
          /\ \A a \in acks : a.written # key
    /\ pc[r] \in ClearingSteps /\ req[r].op = "delete" => pc[r] # "purge" /\ thread[r] = epoch
    /\ pc[r] \in ClearingSteps \ {"discard"} => \A e \in Epochs : ckpt[e] = None
    /\ pc[r] = "purge" => transcript = {}

RequestsInv == \A r \in Requests : RequestInv(r)

\* Tickets are numbered without gaps and one of them at most is active.
TicketsInv ==
    /\ \E n \in 0..MaxTicket : Existing = 1..n
    /\ \A t, u \in Active : t = u

\* Messages and acknowledgements carry keys already given out.
MessagesInv ==
    /\ \A m \in messages : m.written <= lastKey
    /\ \A a \in acks : a.written <= lastKey
    /\ RepliesTakeEffectOnce /\ AcknowledgedIsKept

\* The current thread holds nothing older than the last new start, and no
\* thread of an epoch to come holds anything.
ThreadsInv ==
    /\ alive => ckpt[epoch] \in {None, generation}
    /\ alive => \A e \in Epochs : e > epoch => ckpt[e] = None
    /\ ~alive => \A e \in Epochs : ckpt[e] = None
    /\ clearedKey <= lastKey /\ clearedAt <= generation
    /\ ClearedMeansGone

ConversationInv == TypeOK /\ RequestsInv /\ TicketsInv /\ MessagesInv /\ ThreadsInv

----------------------------------------------------------------------------
(* Lemmas.                                                                 *)

\* A command has a key, and its other fields are those of its kind.
LEMMA CommandFields ==
    ASSUME NEW q \in Commands
    PROVE  /\ q.key \in Keys
           /\ q.op \in {"turn", "clear", "delete", "claim", "resolve", "send"}
           /\ q.op \in {"claim", "resolve"} => q.ticket \in TicketIds /\ q.who \in Agents
           /\ q.op = "send" =>
                /\ q.id \in MessageIds /\ q.body \in Bodies /\ q.resolve \in BOOLEAN
                /\ q.who \in Agents \cup {Customer}
                /\ q.who # Customer => q.ticket \in TicketIds
                /\ q.resolve => q.who # Customer
  <1>1. CASE \E op \in {"turn", "clear", "delete"} : q \in Plain(op)
    BY <1>1 DEF Plain
  <1>2. CASE q \in [op : {"claim", "resolve"}, key : Keys, ticket : TicketIds, who : Agents,
                    id : {None}, body : {None}, resolve : {FALSE}]
    BY <1>2
  <1>3. CASE q \in [op : {"send"}, key : Keys, ticket : TicketIds \cup {None},
                    who : {Customer}, id : MessageIds, body : Bodies, resolve : {FALSE}]
    BY <1>3
  <1>4. CASE q \in [op : {"send"}, key : Keys, ticket : TicketIds, who : Agents,
                    id : MessageIds, body : Bodies, resolve : BOOLEAN]
    BY <1>4, AuthorsAssumption
  <1> QED BY <1>1, <1>2, <1>3, <1>4 DEF Commands

\* The holder of the lock is alone behind it.
LEMMA OneAtATime ==
    ASSUME TypeOK, NEW r \in Requests, pc[r] \in LockedSteps
    PROVE  /\ lock = r
           /\ \A s \in Requests \ {r} : pc[s] \in {"idle", "waiting"}
BY DEF TypeOK, Steps, LockedSteps

\* A request outside the lock relies on no more than its command.
LEMMA OutsideKeeps ==
    ASSUME RequestsInv, NEW s \in Requests, pc[s] \in {"idle", "waiting"},
           UNCHANGED <<pc[s], req[s]>>, lastKey \in Nat, lastKey' \in Nat, lastKey <= lastKey'
    PROVE  RequestInv(s)'
  <1>1. pc[s] # "idle" => req[s] \in Commands /\ req[s].key <= lastKey /\ req[s].key \in Nat
    BY CommandFields DEF RequestsInv, RequestInv, Keys
  <1> QED BY <1>1 DEF RequestInv, ClearingSteps

\* Tickets and messages that do not change.
LEMMA TicketsUnchanged == ASSUME TicketsInv, UNCHANGED tickets PROVE TicketsInv'
BY DEF TicketsInv, Existing, Active

LEMMA MessagesUnchanged ==
    ASSUME MessagesInv, UNCHANGED <<alive, key, lastKey, tickets, messages, acks>>
    PROVE  MessagesInv'
BY DEF MessagesInv, RepliesTakeEffectOnce, SentOnce, ClosingReplyCloses, AcknowledgedIsKept

LEMMA ThreadsUnchanged ==
    ASSUME ThreadsInv, UNCHANGED <<sessionVars, stores, generation, cleared>>
    PROVE  ThreadsInv'
BY DEF ThreadsInv, ClearedMeansGone, sessionVars, stores, cleared

\* The newest ticket is the one with the highest number.
LEMMA LatestIsLast ==
    ASSUME TicketsInv, TypeOK
    PROVE  \/ Existing = {} /\ Latest = None
           \/ Latest \in TicketIds /\ Existing = 1..Latest
  <1>1. PICK n \in 0..MaxTicket : Existing = 1..n
    BY DEF TicketsInv
  <1>2. MaxTicket \in Nat /\ n \in Nat
    BY BoundsAssumption
  <1>3. CASE n = 0
    BY <1>1, <1>3 DEF Latest
  <1>4. CASE n # 0
    <2>1. n \in Existing /\ \A u \in Existing : u <= n /\ u \in Nat
      BY <1>1, <1>2, <1>4
    <2>2. \A t \in Existing : (\A u \in Existing : u <= t) => t = n
      BY <2>1, <1>2
    <2>3. Latest = n
      BY <2>1, <2>2 DEF Latest
    <2> QED BY <1>1, <1>2, <1>4, <2>3 DEF TicketIds
  <1> QED BY <1>3, <1>4

\* The two halves of the type invariant: who is at which step, and the data.
ControlOK ==
    /\ pc \in [Requests -> Steps]
    /\ req \in [Requests -> Commands \cup {NoCommand}]
    /\ thread \in [Requests -> Epochs]
    /\ lock \in Requests \cup {None}
    /\ \A r \in Requests : pc[r] \in LockedSteps <=> lock = r

DataOK ==
    /\ alive \in BOOLEAN /\ lastKey \in 0..MaxKey /\ key \in 0..lastKey
    /\ epoch \in Epochs
    /\ tickets \in [TicketIds -> Ticket]
    /\ messages \subseteq Message /\ acks \subseteq Message
    /\ transcript \subseteq Keys
    /\ ckpt \in [Epochs -> Nat \cup {None}]
    /\ generation \in Nat /\ clearedKey \in 0..MaxKey /\ clearedAt \in Nat

LEMMA TypeHalves ==
    /\ TypeOK <=> ControlOK /\ DataOK
    /\ TypeOK' <=> ControlOK' /\ DataOK'
BY DEF TypeOK, ControlOK, DataOK

LEMMA DataUnchanged ==
    ASSUME DataOK, UNCHANGED <<sessionVars, stores, history>>
    PROVE  DataOK'
BY DEF DataOK, sessionVars, stores, history, cleared

\* Giving up the lock leaves every request outside it.
LEMMA ReleaseControl ==
    ASSUME TypeOK, NEW r \in Requests, pc[r] \in LockedSteps, Release(r)
    PROVE  ControlOK'
  <1>1. pc' \in [Requests -> Steps] /\ req' \in [Requests -> Commands \cup {NoCommand}]
        /\ thread' \in [Requests -> Epochs] /\ lock' = None
    BY BoundsAssumption DEF TypeOK, Release, Leave, Steps, Epochs
  <1>2. \A s \in Requests : pc'[s] \notin LockedSteps
    BY OneAtATime DEF TypeOK, Release, Leave, LockedSteps
  <1> QED BY <1>1, <1>2, NoneAssumption DEF ControlOK

LEMMA LeaveRequests ==
    ASSUME TypeOK, RequestsInv, NEW r \in Requests, pc[r] \in LockedSteps, Leave(r),
           lastKey' \in Nat, lastKey <= lastKey'
    PROVE  RequestsInv'
  <1>1. ASSUME NEW s \in Requests, s # r PROVE RequestInv(s)'
    BY <1>1, OneAtATime, OutsideKeeps DEF TypeOK, Leave
  <1>2. RequestInv(r)'
    BY DEF TypeOK, Leave, RequestInv, ClearingSteps
  <1> QED BY <1>1, <1>2 DEF RequestsInv

\* A step of the holder that keeps the lock.
LEMMA StepControl ==
    ASSUME TypeOK, NEW r \in Requests, pc[r] \in LockedSteps, NEW x \in LockedSteps,
           pc' = [pc EXCEPT ![r] = x], UNCHANGED <<lock, req>>,
           thread' \in [Requests -> Epochs]
    PROVE  ControlOK'
BY OneAtATime DEF TypeOK, ControlOK, LockedSteps

LEMMA StepOthers ==
    ASSUME TypeOK, RequestsInv, NEW r \in Requests, pc[r] \in LockedSteps, NEW x,
           pc' = [pc EXCEPT ![r] = x], UNCHANGED req, lastKey' \in Nat, lastKey <= lastKey'
    PROVE  \A s \in Requests \ {r} : RequestInv(s)'
BY OneAtATime, OutsideKeeps DEF TypeOK

LEMMA KeyStays ==
    ASSUME TypeOK, UNCHANGED lastKey
    PROVE  lastKey' \in Nat /\ lastKey <= lastKey'
BY BoundsAssumption DEF TypeOK

----------------------------------------------------------------------------
(* Every action keeps ConversationInv.                                     *)

\* No session, no request and nothing stored.
LEMMA Initially == Init => ConversationInv
  <1> SUFFICES ASSUME Init PROVE ConversationInv OBVIOUS
  <1>1. TypeOK
    <2>1. ControlOK
      BY BoundsAssumption, NoneAssumption DEF Init, ControlOK, Steps, LockedSteps, Epochs
    <2>2. DataOK
      <3>1. NoTicket \in Ticket
        BY DEF Ticket, NoTicket, HIGH, NORMAL
      <3>2. tickets \in [TicketIds -> Ticket]
        BY <3>1 DEF Init
      <3>3. MaxKey \in Nat /\ MaxEpoch \in Nat
        BY BoundsAssumption
      <3>4. alive \in BOOLEAN
        BY Zenon DEF Init
      <3>5. lastKey \in 0..MaxKey /\ key \in 0..lastKey /\ epoch \in Epochs
        BY <3>3 DEF Init, Epochs
      <3>6. ckpt \in [Epochs -> Nat \cup {None}] /\ clearedKey \in 0..MaxKey
        BY <3>3 DEF Init
      <3> QED BY <3>2, <3>4, <3>5, <3>6 DEF Init, DataOK
    <2> QED BY <2>1, <2>2, TypeHalves
  <1>2. RequestsInv
    BY DEF Init, RequestsInv, RequestInv, ClearingSteps
  <1>3. TicketsInv
    BY BoundsAssumption DEF Init, TicketsInv, Existing, Active, NoTicket
  <1>4. MessagesInv
    BY DEF Init, MessagesInv, RepliesTakeEffectOnce, SentOnce, ClosingReplyCloses,
           AcknowledgedIsKept
  <1>5. ThreadsInv
    BY DEF Init, ThreadsInv, ClearedMeansGone
  <1> QED BY <1>1, <1>2, <1>3, <1>4, <1>5 DEF ConversationInv

\* A command comes in with a key its sender has seen.
LEMMA SubmitKeeps ==
    ASSUME ConversationInv, NEW r \in Requests, NEW q \in Commands, Submit(r, q)
    PROVE  ConversationInv'
  <1> USE DEF ConversationInv
  <1>1. TypeOK'
    <2>1. ControlOK'
      BY DEF TypeOK, ControlOK, Submit, Steps, LockedSteps
    <2> QED BY <2>1, TypeHalves, DataUnchanged DEF Submit
  <1>2. RequestsInv'
    BY DEF TypeOK, Submit, RequestsInv, RequestInv, ClearingSteps, sessionVars, stores,
           history, Claimed, InBounds
  <1>3. TicketsInv' /\ MessagesInv' /\ ThreadsInv'
    BY TicketsUnchanged, MessagesUnchanged, ThreadsUnchanged
       DEF Submit, sessionVars, stores, history
  <1> QED BY <1>1, <1>2, <1>3

\* The lock is taken only while it is free.
LEMMA AcquireKeeps ==
    ASSUME ConversationInv, NEW r \in Requests, Acquire(r)
    PROVE  ConversationInv'
  <1> USE DEF ConversationInv
  <1>1. TypeOK'
    <2>1. ControlOK'
      BY NoneAssumption DEF TypeOK, ControlOK, Acquire, Steps, LockedSteps
    <2> QED BY <2>1, TypeHalves, DataUnchanged DEF Acquire
  <1>2. RequestsInv'
    BY DEF TypeOK, Acquire, RequestsInv, RequestInv, ClearingSteps, sessionVars, stores,
           history, Claimed, InBounds
  <1>3. TicketsInv' /\ MessagesInv' /\ ThreadsInv'
    BY TicketsUnchanged, MessagesUnchanged, ThreadsUnchanged
       DEF Acquire, sessionVars, stores, history
  <1> QED BY <1>1, <1>2, <1>3

\* A refused request is gone.
LEMMA BusyKeeps ==
    ASSUME ConversationInv, NEW r \in Requests, Busy(r)
    PROVE  ConversationInv'
  <1> USE DEF ConversationInv
  <1>1. TypeOK'
    <2>1. ControlOK'
      BY BoundsAssumption DEF TypeOK, ControlOK, Busy, Leave, Steps, LockedSteps, Epochs
    <2> QED BY <2>1, TypeHalves, DataUnchanged DEF Busy
  <1>2. RequestsInv'
    BY DEF TypeOK, Busy, Leave, RequestsInv, RequestInv, ClearingSteps, sessionVars, stores,
           history, cleared, Claimed, InBounds
  <1>3. TicketsInv' /\ MessagesInv' /\ ThreadsInv'
    BY TicketsUnchanged, MessagesUnchanged, ThreadsUnchanged
       DEF Busy, sessionVars, stores, history
  <1> QED BY <1>1, <1>2, <1>3

\* So is one that its facts under the lock do not allow.
LEMMA RefuseKeeps ==
    ASSUME ConversationInv, NEW r \in Requests, Refuse(r)
    PROVE  ConversationInv'
  <1> USE DEF ConversationInv
  <1>1. pc[r] \in LockedSteps
    BY DEF Refuse, LockedSteps, Steps
  <1>2. TypeOK'
    BY <1>1, ReleaseControl, TypeHalves, DataUnchanged DEF Refuse
  <1>3. RequestsInv'
    BY <1>1, LeaveRequests DEF Refuse, Release, TypeOK, sessionVars
  <1>4. TicketsInv' /\ MessagesInv' /\ ThreadsInv'
    BY TicketsUnchanged, MessagesUnchanged, ThreadsUnchanged
       DEF Refuse, sessionVars, stores, history
  <1> QED BY <1>2, <1>3, <1>4
\* A turn begins on the current thread, with nobody of the staff in charge.
LEMMA TurnBeginKeeps ==
    ASSUME ConversationInv, NEW r \in Requests, TurnBegin(r)
    PROVE  ConversationInv'
  <1> USE DEF ConversationInv
  <1>1. pc[r] \in LockedSteps /\ "graph" \in LockedSteps
    BY DEF TurnBegin, Granted, LockedSteps, Steps
  <1>2. TypeOK'
    <2>1. thread' \in [Requests -> Epochs]
      BY DEF TypeOK, TurnBegin
    <2> QED BY <1>1, <2>1, StepControl, TypeHalves, DataUnchanged DEF TurnBegin
  <1>3. RequestsInv'
    <2>1. \A s \in Requests \ {r} : RequestInv(s)'
      BY <1>1, StepOthers, KeyStays DEF TurnBegin, sessionVars
    <2>2. req[r] \in Commands /\ req[r].key <= lastKey
      BY DEF RequestsInv, RequestInv, TurnBegin, Granted
    <2>3. RequestInv(r)'
      BY <2>2 DEF TurnBegin, Granted, Allowed, OwnerMay, RequestInv, ClearingSteps, TypeOK,
                  Claimed, sessionVars, stores
    <2> QED BY <2>1, <2>3 DEF RequestsInv
  <1>4. TicketsInv' /\ MessagesInv' /\ ThreadsInv'
    BY TicketsUnchanged, MessagesUnchanged, ThreadsUnchanged
       DEF TurnBegin, sessionVars, stores, history
  <1> QED BY <1>2, <1>3, <1>4

\* What a turn does to the checkpoint of its thread keeps the control state.
LEMMA TurnStepControl ==
    ASSUME ConversationInv, NEW r \in Requests, ToPersist(r), UNCHANGED <<lock, req, thread>>,
           UNCHANGED sessionVars, Claimed' = Claimed
    PROVE  ControlOK' /\ RequestsInv'
  <1> USE DEF ConversationInv
  <1>1. pc[r] \in LockedSteps /\ "persist" \in LockedSteps
    BY DEF ToPersist, LockedSteps, Steps
  <1>2. ControlOK'
    BY <1>1, StepControl DEF ToPersist, TypeOK
  <1>3. \A s \in Requests \ {r} : RequestInv(s)'
    BY <1>1, StepOthers, KeyStays DEF ToPersist, sessionVars
  <1>4. RequestInv(r)'
    BY DEF ToPersist, RequestsInv, RequestInv, ClearingSteps, TypeOK, sessionVars
  <1> QED BY <1>2, <1>3, <1>4 DEF RequestsInv

\* A turn that touches neither tickets nor threads.
LEMMA TurnAnswersKeeps ==
    ASSUME ConversationInv, NEW r \in Requests, TurnAnswers(r)
    PROVE  ConversationInv'
  <1> USE DEF ConversationInv
  <1>1. ControlOK' /\ RequestsInv'
    BY TurnStepControl DEF TurnAnswers, Claimed, stores
  <1>2. TicketsInv' /\ MessagesInv' /\ ThreadsInv'
    BY TicketsUnchanged, MessagesUnchanged, ThreadsUnchanged
       DEF TurnAnswers, sessionVars, stores, history
  <1> QED BY <1>1, <1>2, TypeHalves, DataUnchanged DEF TurnAnswers

\* A turn stages in its own thread, the current one, and in its generation.
LEMMA TurnCkptKeeps ==
    ASSUME ConversationInv, NEW r \in Requests, ToPersist(r), NEW x \in {None, generation},
           ckpt' = [ckpt EXCEPT ![thread[r]] = x],
           UNCHANGED <<sessionVars, tickets, messages, transcript, lock, req, thread, history>>
    PROVE  ConversationInv'
  <1> USE DEF ConversationInv
  <1>1. ControlOK' /\ RequestsInv'
    BY TurnStepControl DEF Claimed
  <1>2. DataOK'
    BY DEF TypeOK, DataOK, sessionVars, history, cleared
  <1>3. TicketsInv' /\ MessagesInv'
    BY TicketsUnchanged, MessagesUnchanged DEF sessionVars, history
  <1>4. alive /\ thread[r] = epoch /\ epoch \in Epochs /\ epoch \in Nat
    BY BoundsAssumption DEF ToPersist, RequestsInv, RequestInv, TypeOK, Epochs
  <1>5. ThreadsInv'
    BY <1>4, NoneAssumption
       DEF ThreadsInv, ClearedMeansGone, TypeOK, Epochs, sessionVars, history, cleared
  <1> QED BY <1>1, <1>2, <1>3, <1>5, TypeHalves

LEMMA TurnStagesKeeps ==
    ASSUME ConversationInv, NEW r \in Requests, TurnStages(r)
    PROVE  ConversationInv'
BY TurnCkptKeeps DEF TurnStages

LEMMA TurnConfirmsKeeps ==
    ASSUME ConversationInv, NEW r \in Requests, TurnConfirms(r)
    PROVE  ConversationInv'
BY TurnCkptKeeps DEF TurnConfirms

\* A new ticket takes the next number, and only while none is active.
LEMMA OpenKeeps ==
    ASSUME ConversationInv, NEW reason \in Reasons, Active = {}, Open(reason)
    PROVE  /\ tickets' \in [TicketIds -> Ticket]
           /\ TicketsInv' /\ Claimed' = Claimed
           /\ \E next \in TicketIds : /\ tickets[next].status = "none"
                                      /\ \A t \in TicketIds \ {next} : tickets'[t] = tickets[t]
  <1> USE DEF ConversationInv
  <1> DEFINE next == IF Latest = None THEN 1 ELSE Latest + 1
  <1>1. /\ next \in TicketIds /\ tickets' = [tickets EXCEPT ![next] = NewTicket(reason)]
    BY DEF Open
  <1>2. NewTicket(reason) \in Ticket /\ NewTicket(reason).status = "open"
    BY DEF NewTicket, NoTicket, Ticket, PriorityOf, HIGH, NORMAL
  <1>3. tickets' \in [TicketIds -> Ticket]
    BY <1>1, <1>2 DEF TypeOK
  <1>4. \A t \in TicketIds \ {next} : tickets'[t] = tickets[t]
    BY <1>1 DEF TypeOK
  <1>5. tickets'[next].status = "open"
    BY <1>1, <1>2 DEF TypeOK
  <1>6. MaxTicket \in Nat /\ None \notin Nat
    BY BoundsAssumption, NoneAssumption
  <1>7. Existing = 1..(next - 1)
    <2>1. CASE Latest = None
      BY <1>6, <2>1, LatestIsLast DEF TicketIds
    <2>2. CASE Latest # None
      BY <1>6, <2>2, LatestIsLast DEF TicketIds
    <2> QED BY <2>1, <2>2
  <1>8. next \notin Existing /\ tickets[next].status = "none"
    BY <1>1, <1>7, <1>6 DEF Existing, TypeOK, TicketIds
  <1>9. Existing' = Existing \cup {next}
    BY <1>1, <1>3, <1>4, <1>5 DEF Existing, TypeOK
  <1>10. Existing' = 1..next
    BY <1>1, <1>6, <1>7, <1>9 DEF TicketIds
  <1>11. Active' = {next}
    BY <1>1, <1>3, <1>4, <1>5 DEF Active, TypeOK
  <1>12. Claimed' = Claimed
    BY <1>1, <1>3, <1>4, <1>5, <1>8 DEF Claimed, TypeOK
  <1>13. TicketsInv'
    BY <1>1, <1>6, <1>10, <1>11 DEF TicketsInv, TicketIds
  <1> QED BY <1>1, <1>3, <1>4, <1>8, <1>12, <1>13

\* Raising an active ticket changes neither its state nor any other ticket.
LEMMA EscalatedKeeps ==
    ASSUME ConversationInv, NEW reason \in Reasons, NEW t \in Active,
           tickets' = [tickets EXCEPT ![t] = Escalated(@, reason)]
    PROVE  /\ tickets' \in [TicketIds -> Ticket]
           /\ TicketsInv' /\ Claimed' = Claimed
           /\ \A u \in TicketIds : tickets'[u].status = tickets[u].status
  <1> USE DEF ConversationInv
  <1>1. t \in TicketIds /\ tickets[t] \in Ticket
    BY DEF Active, TypeOK
  <1>2. Escalated(tickets[t], reason) \in Ticket
        /\ Escalated(tickets[t], reason).status = tickets[t].status
    BY <1>1 DEF Escalated, Ticket, PriorityOf, HIGH, NORMAL
  <1>3. tickets' \in [TicketIds -> Ticket]
    BY <1>1, <1>2 DEF TypeOK
  <1>4. \A u \in TicketIds : tickets'[u].status = tickets[u].status
    BY <1>1, <1>2 DEF TypeOK
  <1>5. Existing' = Existing /\ Active' = Active /\ Claimed' = Claimed
    BY <1>3, <1>4 DEF TypeOK, Existing, Active, Claimed
  <1> QED BY <1>3, <1>4, <1>5 DEF TicketsInv

\* Messages survive a change of the tickets that leaves resolved ones alone.
LEMMA MessagesOutliveTickets ==
    ASSUME MessagesInv, DataOK, UNCHANGED <<alive, key, lastKey, messages, acks>>,
           \A t \in TicketIds : tickets[t].status = "resolved" => tickets'[t].status = "resolved"
    PROVE  MessagesInv'
BY DEF MessagesInv, RepliesTakeEffectOnce, SentOnce, ClosingReplyCloses, AcknowledgedIsKept,
       DataOK, Message

\* An escalation opens one ticket or raises the active one.
LEMMA TurnEscalatesKeeps ==
    ASSUME ConversationInv, NEW r \in Requests, NEW reason \in Reasons,
           TurnEscalates(r, reason)
    PROVE  ConversationInv'
  <1> USE DEF ConversationInv
  <1>1. /\ tickets' \in [TicketIds -> Ticket] /\ TicketsInv' /\ Claimed' = Claimed
        /\ \A t \in TicketIds : tickets[t].status = "resolved" => tickets'[t].status = "resolved"
    BY OpenKeeps, EscalatedKeeps DEF TurnEscalates
  <1>2. ControlOK' /\ RequestsInv'
    BY <1>1, TurnStepControl DEF TurnEscalates
  <1>3. DataOK'
    BY <1>1 DEF TypeOK, DataOK, TurnEscalates, sessionVars, history, cleared
  <1>4. MessagesInv'
    BY <1>1, MessagesOutliveTickets, TypeHalves DEF TurnEscalates, sessionVars, history
  <1>5. ThreadsInv'
    BY DEF TurnEscalates, ThreadsInv, ClearedMeansGone, sessionVars, history, cleared
  <1> QED BY <1>1, <1>2, <1>3, <1>4, <1>5, TypeHalves

\* What the turn said is stored under the key of the session.
LEMMA TurnPersistsKeeps ==
    ASSUME ConversationInv, NEW r \in Requests, TurnPersists(r)
    PROVE  ConversationInv'
  <1> USE DEF ConversationInv
  <1>1. pc[r] \in LockedSteps
    BY DEF TurnPersists, LockedSteps, Steps
  <1>2. alive /\ key \in Keys
    BY CommandFields DEF TurnPersists, RequestsInv, RequestInv
  <1>3. DataOK'
    BY <1>2 DEF TypeOK, DataOK, TurnPersists, sessionVars, history, cleared
  <1>4. RequestsInv'
    BY <1>1, LeaveRequests, KeyStays DEF TurnPersists, Release, sessionVars
  <1>5. TicketsInv' /\ MessagesInv'
    BY TicketsUnchanged, MessagesUnchanged DEF TurnPersists, sessionVars, history
  <1>6. ThreadsInv'
    BY DEF TurnPersists, ThreadsInv, ClearedMeansGone, sessionVars, history, cleared
  <1> QED BY <1>1, <1>3, <1>4, <1>5, <1>6, ReleaseControl, TypeHalves DEF TurnPersists

\* An open ticket is taken over; nobody else is behind the lock to see it.
LEMMA ClaimKeeps ==
    ASSUME ConversationInv, NEW r \in Requests, Claim(r)
    PROVE  ConversationInv'
  <1> USE DEF ConversationInv
  <1> DEFINE t == req[r].ticket
  <1>1. pc[r] \in LockedSteps
    BY DEF Claim, Granted, LockedSteps, Steps
  <1>2. t \in TicketIds /\ req[r].who \in Agents /\ tickets[t].status = "open"
    BY CommandFields DEF Claim, Granted, Allowed, RequestsInv, RequestInv
  <1>3. /\ tickets' \in [TicketIds -> Ticket] /\ tickets'[t].status = "claimed"
        /\ \A u \in TicketIds \ {t} : tickets'[u] = tickets[u]
    <2>1. PICK old \in Ticket : old = tickets[t]
      BY <1>2 DEF TypeOK
    <2>2. PICK who \in Agents : who = req[r].who
      BY <1>2
    <2>3. PICK new : new = [old EXCEPT !.status = "claimed", !.assigned = who, !.claimed = TRUE]
      OBVIOUS
    <2>4. tickets' = [tickets EXCEPT ![t] = new]
      BY <2>1, <2>2, <2>3 DEF Claim
    <2>5. new \in Ticket
      BY <2>3 DEF Ticket
    <2>6. new.status = "claimed"
      BY <2>3 DEF Ticket
    <2> QED BY <1>2, <2>4, <2>5, <2>6 DEF TypeOK
  <1>4. DataOK'
    <2>1. UNCHANGED <<alive, key, epoch, lastKey, messages, acks, transcript, ckpt, generation, clearedKey, clearedAt>>
      BY DEF Claim, sessionVars, history, cleared
    <2> QED BY <1>3, <2>1 DEF TypeOK, DataOK
  <1>5. RequestsInv'
    BY <1>1, LeaveRequests, KeyStays DEF Claim, Release, sessionVars
  <1>6. TicketsInv'
    <2>1. Existing' = Existing /\ Active' = Active
      BY <1>2, <1>3 DEF Existing, Active, TypeOK
    <2> QED BY <2>1 DEF TicketsInv
  <1>7. MessagesInv'
    BY <1>2, <1>3, MessagesOutliveTickets, TypeHalves DEF Claim, sessionVars, history
  <1>8. ThreadsInv'
    BY DEF Claim, ThreadsInv, ClearedMeansGone, sessionVars, history, cleared
  <1> QED BY <1>1, <1>4, <1>5, <1>6, <1>7, <1>8, ReleaseControl, TypeHalves DEF Claim

\* Closing an active ticket begins an epoch whose thread is empty.
LEMMA ResolveTicketKeeps ==
    ASSUME ConversationInv, NEW t \in Active, NEW agent \in Agents, ResolveTicket(t, agent),
           alive, epoch < MaxEpoch,
           UNCHANGED <<alive, key, lastKey, transcript, ckpt, cleared>>,
           \A m \in messages' : m.written = key \/ m \in messages
    PROVE  /\ tickets' \in [TicketIds -> Ticket] /\ TicketsInv'
           /\ epoch' \in Epochs /\ generation' \in Nat
           /\ ThreadsInv'
           /\ tickets'[t].status = "resolved"
           /\ \A u \in TicketIds : tickets[u].status = "resolved" => tickets'[u].status = "resolved"
  <1> USE DEF ConversationInv
  <1>1. t \in TicketIds /\ tickets[t] \in Ticket
    BY DEF Active, TypeOK
  <1>2. /\ tickets' \in [TicketIds -> Ticket] /\ tickets'[t].status = "resolved"
        /\ \A u \in TicketIds \ {t} : tickets'[u] = tickets[u]
    BY <1>1 DEF ResolveTicket, TypeOK, Ticket
  <1>3. Existing' = Existing /\ Active' = Active \ {t}
    BY <1>1, <1>2 DEF Existing, Active, TypeOK
  <1>4. epoch' = epoch + 1 /\ epoch \in Nat /\ epoch' \in Epochs /\ generation' = generation + 1
    BY BoundsAssumption DEF ResolveTicket, TypeOK, Epochs
  <1>5. generation \in Nat /\ clearedAt \in Nat /\ epoch \in Nat
    BY <1>4 DEF TypeOK
  <1>6. ThreadsInv'
    <2>1. ckpt'[epoch'] = None /\ \A e \in Epochs : e > epoch' => ckpt'[e] = None
      BY <1>4 DEF ThreadsInv, Epochs
    <2>2. clearedKey' <= lastKey' /\ clearedAt' <= generation'
      BY <1>4, <1>5 DEF ThreadsInv, cleared
    <2>3. ClearedMeansGone'
      BY DEF ThreadsInv, ClearedMeansGone, cleared
    <2> QED BY <2>1, <2>2, <2>3 DEF ThreadsInv
  <1> QED BY <1>2, <1>3, <1>4, <1>5, <1>6 DEF TicketsInv

\* Staff closes a ticket without a message.
LEMMA ResolveKeeps ==
    ASSUME ConversationInv, NEW r \in Requests, Resolve(r)
    PROVE  ConversationInv'
  <1> USE DEF ConversationInv
  <1> DEFINE q == req[r]
  <1>1. pc[r] \in LockedSteps
    BY DEF Resolve, Granted, LockedSteps, Steps
  <1>2. q.who \in Agents /\ q.ticket \in Active /\ alive /\ InBounds(q) /\ q.op = "resolve"
    BY CommandFields DEF Resolve, Granted, Allowed, RequestsInv, RequestInv
  <1>3. epoch < MaxEpoch
    BY <1>2 DEF InBounds
  <1>4. /\ tickets' \in [TicketIds -> Ticket] /\ TicketsInv'
        /\ epoch' \in Epochs /\ generation' \in Nat /\ ThreadsInv'
        /\ \A u \in TicketIds : tickets[u].status = "resolved" => tickets'[u].status = "resolved"
    BY <1>2, <1>3, ResolveTicketKeeps DEF Resolve
  <1>5. DataOK'
    BY <1>4 DEF TypeOK, DataOK, Resolve, cleared
  <1>6. RequestsInv'
    BY <1>1, LeaveRequests, KeyStays DEF Resolve, Release
  <1>7. MessagesInv'
    BY <1>4, MessagesOutliveTickets, TypeHalves DEF Resolve
  <1> QED BY <1>1, <1>4, <1>5, <1>6, <1>7, ReleaseControl, TypeHalves DEF Resolve

\* A message is stored once, together with the closing it may carry.
LEMMA SendKeeps ==
    ASSUME ConversationInv, NEW r \in Requests, Send(r)
    PROVE  ConversationInv'
  <1> USE DEF ConversationInv
  <1> DEFINE q == req[r]
             m == MessageOf(q)
             t == TargetOf(q)
  <1>1. pc[r] \in LockedSteps
    BY DEF Send, Granted, LockedSteps, Steps
  <1>2. /\ q.op = "send" /\ q \in Commands /\ MaySend(q) /\ alive /\ q.key = key /\ InBounds(q)
    BY DEF Send, Granted, Allowed, RequestsInv, RequestInv, MaySend
  <1>3. /\ q.key \in Keys /\ q.id \in MessageIds /\ q.body \in Bodies /\ q.resolve \in BOOLEAN
        /\ q.who \in Agents \cup {Customer}
        /\ q.who # Customer => q.ticket \in TicketIds
        /\ q.resolve => q.who # Customer
    BY <1>2, CommandFields
  <1>4. t \in TicketIds
    <2>1. CASE q.who = Customer
      BY <1>2, <2>1, LatestIsLast DEF TargetOf, MaySend
    <2>2. CASE q.who # Customer
      BY <1>3, <2>2 DEF TargetOf
    <2> QED BY <2>1, <2>2
  <1>5. m \in Message /\ m.written = key /\ m.asked = key /\ m.id = q.id
        /\ m.ticket = t /\ m.resolves = q.resolve
    <2>1. m = [id |-> q.id, author |-> q.who, body |-> q.body, ticket |-> t,
               resolves |-> q.resolve, asked |-> q.key, written |-> key]
      BY DEF MessageOf
    <2>2. m \in Message
      BY <1>2, <1>3, <1>4, <2>1 DEF Message
    <2> QED BY <1>2, <2>1, <2>2
  <1>6. RequestsInv'
    BY <1>1, LeaveRequests, KeyStays DEF Send, Release
  <1>7. CASE Prior(q) # {}
    <2>1. /\ UNCHANGED <<sessionVars, tickets, messages, transcript, ckpt, generation, cleared>>
          /\ acks' \in {acks, acks \cup {n \in Prior(q) : IsReplayOf(n, q)}}
      BY <1>7 DEF Send, sessionVars
    <2>2. acks' \subseteq acks \cup messages
      BY <2>1 DEF Prior
    <2>3. DataOK'
      BY <2>1, <2>2 DEF TypeOK, DataOK, sessionVars, cleared
    <2>4. MessagesInv'
      BY <2>1, <2>2 DEF MessagesInv, RepliesTakeEffectOnce, SentOnce, ClosingReplyCloses,
                        AcknowledgedIsKept, sessionVars
    <2>5. TicketsInv' /\ ThreadsInv'
      BY <2>1, TicketsUnchanged, ThreadsUnchanged DEF stores
    <2> QED BY <1>1, <1>6, <2>3, <2>4, <2>5, ReleaseControl, TypeHalves DEF Send
  <1>8. CASE Prior(q) = {}
    <2>1. /\ UNCHANGED <<alive, key, lastKey, transcript, ckpt, cleared>>
          /\ messages' = messages \cup {m} /\ acks' \in {acks, acks \cup {m}}
          /\ IF q.resolve THEN ResolveTicket(t, q.who)
             ELSE UNCHANGED <<tickets, epoch, generation>>
      BY <1>8 DEF Send
    <2>2. /\ tickets' \in [TicketIds -> Ticket] /\ TicketsInv'
          /\ epoch' \in Epochs /\ generation' \in Nat /\ ThreadsInv'
          /\ q.resolve => tickets'[t].status = "resolved"
          /\ \A u \in TicketIds : tickets[u].status = "resolved" => tickets'[u].status = "resolved"
      <3>1. CASE q.resolve
        <4>1. t \in Active /\ q.who \in Agents
          <5>1. q.who # Customer /\ q.who \in Agents
            BY <1>3, <3>1
          <5>2. tickets[t].status = "claimed"
            BY <1>2, <1>8, <5>1 DEF MaySend
          <5> QED BY <1>4, <5>1, <5>2 DEF Active, TypeOK
        <4>2. epoch < MaxEpoch
          BY <1>2, <3>1 DEF InBounds
        <4> QED BY <1>2, <1>5, <2>1, <3>1, <4>1, <4>2, ResolveTicketKeeps
      <3>2. CASE ~q.resolve
        <4>1. TicketsInv' /\ tickets' \in [TicketIds -> Ticket] /\ epoch' \in Epochs
              /\ generation' \in Nat
          BY <2>1, <3>2, TicketsUnchanged DEF TypeOK
        <4>2. ThreadsInv'
          BY <1>5, <2>1, <3>2 DEF ThreadsInv, ClearedMeansGone, cleared
        <4> QED BY <2>1, <3>2, <4>1, <4>2
      <3> QED BY <3>1, <3>2
    <2>3. DataOK'
      BY <1>5, <2>1, <2>2 DEF TypeOK, DataOK, cleared
    <2>4. MessagesInv'
      <3>1. \A n \in messages : n.id # q.id /\ n.ticket \in TicketIds
        BY <1>8 DEF Prior, TypeOK, Message
      <3>2. SentOnce'
        BY <1>5, <2>1, <3>1 DEF MessagesInv, RepliesTakeEffectOnce, SentOnce
      <3>3. ClosingReplyCloses'
        BY <1>5, <2>1, <2>2, <3>1 DEF MessagesInv, RepliesTakeEffectOnce, ClosingReplyCloses
      <3>4. AcknowledgedIsKept'
        BY <2>1 DEF MessagesInv, AcknowledgedIsKept
      <3>5. key <= lastKey
        BY DEF TypeOK
      <3>6. /\ \A n \in messages' : n.written <= lastKey'
            /\ \A n \in acks' : n.written <= lastKey'
        BY <1>5, <2>1, <3>5 DEF MessagesInv
      <3> QED BY <3>2, <3>3, <3>4, <3>6 DEF MessagesInv, RepliesTakeEffectOnce
    <2> QED BY <1>1, <1>6, <2>2, <2>3, <2>4, ReleaseControl, TypeHalves DEF Send
  <1> QED BY <1>7, <1>8

\* A clear begins by a key no message carries and an epoch with no thread.
LEMMA ClearRotatesKeeps ==
    ASSUME ConversationInv, NEW r \in Requests, ClearRotates(r)
    PROVE  ConversationInv'
  <1> USE DEF ConversationInv
  <1>1. pc[r] \in LockedSteps /\ "discard" \in LockedSteps
    BY DEF ClearRotates, Granted, LockedSteps, Steps
  <1>2. /\ req[r].op = "clear" /\ req[r] \in Commands /\ alive /\ req[r].key = key
        /\ InBounds(req[r])
    BY DEF ClearRotates, Granted, Allowed, OwnerMay, RequestsInv, RequestInv
  <1>3. epoch < MaxEpoch /\ lastKey < MaxKey
    BY <1>2 DEF InBounds
  <1>4. /\ MaxEpoch \in Nat /\ MaxKey \in Nat /\ lastKey \in Nat /\ epoch \in Nat
        /\ generation \in Nat /\ clearedKey \in Nat /\ clearedAt \in Nat /\ key \in Nat
        /\ key <= lastKey
    BY BoundsAssumption DEF TypeOK, Epochs
  <1>5. /\ lastKey' = lastKey + 1 /\ key' = lastKey + 1 /\ epoch' = epoch + 1
        /\ generation' = generation + 1 /\ thread' = [thread EXCEPT ![r] = epoch]
        /\ pc' = [pc EXCEPT ![r] = "discard"]
        /\ UNCHANGED <<alive, tickets, messages, transcript, ckpt, lock, req, acks,
                       clearedKey, clearedAt>>
    BY DEF ClearRotates, stores, cleared
  <1>6. ControlOK'
    <2>1. thread' \in [Requests -> Epochs]
      BY <1>5 DEF TypeOK
    <2> QED BY <1>1, <1>5, <2>1, StepControl
  <1>7. DataOK'
    BY <1>3, <1>4, <1>5 DEF TypeOK, DataOK, Epochs
  <1>8. RequestsInv'
    <2>1. \A s \in Requests \ {r} : RequestInv(s)'
      <3>1. lastKey' \in Nat /\ lastKey <= lastKey'
        BY <1>4, <1>5
      <3> QED BY <1>1, <1>5, <3>1, StepOthers
    <2>2. ckpt[epoch + 1] = None
      BY <1>2, <1>3, <1>4 DEF ThreadsInv, Epochs
    <2>3. \A a \in acks : a.written # lastKey + 1
      BY <1>4 DEF MessagesInv, TypeOK, Message, Keys
    <2>4. req[r].key <= lastKey' /\ pc'[r] = "discard" /\ thread'[r] = epoch
      BY <1>2, <1>4, <1>5 DEF TypeOK
    <2>5. RequestInv(r)'
      BY <1>2, <1>4, <1>5, <2>2, <2>3, <2>4 DEF RequestInv, ClearingSteps
    <2> QED BY <2>1, <2>5 DEF RequestsInv
  <1>9. TicketsInv'
    BY <1>5, TicketsUnchanged
  <1>10. MessagesInv'
    <2>1. \A a \in acks \cup messages : a.written \in Nat /\ a.written <= lastKey
      BY DEF MessagesInv, TypeOK, Message, Keys
    <2>2. \A a \in acks \cup messages : a.written <= lastKey + 1 /\ a.written # lastKey + 1
      BY <1>4, <2>1
    <2> QED BY <1>5, <2>2 DEF MessagesInv, RepliesTakeEffectOnce, SentOnce,
                              ClosingReplyCloses, AcknowledgedIsKept
  <1>11. ThreadsInv'
    BY <1>2, <1>3, <1>4, <1>5 DEF ThreadsInv, ClearedMeansGone, Epochs
  <1> QED BY <1>6, <1>7, <1>8, <1>9, <1>10, <1>11, TypeHalves

\* A deletion remembers the thread to discard.
LEMMA DeleteBeginsKeeps ==
    ASSUME ConversationInv, NEW r \in Requests, DeleteBegins(r)
    PROVE  ConversationInv'
  <1> USE DEF ConversationInv
  <1>1. pc[r] \in LockedSteps /\ "discard" \in LockedSteps
    BY DEF DeleteBegins, Granted, LockedSteps, Steps
  <1>2. TypeOK'
    <2>1. thread' \in [Requests -> Epochs]
      BY DEF TypeOK, DeleteBegins
    <2> QED BY <1>1, <2>1, StepControl, TypeHalves, DataUnchanged DEF DeleteBegins
  <1>3. RequestsInv'
    <2>1. \A s \in Requests \ {r} : RequestInv(s)'
      BY <1>1, StepOthers, KeyStays DEF DeleteBegins, sessionVars
    <2>2. req[r] \in Commands /\ req[r].key <= lastKey
      BY DEF RequestsInv, RequestInv, DeleteBegins, Granted
    <2>3. RequestInv(r)'
      BY <2>2 DEF DeleteBegins, Granted, Allowed, OwnerMay, RequestInv, ClearingSteps, TypeOK,
                  sessionVars, stores
    <2> QED BY <2>1, <2>3 DEF RequestsInv
  <1>4. TicketsInv' /\ MessagesInv' /\ ThreadsInv'
    BY TicketsUnchanged, MessagesUnchanged, ThreadsUnchanged
       DEF DeleteBegins, sessionVars, stores, history
  <1> QED BY <1>2, <1>3, <1>4

\* Discarding threads only takes staged actions away.
LEMMA DiscardedKeeps ==
    ASSUME ConversationInv, NEW n \in Nat, ckpt' = Discarded(n),
           UNCHANGED <<sessionVars, tickets, messages, transcript, history>>
    PROVE  /\ DataOK' /\ TicketsInv' /\ MessagesInv' /\ ThreadsInv'
           /\ \A e \in Epochs : ckpt[e] = None => ckpt'[e] = None
           /\ \A e \in Epochs : e < n => ckpt'[e] = None
  <1> USE DEF ConversationInv
  <1>1. \A e \in Epochs : ckpt'[e] \in {None, ckpt[e]} /\ (e < n => ckpt'[e] = None)
    BY DEF Discarded
  <1>2. ckpt' \in [Epochs -> Nat \cup {None}]
    BY DEF Discarded, TypeOK
  <1>3. DataOK'
    BY <1>2 DEF TypeOK, DataOK, sessionVars, history, cleared
  <1>4. TicketsInv' /\ MessagesInv'
    BY TicketsUnchanged, MessagesUnchanged DEF sessionVars, history
  <1>5. DOMAIN ckpt = Epochs /\ DOMAIN ckpt' = Epochs /\ epoch \in Epochs
    BY <1>2 DEF TypeOK
  <1>6. ThreadsInv'
    BY <1>1, <1>5 DEF ThreadsInv, ClearedMeansGone, sessionVars, history, cleared
  <1> QED BY <1>1, <1>3, <1>4, <1>6

\* Up to the remembered one they are all there were.
LEMMA DiscardKeeps ==
    ASSUME ConversationInv, NEW r \in Requests, Discard(r)
    PROVE  ConversationInv'
  <1> USE DEF ConversationInv
  <1>1. pc[r] \in LockedSteps /\ "forget" \in LockedSteps
    BY DEF Discard, LockedSteps, Steps
  <1>2. ControlOK'
    BY <1>1, StepControl DEF Discard, TypeOK
  <1>3. thread[r] \in Nat /\ epoch \in Nat /\ epoch \in Epochs /\ alive
    BY BoundsAssumption DEF TypeOK, Epochs, Discard, RequestsInv, RequestInv, ClearingSteps
  <1>4. /\ DataOK' /\ TicketsInv' /\ MessagesInv' /\ ThreadsInv'
        /\ \A e \in Epochs : ckpt[e] = None => ckpt'[e] = None
        /\ \A e \in Epochs : e < thread[r] + 1 => ckpt'[e] = None
    BY <1>3, DiscardedKeeps DEF Discard
  <1>5. \A s \in Requests \ {r} : RequestInv(s)'
    BY <1>1, StepOthers, KeyStays DEF Discard, sessionVars
  <1>6. \A e \in Epochs : ckpt'[e] = None
    <2>1. SUFFICES ASSUME NEW e \in Epochs, ~(e < thread[r] + 1) PROVE ckpt[e] = None
      BY <1>4
    <2>2. e \in Nat
      BY DEF Epochs
    <2>3. thread[r] = epoch \/ (thread[r] + 1 = epoch /\ ckpt[epoch] = None)
      BY DEF Discard, RequestsInv, RequestInv, ClearingSteps
    <2>4. e > epoch \/ (e = epoch /\ ckpt[epoch] = None)
      BY <1>3, <2>1, <2>2, <2>3
    <2> QED BY <1>3, <2>4 DEF ThreadsInv
  <1>7. RequestInv(r)'
    <2>1. /\ pc[r] = "discard" /\ pc'[r] = "forget"
          /\ UNCHANGED <<alive, key, epoch, lastKey, acks, req, thread>>
      BY DEF Discard, TypeOK, sessionVars, history
    <2> QED BY <1>3, <1>6, <2>1 DEF RequestsInv, RequestInv, ClearingSteps
  <1> QED BY <1>2, <1>4, <1>5, <1>7, TypeHalves DEF RequestsInv

\* The stored history goes.
LEMMA ForgetKeeps ==
    ASSUME ConversationInv, NEW r \in Requests, Forget(r)
    PROVE  ConversationInv'
  <1> USE DEF ConversationInv
  <1> DEFINE x == IF req[r].op = "clear" THEN "purge" ELSE "erase"
  <1>1. pc[r] \in LockedSteps /\ x \in LockedSteps
    BY DEF Forget, LockedSteps, Steps
  <1>2. ControlOK'
    BY <1>1, StepControl DEF Forget, TypeOK
  <1>3. DataOK'
    BY DEF Forget, TypeOK, DataOK, sessionVars, history, cleared
  <1>4. \A s \in Requests \ {r} : RequestInv(s)'
    BY <1>1, StepOthers, KeyStays DEF Forget, sessionVars
  <1>5. RequestInv(r)'
    <2>1. /\ pc[r] = "forget" /\ pc'[r] = x /\ transcript' = {}
          /\ UNCHANGED <<alive, key, epoch, lastKey, acks, req, thread, ckpt>>
      BY DEF Forget, TypeOK, sessionVars, history
    <2> QED BY <2>1 DEF RequestsInv, RequestInv, ClearingSteps
  <1>6. TicketsInv' /\ MessagesInv'
    BY TicketsUnchanged, MessagesUnchanged DEF Forget, sessionVars, history
  <1>7. ThreadsInv'
    BY DEF Forget, ThreadsInv, ClearedMeansGone, sessionVars, history, cleared
  <1> QED BY <1>2, <1>3, <1>4, <1>5, <1>6, <1>7, TypeHalves DEF RequestsInv

\* A clear ends with nothing staged, stored or shown.
LEMMA ClearPurgesKeeps ==
    ASSUME ConversationInv, NEW r \in Requests, ClearPurges(r)
    PROVE  ConversationInv'
  <1> USE DEF ConversationInv
  <1>1. pc[r] \in LockedSteps
    BY DEF ClearPurges, LockedSteps, Steps
  <1>2. /\ transcript = {} /\ \A e \in Epochs : ckpt[e] = None
        /\ \A a \in acks : a.written # key
    BY DEF ClearPurges, RequestsInv, RequestInv, ClearingSteps
  <1>3. key \in Nat /\ lastKey \in Nat /\ MaxKey \in Nat /\ key <= lastKey /\ key \in 0..MaxKey
    BY BoundsAssumption DEF TypeOK
  <1>4. DataOK'
    BY <1>3 DEF ClearPurges, TypeOK, DataOK, sessionVars
  <1>5. RequestsInv'
    BY <1>1, LeaveRequests, KeyStays DEF ClearPurges, Release, sessionVars
  <1>6. TicketsInv'
    BY TicketsUnchanged DEF ClearPurges
  <1>7. MessagesInv'
    BY <1>2 DEF ClearPurges, MessagesInv, RepliesTakeEffectOnce, SentOnce, ClosingReplyCloses,
                AcknowledgedIsKept, sessionVars
  <1>8. ThreadsInv'
    BY <1>2, <1>3 DEF ClearPurges, ThreadsInv, ClearedMeansGone, TypeOK, sessionVars
  <1> QED BY <1>1, <1>4, <1>5, <1>6, <1>7, <1>8, ReleaseControl, TypeHalves DEF ClearPurges

\* The row goes with its tickets and messages.
LEMMA DeleteErasesKeeps ==
    ASSUME ConversationInv, NEW r \in Requests, DeleteErases(r)
    PROVE  ConversationInv'
  <1> USE DEF ConversationInv
  <1>1. pc[r] \in LockedSteps
    BY DEF DeleteErases, LockedSteps, Steps
  <1>2. \A e \in Epochs : ckpt[e] = None
    BY DEF DeleteErases, RequestsInv, RequestInv, ClearingSteps
  <1>3. NoTicket \in Ticket
    BY DEF Ticket, NoTicket, HIGH, NORMAL
  <1>4. DataOK'
    <2>1. alive' \in BOOLEAN
      BY Zenon DEF DeleteErases
    <2>2. tickets' \in [TicketIds -> Ticket] /\ generation' \in Nat
      BY <1>3 DEF DeleteErases, TypeOK
    <2> QED BY <2>1, <2>2 DEF DeleteErases, TypeOK, DataOK, cleared
  <1>5. RequestsInv'
    BY <1>1, LeaveRequests, KeyStays DEF DeleteErases, Release
  <1>6. TicketsInv'
    BY BoundsAssumption DEF DeleteErases, TicketsInv, Existing, Active, NoTicket
  <1>7. MessagesInv'
    BY DEF DeleteErases, MessagesInv, RepliesTakeEffectOnce, SentOnce, ClosingReplyCloses,
           AcknowledgedIsKept
  <1>8. ThreadsInv'
    BY <1>2 DEF DeleteErases, ThreadsInv, ClearedMeansGone, TypeOK, cleared
  <1> QED BY <1>1, <1>4, <1>5, <1>6, <1>7, <1>8, ReleaseControl, TypeHalves DEF DeleteErases

\* A session comes to life with a key and threads nothing refers to.
LEMMA CreateKeeps ==
    ASSUME ConversationInv, Create
    PROVE  ConversationInv'
  <1> USE DEF ConversationInv
  <1>1. /\ ~alive /\ alive' = TRUE /\ lastKey' = lastKey + 1 /\ key' = lastKey + 1 /\ epoch' = 0
        /\ lastKey < MaxKey
        /\ UNCHANGED <<tickets, messages, transcript, ckpt, lock, pc, req, thread, generation,
                       acks, clearedKey, clearedAt>>
    BY DEF Create, stores, history, cleared
  <1>2. /\ MaxKey \in Nat /\ MaxEpoch \in Nat /\ lastKey \in Nat /\ clearedKey \in Nat
        /\ clearedKey <= lastKey
    BY BoundsAssumption DEF TypeOK, ThreadsInv
  <1>3. ControlOK'
    BY <1>1, TypeHalves DEF ControlOK
  <1>4. DataOK'
    <2>1. alive' \in BOOLEAN
      BY <1>1
    <2>2. lastKey' \in 0..MaxKey /\ key' \in 0..lastKey' /\ epoch' \in Epochs
      BY <1>1, <1>2 DEF Epochs
    <2> QED BY <1>1, <2>1, <2>2 DEF TypeOK, DataOK
  <1>5. RequestsInv'
    <2>1. ASSUME NEW r \in Requests PROVE RequestInv(r)'
      <3>1. RequestInv(r)
        BY DEF RequestsInv
      <3>2. pc[r] # "idle" => req[r] \in Commands /\ req[r].key \in Nat /\ req[r].key <= lastKey
        BY <3>1, CommandFields DEF RequestInv, Keys
      <3>3. pc[r] \in {"idle", "waiting", "held"}
        BY <1>1, <3>1 DEF TypeOK, Steps, RequestInv, ClearingSteps
      <3>4. pc[r] # "idle" => req[r].key <= lastKey + 1 /\ req[r].key # lastKey + 1
        BY <1>2, <3>2
      <3> QED BY <1>1, <3>2, <3>3, <3>4 DEF RequestInv, ClearingSteps
    <2> QED BY <2>1 DEF RequestsInv
  <1>6. TicketsInv'
    BY <1>1, TicketsUnchanged
  <1>7. MessagesInv'
    <2>1. \A a \in acks \cup messages : a.written \in Nat /\ a.written <= lastKey
      BY DEF MessagesInv, TypeOK, Message, Keys
    <2>2. \A a \in acks \cup messages : a.written <= lastKey + 1 /\ a.written # lastKey + 1
      BY <1>2, <2>1
    <2> QED BY <1>1, <2>2 DEF MessagesInv, RepliesTakeEffectOnce, SentOnce,
                              ClosingReplyCloses, AcknowledgedIsKept
  <1>8. ThreadsInv'
    BY <1>1, <1>2 DEF ThreadsInv, ClearedMeansGone, Epochs
  <1> QED BY <1>3, <1>4, <1>5, <1>6, <1>7, <1>8, TypeHalves

\* Whoever dies leaves its half-done work, and a discard is half done when
\* some threads are gone.
LEMMA DieKeeps ==
    ASSUME ConversationInv, NEW r \in Requests, Die(r)
    PROVE  ConversationInv'
  <1> USE DEF ConversationInv
  <1>1. /\ pc' = [pc EXCEPT ![r] = "idle"] /\ req' = [req EXCEPT ![r] = NoCommand]
        /\ thread' = [thread EXCEPT ![r] = 0]
        /\ lock' = IF lock = r THEN None ELSE lock
        /\ UNCHANGED <<sessionVars, tickets, messages, transcript, history>>
    BY DEF Die, Leave
  <1>2. ControlOK'
    <2>1. pc' \in [Requests -> Steps] /\ req' \in [Requests -> Commands \cup {NoCommand}]
          /\ thread' \in [Requests -> Epochs]
      BY <1>1, BoundsAssumption DEF TypeOK, Steps, Epochs
    <2>2. lock' \in Requests \cup {None}
          /\ \A s \in Requests : pc'[s] \in LockedSteps <=> lock' = s
      BY <1>1, NoneAssumption DEF TypeOK, LockedSteps
    <2> QED BY <2>1, <2>2 DEF ControlOK
  <1>3. /\ DataOK' /\ TicketsInv' /\ MessagesInv' /\ ThreadsInv'
        /\ \A e \in Epochs : ckpt[e] = None => ckpt'[e] = None
        /\ pc[r] # "discard" => ckpt' = ckpt
    <2>1. CASE pc[r] = "discard"
      <3>1. PICK n \in 0..thread[r] : ckpt' = Discarded(n)
        BY <2>1 DEF Die
      <3>2. n \in Nat
        OBVIOUS
      <3> QED BY <1>1, <2>1, <3>1, <3>2, DiscardedKeeps
    <2>2. CASE pc[r] # "discard"
      <3>1. UNCHANGED <<sessionVars, stores, history>>
        BY <1>1, <2>2 DEF Die, stores
      <3> QED BY <2>2, <3>1, TypeHalves, DataUnchanged, TicketsUnchanged, MessagesUnchanged,
                 ThreadsUnchanged DEF sessionVars, stores, history
    <2> QED BY <2>1, <2>2
  <1>4. RequestsInv'
    <2>1. CASE pc[r] \in LockedSteps
      BY <1>1, <2>1, LeaveRequests, KeyStays DEF Leave, sessionVars
    <2>2. CASE pc[r] \notin LockedSteps
      <3>1. UNCHANGED <<sessionVars, stores, history>>
        BY <1>1, <1>3, <2>2 DEF stores, LockedSteps, Steps
      <3> QED BY <1>1, <3>1 DEF TypeOK, RequestsInv, RequestInv, ClearingSteps, sessionVars,
                 stores, history, cleared, Claimed, InBounds
    <2> QED BY <2>1, <2>2
  <1> QED BY <1>2, <1>3, <1>4, TypeHalves

----------------------------------------------------------------------------
(* The theorems.                                                           *)

\* Every step, one action at a time.
LEMMA NextKeeps == ConversationInv /\ [Next]_vars => ConversationInv'
  <1> SUFFICES ASSUME ConversationInv, [Next]_vars PROVE ConversationInv' OBVIOUS
  <1>1. CASE UNCHANGED vars
    <2>1. UNCHANGED <<sessionVars, stores, lock, pc, req, thread, history>>
      BY <1>1 DEF vars
    <2>2. ControlOK' /\ DataOK'
      BY <2>1, TypeHalves, DataUnchanged DEF ConversationInv, ControlOK
    <2>3. RequestsInv'
      BY <2>1 DEF ConversationInv, RequestsInv, RequestInv, sessionVars, stores, history,
                  Claimed, InBounds
    <2>4. TicketsInv' /\ MessagesInv' /\ ThreadsInv'
      BY <2>1, TicketsUnchanged, MessagesUnchanged, ThreadsUnchanged
         DEF ConversationInv, sessionVars, stores, history
    <2> QED BY <2>2, <2>3, <2>4, TypeHalves DEF ConversationInv
  <1>2. ASSUME NEW r \in Requests, LockedStep(r) PROVE ConversationInv'
    BY <1>2, RefuseKeeps, TurnBeginKeeps, TurnAnswersKeeps, TurnStagesKeeps, TurnConfirmsKeeps,
       TurnPersistsKeeps, TurnEscalatesKeeps, ClaimKeeps, ResolveKeeps, SendKeeps,
       ClearRotatesKeeps, DeleteBeginsKeeps, DiscardKeeps, ForgetKeeps, ClearPurgesKeeps,
       DeleteErasesKeeps
       DEF LockedStep
  <1> QED BY <1>1, <1>2, SubmitKeeps, AcquireKeeps, BusyKeeps, DieKeeps, CreateKeeps DEF Next

\* ConversationInv holds in every reachable state of the conversation.
THEOREM ConversationInvariant == Spec => []ConversationInv
  BY Initially, NextKeeps, PTL DEF Spec

\* Sessions, tickets, messages and threads are as their tables declare them,
\* and exactly the lock's holder is at a step behind it (hold).
THEOREM TypesAreKept == Spec => []TypeOK
  <1>1. ConversationInv => TypeOK
    BY DEF ConversationInv
  <1> QED BY <1>1, ConversationInvariant, PTL

\* However turns, claims, closings, clears and deletions interleave, at most
\* one ticket is active, and no turn runs while a person has it or on a thread
\* of the past (create_or_reuse_active, claim_ticket, _automation_thread).
THEOREM OneVoice == Spec => []OneVoiceAtATime
  <1>1. ConversationInv => OneVoiceAtATime
    <2> SUFFICES ASSUME ConversationInv PROVE OneVoiceAtATime OBVIOUS
    <2>1. OneActiveTicket
      <3>1. CASE Active = {}
        BY <3>1, FS_EmptySet DEF OneActiveTicket
      <3>2. CASE Active # {}
        <4>1. PICK t \in Active : Active = {t}
          BY <3>2 DEF ConversationInv, TicketsInv
        <4> QED BY <4>1, FS_Singleton DEF OneActiveTicket
      <3> QED BY <3>1, <3>2
    <2>2. HumanSilencesAutomation
      BY DEF ConversationInv, RequestsInv, RequestInv, HumanSilencesAutomation
    <2> QED BY <2>1, <2>2 DEF OneVoiceAtATime
  <1> QED BY <1>1, ConversationInvariant, PTL

\* Nothing staged before the last new start is seen by a turn, and nothing of
\* what an acknowledged clear removed comes back, whatever died half way
\* (clear_chat_history, delete_session, discard_session_state).
THEOREM NewStarts == Spec => []NewStartsAreNew
  <1>1. ConversationInv => NewStartsAreNew
    BY DEF ConversationInv, RequestsInv, RequestInv, ThreadsInv, NewStartsAreNew,
           StagedSinceLastStart
  <1> QED BY <1>1, ConversationInvariant, PTL

\* A message is stored once however often it is sent, with the closing it
\* carries, and an acknowledged one stays as long as the session's key
\* (_send_channel_message).
THEOREM MessagesOnce == Spec => []MessagesAreKeptOnce
  <1>1. ConversationInv => MessagesAreKeptOnce
    BY DEF ConversationInv, MessagesInv, MessagesAreKeptOnce
  <1> QED BY <1>1, ConversationInvariant, PTL

----------------------------------------------------------------------------
(* The accounts: registration, logins, tokens, deactivation.               *)
AccountRows == [email : Addresses, password : Passwords \ Weak, active : BOOLEAN, admin : BOOLEAN]

\* What a token may still be worth: nothing outlives the last login of its
\* account by more than a refresh and an access lifetime.
Worth(t) ==
    /\ t.user \in Ids
    /\ t.kind = "refresh" => t.exp <= login[t.user] + RefreshLife
    /\ t.kind = "access" => t.exp <= login[t.user] + RefreshLife + AccessLife

AccountsInv ==
    /\ AccountsTypeOK
    /\ \E n \in Nat : Ids = 1..n
    /\ \A u \in Ids : login[u] <= now
    /\ \A t \in tokens : Worth(t)
    /\ AccountsAreSound

LEMMA AccountsAre ==
    ASSUME AccountsInv
    PROVE  /\ now \in Nat /\ MaxNow \in Nat /\ AccessLife \in Nat \ {0} /\ RefreshLife \in Nat \ {0}
           /\ \A u \in Ids : users[u] \in AccountRows /\ login[u] \in Nat
           /\ \A t \in tokens : t.exp \in Nat /\ t.user \in Ids /\ t.kind \in {"access", "refresh"}
<1>1. MaxNow \in Nat /\ AccessLife \in Nat \ {0} /\ RefreshLife \in Nat \ {0}
  BY AccountsAssumption
<1>2. now \in 0..MaxNow /\ login \in [Ids -> 0..MaxNow] /\ tokens \subseteq Tokens
  BY DEF AccountsInv, AccountsTypeOK
<1>3. \A u \in Ids : users[u] \in AccountRows
  BY DEF AccountsInv, AccountsTypeOK, AccountRows
<1>4. \A t \in tokens : t.user \in Ids
  BY DEF AccountsInv, Worth
<1>5. \A t \in tokens : t.exp \in Nat /\ t.kind \in {"access", "refresh"}
  BY <1>1, <1>2 DEF Tokens
<1> QED BY <1>1, <1>2, <1>3, <1>4, <1>5

\* The rows, the tokens, the clock and what was answered stay.
LEMMA AsksKeeps == ASSUME AccountsInv, UNCHANGED <<users, tokens, now, login, welcomed, wrong>>,
                          register' \in [Clients -> Registrations]
                   PROVE  AccountsInv'
<1>1. AccountsTypeOK'
  BY DEF AccountsInv, AccountsTypeOK, Ids
<1>2. (\E n \in Nat : Ids = 1..n)' /\ (\A u \in Ids : login[u] <= now)' /\ (\A t \in tokens : Worth(t))'
  BY DEF AccountsInv, Ids, Worth
<1>3. AccountsAreSound'
  BY DEF AccountsInv, AccountsAreSound, OneAccountPerAddress, WelcomeIsKept, TokensAreWorthTheirRow, Ids
<1> QED BY <1>1, <1>2, <1>3 DEF AccountsInv

LEMMA AskForAccountKeeps ==
    ASSUME AccountsInv, NEW c \in Clients, NEW email \in Addresses, NEW password \in Passwords,
           Ask(c, email, password)
    PROVE  AccountsInv'
<1>1. PICK reg : reg = [step |-> "look", email |-> email, password |-> password]
  OBVIOUS
<1>2. reg \in Registrations
  BY <1>1 DEF Registrations, Ask, Acceptable
<1>3. register' = [register EXCEPT ![c] = reg] /\ register \in [Clients -> Registrations]
  BY <1>1 DEF Ask, Registering, AccountsInv, AccountsTypeOK
<1>4. register' \in [Clients -> Registrations]
  BY <1>2, <1>3
<1> QED BY <1>4, AsksKeeps DEF Ask

LEMMA RegistrationsAre ==
    ASSUME AccountsInv, NEW c \in Clients, register[c].step \in {"look", "insert"}
    PROVE  /\ register[c] \in [step : {"look", "insert"}, email : Addresses, password : Passwords \ Weak]
           /\ NotAsking \in Registrations
<1>1. register[c] \in Registrations
  BY DEF AccountsInv, AccountsTypeOK
<1>2. register[c] # NotAsking
  BY DEF NotAsking
<1> QED BY <1>1, <1>2 DEF Registrations

LEMMA LookKeeps == ASSUME AccountsInv, NEW c \in Clients, Look(c) PROVE AccountsInv'
<1>1. PICK old \in [step : {"look", "insert"}, email : Addresses, password : Passwords \ Weak] :
          old = register[c]
  BY RegistrationsAre DEF Look
<1>2. NotAsking \in Registrations
  BY RegistrationsAre DEF Look
<1>3. PICK reg : reg = [old EXCEPT !.step = "insert"]
  OBVIOUS
<1>4. reg \in Registrations
  BY <1>1, <1>3 DEF Registrations
<1>5. PICK next \in Registrations : register' = [register EXCEPT ![c] = next]
  BY <1>1, <1>2, <1>3, <1>4 DEF Look, Registering
<1>6. register' \in [Clients -> Registrations]
  BY <1>5 DEF AccountsInv, AccountsTypeOK
<1> QED BY <1>6, AsksKeeps DEF Look

LEMMA InsertKeeps == ASSUME AccountsInv, NEW c \in Clients, Insert(c) PROVE AccountsInv'
<1>1. PICK old \in [step : {"look", "insert"}, email : Addresses, password : Passwords \ Weak] :
          old = register[c]
  BY RegistrationsAre DEF Insert
<1>2. register' \in [Clients -> Registrations] /\ UNCHANGED <<tokens, now, wrong>>
  <2>1. NotAsking \in Registrations
    BY RegistrationsAre DEF Insert
  <2> QED BY <2>1 DEF Insert, Registering, AccountsInv, AccountsTypeOK
<1>3. CASE Taken(old.email)
  <2>1. UNCHANGED <<users, login, welcomed>>
    BY <1>1, <1>3 DEF Insert
  <2> QED BY <1>2, <2>1, AsksKeeps
<1>4. CASE ~Taken(old.email)
  <2>1. PICK n \in Nat : Ids = 1..n
    BY DEF AccountsInv
  <2>2. Cardinality(Ids) = n
    <3>1. 1 \in Int /\ n \in Int
      OBVIOUS
    <3>2. Cardinality(1..n) = IF 1 > n THEN 0 ELSE n - 1 + 1
      BY <3>1, FS_Interval
    <3> QED BY <2>1, <3>2
  <2>3. PICK reg : reg = [email |-> old.email, password |-> old.password, active |-> TRUE, admin |-> FALSE]
    OBVIOUS
  <2>4. reg \in AccountRows /\ reg.email = old.email /\ reg.password = old.password
    BY <1>1, <2>3 DEF AccountRows
  <2>5. PICK entry : entry = [email |-> old.email, password |-> old.password]
    OBVIOUS
  <2>6. entry \in [email : Addresses, password : Passwords] /\ entry.email = old.email
        /\ entry.password = old.password
    BY <1>1, <2>5
  <2>7. /\ n + 1 <= MaxAccounts
        /\ users' = [u \in 1..(n + 1) |-> IF u = n + 1 THEN reg ELSE users[u]]
        /\ login' = [u \in 1..(n + 1) |-> IF u = n + 1 THEN 0 ELSE login[u]]
        /\ welcomed' \subseteq welcomed \cup {entry}
    BY <1>1, <1>4, <2>2, <2>3, <2>5 DEF Insert
  <2>8. Ids' = 1..(n + 1) /\ DOMAIN login' = 1..(n + 1)
    BY <2>7 DEF Ids
  <2>9. /\ \A u \in Ids : u \in Ids' /\ u # n + 1 /\ users'[u] = users[u] /\ login'[u] = login[u]
        /\ n + 1 \in Ids' /\ users'[n + 1] = reg /\ login'[n + 1] = 0
        /\ \A u \in Ids' : u \in Ids \/ u = n + 1
    BY <2>1, <2>7, <2>8
  <2>10. AccountsTypeOK'
    <3>1. Ids' \subseteq 1..MaxAccounts
      BY <2>7, <2>8, AccountsAssumption
    <3>2. \A u \in Ids' : users'[u] \in AccountRows
      BY <2>4, <2>9, AccountsAre
    <3>3. login' \in [Ids' -> 0..MaxNow]
      <4>1. 0 \in 0..MaxNow
        BY AccountsAssumption
      <4>2. \A u \in Ids' : login'[u] \in 0..MaxNow
        BY <2>9, <4>1 DEF AccountsInv, AccountsTypeOK
      <4>3. login' = [u \in Ids' |-> login'[u]]
        BY <2>7, <2>8
      <4> QED BY <4>2, <4>3
    <3>4. welcomed' \subseteq [email : Addresses, password : Passwords]
      BY <2>6, <2>7 DEF AccountsInv, AccountsTypeOK
    <3> QED BY <1>2, <3>1, <3>2, <3>3, <3>4 DEF AccountsInv, AccountsTypeOK, AccountRows
  <2>11. (\E k \in Nat : Ids = 1..k)'
    BY <2>8
  <2>12. (\A u \in Ids : login[u] <= now)'
    <3>1. now \in Nat
      BY AccountsAre
    <3> QED BY <1>2, <2>9, <3>1 DEF AccountsInv
  <2>13. (\A t \in tokens : Worth(t))'
    BY <1>2, <2>9 DEF AccountsInv, Worth
  <2>14. OneAccountPerAddress'
    <3>1. \A u \in Ids : users[u].email # old.email
      BY <1>4 DEF Taken
    <3> QED BY <2>4, <2>9, <3>1 DEF AccountsInv, AccountsAreSound, OneAccountPerAddress
  <2>15. WelcomeIsKept'
    <3>1. \A a \in welcomed : \E u \in Ids' : users'[u].email = a.email /\ users'[u].password = a.password
      BY <2>9 DEF AccountsInv, AccountsAreSound, WelcomeIsKept
    <3>2. \E u \in Ids' : users'[u].email = entry.email /\ users'[u].password = entry.password
      BY <2>4, <2>6, <2>9
    <3> QED BY <2>7, <3>1, <3>2 DEF WelcomeIsKept
  <2>16. TokensAreWorthTheirRow'
    BY <1>2 DEF AccountsInv, AccountsAreSound, TokensAreWorthTheirRow
  <2> QED BY <2>10, <2>11, <2>12, <2>13, <2>14, <2>15, <2>16 DEF AccountsInv, AccountsAreSound
<1> QED BY <1>3, <1>4

\* A token given out now.
LEMMA GivenOut ==
    ASSUME AccountsInv, NEW u \in Ids, NEW kind \in {"access", "refresh"}, NEW life \in {AccessLife, RefreshLife}
    PROVE  /\ Token(u, kind, life) \in Tokens
           /\ Token(u, kind, life).user = u /\ Token(u, kind, life).kind = kind
           /\ Token(u, kind, life).exp = now + life
<1>1. /\ now \in 0..MaxNow /\ MaxNow \in Nat /\ AccessLife \in Nat /\ RefreshLife \in Nat
      /\ u \in 1..MaxAccounts
  BY AccountsAssumption DEF AccountsInv, AccountsTypeOK
<1>2. now + life \in 0..(MaxNow + AccessLife + RefreshLife)
  BY <1>1
<1> QED BY <1>1, <1>2 DEF Token, Tokens

\* Tokens are added that are worth no more than they should be.
LEMMA TokensJoin ==
    ASSUME AccountsInv, UNCHANGED <<users, register, now, welcomed, wrong>>,
           NEW new, tokens' = tokens \cup new, new \subseteq Tokens,
           login' \in [Ids -> 0..MaxNow], \A u \in Ids : login[u] <= login'[u] /\ login'[u] <= now,
           \A t \in new : /\ t.user \in Ids
                          /\ t.kind = "refresh" => t.exp <= login'[t.user] + RefreshLife
                          /\ t.kind = "access" => t.exp <= login'[t.user] + RefreshLife + AccessLife
    PROVE  AccountsInv'
<1>1. Ids' = Ids
  BY DEF Ids
<1>2. AccountsTypeOK'
  BY <1>1 DEF AccountsInv, AccountsTypeOK
<1>3. (\E n \in Nat : Ids = 1..n)' /\ (\A u \in Ids : login[u] <= now)'
  BY <1>1 DEF AccountsInv
<1>4. \A t \in tokens : Worth(t)'
  <2>1. SUFFICES ASSUME NEW t \in tokens PROVE Worth(t)'
    OBVIOUS
  <2>2. /\ t.user \in Ids /\ t.exp \in Nat /\ login[t.user] \in Nat /\ login'[t.user] \in Nat
        /\ login[t.user] <= login'[t.user] /\ RefreshLife \in Nat /\ AccessLife \in Nat
    BY <2>1, AccountsAre
  <2>3. /\ t.kind = "refresh" => t.exp <= login[t.user] + RefreshLife
        /\ t.kind = "access" => t.exp <= login[t.user] + RefreshLife + AccessLife
    BY <2>1 DEF AccountsInv, Worth
  <2>4. /\ t.kind = "refresh" => t.exp <= login'[t.user] + RefreshLife
        /\ t.kind = "access" => t.exp <= login'[t.user] + RefreshLife + AccessLife
    BY <2>2, <2>3
  <2> QED BY <1>1, <2>2, <2>4 DEF Worth
<1>5. \A t \in new : Worth(t)'
  BY <1>1 DEF Worth
<1>6. AccountsAreSound'
  BY <1>1 DEF AccountsInv, AccountsAreSound, OneAccountPerAddress, WelcomeIsKept, TokensAreWorthTheirRow
<1> QED BY <1>2, <1>3, <1>4, <1>5, <1>6 DEF AccountsInv

LEMMA LoginKeeps == ASSUME AccountsInv, NEW email, NEW password, Login(email, password) PROVE AccountsInv'
<1>1. PICK u \in Opened(email, password) :
        /\ tokens' = tokens \cup {Token(u, "access", AccessLife), Token(u, "refresh", RefreshLife)}
        /\ login' = [login EXCEPT ![u] = now]
        /\ UNCHANGED <<users, register, now, welcomed, wrong>>
  BY DEF Login
<1>2. u \in Ids
  BY <1>1 DEF Opened, Found
<1>3. PICK new : new = {Token(u, "access", AccessLife), Token(u, "refresh", RefreshLife)}
  OBVIOUS
<1>4. now \in 0..MaxNow /\ login \in [Ids -> 0..MaxNow] /\ \A v \in Ids : login[v] <= now
  BY DEF AccountsInv, AccountsTypeOK
<1>5. /\ login' \in [Ids -> 0..MaxNow] /\ login'[u] = now
      /\ \A v \in Ids : v # u => login'[v] = login[v]
  BY <1>1, <1>2, <1>4
<1>6. \A v \in Ids : login[v] <= login'[v] /\ login'[v] <= now
  <2>1. now <= now
    BY AccountsAre
  <2>2. \A v \in Ids : login[v] <= login[v]
    BY AccountsAre
  <2> QED BY <1>4, <1>5, <2>1, <2>2
<1>7. PICK a : a = Token(u, "access", AccessLife)
  OBVIOUS
<1>8. PICK r : r = Token(u, "refresh", RefreshLife)
  OBVIOUS
<1>9. /\ a \in Tokens /\ a.user = u /\ a.kind = "access" /\ a.exp = now + AccessLife
      /\ r \in Tokens /\ r.user = u /\ r.kind = "refresh" /\ r.exp = now + RefreshLife
  BY <1>2, <1>7, <1>8, GivenOut
<1>10. new = {a, r} /\ new \subseteq Tokens
  BY <1>3, <1>7, <1>8, <1>9
<1>11. \A t \in new : /\ t.user \in Ids
                      /\ t.kind = "refresh" => t.exp <= login'[t.user] + RefreshLife
                      /\ t.kind = "access" => t.exp <= login'[t.user] + RefreshLife + AccessLife
  <2>1. now \in Nat /\ RefreshLife \in Nat /\ AccessLife \in Nat
    BY AccountsAre
  <2>2. now + RefreshLife <= now + RefreshLife /\ now + AccessLife <= now + RefreshLife + AccessLife
    BY <2>1
  <2> QED BY <1>2, <1>5, <1>9, <1>10, <2>2
<1> QED BY <1>1, <1>3, <1>5, <1>6, <1>10, <1>11, TokensJoin

\* What is served is owed.
LEMMA ServedWell ==
    ASSUME AccountsInv, NEW t \in tokens, MayEnter(t), NEW rank \in BOOLEAN, rank => users[t.user].admin
    PROVE  Served(t, rank) = {}
<1>1. /\ t.kind = "access" /\ now < t.exp /\ t.user \in Ids /\ users[t.user].active
  BY DEF MayEnter, Verified, Alive
<1>2. t.exp <= login[t.user] + RefreshLife + AccessLife
  BY <1>1 DEF AccountsInv, Worth
<1>3. /\ now \in Nat /\ t.exp \in Nat /\ login[t.user] \in Nat /\ RefreshLife \in Nat /\ AccessLife \in Nat
  BY <1>1, AccountsAre
<1>4. now < login[t.user] + RefreshLife + AccessLife
  BY <1>1, <1>2, <1>3
<1> QED BY <1>1, <1>4 DEF Served

LEMMA SoundOtherwise ==
    ASSUME AccountsInv, UNCHANGED <<users, register, tokens, now, login, welcomed>>, wrong' = {}
    PROVE  AccountsInv'
<1>1. AccountsTypeOK'
  BY DEF AccountsInv, AccountsTypeOK, Ids
<1>2. (\E n \in Nat : Ids = 1..n)' /\ (\A u \in Ids : login[u] <= now)' /\ (\A t \in tokens : Worth(t))'
  BY DEF AccountsInv, Ids, Worth
<1>3. AccountsAreSound'
  BY DEF AccountsInv, AccountsAreSound, OneAccountPerAddress, WelcomeIsKept, TokensAreWorthTheirRow, Ids
<1> QED BY <1>1, <1>2, <1>3 DEF AccountsInv

LEMMA EnterKeeps == ASSUME AccountsInv, NEW t \in tokens, Enter(t) \/ Manage(t) PROVE AccountsInv'
<1>1. wrong = {}
  BY DEF AccountsInv, AccountsAreSound, TokensAreWorthTheirRow
<1>2. CASE Enter(t)
  <2>1. Served(t, FALSE) = {}
    BY <1>2, ServedWell DEF Enter
  <2>2. wrong' = {} /\ UNCHANGED <<users, register, tokens, now, login, welcomed>>
    BY <1>1, <1>2, <2>1 DEF Enter
  <2> QED BY <2>2, SoundOtherwise
<1>3. CASE Manage(t)
  <2>1. MayEnter(t) /\ users[t.user].admin
    BY <1>3 DEF Manage, MayManage
  <2>2. Served(t, TRUE) = {}
    BY <2>1, ServedWell
  <2>3. wrong' = {} /\ UNCHANGED <<users, register, tokens, now, login, welcomed>>
    BY <1>1, <1>3, <2>2 DEF Manage
  <2> QED BY <2>3, SoundOtherwise
<1> QED BY <1>2, <1>3

LEMMA RefreshKeeps == ASSUME AccountsInv, NEW t \in tokens, Refresh(t) PROVE AccountsInv'
<1>1. t.kind = "refresh" /\ now < t.exp /\ t.user \in Ids /\ users[t.user].active
  BY DEF Refresh, MayRefresh, Alive
<1>2. PICK a : a = Token(t.user, "access", AccessLife)
  OBVIOUS
<1>3. a \in Tokens /\ a.user = t.user /\ a.kind = "access" /\ a.exp = now + AccessLife
  BY <1>1, <1>2, GivenOut
<1>4. tokens' = tokens \cup {a} /\ UNCHANGED <<users, register, now, login, welcomed>> /\ wrong' = wrong
  BY <1>1, <1>2 DEF Refresh, Renewed
<1>5. a.exp <= login[t.user] + RefreshLife + AccessLife
  <2>1. t.exp <= login[t.user] + RefreshLife
    BY <1>1 DEF AccountsInv, Worth
  <2>2. /\ now \in Nat /\ t.exp \in Nat /\ login[t.user] \in Nat /\ RefreshLife \in Nat /\ AccessLife \in Nat
    BY <1>1, AccountsAre
  <2> QED BY <1>1, <1>3, <2>1, <2>2
<1>6. login' \in [Ids -> 0..MaxNow] /\ \A u \in Ids : login[u] <= login'[u] /\ login'[u] <= now
  <2>1. \A u \in Ids : login[u] <= login[u]
    BY AccountsAre
  <2> QED BY <1>4, <2>1 DEF AccountsInv, AccountsTypeOK
<1>7. PICK new : new = {a}
  OBVIOUS
<1>8. \A s \in new : /\ s.user \in Ids
                     /\ s.kind = "refresh" => s.exp <= login'[s.user] + RefreshLife
                     /\ s.kind = "access" => s.exp <= login'[s.user] + RefreshLife + AccessLife
  BY <1>1, <1>3, <1>4, <1>5, <1>7
<1>9. tokens' = tokens \cup new /\ new \subseteq Tokens /\ UNCHANGED <<users, register, now, welcomed, wrong>>
  BY <1>3, <1>4, <1>7
<1> QED BY <1>6, <1>8, <1>9, TokensJoin

\* An operator changes the flags of an account.
LEMMA FlagsKeep ==
    ASSUME AccountsInv, NEW u \in Ids, NEW reg \in AccountRows, users' = [users EXCEPT ![u] = reg],
           reg.email = users[u].email, reg.password = users[u].password,
           UNCHANGED <<register, tokens, now, login, welcomed, wrong>>
    PROVE  AccountsInv'
<1>1. /\ Ids' = Ids /\ users'[u] = reg /\ \A v \in Ids : v # u => users'[v] = users[v]
  <2>1. DOMAIN users' = DOMAIN users
    OBVIOUS
  <2>2. u \in DOMAIN users
    BY DEF Ids
  <2> QED BY <2>1, <2>2 DEF Ids
<1>2. AccountsTypeOK'
  <2>1. \A v \in Ids' : users'[v] \in AccountRows
    BY <1>1, AccountsAre
  <2> QED BY <1>1, <2>1 DEF AccountsInv, AccountsTypeOK, AccountRows
<1>3. (\E n \in Nat : Ids = 1..n)' /\ (\A v \in Ids : login[v] <= now)' /\ (\A t \in tokens : Worth(t))'
  BY <1>1 DEF AccountsInv, Worth
<1>4. \A v \in Ids : users'[v].email = users[v].email /\ users'[v].password = users[v].password
  BY <1>1
<1>5. AccountsAreSound'
  BY <1>1, <1>4 DEF AccountsInv, AccountsAreSound, OneAccountPerAddress, WelcomeIsKept, TokensAreWorthTheirRow
<1> QED BY <1>2, <1>3, <1>5 DEF AccountsInv

LEMMA OperatorKeeps ==
    ASSUME AccountsInv, NEW u \in Ids, Deactivate(u) \/ \E admin \in BOOLEAN : SetAdmin(u, admin)
    PROVE  AccountsInv'
<1>1. PICK old \in AccountRows : old = users[u]
  BY AccountsAre
<1>2. CASE Deactivate(u)
  <2>1. PICK reg : reg = [old EXCEPT !.active = FALSE]
    OBVIOUS
  <2>2. reg \in AccountRows /\ reg.email = old.email /\ reg.password = old.password
    BY <1>1, <2>1 DEF AccountRows
  <2>3. users' = [users EXCEPT ![u] = reg] /\ UNCHANGED <<register, tokens, now, login, welcomed, wrong>>
    BY <1>1, <1>2, <2>1 DEF Deactivate
  <2> QED BY <1>1, <2>2, <2>3, FlagsKeep
<1>3. CASE \E admin \in BOOLEAN : SetAdmin(u, admin)
  <2>1. PICK admin \in BOOLEAN : SetAdmin(u, admin)
    BY <1>3
  <2>2. PICK reg : reg = [old EXCEPT !.admin = admin]
    OBVIOUS
  <2>3. reg \in AccountRows /\ reg.email = old.email /\ reg.password = old.password
    BY <1>1, <2>1, <2>2 DEF AccountRows
  <2>4. users' = [users EXCEPT ![u] = reg] /\ UNCHANGED <<register, tokens, now, login, welcomed, wrong>>
    BY <1>1, <2>1, <2>2 DEF SetAdmin
  <2> QED BY <1>1, <2>3, <2>4, FlagsKeep
<1> QED BY <1>2, <1>3

LEMMA TickKeeps == ASSUME AccountsInv, Tick PROVE AccountsInv'
<1>1. /\ now' = now + 1 /\ tokens' \subseteq tokens /\ now < MaxNow
      /\ UNCHANGED <<users, register, login, welcomed, wrong>>
  BY DEF Tick
<1>2. Ids' = Ids
  BY <1>1 DEF Ids
<1>3. now' \in 0..MaxNow
  BY <1>1, AccountsAre
<1>4. AccountsTypeOK'
  BY <1>1, <1>2, <1>3 DEF AccountsInv, AccountsTypeOK
<1>5. (\A u \in Ids : login[u] <= now)'
  <2>1. \A u \in Ids : login[u] \in Nat /\ now \in Nat /\ login[u] <= now
    BY AccountsAre DEF AccountsInv
  <2> QED BY <1>1, <1>2, <2>1
<1>6. (\E n \in Nat : Ids = 1..n)' /\ (\A t \in tokens : Worth(t))'
  BY <1>1, <1>2 DEF AccountsInv, Worth
<1>7. AccountsAreSound'
  BY <1>1, <1>2 DEF AccountsInv, AccountsAreSound, OneAccountPerAddress, WelcomeIsKept, TokensAreWorthTheirRow
<1> QED BY <1>4, <1>5, <1>6, <1>7 DEF AccountsInv

LEMMA AccountsSteps == ASSUME AccountsInv, [AccountsNext]_accountVars PROVE AccountsInv'
<1>1. CASE \E c \in Clients, email \in Addresses, password \in Passwords : Ask(c, email, password)
  BY <1>1, AskForAccountKeeps
<1>2. CASE \E c \in Clients : Look(c) \/ Insert(c)
  BY <1>2, LookKeeps, InsertKeeps
<1>3. CASE \E email \in Addresses, password \in Passwords : Login(email, password)
  BY <1>3, LoginKeeps
<1>4. CASE \E t \in tokens : Refresh(t) \/ Enter(t) \/ Manage(t)
  BY <1>4, RefreshKeeps, EnterKeeps
<1>5. CASE \E u \in Ids : Deactivate(u) \/ \E admin \in BOOLEAN : SetAdmin(u, admin)
  BY <1>5, OperatorKeeps
<1>6. CASE Tick
  BY <1>6, TickKeeps
<1>7. CASE UNCHANGED accountVars
  <2>1. register' \in [Clients -> Registrations]
    BY <1>7 DEF accountVars, AccountsInv, AccountsTypeOK
  <2> QED BY <1>7, <2>1, AsksKeeps DEF accountVars
<1> QED BY <1>1, <1>2, <1>3, <1>4, <1>5, <1>6, <1>7 DEF AccountsNext

LEMMA AccountsStart == ASSUME AccountsInit PROVE AccountsInv
<1>1. /\ Ids = {} /\ login = [u \in {} |-> 0] /\ register = [c \in Clients |-> NotAsking]
      /\ tokens = {} /\ now = 0 /\ welcomed = {} /\ wrong = {}
  BY DEF AccountsInit, Ids
<1>2. 0 \in 0..MaxNow /\ Ids = 1..0
  BY <1>1, AccountsAssumption
<1>3. register \in [Clients -> Registrations] /\ login \in [Ids -> 0..MaxNow]
  BY <1>1 DEF Registrations
<1>4. AccountsTypeOK
  BY <1>1, <1>2, <1>3 DEF AccountsTypeOK
<1>5. (\E n \in Nat : Ids = 1..n) /\ (\A u \in Ids : login[u] <= now) /\ (\A t \in tokens : Worth(t))
  BY <1>1, <1>2
<1>6. AccountsAreSound
  BY <1>1 DEF AccountsAreSound, OneAccountPerAddress, WelcomeIsKept, TokensAreWorthTheirRow
<1> QED BY <1>4, <1>5, <1>6 DEF AccountsInv

\* The invariant of the accounts: rows numbered without gaps, each token
\* worth no more than its account's last login allows.
THEOREM AccountsInvariant == AccountsSpec => []AccountsInv
<1>1. AccountsInit => AccountsInv
  BY AccountsStart
<1>2. AccountsInv /\ [AccountsNext]_accountVars => AccountsInv'
  BY AccountsSteps
<1> QED BY <1>1, <1>2, PTL DEF AccountsSpec

\* One account per address, what a 201 answered stays true, and a token opens
\* what its kind and its owner's row allow, for any number of addresses,
\* callers, passwords and any lifetimes.
THEOREM AccountsSound == AccountsSpec => []AccountsAreSound
<1>1. AccountsInv => AccountsAreSound
  BY DEF AccountsInv
<1> QED BY <1>1, AccountsInvariant, PTL

----------------------------------------------------------------------------
(* The HTTP face of one conversation number.                               *)
ApiStages == {"over", "guest", "check", "update", "preflight", "queue", "flight",
              "held", "acting", "storing", "wiping", "erasing", "done"}
LockStages == {"flight", "held", "acting", "storing", "wiping", "erasing"}

CallRows == [op : Endpoints \cup {"none"}, who : Users \cup {Anyone}, key : Nat, stage : ApiStages,
             sawKey : Nat, touched : BOOLEAN]

SessionRows == [there : BOOLEAN, key : Nat, owner : Users \cup {Demo}, private : BOOLEAN]

ApiTypes == row \in SessionRows /\ minted \in Nat /\ call \in [Callers -> CallRows]

\* Only a session of an account or visitor is private, and every session has a key.
RowMeans ==
    /\ row.private <=> row.owner # Demo
    /\ row.there => row.key # 0

\* The session under the number is one the call may act on.
MayAct(q) ==
    /\ row.there /\ KeyFits(row, q.key, row.private)
    /\ row.private => row.owner = q.who
    /\ q.op = "delete" => row.owner = q.who

\* While a call acts on the session, it is still the one found under the
\* lock; a rename goes by the key that it named and read.
Fits(q) ==
    /\ q.stage \in {"acting", "storing", "erasing"} => MayAct(q)
    /\ q.stage = "erasing" => q.op = "delete"
    /\ q.stage = "update" => q.key # 0 /\ q.key = q.sawKey
    /\ q.touched => q.stage \in {"storing", "wiping", "erasing", "done"}
    /\ q.op = "rename" => q.who \in Users

Holding(c) == call[c].stage \in LockStages => gate = c

ApiInv ==
    /\ ApiTypes /\ RowMeans /\ amiss = {}
    /\ \A c \in Callers : Holding(c) /\ Fits(call[c])
    /\ PrivateStaysPrivate /\ NothingUnderNoRow

CallStep(c, new) == new \in CallRows /\ call' = [call EXCEPT ![c] = new] /\ amiss' = {}

GateStep(c) ==
    \/ gate' = gate
    \/ gate = c /\ gate' = NoHolder
    \/ gate = NoHolder /\ gate' = c

\* The lock passes only between a call and nobody, and only its holder
\* touches the row.
LEMMA StepKeeps ==
    ASSUME ApiInv, NEW c \in Callers, NEW new, CallStep(c, new), GateStep(c),
           row' \in SessionRows, minted' \in Nat, row' = row \/ gate = c,
           RowMeans', PrivateStaysPrivate', NothingUnderNoRow',
           Fits(new)', new.stage \in LockStages => gate' = c
    PROVE  ApiInv'
<1>1. /\ call' \in [Callers -> CallRows] /\ call'[c] = new
      /\ \A b \in Callers : b # c => call'[b] = call[b]
  BY DEF CallStep, ApiInv, ApiTypes
<1>2. ApiTypes'
  BY <1>1 DEF ApiTypes
<1>3. \A b \in Callers : b # c => Holding(b)' /\ Fits(call[b])'
  <2>1. SUFFICES ASSUME NEW b \in Callers, b # c PROVE Holding(b)' /\ Fits(call[b])'
    OBVIOUS
  <2>2. PICK q : q = call[b]
    OBVIOUS
  <2>3. q = call'[b] /\ Fits(q) /\ (q.stage \in LockStages => gate = b)
    BY <1>1, <2>1, <2>2 DEF ApiInv, Holding
  <2>4. gate = b => gate' = b
    BY <2>1, CallersAssumption DEF GateStep
  <2>5. Fits(q)'
    <3>1. CASE row' = row
      BY <2>3, <3>1 DEF Fits, MayAct
    <3>2. CASE row' # row
      BY <2>1, <2>3, <3>2 DEF Fits, LockStages
    <3> QED BY <3>1, <3>2
  <2> QED BY <2>3, <2>4, <2>5 DEF Holding
<1>4. Holding(c)' /\ Fits(call[c])'
  BY <1>1 DEF Holding
<1>5. \A b \in Callers : Holding(b)' /\ Fits(call[b])'
  BY <1>3, <1>4
<1> QED BY <1>2, <1>5 DEF ApiInv, CallStep

LEMMA QuietStep ==
    ASSUME ApiInv, NEW c \in Callers, NEW new, CallStep(c, new), GateStep(c),
           UNCHANGED <<row, minted, stored>>, Fits(new), new.stage \in LockStages => gate' = c
    PROVE  ApiInv'
<1>1. row' \in SessionRows /\ minted' \in Nat
  BY DEF ApiInv, ApiTypes
<1>2. RowMeans' /\ PrivateStaysPrivate' /\ NothingUnderNoRow'
  BY DEF ApiInv, RowMeans, PrivateStaysPrivate, NothingUnderNoRow
<1>3. Fits(new)'
  BY DEF Fits, MayAct
<1> QED BY <1>1, <1>2, <1>3, StepKeeps

LEMMA FreeSteps == ASSUME NEW c, Free(c) PROVE GateStep(c)
BY DEF Free, GateStep

LEMMA UnusedFits == /\ Unused \in CallRows /\ Unused.stage = "over" /\ Unused.op = "none"
                    /\ Unused.who = Anyone /\ Unused.key = 0 /\ Unused.sawKey = 0 /\ Unused.touched = FALSE
<1>1. "over" \in ApiStages
  BY DEF ApiStages
<1> QED BY <1>1 DEF Unused, CallRows

\* A call that is told something is over.
LEMMA Told ==
    ASSUME ApiInv, NEW c \in Callers, NEW status, Tell(c, status), status \notin Refusals \/ ~call[c].touched
    PROVE  CallStep(c, Unused) /\ Unused.stage \notin LockStages /\ Fits(Unused) /\ Fits(Unused)'
<1>1. CallStep(c, Unused)
  BY UnusedFits DEF Tell, CallStep, ApiInv
<1>2. Unused.stage \notin LockStages
  BY UnusedFits DEF LockStages
<1>3. Fits(Unused) /\ Fits(Unused)'
  <2>1. PICK u : u = Unused
    OBVIOUS
  <2>2. u.stage = "over" /\ u.op = "none" /\ u.touched = FALSE
    BY <2>1, UnusedFits
  <2>3. Fits(u) /\ Fits(u)'
    BY <2>2 DEF Fits
  <2>4. Unused' = Unused
    BY DEF Unused
  <2> QED BY <2>1, <2>3
<1> QED BY <1>1, <1>2, <1>3

LEMMA TellKeeps ==
    ASSUME ApiInv, NEW c \in Callers, NEW status, Tell(c, status), status \notin Refusals \/ ~call[c].touched,
           GateStep(c), UNCHANGED <<row, minted, stored>>
    PROVE  ApiInv'
<1>1. CallStep(c, Unused) /\ Unused.stage \notin LockStages /\ Fits(Unused)
  BY Told
<1> QED BY <1>1, QuietStep

\* A call moves on to another stage.
LEMMA ToGoes ==
    ASSUME ApiInv, NEW c \in Callers, NEW stage \in ApiStages, To(c, stage)
    PROVE  \E new \in CallRows :
               /\ call' = [call EXCEPT ![c] = new] /\ new.stage = stage
               /\ new.op = call[c].op /\ new.who = call[c].who /\ new.key = call[c].key
               /\ new.sawKey = call[c].sawKey /\ new.touched = call[c].touched
<1>1. PICK old \in CallRows : old = call[c]
  BY DEF ApiInv, ApiTypes
<1>2. PICK new : new = [old EXCEPT !.stage = stage]
  OBVIOUS
<1>3. /\ new \in CallRows /\ new.stage = stage
      /\ new.op = old.op /\ new.who = old.who /\ new.key = old.key
      /\ new.sawKey = old.sawKey /\ new.touched = old.touched
  BY <1>1, <1>2 DEF CallRows
<1>4. call' = [call EXCEPT ![c] = new]
  BY <1>1, <1>2 DEF To
<1> QED BY <1>1, <1>3, <1>4

\* A call acts on the session it may act on.
LEMMA TouchGoes ==
    ASSUME ApiInv, NEW c \in Callers, NEW stage \in ApiStages, Touch(c, stage), MayAct(call[c])
    PROVE  /\ amiss' = {}
           /\ \E new \in CallRows :
               /\ call' = [call EXCEPT ![c] = new] /\ new.stage = stage
               /\ new.op = call[c].op /\ new.who = call[c].who /\ new.key = call[c].key
               /\ new.sawKey = call[c].sawKey
<1>1. PICK old \in CallRows : old = call[c]
  BY DEF ApiInv, ApiTypes
<1>2. PICK new : new = [old EXCEPT !.stage = stage, !.touched = TRUE]
  OBVIOUS
<1>3. new \in CallRows
  BY <1>1, <1>2 DEF CallRows
<1>4. /\ new.stage = stage
      /\ new.op = old.op /\ new.who = old.who /\ new.key = old.key /\ new.sawKey = old.sawKey
  BY <1>1, <1>2 DEF CallRows
<1>5. call' = [call EXCEPT ![c] = new]
  BY <1>1, <1>2 DEF Touch
<1>6. amiss' = {}
  BY DEF Touch, MayAct, ApiInv
<1> QED BY <1>1, <1>3, <1>4, <1>5, <1>6

LEMMA BeginKeeps ==
    ASSUME ApiInv, NEW c \in Callers, NEW op \in Endpoints, NEW who \in Users \cup {Anyone},
           NEW named \in Nat, NEW guest \in BOOLEAN, Begin(c, op, who, named, guest)
    PROVE  ApiInv'
<1>1. PICK stage : stage = IF guest THEN "guest" ELSE IF op = "delete" THEN "queue" ELSE "check"
  OBVIOUS
<1>2. stage \in ApiStages /\ stage \in {"guest", "queue", "check"}
  BY <1>1 DEF ApiStages
<1>3. PICK blank : blank = Unused
  OBVIOUS
<1>4. blank \in CallRows /\ blank.sawKey = 0 /\ blank.touched = FALSE
  BY <1>3, UnusedFits
<1>5. PICK new : new = [blank EXCEPT !.op = op, !.who = who, !.key = named, !.stage = stage]
  OBVIOUS
<1>6. new \in CallRows
  BY <1>2, <1>4, <1>5 DEF CallRows
<1>7. new.op = op /\ new.who = who /\ new.stage = stage /\ new.touched = blank.touched
  BY <1>2, <1>4, <1>5 DEF CallRows
<1>8. call' = [call EXCEPT ![c] = new] /\ UNCHANGED <<row, minted, stored, gate, amiss>>
  BY <1>1, <1>3, <1>5 DEF Begin
<1>9. op = "rename" => who \in Users
  BY DEF Begin
<1>10. Fits(new)
  BY <1>2, <1>4, <1>7, <1>9 DEF Fits
<1>11. CallStep(c, new) /\ GateStep(c) /\ new.stage \notin LockStages
  BY <1>2, <1>6, <1>7, <1>8 DEF CallStep, GateStep, ApiInv, LockStages
<1> QED BY <1>8, <1>10, <1>11, QuietStep

\* Before it acts, a call has touched nothing.
LEMMA NothingTouched ==
    ASSUME ApiInv, NEW c \in Callers, call[c].stage \notin {"storing", "wiping", "erasing", "done"}
    PROVE  ~call[c].touched
<1>1. Fits(call[c]) /\ call[c].touched \in BOOLEAN
  BY DEF ApiInv, ApiTypes, CallRows
<1> QED BY <1>1 DEF Fits

\* A stage in which nothing is held or touched, reached without a change.
LEMMA GoesOn ==
    ASSUME ApiInv, NEW c \in Callers, NEW stage, To(c, stage), ~call[c].touched, amiss' = amiss,
           stage \in {"check", "preflight", "queue"} \/ (stage \in {"flight", "held"} /\ gate' = c),
           GateStep(c), UNCHANGED <<row, minted, stored>>
    PROVE  ApiInv'
<1>1. stage \in ApiStages
  BY DEF ApiStages
<1>2. PICK new \in CallRows :
          /\ call' = [call EXCEPT ![c] = new] /\ new.stage = stage
          /\ new.op = call[c].op /\ new.who = call[c].who /\ new.touched = call[c].touched
  BY <1>1, ToGoes
<1>3. Fits(new)
  BY <1>2 DEF Fits, ApiInv
<1>4. CallStep(c, new)
  BY <1>2 DEF CallStep, ApiInv
<1>5. new.stage \in LockStages => gate' = c
  BY <1>2 DEF LockStages
<1> QED BY <1>3, <1>4, <1>5, QuietStep

LEMMA ChecksKeep ==
    ASSUME ApiInv, NEW c \in Callers, GuestCheck(c) \/ Check(c) \/ TurnedAway(c) \/ Staffed(c) PROVE ApiInv'
<1>1. ~call[c].touched
  BY NothingTouched DEF GuestCheck, Check, TurnedAway, Staffed
<1>2. UNCHANGED <<row, minted, stored>> /\ GateStep(c)
  BY FreeSteps DEF GuestCheck, Check, TurnedAway, Staffed, GateStep
<1>3. ASSUME NEW status, Tell(c, status) PROVE ApiInv'
  BY <1>1, <1>2, <1>3, TellKeeps
<1>4. ASSUME NEW stage \in {"check", "preflight", "queue"}, To(c, stage), amiss' = amiss PROVE ApiInv'
  BY <1>1, <1>2, <1>4, GoesOn
<1>5. CASE GuestCheck(c)
  BY <1>3, <1>4, <1>5 DEF GuestCheck
<1>6. CASE Check(c)
  BY <1>3, <1>4, <1>6 DEF Check
<1>7. CASE TurnedAway(c) \/ Staffed(c)
  BY <1>3, <1>7 DEF TurnedAway, Staffed
<1> QED BY <1>5, <1>6, <1>7

LEMMA TakeKeeps == ASSUME ApiInv, NEW c \in Callers, Take(c) PROVE ApiInv'
<1>1. ~call[c].touched
  BY NothingTouched DEF Take
<1>2. PICK stage : stage = IF call[c].stage = "preflight" THEN "flight" ELSE "held"
  OBVIOUS
<1>3. /\ To(c, stage) /\ gate' = c /\ GateStep(c) /\ amiss' = amiss /\ stage \in {"flight", "held"}
      /\ UNCHANGED <<row, minted, stored>>
  BY <1>2 DEF Take, GateStep
<1> QED BY <1>1, <1>3, GoesOn

\* A rename names the key of a private session, and the session that still has
\* that key and owner when it writes is the session it read.
LEMMA RenameReadsKeeps == ASSUME ApiInv, NEW c \in Callers, RenameReads(c) PROVE ApiInv'
<1>1. ~call[c].touched
  BY NothingTouched DEF RenameReads
<1>2. UNCHANGED <<row, minted, stored>> /\ GateStep(c)
  BY DEF RenameReads, GateStep
<1>3. ASSUME NEW status, Tell(c, status) PROVE ApiInv'
  BY <1>1, <1>2, <1>3, TellKeeps
<1>4. ASSUME row.there, row.owner = call[c].who, KeyFits(row, call[c].key, row.private),
             call' = [call EXCEPT ![c].stage = "update", ![c].sawKey = row.key], amiss' = amiss
      PROVE  ApiInv'
  <2>1. PICK old \in CallRows : old = call[c]
    BY DEF ApiInv, ApiTypes
  <2>2. PICK named \in Nat : named = row.key
    BY DEF ApiInv, ApiTypes, SessionRows
  <2>3. PICK new : new = [old EXCEPT !.stage = "update", !.sawKey = named]
    OBVIOUS
  <2>4. "update" \in ApiStages
    BY DEF ApiStages
  <2>5. new \in CallRows
    BY <2>1, <2>2, <2>3, <2>4 DEF CallRows
  <2>6. /\ new.stage = "update" /\ new.sawKey = named /\ new.op = old.op /\ new.who = old.who
        /\ new.key = old.key /\ new.touched = old.touched
    BY <2>1, <2>2, <2>3, <2>4 DEF CallRows
  <2>7. call' = [call EXCEPT ![c] = new]
    BY <1>4, <2>1, <2>2, <2>3
  <2>8. old.op = "rename" /\ old.who \in Users /\ Fits(old)
    BY <2>1 DEF RenameReads, ApiInv, Fits
  <2>9. row.private
    BY <1>4, <2>1, <2>8, CallersAssumption DEF ApiInv, RowMeans
  <2>10. old.key # 0 /\ old.key = named
    BY <1>4, <2>1, <2>2, <2>9 DEF KeyFits
  <2>11. Fits(new)
    BY <1>1, <2>1, <2>6, <2>8, <2>10 DEF Fits
  <2>12. CallStep(c, new) /\ new.stage \notin LockStages
    BY <1>4, <2>5, <2>6, <2>7 DEF CallStep, ApiInv, LockStages
  <2> QED BY <1>2, <2>11, <2>12, QuietStep
<1> QED BY <1>3, <1>4 DEF RenameReads

\* An act that leaves the row as it is.
LEMMA ActKeeps ==
    ASSUME ApiInv, NEW c \in Callers, NEW stage, Touch(c, stage), MayAct(call[c]),
           stage \in {"done", "storing", "erasing"}, stage # "done" => gate = c,
           stage = "erasing" => call[c].op = "delete",
           UNCHANGED <<row, minted, stored, gate>>
    PROVE  ApiInv'
<1>1. stage \in ApiStages
  BY DEF ApiStages
<1>2. PICK new \in CallRows :
          /\ call' = [call EXCEPT ![c] = new] /\ new.stage = stage /\ new.op = call[c].op
          /\ new.who = call[c].who /\ new.key = call[c].key
  BY <1>1, TouchGoes
<1>3. amiss' = {}
  BY <1>1, TouchGoes
<1>4. MayAct(new)
  BY <1>2 DEF MayAct
<1>5. Fits(new)
  BY <1>2, <1>4 DEF Fits, ApiInv
<1>6. CallStep(c, new) /\ GateStep(c) /\ (new.stage \in LockStages => gate' = c)
  BY <1>2, <1>3 DEF CallStep, GateStep, LockStages
<1> QED BY <1>5, <1>6, QuietStep

LEMMA RenameWritesKeeps == ASSUME ApiInv, NEW c \in Callers, RenameWrites(c) PROVE ApiInv'
<1>1. ~call[c].touched
  BY NothingTouched DEF RenameWrites
<1>2. UNCHANGED <<row, minted, stored, gate>> /\ GateStep(c)
  BY DEF RenameWrites, GateStep
<1>3. CASE ~SameIncarnation(call[c])
  BY <1>1, <1>2, <1>3, TellKeeps DEF RenameWrites
<1>4. CASE SameIncarnation(call[c])
  <2>1. call[c].key = row.key /\ call[c].key # 0 /\ row.there /\ row.owner = call[c].who
    BY <1>4 DEF SameIncarnation, ApiInv, Fits, RenameWrites
  <2>2. MayAct(call[c])
    BY <2>1 DEF MayAct, KeyFits
  <2>3. Touch(c, "done")
    BY <1>4 DEF RenameWrites
  <2> QED BY <1>2, <2>2, <2>3, ActKeeps
<1> QED BY <1>3, <1>4

LEMMA ActsKeep ==
    ASSUME ApiInv, NEW c \in Callers, AnswerTurn(c) \/ HistoryShown(c) PROVE ApiInv'
<1>1. MayAct(call[c]) /\ gate = c /\ UNCHANGED <<row, minted, stored, gate>>
  BY DEF AnswerTurn, HistoryShown, ApiInv, Fits, Holding, LockStages
<1>2. Touch(c, "storing") \/ Touch(c, "done")
  BY DEF AnswerTurn, HistoryShown
<1> QED BY <1>1, <1>2, ActKeeps

\* In the demo posture a row may appear that is shared and empty.
LEMMA Ensures ==
    ASSUME ApiInv, NEW c \in Callers, Ensure(c), stored' = stored
    PROVE  /\ row' \in SessionRows /\ minted' \in Nat /\ RowMeans'
           /\ PrivateStaysPrivate' /\ NothingUnderNoRow'
           /\ row.there => row' = row
<1>1. row \in SessionRows /\ minted \in Nat
  BY DEF ApiInv, ApiTypes
<1>2. CASE row' = row
  <2>1. minted' \in Nat
    BY <1>1, <1>2 DEF Ensure
  <2> QED BY <1>1, <1>2, <2>1 DEF ApiInv, RowMeans, PrivateStaysPrivate, NothingUnderNoRow
<1>3. CASE row' # row
  <2>1. row' = [NoSession EXCEPT !.there = TRUE, !.key = minted + 1] /\ ~row.there
    BY <1>3 DEF Ensure, Ensured
  <2>2. row' = [there |-> TRUE, key |-> minted + 1, owner |-> Demo, private |-> FALSE]
    BY <2>1 DEF NoSession
  <2>3. minted + 1 \in Nat /\ minted + 1 # 0
    BY <1>1
  <2>4. row' \in SessionRows
    BY <2>2, <2>3 DEF SessionRows
  <2>5. row'.there /\ row'.key # 0 /\ row'.owner = Demo /\ row'.private = FALSE
    BY <2>2, <2>3
  <2>6. minted' \in Nat
    BY <1>1, <1>3 DEF Ensure
  <2> QED BY <2>1, <2>4, <2>5, <2>6 DEF RowMeans, PrivateStaysPrivate, NothingUnderNoRow
<1> QED BY <1>2, <1>3

LEMMA DecideKeeps == ASSUME ApiInv, NEW c \in Callers, Decide(c) PROVE ApiInv'
<1>1. ~call[c].touched
  BY NothingTouched DEF Decide
<1>2. gate = c /\ UNCHANGED stored
  BY DEF Decide, ApiInv, Holding, LockStages
<1>3. /\ row' \in SessionRows /\ minted' \in Nat /\ RowMeans'
      /\ PrivateStaysPrivate' /\ NothingUnderNoRow'
  BY <1>2, Ensures DEF Decide
<1>4. ASSUME NEW new, CallStep(c, new), GateStep(c), Fits(new)', new.stage \in LockStages => gate' = c
      PROVE  ApiInv'
  BY <1>2, <1>3, <1>4, StepKeeps
<1>5. CASE UnderLock(call[c], row') # 200
  <2>1. PICK status : status = UnderLock(call[c], row')
    OBVIOUS
  <2>2. Tell(c, status) /\ Free(c)
    BY <1>5, <2>1 DEF Decide
  <2>3. CallStep(c, Unused) /\ Unused.stage \notin LockStages /\ Fits(Unused)'
    BY <1>1, <2>2, Told
  <2> QED BY <1>4, <2>2, <2>3, FreeSteps
<1>6. CASE UnderLock(call[c], row') = 200 /\ call[c].stage = "flight"
  <2>1. call' = [call EXCEPT ![c].stage = "queue", ![c].op = "chat"] /\ Free(c) /\ amiss' = amiss
    BY <1>6 DEF Decide
  <2>2. PICK old \in CallRows : old = call[c]
    BY DEF ApiInv, ApiTypes
  <2>3. PICK new : new = [old EXCEPT !.stage = "queue", !.op = "chat"]
    OBVIOUS
  <2>4. "queue" \in ApiStages /\ "chat" \in Endpoints
    BY DEF ApiStages, Endpoints, Turns
  <2>5. new \in CallRows
    BY <2>2, <2>3, <2>4 DEF CallRows
  <2>6. new.stage = "queue" /\ new.op = "chat" /\ new.touched = old.touched
    BY <2>2, <2>3, <2>4 DEF CallRows
  <2>7. call' = [call EXCEPT ![c] = new]
    BY <2>1, <2>2, <2>3
  <2>8. CallStep(c, new) /\ new.stage \notin LockStages
    BY <2>1, <2>5, <2>6, <2>7 DEF CallStep, ApiInv, LockStages
  <2>9. Fits(new)'
    BY <1>1, <2>2, <2>6 DEF Fits
  <2> QED BY <1>4, <2>1, <2>8, <2>9, FreeSteps
<1>7. CASE UnderLock(call[c], row') = 200 /\ call[c].stage # "flight"
  <2>1. To(c, "acting") /\ UNCHANGED <<gate, amiss>>
    BY <1>7 DEF Decide
  <2>2. "acting" \in ApiStages
    BY DEF ApiStages
  <2>3. PICK new \in CallRows :
          /\ call' = [call EXCEPT ![c] = new] /\ new.stage = "acting" /\ new.op = call[c].op
          /\ new.who = call[c].who /\ new.key = call[c].key /\ new.touched = call[c].touched
    BY <2>1, <2>2, ToGoes
  <2>4. MayAct(new)'
    <3>1. PICK q : q = call[c]
      OBVIOUS
    <3>2. UnderLock(q, row') = 200
      BY <1>7, <3>1
    <3>3. row'.there /\ (row'.private => row'.owner = q.who) /\ (q.op = "delete" => row'.owner = q.who)
      BY <3>2 DEF UnderLock
    <3>4. KeyFits(row', q.key, row'.private)
      BY <3>2, <3>3 DEF UnderLock
    <3> QED BY <2>3, <3>1, <3>3, <3>4 DEF MayAct
  <2>5. Fits(new)'
    BY <1>1, <2>3, <2>4 DEF Fits, ApiInv
  <2>6. CallStep(c, new) /\ GateStep(c) /\ gate' = c
    BY <1>2, <2>1, <2>3 DEF CallStep, GateStep, ApiInv
  <2> QED BY <1>4, <2>5, <2>6
<1> QED BY <1>5, <1>6, <1>7

\* Under the lock a call ends its act: it goes to "done", whatever the row is now.
LEMMA DoneKeeps ==
    ASSUME ApiInv, NEW c \in Callers, To(c, "done"), UNCHANGED <<gate, amiss, minted>>,
           row' \in SessionRows, row' = row \/ gate = c,
           RowMeans', PrivateStaysPrivate', NothingUnderNoRow'
    PROVE  ApiInv'
<1>1. "done" \in ApiStages
  BY DEF ApiStages
<1>2. PICK new \in CallRows :
        /\ call' = [call EXCEPT ![c] = new] /\ new.stage = "done" /\ new.op = call[c].op
        /\ new.who = call[c].who
  BY <1>1, ToGoes
<1>3. Fits(new)'
  BY <1>2 DEF Fits, ApiInv
<1>4. CallStep(c, new) /\ GateStep(c) /\ new.stage \notin LockStages /\ minted' \in Nat
  BY <1>2 DEF CallStep, GateStep, ApiInv, ApiTypes, LockStages
<1> QED BY <1>3, <1>4, StepKeeps

LEMMA PersistKeeps == ASSUME ApiInv, NEW c \in Callers, PersistTurn(c) PROVE ApiInv'
<1>1. MayAct(call[c]) /\ gate = c
  BY DEF PersistTurn, ApiInv, Fits, Holding, LockStages
<1>2. row' = row
  BY <1>1 DEF PersistTurn, Ensure, Ensured, MayAct
<1>3. minted' = minted /\ stored' \subseteq stored \cup {call[c].who} /\ row'.there
  BY <1>1, <1>2 DEF PersistTurn, Ensure, MayAct
<1>4. row' \in SessionRows /\ RowMeans' /\ NothingUnderNoRow'
  BY <1>2, <1>3 DEF ApiInv, ApiTypes, RowMeans, NothingUnderNoRow
<1>5. PrivateStaysPrivate'
  BY <1>1, <1>2, <1>3 DEF ApiInv, PrivateStaysPrivate, MayAct
<1>6. To(c, "done") /\ UNCHANGED <<gate, amiss>>
  BY DEF PersistTurn
<1> QED BY <1>2, <1>3, <1>4, <1>5, <1>6, DoneKeeps

LEMMA WipeKeeps == ASSUME ApiInv, NEW c \in Callers, ClearWipes(c) PROVE ApiInv'
<1>1. /\ stored' = {} /\ To(c, "done") /\ UNCHANGED <<row, minted, gate, amiss>>
  BY DEF ClearWipes
<1>2. row' \in SessionRows /\ RowMeans' /\ NothingUnderNoRow' /\ PrivateStaysPrivate'
  BY <1>1 DEF ApiInv, ApiTypes, RowMeans, NothingUnderNoRow, PrivateStaysPrivate
<1> QED BY <1>1, <1>2, DoneKeeps

LEMMA EraseKeeps == ASSUME ApiInv, NEW c \in Callers, EraseSession(c) PROVE ApiInv'
<1>1. MayAct(call[c]) /\ gate = c /\ call[c].op = "delete"
  BY DEF EraseSession, ApiInv, Fits, Holding, LockStages
<1>2. row' = NoSession /\ stored' = {} /\ To(c, "done") /\ UNCHANGED <<gate, amiss, minted>>
  BY <1>1 DEF EraseSession, MayAct
<1>3. row' \in SessionRows /\ ~row'.there /\ row'.owner = Demo /\ row'.private = FALSE
  BY <1>2 DEF NoSession, SessionRows
<1>4. RowMeans' /\ NothingUnderNoRow' /\ PrivateStaysPrivate'
  BY <1>2, <1>3 DEF RowMeans, NothingUnderNoRow, PrivateStaysPrivate
<1> QED BY <1>1, <1>2, <1>3, <1>4, DoneKeeps

LEMMA RenewKeeps == ASSUME ApiInv, NEW c \in Callers, ClearRenews(c) PROVE ApiInv'
<1>1. MayAct(call[c]) /\ gate = c
  BY DEF ClearRenews, ApiInv, Fits, Holding, LockStages
<1>2. "wiping" \in ApiStages /\ Touch(c, "wiping")
  BY DEF ApiStages, ClearRenews
<1>3. PICK new \in CallRows :
          /\ call' = [call EXCEPT ![c] = new] /\ new.stage = "wiping" /\ new.op = call[c].op
          /\ new.who = call[c].who
  BY <1>1, <1>2, TouchGoes
<1>4. amiss' = {}
  BY <1>1, <1>2, TouchGoes
<1>5. PICK old \in SessionRows : old = row
  BY DEF ApiInv, ApiTypes
<1>6. PICK named \in Nat : named = minted + 1 /\ named # 0
  BY DEF ApiInv, ApiTypes
<1>7. row' = [old EXCEPT !.key = named] /\ minted' = named /\ UNCHANGED <<stored, gate>>
  BY <1>5, <1>6 DEF ClearRenews
<1>8. PICK next : next = [old EXCEPT !.key = named]
  OBVIOUS
<1>9. /\ next \in SessionRows /\ next.key = named /\ next.there = old.there
      /\ next.owner = old.owner /\ next.private = old.private
  BY <1>5, <1>6, <1>8 DEF SessionRows
<1>10. row' \in SessionRows /\ RowMeans' /\ NothingUnderNoRow' /\ PrivateStaysPrivate'
  BY <1>5, <1>6, <1>7, <1>8, <1>9 DEF ApiInv, RowMeans, NothingUnderNoRow, PrivateStaysPrivate
<1>11. Fits(new)'
  BY <1>3 DEF Fits, ApiInv
<1>12. CallStep(c, new) /\ GateStep(c) /\ minted' \in Nat /\ gate' = c
  BY <1>1, <1>3, <1>4, <1>6, <1>7 DEF CallStep, GateStep
<1> QED BY <1>1, <1>10, <1>11, <1>12, StepKeeps

LEMMA DeleteKeeps == ASSUME ApiInv, NEW c \in Callers, DeleteWipes(c) PROVE ApiInv'
<1>1. MayAct(call[c]) /\ gate = c /\ call[c].op = "delete"
  BY DEF DeleteWipes, ApiInv, Fits, Holding, LockStages
<1>2. "erasing" \in ApiStages /\ Touch(c, "erasing")
  BY DEF ApiStages, DeleteWipes
<1>3. PICK new \in CallRows :
          /\ call' = [call EXCEPT ![c] = new] /\ new.stage = "erasing" /\ new.op = call[c].op
          /\ new.who = call[c].who /\ new.key = call[c].key
  BY <1>1, <1>2, TouchGoes
<1>4. amiss' = {}
  BY <1>1, <1>2, TouchGoes
<1>5. stored' = {} /\ UNCHANGED <<row, minted, gate>>
  BY DEF DeleteWipes
<1>6. row' \in SessionRows /\ minted' \in Nat /\ RowMeans' /\ NothingUnderNoRow' /\ PrivateStaysPrivate'
  BY <1>5 DEF ApiInv, ApiTypes, RowMeans, NothingUnderNoRow, PrivateStaysPrivate
<1>7. MayAct(new)'
  BY <1>1, <1>3, <1>5 DEF MayAct
<1>8. Fits(new)'
  BY <1>1, <1>3, <1>7 DEF Fits, ApiInv
<1>9. CallStep(c, new) /\ GateStep(c) /\ gate' = c
  BY <1>1, <1>3, <1>4, <1>5 DEF CallStep, GateStep
<1> QED BY <1>5, <1>6, <1>8, <1>9, StepKeeps

LEMMA EndsKeep == ASSUME ApiInv, NEW c \in Callers, Finish(c) \/ ApiFails(c) PROVE ApiInv'
<1>1. PICK status \in {200, 503, 500} : Tell(c, status)
  BY DEF Finish, ApiFails
<1>2. status \notin Refusals
  BY DEF Refusals
<1>3. GateStep(c) /\ UNCHANGED <<row, minted, stored>>
  BY FreeSteps DEF Finish, ApiFails
<1> QED BY <1>1, <1>2, <1>3, TellKeeps

LEMMA CreateSessionKeeps == ASSUME ApiInv, NEW u \in Users, CreateSession(u) PROVE ApiInv'
<1>1. /\ ~row.there /\ minted' = minted + 1 /\ UNCHANGED <<stored, gate, call, amiss>>
      /\ row' = [there |-> TRUE, key |-> minted + 1, owner |-> u, private |-> TRUE]
  BY DEF CreateSession
<1>2. minted' \in Nat /\ minted + 1 # 0
  BY <1>1 DEF ApiInv, ApiTypes
<1>3. row' \in SessionRows /\ row'.there /\ row'.key # 0 /\ row'.owner = u /\ row'.private
  BY <1>1, <1>2 DEF SessionRows
<1>4. stored = {}
  BY <1>1 DEF ApiInv, NothingUnderNoRow
<1>5. RowMeans' /\ NothingUnderNoRow' /\ PrivateStaysPrivate'
  BY <1>1, <1>3, <1>4, CallersAssumption DEF RowMeans, NothingUnderNoRow, PrivateStaysPrivate
<1>6. \A c \in Callers : Holding(c)' /\ Fits(call[c])'
  <2>1. SUFFICES ASSUME NEW c \in Callers PROVE Holding(c)' /\ Fits(call[c])'
    OBVIOUS
  <2>2. PICK q : q = call[c]
    OBVIOUS
  <2>3. q = call'[c] /\ Fits(q) /\ Holding(c)
    BY <1>1, <2>1, <2>2 DEF ApiInv
  <2>4. Fits(q)'
    BY <1>1, <2>3 DEF Fits, MayAct
  <2> QED BY <1>1, <2>3, <2>4 DEF Holding
<1>7. ApiTypes'
  BY <1>1, <1>2, <1>3 DEF ApiInv, ApiTypes
<1> QED BY <1>1, <1>5, <1>6, <1>7 DEF ApiInv

LEMMA ApiStutters == ASSUME ApiInv, UNCHANGED apiVars PROVE ApiInv'
<1>1. UNCHANGED <<row, minted, stored, gate, call, amiss>>
  BY DEF apiVars
<1>2. ApiTypes' /\ RowMeans' /\ amiss' = {} /\ PrivateStaysPrivate' /\ NothingUnderNoRow'
  BY <1>1 DEF ApiInv, ApiTypes, RowMeans, PrivateStaysPrivate, NothingUnderNoRow
<1>3. \A c \in Callers : Holding(c)' /\ Fits(call[c])'
  BY <1>1 DEF ApiInv, Holding, Fits, MayAct
<1> QED BY <1>2, <1>3 DEF ApiInv

LEMMA ApiSteps == ASSUME ApiInv, [ApiNext]_apiVars PROVE ApiInv'
<1>1. ASSUME NEW c \in Callers, ApiStep(c) PROVE ApiInv'
  <2>1. CASE \E op \in Endpoints, who \in Users \cup {Anyone}, named \in 0..MaxSessionKey, guest \in BOOLEAN :
               Begin(c, op, who, named, guest)
    <3>1. 0..MaxSessionKey \subseteq Nat
      OBVIOUS
    <3> QED BY <1>1, <2>1, <3>1, BeginKeeps
  <2>2. CASE GuestCheck(c) \/ Check(c) \/ RenameReads(c) \/ RenameWrites(c)
    BY <1>1, <2>2, ChecksKeep, RenameReadsKeeps, RenameWritesKeeps
  <2>3. CASE Take(c) \/ TurnedAway(c) \/ Decide(c) \/ Staffed(c)
    BY <1>1, <2>3, TakeKeeps, ChecksKeep, DecideKeeps
  <2>4. CASE AnswerTurn(c) \/ PersistTurn(c) \/ HistoryShown(c)
    BY <1>1, <2>4, ActsKeep, PersistKeeps
  <2>5. CASE ClearRenews(c) \/ ClearWipes(c) \/ DeleteWipes(c) \/ EraseSession(c)
    BY <1>1, <2>5, RenewKeeps, WipeKeeps, DeleteKeeps, EraseKeeps
  <2>6. CASE Finish(c) \/ ApiFails(c)
    BY <1>1, <2>6, EndsKeep
  <2> QED BY <1>1, <2>1, <2>2, <2>3, <2>4, <2>5, <2>6 DEF ApiStep
<1>2. CASE UNCHANGED apiVars
  BY <1>2, ApiStutters
<1> QED BY <1>1, <1>2, CreateSessionKeeps DEF ApiNext

LEMMA ApiStarts == ASSUME ApiInit PROVE ApiInv
<1>1. /\ row = NoSession /\ minted = 0 /\ stored = {} /\ gate = NoHolder
      /\ call = [c \in Callers |-> Unused] /\ amiss = {}
  BY DEF ApiInit
<1>2. row \in SessionRows /\ ~row.there /\ row.owner = Demo /\ row.private = FALSE
  BY <1>1 DEF NoSession, SessionRows
<1>3. call \in [Callers -> CallRows]
  BY <1>1, UnusedFits
<1>4. \A c \in Callers : Holding(c) /\ Fits(call[c])
  BY <1>1, UnusedFits DEF Holding, Fits, LockStages
<1> QED BY <1>1, <1>2, <1>3, <1>4 DEF ApiInv, ApiTypes, RowMeans, PrivateStaysPrivate, NothingUnderNoRow

\* The invariant of the calls on one conversation number: who acts holds the
\* lock and acts on the session found under it, a rename on the key it read.
THEOREM ApiInvariant == ApiSpec => []ApiInv
<1>1. ApiInit => ApiInv
  BY ApiStarts
<1>2. ApiInv /\ [ApiNext]_apiVars => ApiInv'
  BY ApiSteps
<1> QED BY <1>1, <1>2, PTL DEF ApiSpec

\* An HTTP call acts on the session it was checked against, a refusal means
\* that nothing was done, and private transcripts stay private, for any number
\* of users, calls in flight and generations of the number.
THEOREM CallsMean == ApiSpec => []CallsMeanWhatTheySay
<1>1. ApiInv => CallsMeanWhatTheySay
  BY DEF ApiInv, CallsMeanWhatTheySay, ActsOnTheNamedSession, RefusedMeansUntouched
<1> QED BY <1>1, ApiInvariant, PTL

=============================================================================
