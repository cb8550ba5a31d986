------------------------- MODULE ConfirmationProofs -------------------------
(***************************************************************************)
(* The ledger's safety properties for every set of callers, actions,       *)
(* sessions and envelopes, by the inductive invariant LedgerInv.  Then its *)
(* use: every irreversible action of a conversation was confirmed as it    *)
(* was offered, is never run after it was called off, and is not           *)
(* forgotten; LedgerInv is extended by what the turn that holds the        *)
(* session lock may rely on.  Then the public conversation, where a        *)
(* shopping turn ends whatever a support turn had staged.  Last the        *)
(* rolling summary of a conversation, whose rows several compressions      *)
(* write.                                                                  *)
(***************************************************************************)
EXTENDS Confirmation, PublicChat, RollingSummary, FiniteSetTheorems, SequenceTheorems, TLAPS

-----------------------------------------------------------------------------
(* The ledger. *)

\* An absent row is none of the rows the table can hold.
LEMMA NoRowIsNoRow == NoRow \notin Row
BY NoneAssumption DEF NoRow, Row

\* A transaction a caller can leave undecided writes a legal row version.
LEMMA OpenWriteCases ==
    ASSUME TypeOK, NEW c \in Callers, OpenWrite(c) # NoRow
    PROVE  LET b == req[c]
               row == rows[b.action]
           IN  /\ OpenWrite(c) \in Row
               /\ \/ pc[c] = "reserve" /\ row = NoRow /\ b.session \in alive
                     /\ OpenWrite(c) = Reservation(b)
                  \/ pc[c] = "complete" /\ Conditions(row, b)
                     /\ OpenWrite(c) = Settle(row, "completed", held[c])
                  \/ pc[c] \in {"mark", "unwind"} /\ Conditions(row, b)
                     /\ OpenWrite(c) = Settle(row, "unknown", None)
  <1> DEFINE b == req[c]
             row == rows[b.action]
  <1>1. /\ pc[c] # "idle" => (b \in Binding /\ row \in Row \cup {NoRow})
        /\ held[c] \in Envelopes \cup {None}
    BY DEF TypeOK, Binding
  <1>2. CASE pc[c] = "reserve" /\ row = NoRow /\ b.session \in alive
    <2>1. OpenWrite(c) = Reservation(b)
      BY <1>2 DEF OpenWrite
    <2>2. Reservation(b) \in Row
      BY <1>1, <1>2 DEF Reservation, Row, Binding
    <2> QED BY <1>2, <2>1, <2>2
  <1>3. CASE pc[c] = "complete" /\ Conditions(row, b)
    <2>1. OpenWrite(c) = Settle(row, "completed", held[c])
      BY <1>3 DEF OpenWrite
    <2>2. row \in Row
      BY <1>1, <1>3 DEF Conditions, NoRow
    <2>3. Settle(row, "completed", held[c]) \in Row
      BY <1>1, <2>2 DEF Settle, Row
    <2> QED BY <1>3, <2>1, <2>3
  <1>4. CASE pc[c] \in {"mark", "unwind"} /\ Conditions(row, b)
    <2>1. OpenWrite(c) = Settle(row, "unknown", None)
      BY <1>4 DEF OpenWrite
    <2>2. row \in Row
      BY <1>1, <1>4 DEF Conditions, NoRow
    <2>3. Settle(row, "unknown", None) \in Row
      BY <2>2 DEF Row, Settle
    <2> QED BY <1>4, <2>1, <2>3
  <1>5. \/ pc[c] = "reserve" /\ row = NoRow /\ b.session \in alive
        \/ pc[c] = "complete" /\ Conditions(row, b)
        \/ pc[c] \in {"mark", "unwind"} /\ Conditions(row, b)
    BY DEF OpenWrite
  <1> QED BY <1>2, <1>3, <1>4, <1>5

\* The empty ledger satisfies the invariant.
LEMMA LedgerInitially == Init => LedgerInv
  <1> SUFFICES ASSUME Init PROVE LedgerInv OBVIOUS
  <1>1. TypeOK
    BY MaxIncarnationAssumption, NoneAssumption
       DEF Init, TypeOK, Steps, NoAnswer, Answer, Statuses
  <1>2. OwnersInv /\ RowsInv /\ LimboInv /\ AnswersInv /\ AnswersAreSound
    BY NoneAssumption
       DEF Init, OwnersInv, Owner, RowsInv, LimboInv, AnswersInv, AnswersAreSound, NoRow
  <1> QED BY <1>1, <1>2 DEF LedgerInv

----------------------------------------------------------------------------
(* Every action keeps LedgerInv.                                           *)

\* An undecided write is a legal row version.
LEMMA UndecidedIsTyped ==
    ASSUME LedgerInv, NEW c \in Callers, pc[c] # "idle", Undecided(c)
    PROVE  limbo' \in [Actions -> Row \cup {NoRow}]
BY OpenWriteCases DEF LedgerInv, TypeOK, Undecided, Binding

\* An undecided write is a first reservation or settles a row in progress.
LEMMA UndecidedKeepsLimbo ==
    ASSUME LedgerInv, NEW c \in Callers, pc[c] # "idle", Undecided(c),
           UNCHANGED <<rows, sessions, provider>>
    PROVE  LimboInv'
  <1> DEFINE a == req[c].action
  <1> USE DEF LedgerInv
  <1>1. req[c] \in Binding /\ a \in Actions
    BY DEF TypeOK, Binding
  <1>2. CASE UNCHANGED limbo
    BY <1>2 DEF LimboInv, sessions, provider
  <1>3. CASE /\ OpenWrite(c) # NoRow
             /\ limbo' = [limbo EXCEPT ![a] = OpenWrite(c)]
    <2>1. \A o \in Actions : o # a => limbo'[o] = limbo[o]
      BY <1>3 DEF TypeOK
    <2>2. limbo'[a] = OpenWrite(c)
      BY <1>1, <1>3 DEF TypeOK
    <2>3. CASE pc[c] = "reserve" /\ rows[a] = NoRow /\ req[c].session \in alive
               /\ OpenWrite(c) = Reservation(req[c])
      BY <1>1, <2>1, <2>2, <2>3 DEF LimboInv, Reservation, sessions, provider
    <2>4. CASE pc[c] = "complete" /\ Conditions(rows[a], req[c])
               /\ OpenWrite(c) = Settle(rows[a], "completed", held[c])
      <3>1. /\ rows[a] # NoRow /\ dispatches[a] = 1
            /\ held[c] = returned[a] /\ held[c] \in Storable
        BY <2>4 DEF OwnersInv, Owner
      <3> QED BY <2>1, <2>2, <2>4, <3>1 DEF LimboInv, Settle, Conditions, sessions, provider
    <2>5. CASE pc[c] \in {"mark", "unwind"} /\ Conditions(rows[a], req[c])
               /\ OpenWrite(c) = Settle(rows[a], "unknown", None)
      <3>1. rows[a] # NoRow
        BY <2>5 DEF OwnersInv, Owner
      <3> QED BY <2>1, <2>2, <2>5, <3>1 DEF LimboInv, Settle, Conditions, sessions, provider
    <2> QED BY <1>1, <1>3, <2>3, <2>4, <2>5, OpenWriteCases
  <1> QED BY <1>2, <1>3 DEF Undecided

\* A new call has no row, no answer and nothing to dispatch yet.
LEMMA ExecuteKeeps ==
    ASSUME LedgerInv, NEW c \in Callers, NEW b \in Binding, Execute(c, b)
    PROVE  LedgerInv'
  <1>1. TypeOK'
    BY MaxIncarnationAssumption
       DEF TypeOK, Steps, Answer, NoAnswer, Statuses, LedgerInv, Execute, Goto, sessions,
           provider
  <1>2. OwnersInv'
    BY DEF OwnersInv, Owner, LedgerInv, Execute, Goto, provider
  <1>3. RowsInv'
    BY DEF RowsInv, LedgerInv, Execute, sessions, provider
  <1>4. LimboInv'
    BY DEF LimboInv, LedgerInv, Execute, sessions, provider
  <1>5. AnswersInv'
    BY DEF TypeOK, AnswersInv, LedgerInv, Execute, Goto
  <1>6. AnswersAreSound'
    BY DEF TypeOK, AnswersAreSound, LedgerInv, Execute, Goto, provider
  <1> QED BY <1>1, <1>2, <1>3, <1>4, <1>5, <1>6 DEF LedgerInv

\* A new read likewise.
LEMMA LookUpKeeps ==
    ASSUME LedgerInv, NEW c \in Callers, NEW b \in Binding, LookUp(c, b)
    PROVE  LedgerInv'
  <1>1. TypeOK'
    BY MaxIncarnationAssumption
       DEF TypeOK, Steps, Answer, NoAnswer, Statuses, LedgerInv, LookUp, Goto, sessions,
           provider
  <1>2. OwnersInv'
    BY DEF OwnersInv, Owner, LedgerInv, LookUp, Goto, provider
  <1>3. RowsInv'
    BY DEF RowsInv, LedgerInv, LookUp, sessions, provider
  <1>4. LimboInv'
    BY DEF LimboInv, LedgerInv, LookUp, sessions, provider
  <1>5. AnswersInv'
    BY DEF TypeOK, AnswersInv, LedgerInv, LookUp, Goto
  <1>6. AnswersAreSound'
    BY DEF TypeOK, AnswersAreSound, LedgerInv, LookUp, Goto, provider
  <1> QED BY <1>1, <1>2, <1>3, <1>4, <1>5, <1>6 DEF LedgerInv

\* The caller whose row is committed becomes the only owner of its action: an
\* owner needs a row, and there was none.
LEMMA ReserveKeeps ==
    ASSUME LedgerInv, NEW c \in Callers, Reserve(c)
    PROVE  LedgerInv'
  <1>1. TypeOK'
    BY DEF TypeOK, Steps, Row, Binding, LedgerInv, Reserve, Reservation, Goto, sessions,
           provider
  <1>2. OwnersInv'
    BY DEF TypeOK, OwnersInv, Owner, RowsInv, Binding, NoRow, LedgerInv, Reserve, Unlocked,
           Reservation, Goto, provider
  <1>3. RowsInv'
    BY DEF TypeOK, RowsInv, LedgerInv, Reserve, Reservation, sessions, provider
  <1>4. LimboInv'
    BY DEF LimboInv, LedgerInv, Reserve, Unlocked, sessions, provider
  <1>5. AnswersInv'
    BY DEF AnswersInv, NoRow, LedgerInv, Reserve, Goto
  <1>6. AnswersAreSound'
    BY DEF AnswersInv, AnswersAreSound, NoRow, LedgerInv, Reserve, Goto, provider
  <1> QED BY <1>1, <1>2, <1>3, <1>4, <1>5, <1>6 DEF LedgerInv

\* A refused reservation changes nothing but the step.
LEMMA ReserveRefusedKeeps ==
    ASSUME LedgerInv, NEW c \in Callers, ReserveRefused(c)
    PROVE  LedgerInv'
  <1>1. TypeOK'
    BY DEF TypeOK, Steps, LedgerInv, ReserveRefused, Goto, sessions, provider
  <1>2. OwnersInv'
    BY DEF OwnersInv, Owner, LedgerInv, ReserveRefused, Goto, provider
  <1>3. RowsInv'
    BY DEF RowsInv, LedgerInv, ReserveRefused, sessions, provider
  <1>4. LimboInv'
    BY DEF LimboInv, LedgerInv, ReserveRefused, sessions, provider
  <1>5. AnswersInv'
    BY DEF AnswersInv, LedgerInv, ReserveRefused, Goto
  <1>6. AnswersAreSound'
    BY DEF AnswersAreSound, LedgerInv, ReserveRefused, Goto, provider
  <1> QED BY <1>1, <1>2, <1>3, <1>4, <1>5, <1>6 DEF LedgerInv

\* An undecided reservation makes no owner and no answer but "unavailable".
LEMMA ReserveLostKeeps ==
    ASSUME LedgerInv, NEW c \in Callers, ReserveLost(c)
    PROVE  LedgerInv'
  <1>1. TypeOK'
    BY UndecidedIsTyped
       DEF TypeOK, Steps, Answer, Statuses, Binding, LedgerInv, ReserveLost, Reply, sessions,
           provider, Goto
  <1>2. OwnersInv'
    BY DEF TypeOK, OwnersInv, Owner, Undecided, OpenWrite, Binding, LedgerInv, ReserveLost,
           Reply, provider, Goto
  <1>3. RowsInv'
    BY DEF RowsInv, LedgerInv, ReserveLost, sessions, provider
  <1>4. LimboInv'
    BY UndecidedKeepsLimbo DEF ReserveLost
  <1>5. AnswersInv'
    BY DEF TypeOK, AnswersInv, LedgerInv, ReserveLost, Reply, Goto
  <1>6. AnswersAreSound'
    BY DEF TypeOK, AnswersAreSound, LedgerInv, ReserveLost, Reply, provider, Goto
  <1> QED BY <1>1, <1>2, <1>3, <1>4, <1>5, <1>6 DEF LedgerInv

\* What a read answers is what the row says: a completed row holds what the
\* tool answered, and a row that matches belongs to a session that lives.
LEMMA ReadRowKeeps ==
    ASSUME LedgerInv, NEW c \in Callers, ReadRow(c)
    PROVE  LedgerInv'
  <1> USE DEF LedgerInv, ReadRow, sessions, provider
  <1> DEFINE row == rows[req[c].action]
  <1>1. PICK status \in Statuses, replayed \in BOOLEAN, result \in Envelopes \cup {None} :
          /\ Reply(c, status, result, replayed)
          /\ status = "completed" => /\ row.status = "completed"
                                     /\ row.result = result
                                     /\ Matches(row, req[c])
    <2>1. row \in Row \cup {NoRow} /\ req[c] \in Binding
      BY DEF TypeOK, Binding
    <2>2. CASE Observed(row, req[c]) = "completed"
      <3>1. row \in Row /\ row.status = "completed" /\ Matches(row, req[c])
        BY <2>1, <2>2 DEF Observed
      <3>2. row.result \in Envelopes \cup {None}
        BY <3>1 DEF Row
      <3>3. Reply(c, "completed", row.result, TRUE)
        BY <2>2
      <3> QED BY <3>1, <3>2, <3>3 DEF Statuses
    <2>3. CASE Observed(row, req[c]) # "completed"
      <3>1. Observed(row, req[c]) \in Statuses
        BY DEF Observed, Statuses
      <3>2. \/ Reply(c, "unavailable", None, FALSE)
            \/ Reply(c, Observed(row, req[c]), None, FALSE)
        BY <2>3
      <3> QED BY <2>3, <3>1, <3>2 DEF Statuses
    <2> QED BY <2>2, <2>3
  <1> HIDE DEF ReadRow
  <1>2. /\ UNCHANGED <<rows, limbo, req, held, sessions, provider, born>>
        /\ pc[c] \in {"lookup", "recheck"}
    BY DEF ReadRow
  <1>3. TypeOK'
    BY <1>1, <1>2 DEF Reply, Goto, TypeOK, Steps, Answer, Binding
  <1>4. OwnersInv' /\ RowsInv' /\ LimboInv'
    BY <1>1, <1>2 DEF Reply, Goto, TypeOK, OwnersInv, Owner, RowsInv, LimboInv
  <1>5. AnswersInv'
    BY <1>1, <1>2 DEF Reply, Goto, TypeOK, AnswersInv
  <1>6. AnswersAreSound'
    <2> SUFFICES ASSUME NEW d \in Callers, pc'[d] = "answered", ans'[d].status = "completed"
                 PROVE  /\ ans'[d].result = returned[req[d].action]
                        /\ ans'[d].result \in Storable
                        /\ sent[req[d].action] = req[d]
                        /\ ans'[d].replayed => ans'[d].seen = born[req[d].action]
      BY <1>2 DEF AnswersAreSound
    <2>1. CASE d # c
      BY <1>1, <1>2, <2>1 DEF Reply, Goto, TypeOK, AnswersAreSound
    <2>2. CASE d = c
      <3>1. /\ row.status = "completed" /\ Matches(row, req[c])
            /\ ans'[c].result = row.result
            /\ ans'[c].seen = incarnation[req[c].session]
        BY <1>1, <2>2 DEF Reply, TypeOK
      <3>2. req[c] \in Binding /\ row \in Row
        <4>1. req[c] \in Binding
          BY <1>2 DEF TypeOK
        <4>2. row \in Row \cup {NoRow}
          BY <4>1 DEF TypeOK, Binding
        <4> QED BY <3>1, <4>1, <4>2 DEF NoRow
      <3>3. /\ dispatches[req[c].action] = 1 /\ row.result = returned[req[c].action]
            /\ row.result \in Storable
            /\ row.live = row.session /\ born[req[c].action] = incarnation[row.session]
            /\ sent[req[c].action] \in Binding /\ sent[req[c].action].action = req[c].action
            /\ sent[req[c].action].session = row.session
            /\ sent[req[c].action].claim = row.claim
        BY <3>1, <3>2, NoneAssumption DEF RowsInv, Matches, Binding
      <3> QED BY <2>2, <3>1, <3>2, <3>3 DEF Matches, Binding
    <2> QED BY <2>1, <2>2
  <1> QED BY <1>3, <1>4, <1>5, <1>6

\* A read that fails tells nothing.
LEMMA ReadFailsKeeps ==
    ASSUME LedgerInv, NEW c \in Callers, ReadFails(c)
    PROVE  LedgerInv'
  <1>1. TypeOK'
    BY DEF TypeOK, Steps, Answer, Statuses, Binding, LedgerInv, ReadFails, Reply, sessions,
           provider, Goto
  <1>2. OwnersInv'
    BY DEF OwnersInv, Owner, LedgerInv, ReadFails, Reply, provider, Goto
  <1>3. RowsInv'
    BY DEF RowsInv, LedgerInv, ReadFails, sessions, provider
  <1>4. LimboInv'
    BY DEF LimboInv, LedgerInv, ReadFails, sessions, provider
  <1>5. AnswersInv'
    BY DEF TypeOK, AnswersInv, LedgerInv, ReadFails, Reply, Goto
  <1>6. AnswersAreSound'
    BY DEF TypeOK, AnswersAreSound, LedgerInv, ReadFails, Reply, provider, Goto
  <1> QED BY <1>1, <1>2, <1>3, <1>4, <1>5, <1>6 DEF LedgerInv

\* The owner enters the tool for the first time.
LEMMA InvokeKeeps ==
    ASSUME LedgerInv, NEW c \in Callers, Invoke(c)
    PROVE  LedgerInv'
  <1>1. TypeOK'
    BY DEF TypeOK, Steps, Binding, LedgerInv, Invoke, Goto, sessions
  <1>2. OwnersInv'
    BY DEF TypeOK, OwnersInv, Owner, Binding, LedgerInv, Invoke, Goto
  <1>3. RowsInv'
    BY DEF TypeOK, OwnersInv, Owner, RowsInv, LedgerInv, Invoke, sessions
  <1>4. LimboInv'
    BY DEF OwnersInv, Owner, LimboInv, LedgerInv, Invoke, sessions
  <1>5. AnswersInv'
    BY DEF AnswersInv, LedgerInv, Invoke, Goto
  <1>6. AnswersAreSound'
    BY DEF OwnersInv, Owner, AnswersInv, AnswersAreSound, LedgerInv, Invoke, Goto
  <1> QED BY <1>1, <1>2, <1>3, <1>4, <1>5, <1>6 DEF LedgerInv

\* The owner is the one caller the tool answers.
LEMMA ReturnKeeps ==
    ASSUME LedgerInv, NEW c \in Callers, NEW r \in Envelopes, Return(c, r)
    PROVE  LedgerInv'
  <1>1. TypeOK'
    <2>1. pc' \in [Callers -> Steps] /\ held' \in [Callers -> Envelopes \cup {None}]
      <3>1. CASE r \in Storable
        BY <3>1 DEF TypeOK, Steps, LedgerInv, Return, Goto
      <3>2. CASE r \notin Storable
        BY <3>2 DEF TypeOK, Steps, LedgerInv, Return, Goto
      <3> QED BY <3>1, <3>2
    <2>2. returned' \in [Actions -> Envelopes \cup {None}]
      BY DEF TypeOK, LedgerInv, Return
    <2>3. \A d \in Callers : pc'[d] # "idle" => req'[d] \in Binding
      BY DEF TypeOK, LedgerInv, Return, Goto
    <2> QED BY <2>1, <2>2, <2>3 DEF TypeOK, LedgerInv, Return, sessions
  <1>2. OwnersInv'
    BY NoneAssumption, StorableAssumption, MaxIncarnationAssumption
       DEF TypeOK, OwnersInv, Owner, RowsInv, LimboInv, Binding, LedgerInv, Return, Goto
  <1>3. RowsInv'
    BY DEF OwnersInv, Owner, RowsInv, LedgerInv, Return, sessions
  <1>4. LimboInv'
    BY DEF OwnersInv, Owner, LimboInv, LedgerInv, Return, sessions
  <1>5. AnswersInv'
    BY DEF TypeOK, AnswersInv, LedgerInv, Return, Goto
  <1>6. AnswersAreSound'
    BY DEF TypeOK, OwnersInv, Owner, AnswersInv, AnswersAreSound, LedgerInv, Return, Goto
  <1> QED BY <1>1, <1>2, <1>3, <1>4, <1>5, <1>6 DEF LedgerInv

\* An exception leaves the row in progress.
LEMMA ToolRaisesKeeps ==
    ASSUME LedgerInv, NEW c \in Callers, ToolRaises(c)
    PROVE  LedgerInv'
  <1>1. TypeOK'
    BY DEF TypeOK, Steps, LedgerInv, ToolRaises, Goto, sessions, provider
  <1>2. OwnersInv'
    BY DEF OwnersInv, Owner, LedgerInv, ToolRaises, Goto, provider
  <1>3. RowsInv'
    BY DEF RowsInv, LedgerInv, ToolRaises, sessions, provider
  <1>4. LimboInv'
    BY DEF LimboInv, LedgerInv, ToolRaises, sessions, provider
  <1>5. AnswersInv'
    BY DEF AnswersInv, LedgerInv, ToolRaises, Goto
  <1>6. AnswersAreSound'
    BY DEF AnswersAreSound, LedgerInv, ToolRaises, Goto, provider
  <1> QED BY <1>1, <1>2, <1>3, <1>4, <1>5, <1>6 DEF LedgerInv

\* The receipt is what the tool answered.
LEMMA CompleteKeeps ==
    ASSUME LedgerInv, NEW c \in Callers, Complete(c)
    PROVE  LedgerInv'
  <1>1. TypeOK'
    BY NoneAssumption, StorableAssumption
       DEF TypeOK, Steps, Answer, Statuses, Row, Binding, OwnersInv, Owner, LedgerInv,
           Complete, Settle, Reply, Drop, sessions, provider, Goto
  <1>2. OwnersInv'
    BY DEF TypeOK, OwnersInv, Owner, LedgerInv, Complete, Reply, Drop, provider, Goto
  <1>3. RowsInv'
    BY DEF OwnersInv, Owner, RowsInv, NoRow, LedgerInv, Complete, Settle, sessions, provider
  <1>4. LimboInv'
    BY DEF LimboInv, LedgerInv, Complete, Unlocked, sessions, provider
  <1>5. AnswersInv'
    BY DEF TypeOK, AnswersInv, Binding, LedgerInv, Complete, Settle, Reply, Goto
  <1>6. AnswersAreSound'
    BY DEF TypeOK, OwnersInv, Owner, AnswersAreSound, LedgerInv, Complete, Reply, provider, Goto
  <1> QED BY <1>1, <1>2, <1>3, <1>4, <1>5, <1>6 DEF LedgerInv

\* An undecided receipt is what the tool answered.
LEMMA CompleteLostKeeps ==
    ASSUME LedgerInv, NEW c \in Callers, CompleteLost(c)
    PROVE  LedgerInv'
  <1>1. TypeOK'
    BY UndecidedIsTyped
       DEF TypeOK, Steps, LedgerInv, CompleteLost, Goto, Drop, sessions, provider
  <1>2. OwnersInv'
    BY DEF TypeOK, OwnersInv, Owner, Undecided, Binding, LedgerInv, CompleteLost, Goto, Drop,
           provider
  <1>3. RowsInv'
    BY DEF RowsInv, LedgerInv, CompleteLost, sessions, provider
  <1>4. LimboInv'
    BY UndecidedKeepsLimbo DEF CompleteLost
  <1>5. AnswersInv'
    BY DEF AnswersInv, LedgerInv, CompleteLost, Goto
  <1>6. AnswersAreSound'
    BY DEF AnswersAreSound, LedgerInv, CompleteLost, Goto, provider
  <1> QED BY <1>1, <1>2, <1>3, <1>4, <1>5, <1>6 DEF LedgerInv

\* A cancelled owner stays the owner until it has marked the row.
LEMMA CancelKeeps ==
    ASSUME LedgerInv, NEW c \in Callers, Cancel(c)
    PROVE  LedgerInv'
  <1>1. TypeOK'
    BY DEF TypeOK, Steps, LedgerInv, Cancel, Goto, Drop, sessions, provider
  <1>2. OwnersInv'
    BY DEF TypeOK, OwnersInv, Owner, LedgerInv, Cancel, Goto, Drop, provider
  <1>3. RowsInv'
    BY DEF RowsInv, LedgerInv, Cancel, sessions, provider
  <1>4. LimboInv'
    BY DEF LimboInv, LedgerInv, Cancel, sessions, provider
  <1>5. AnswersInv'
    BY DEF AnswersInv, LedgerInv, Cancel, Goto
  <1>6. AnswersAreSound'
    BY DEF AnswersAreSound, LedgerInv, Cancel, Goto, provider
  <1> QED BY <1>1, <1>2, <1>3, <1>4, <1>5, <1>6 DEF LedgerInv

\* The marked row was in progress and its owner leaves or answers "unknown".
LEMMA MarkUnknownKeeps ==
    ASSUME LedgerInv, NEW c \in Callers, MarkUnknown(c)
    PROVE  LedgerInv'
  <1> DEFINE a == req[c].action
  <1> USE DEF LedgerInv
  <1>1. /\ pc[c] \in {"mark", "unwind"} /\ req[c] \in Binding /\ a \in Actions /\ rows[a] \in Row
        /\ rows[a].session = req[c].session /\ rows[a].claim = req[c].claim
        /\ UNCHANGED <<held, incarnation, alive, dispatches, sent, returned, born>>
    BY DEF MarkUnknown, TypeOK, OwnersInv, Owner, Binding, sessions, provider
  <1>2. /\ pc' = [pc EXCEPT ![c] = IF pc[c] = "mark" THEN "answered" ELSE "idle"]
        /\ req' = [req EXCEPT ![c] = IF pc[c] = "mark" THEN req[c] ELSE NoBinding]
        /\ \A d \in Callers : d # c => ans'[d] = ans[d]
        /\ ans' \in [Callers -> Answer]
        /\ pc[c] = "mark" => ans'[c].status = "unknown"
    <2>1. CASE pc[c] = "mark"
      <3>1. /\ pc' = [pc EXCEPT ![c] = "answered"] /\ req' = req
            /\ ans' = [ans EXCEPT ![c] = [status |-> "unknown", result |-> None, replayed |-> FALSE,
                                          seen |-> incarnation[req[c].session]]]
        BY <2>1 DEF MarkUnknown, Reply, Goto
      <3>2. [status |-> "unknown", result |-> None, replayed |-> FALSE,
             seen |-> incarnation[req[c].session]] \in Answer
        BY <1>1 DEF Answer, Statuses, Binding, TypeOK
      <3> QED BY <2>1, <3>1, <3>2 DEF TypeOK
    <2>2. CASE pc[c] = "unwind"
      BY <1>1, <2>2 DEF MarkUnknown, Leave, Goto, TypeOK
    <2> QED BY <1>1, <2>1, <2>2
  <1>3. /\ pc' \in [Callers -> Steps] /\ req' \in [Callers -> Binding \cup {NoBinding}]
        /\ \A d \in Callers : pc'[d] # "idle" => req'[d] \in Binding
    BY <1>1, <1>2 DEF TypeOK, Steps
  <1>4. CASE UNCHANGED <<rows, limbo>>
    <2>1. TypeOK'
      BY <1>1, <1>2, <1>3, <1>4 DEF TypeOK
    <2>2. OwnersInv'
      BY <1>1, <1>2, <1>4 DEF TypeOK, OwnersInv, Owner
    <2>3. RowsInv' /\ LimboInv'
      BY <1>1, <1>4 DEF RowsInv, LimboInv
    <2>4. AnswersInv'
      BY <1>1, <1>2, <1>4 DEF TypeOK, AnswersInv
    <2>5. AnswersAreSound'
      BY <1>1, <1>2, <1>4 DEF TypeOK, AnswersAreSound
    <2> QED BY <2>1, <2>2, <2>3, <2>4, <2>5
  <1>5. CASE /\ limbo[a] = NoRow /\ limbo' = limbo /\ Conditions(rows[a], req[c])
             /\ rows' = [rows EXCEPT ![a] = Settle(rows[a], "unknown", None)]
    <2>1. /\ rows' \in [Actions -> Row \cup {NoRow}] /\ rows'[a] # NoRow
          /\ \A o \in Actions : o # a => rows'[o] = rows[o]
          /\ rows'[a].session = rows[a].session /\ rows'[a].claim = rows[a].claim
          /\ rows'[a].live = rows[a].live /\ rows[a].status = "in_progress"
          /\ rows'[a].status = "unknown" /\ rows'[a].result = None
      BY <1>1, <1>5 DEF TypeOK, Settle, Row, NoRow, Conditions
    <2>2. TypeOK'
      BY <1>1, <1>2, <1>3, <1>5, <2>1 DEF TypeOK
    <2>3. OwnersInv'
      <3>1. \A d \in Callers : Owner(d)' =>
                d # c /\ pc'[d] = pc[d] /\ req'[d] = req[d] /\ Owner(d)
        BY <1>1, <1>2 DEF TypeOK, Owner
      <3>2. \A d \in Callers : Owner(d) /\ d # c =>
                req[d].action \in Actions /\ req[d].action # a
        BY <1>1 DEF TypeOK, OwnersInv, Owner, Binding
      <3>3. ASSUME NEW d \in Callers, Owner(d)'
            PROVE  /\ rows'[req'[d].action] = rows[req[d].action]
                   /\ limbo' = limbo /\ pc'[d] = pc[d] /\ req'[d] = req[d] /\ Owner(d)
        BY <1>5, <2>1, <3>1, <3>2, <3>3
      <3> QED BY <1>1, <3>3 DEF OwnersInv
    <2>4. RowsInv'
      BY <1>1, <1>5, <2>1 DEF TypeOK, RowsInv
    <2>5. LimboInv'
      BY <1>1, <1>5, <2>1 DEF TypeOK, LimboInv
    <2>6. AnswersInv'
      <3> SUFFICES ASSUME NEW d \in Callers, pc'[d] = "answered", ans'[d].status = "completed"
                   PROVE  rows'[req'[d].action].status = "completed"
        BY DEF AnswersInv
      <3>1. d # c
        BY <1>1, <1>2 DEF TypeOK
      <3>2. /\ req'[d] = req[d] /\ req[d] \in Binding
            /\ rows[req[d].action].status = "completed"
        BY <1>2, <3>1 DEF TypeOK, AnswersInv
      <3> QED BY <2>1, <3>2 DEF Binding
    <2>7. AnswersAreSound'
      BY <1>1, <1>2 DEF TypeOK, AnswersAreSound
    <2> QED BY <2>2, <2>3, <2>4, <2>5, <2>6, <2>7
  <1>6. CASE UNCHANGED rows /\ Undecided(c)
    <2>1. TypeOK'
      BY <1>1, <1>2, <1>3, <1>6, UndecidedIsTyped DEF TypeOK
    <2>2. OwnersInv'
      <3>1. \A d \in Callers : d # c /\ Owner(d) => limbo'[req[d].action] = limbo[req[d].action]
        BY <1>1, <1>6 DEF Undecided, OwnersInv, Owner, TypeOK, Binding
      <3> QED BY <1>1, <1>2, <1>6, <3>1 DEF TypeOK, OwnersInv, Owner
    <2>3. RowsInv'
      BY <1>1, <1>6 DEF RowsInv
    <2>4. LimboInv'
      BY <1>1, <1>6, UndecidedKeepsLimbo DEF sessions, provider
    <2>5. AnswersInv'
      BY <1>1, <1>2, <1>6 DEF TypeOK, AnswersInv
    <2>6. AnswersAreSound'
      BY <1>1, <1>2 DEF TypeOK, AnswersAreSound
    <2> QED BY <2>1, <2>2, <2>3, <2>4, <2>5, <2>6
  <1>7. \/ UNCHANGED <<rows, limbo>>
        \/ /\ limbo[a] = NoRow /\ limbo' = limbo /\ Conditions(rows[a], req[c])
           /\ rows' = [rows EXCEPT ![a] = Settle(rows[a], "unknown", None)]
        \/ UNCHANGED rows /\ Undecided(c)
    BY <1>1 DEF MarkUnknown, Unlocked, TypeOK
  <1> QED BY <1>4, <1>5, <1>6, <1>7

\* A dead owner may leave its last write undecided.
LEMMA DieKeeps ==
    ASSUME LedgerInv, NEW c \in Callers, Die(c)
    PROVE  LedgerInv'
  <1>1. TypeOK'
    BY UndecidedIsTyped DEF TypeOK, Steps, LedgerInv, Die, Leave, Drop, sessions, provider, Goto
  <1>2. OwnersInv'
    BY DEF TypeOK, OwnersInv, Owner, Undecided, OpenWrite, Binding, LedgerInv, Die, Leave,
           Drop, provider, Goto
  <1>3. RowsInv'
    BY DEF RowsInv, LedgerInv, Die, sessions, provider
  <1>4. LimboInv'
    BY UndecidedKeepsLimbo DEF Die
  <1>5. AnswersInv'
    BY DEF AnswersInv, LedgerInv, Die, Leave, Goto
  <1>6. AnswersAreSound'
    BY DEF AnswersAreSound, LedgerInv, Die, Leave, provider, Goto
  <1> QED BY <1>1, <1>2, <1>3, <1>4, <1>5, <1>6 DEF LedgerInv

\* A late commit reserves an action nobody owns, or settles a row in progress.
LEMMA LimboCommitsKeeps ==
    ASSUME LedgerInv, NEW a \in Actions, LimboCommits(a)
    PROVE  LedgerInv'
  <1>1. TypeOK'
    BY NoneAssumption, StorableAssumption
       DEF TypeOK, LimboInv, LedgerInv, LimboCommits, Unlocked, callers, sessions, provider
  <1>2. OwnersInv'
    BY DEF OwnersInv, Owner, LimboInv, LedgerInv, LimboCommits, Unlocked, callers, provider
  <1>3. RowsInv'
    BY DEF TypeOK, RowsInv, LimboInv, LedgerInv, LimboCommits, Unlocked, sessions, provider
  <1>4. LimboInv'
    BY DEF TypeOK, LimboInv, LedgerInv, LimboCommits, sessions, provider
  <1>5. AnswersInv'
    BY DEF AnswersInv, LimboInv, NoRow, LedgerInv, LimboCommits, Unlocked, callers
  <1>6. AnswersAreSound'
    BY DEF AnswersInv, AnswersAreSound, NoRow, LedgerInv, LimboCommits, callers, provider
  <1> QED BY <1>1, <1>2, <1>3, <1>4, <1>5, <1>6 DEF LedgerInv

\* An undecided write that is rolled back leaves no trace.
LEMMA LimboAbortsKeeps ==
    ASSUME LedgerInv, NEW a \in Actions, LimboAborts(a)
    PROVE  LedgerInv'
  <1>1. TypeOK'
    BY DEF TypeOK, LedgerInv, LimboAborts, callers, sessions, provider
  <1>2. OwnersInv'
    BY DEF OwnersInv, Owner, LedgerInv, LimboAborts, callers, provider
  <1>3. RowsInv'
    BY DEF RowsInv, LedgerInv, LimboAborts, sessions, provider
  <1>4. LimboInv'
    BY DEF LimboInv, LedgerInv, LimboAborts, sessions, provider
  <1>5. AnswersInv'
    BY DEF AnswersInv, LedgerInv, LimboAborts, callers
  <1>6. AnswersAreSound'
    BY DEF AnswersAreSound, LedgerInv, LimboAborts, callers, provider
  <1> QED BY <1>1, <1>2, <1>3, <1>4, <1>5, <1>6 DEF LedgerInv

\* A deleted session takes its live references along, and owns no undecided write.
LEMMA DeleteSessionKeeps ==
    ASSUME LedgerInv, NEW s \in Sessions, DeleteSession(s)
    PROVE  LedgerInv'
  <1>1. TypeOK'
    BY DEF TypeOK, Row, NoRow, LedgerInv, DeleteSession, Forget, callers, provider
  <1>2. OwnersInv'
    BY MaxIncarnationAssumption
       DEF TypeOK, OwnersInv, Owner, RowsInv, Binding, Row, NoRow, LedgerInv, DeleteSession,
           Forget, callers, provider
  <1>3. RowsInv'
    BY DEF TypeOK, RowsInv, Row, NoRow, LedgerInv, DeleteSession, Forget, provider
  <1>4. LimboInv'
    BY DEF RowsInv, LimboInv, NoRow, LedgerInv, DeleteSession, Forget, provider
  <1>5. AnswersInv'
    BY DEF TypeOK, AnswersInv, Binding, LedgerInv, DeleteSession, Forget, callers
  <1>6. AnswersAreSound'
    BY DEF AnswersAreSound, LedgerInv, DeleteSession, callers, provider
  <1> QED BY <1>1, <1>2, <1>3, <1>4, <1>5, <1>6 DEF LedgerInv

\* A session number given out again finds no live reference to it.
LEMMA CreateSessionKeeps ==
    ASSUME LedgerInv, NEW s \in Sessions, CreateSession(s)
    PROVE  LedgerInv'
  <1>1. TypeOK'
    BY MaxIncarnationAssumption DEF TypeOK, LedgerInv, CreateSession, callers, provider
  <1>2. OwnersInv'
    BY DEF OwnersInv, Owner, LedgerInv, CreateSession, callers, provider
  <1>3. RowsInv'
    BY DEF RowsInv, LedgerInv, CreateSession, provider
  <1>4. LimboInv'
    BY DEF LimboInv, LedgerInv, CreateSession, provider
  <1>5. AnswersInv'
    BY DEF AnswersInv, LedgerInv, CreateSession, callers
  <1>6. AnswersAreSound'
    BY DEF AnswersAreSound, LedgerInv, CreateSession, callers, provider
  <1> QED BY <1>1, <1>2, <1>3, <1>4, <1>5, <1>6 DEF LedgerInv

\* Every step of the ledger, and every stutter, keeps the invariant.
LEMMA LedgerStepKeeps == LedgerInv /\ [Next]_ledgerVars => LedgerInv'
  <1> SUFFICES ASSUME LedgerInv, [Next]_ledgerVars PROVE LedgerInv'
    OBVIOUS
  <1>1. CASE UNCHANGED ledgerVars
    BY <1>1 DEF ledgerVars, callers, sessions, provider, LedgerInv, TypeOK, OwnersInv, Owner,
                RowsInv, LimboInv, AnswersInv, AnswersAreSound
  <1>2. ASSUME NEW c \in Callers, NEW b \in Binding, Execute(c, b) \/ LookUp(c, b)
        PROVE  LedgerInv'
    BY <1>2, ExecuteKeeps, LookUpKeeps
  <1>3. ASSUME NEW c \in Callers, CallerStep(c)
        PROVE  LedgerInv'
    BY <1>3, ReserveKeeps, ReserveRefusedKeeps, ReserveLostKeeps, ReadRowKeeps, ReadFailsKeeps,
       InvokeKeeps, ToolRaisesKeeps, ReturnKeeps, CompleteKeeps, CompleteLostKeeps,
       MarkUnknownKeeps DEF CallerStep
  <1>4. ASSUME NEW c \in Callers, Cancel(c) \/ Die(c)
        PROVE  LedgerInv'
    BY <1>4, CancelKeeps, DieKeeps
  <1>5. ASSUME NEW a \in Actions, LimboCommits(a) \/ LimboAborts(a)
        PROVE  LedgerInv'
    BY <1>5, LimboCommitsKeeps, LimboAbortsKeeps
  <1>6. ASSUME NEW s \in Sessions, DeleteSession(s) \/ CreateSession(s)
        PROVE  LedgerInv'
    BY <1>6, DeleteSessionKeeps, CreateSessionKeeps
  <1> QED BY <1>1, <1>2, <1>3, <1>4, <1>5, <1>6 DEF Next

\* LedgerInv holds in every reachable state: what rows, undecided writes,
\* owners and answers say of one another (ActionLedger).
THEOREM LedgerIsConsistent == Spec => []LedgerInv
  <1>1. LedgerInv /\ [Next]_ledgerVars => LedgerInv'
    BY LedgerStepKeeps
  <1> QED BY <1>1, LedgerInitially, PTL DEF Spec

\* Rows, undecided writes and callers hold what their columns and fields
\* allow, the CHECK constraint on completed rows included.
THEOREM LedgerIsTyped == Spec => []TypeOK
  <1>1. LedgerInv => TypeOK
    BY DEF LedgerInv
  <1> QED BY <1>1, LedgerIsConsistent, PTL

\* The business tool is entered at most once for an action id, however many
\* callers race, give up or die (ActionLedger.execute_once).
THEOREM AtMostOneDispatch == Spec => []DispatchedAtMostOnce
  <1>1. LedgerInv => DispatchedAtMostOnce
    BY DEF LedgerInv, RowsInv, DispatchedAtMostOnce
  <1> QED BY <1>1, LedgerIsConsistent, PTL

\* A dispatched action has a committed row that names the request sent.
THEOREM ReservationFirst == Spec => []DispatchBehindReservation
  <1>1. LedgerInv => DispatchBehindReservation
    <2> SUFFICES ASSUME LedgerInv, NEW a \in Actions, dispatches[a] > 0
                 PROVE  /\ rows[a] # NoRow
                        /\ rows[a].session = sent[a].session
                        /\ rows[a].claim = sent[a].claim
      BY DEF DispatchBehindReservation
    <2>1. dispatches[a] = 1
      BY DEF LedgerInv, TypeOK, RowsInv
    <2> QED BY <2>1 DEF LedgerInv, RowsInv
  <1> QED BY <1>1, LedgerIsConsistent, PTL

\* A "completed" answer carries what the tool answered to this very request,
\* and a replay is given only within the session that reserved the action.
THEOREM CompletedMeansCompleted == Spec => []AnswersAreSound
  <1>1. LedgerInv => AnswersAreSound
    BY DEF LedgerInv
  <1> QED BY <1>1, LedgerIsConsistent, PTL

----------------------------------------------------------------------------
(* What one step may do to a row, and from there to its recorded outcome.  *)

\* A reservation, or the settlement of a row in progress, of action a.
RowWrite(a) ==
    /\ \A o \in Actions : o # a => rows'[o] = rows[o]
    /\ \/ rows[a] = NoRow /\ rows'[a] # NoRow /\ rows'[a].status = "in_progress"
       \/ /\ rows[a] # NoRow /\ rows[a].status = "in_progress"
          /\ rows'[a].session = rows[a].session /\ rows'[a].claim = rows[a].claim
          /\ \/ rows'[a].status = "unknown"
             \/ /\ rows'[a].status = "completed" /\ rows'[a].result \in Envelopes
                /\ dispatches[a] = 1

\* Only the deletion of a session touches rows otherwise.
LEMMA RowSteps ==
    ASSUME LedgerInv, [Next]_ledgerVars
    PROVE  \/ UNCHANGED rows
           \/ UNCHANGED dispatches /\ \E a \in Actions : RowWrite(a)
           \/ \E s \in Sessions : DeleteSession(s)
  <1> DEFINE Goal == \/ UNCHANGED rows
                     \/ UNCHANGED dispatches /\ \E a \in Actions : RowWrite(a)
                     \/ \E s \in Sessions : DeleteSession(s)
  <1>1. CASE UNCHANGED ledgerVars
    BY <1>1 DEF ledgerVars
  <1>2. ASSUME NEW c \in Callers, NEW b \in Binding, Execute(c, b) \/ LookUp(c, b)
        PROVE  Goal
    BY <1>2 DEF Execute, LookUp
  <1>3. ASSUME NEW c \in Callers, CallerStep(c)
        PROVE  Goal
    <2> DEFINE b == req[c]
    <2>1. CASE Reserve(c)
      <3>1. b.action \in Actions /\ b \in Binding
        BY <2>1 DEF Reserve, LedgerInv, TypeOK, Binding
      <3>2. RowWrite(b.action)
        BY <2>1, <3>1, NoRowIsNoRow, NoneAssumption
           DEF Reserve, RowWrite, LedgerInv, TypeOK, Reservation, NoRow
      <3> QED BY <2>1, <3>1, <3>2 DEF Reserve, provider
    <2>2. CASE Complete(c)
      <3>1. b.action \in Actions /\ rows[b.action] # NoRow
        BY <2>2 DEF Complete, LedgerInv, TypeOK, OwnersInv, Owner, Binding
      <3>2. dispatches[b.action] = 1 /\ held[c] \in Envelopes
        BY <2>2, StorableAssumption DEF Complete, LedgerInv, OwnersInv, Owner
      <3>3. RowWrite(b.action)
        BY <2>2, <3>1, <3>2 DEF Complete, RowWrite, LedgerInv, TypeOK, Settle, Conditions
      <3> QED BY <2>2, <3>1, <3>3 DEF Complete, provider
    <2>3. CASE MarkUnknown(c)
      <3>1. b.action \in Actions /\ rows[b.action] # NoRow
        BY <2>3 DEF MarkUnknown, LedgerInv, TypeOK, OwnersInv, Owner, Binding
      <3>2. CASE /\ Conditions(rows[b.action], b)
                 /\ rows' = [rows EXCEPT ![b.action] = Settle(rows[b.action], "unknown", None)]
        <4>1. RowWrite(b.action)
          BY <3>1, <3>2 DEF RowWrite, LedgerInv, TypeOK, Settle, Conditions
        <4> QED BY <2>3, <3>1, <4>1 DEF MarkUnknown, provider
      <3>3. \/ UNCHANGED rows
            \/ /\ Conditions(rows[b.action], b)
               /\ rows' = [rows EXCEPT ![b.action] = Settle(rows[b.action], "unknown", None)]
        BY <2>3, <3>1 DEF MarkUnknown, LedgerInv, TypeOK
      <3> QED BY <3>2, <3>3
    <2>4. CASE ~(Reserve(c) \/ Complete(c) \/ MarkUnknown(c))
      BY <1>3, <2>4 DEF CallerStep, ReserveRefused, ReserveLost, ReadRow, ReadFails, Invoke,
                        ToolRaises, Return, CompleteLost
    <2> QED BY <2>1, <2>2, <2>3, <2>4
  <1>4. ASSUME NEW c \in Callers, Cancel(c) \/ Die(c)
        PROVE  Goal
    BY <1>4 DEF Cancel, Die
  <1>5. ASSUME NEW a \in Actions, LimboCommits(a) \/ LimboAborts(a)
        PROVE  Goal
    <2>1. CASE LimboAborts(a)
      BY <2>1 DEF LimboAborts
    <2>2. CASE LimboCommits(a)
      <3>1. limbo[a] # NoRow /\ rows' = [rows EXCEPT ![a] = limbo[a]]
        BY <2>2 DEF LimboCommits, Unlocked
      <3>2. /\ rows'[a] = limbo[a]
            /\ \A o \in Actions : o # a => rows'[o] = rows[o]
        BY <3>1 DEF LedgerInv, TypeOK
      <3>3. RowWrite(a)
        BY <3>1, <3>2, StorableAssumption DEF RowWrite, LedgerInv, LimboInv
      <3> QED BY <2>2, <3>3 DEF LimboCommits, provider
    <2> QED BY <1>5, <2>1, <2>2
  <1>6. ASSUME NEW s \in Sessions, DeleteSession(s) \/ CreateSession(s)
        PROVE  Goal
    BY <1>6 DEF CreateSession
  <1> QED BY <1>1, <1>2, <1>3, <1>4, <1>5, <1>6 DEF Next

\* A deleted session only leaves the live reference of its own rows.
LEMMA DeleteSessionForgets ==
    ASSUME LedgerInv, NEW s \in Sessions, DeleteSession(s), NEW a \in Actions
    PROVE  rows'[a] \in {rows[a], Forget(rows[a], rows[a].session)}
  <1>1. rows'[a] = Forget(rows[a], s)
    BY DEF DeleteSession
  <1>2. CASE rows[a].live = s
    BY <1>1, <1>2, NoneAssumption DEF LedgerInv, RowsInv
  <1>3. CASE rows[a].live # s
    BY <1>1, <1>3 DEF Forget, LedgerInv, TypeOK, Row, NoRow
  <1> QED BY <1>2, <1>3

\* Completed and unknown rows are terminal, and no row is removed or rebound
\* to another request (execute_once, _mark_unknown, ON DELETE SET NULL).
THEOREM TerminalRows == Spec => SettledForever
  <1>1. ASSUME LedgerInv, [Next]_ledgerVars, NEW a \in Actions
        PROVE  /\ rows[a].status \in {"completed", "unknown"} =>
                       rows'[a] \in {rows[a], Forget(rows[a], rows[a].session)}
               /\ rows[a] # NoRow =>
                       /\ rows'[a].session = rows[a].session
                       /\ rows'[a].claim = rows[a].claim
    <2>1. CASE UNCHANGED rows
      BY <2>1
    <2>2. CASE \E o \in Actions : RowWrite(o)
      BY <2>2 DEF RowWrite, NoRow
    <2>3. CASE \E s \in Sessions : DeleteSession(s)
      BY <1>1, <2>3, DeleteSessionForgets DEF Forget
    <2> QED BY <1>1, <2>1, <2>2, <2>3, RowSteps
  <1>2. LedgerInv /\ [Next]_ledgerVars =>
          [\A a \in Actions :
            /\ rows[a].status \in {"completed", "unknown"} =>
                    rows'[a] \in {rows[a], Forget(rows[a], rows[a].session)}
            /\ rows[a] # NoRow =>
                    /\ rows'[a].session = rows[a].session
                    /\ rows'[a].claim = rows[a].claim]_ledgerVars
    BY <1>1
  <1> QED BY <1>2, LedgerIsConsistent, PTL DEF Spec, SettledForever

----------------------------------------------------------------------------
(* "not_started" and the refinement of AtMostOnce.                         *)

\* A caller is told "not_started" only by a read that found no row, and then
\* the action was not dispatched and no caller has reserved it (lookup,
\* execute_once); one that is yet to reserve it is the session lock's affair.
THEOREM NotStartedMeansNotDispatched == Spec => NotStartedIsTrue
  <1> DEFINE Told(c) == /\ pc[c] # "answered"
                        /\ pc'[c] = "answered"
                        /\ ans'[c].status = "not_started"
             Safe(c) == LET a == req[c].action IN
                        /\ dispatches[a] = 0
                        /\ \A d \in Callers : req[d].action = a => ~Owner(d)
  <1>1. ASSUME LedgerInv, NEW c \in Callers, rows[req[c].action] = NoRow, req[c] \in Binding
        PROVE  Safe(c)
    BY <1>1 DEF LedgerInv, RowsInv, OwnersInv, Owner, Binding
  <1>2. ASSUME LedgerInv, Next, NEW c \in Callers, Told(c)
        PROVE  Safe(c)
    <2>1. PICK d \in Callers : CallerStep(d)
      <3>1. ASSUME NEW d \in Callers, NEW b \in Binding, Execute(d, b) \/ LookUp(d, b)
            PROVE  FALSE
        BY <1>2, <3>1 DEF Execute, LookUp, Goto, LedgerInv, TypeOK
      <3>2. ASSUME NEW d \in Callers, Cancel(d) \/ Die(d)
            PROVE  FALSE
        BY <1>2, <3>2 DEF Cancel, Die, Leave, Goto, LedgerInv, TypeOK
      <3>3. ASSUME NEW a \in Actions, LimboCommits(a) \/ LimboAborts(a)
            PROVE  FALSE
        BY <1>2, <3>3 DEF LimboCommits, LimboAborts, callers
      <3>4. ASSUME NEW s \in Sessions, DeleteSession(s) \/ CreateSession(s)
            PROVE  FALSE
        BY <1>2, <3>4 DEF DeleteSession, CreateSession, callers
      <3> QED BY <1>2, <3>1, <3>2, <3>3, <3>4 DEF Next
    <2>2. CASE ReadRow(d)
      <3>1. CASE Observed(rows[req[d].action], req[d]) = "not_started"
        <4>1. rows[req[d].action] = NoRow
          BY <3>1 DEF Observed
        <4>2. d = c
          BY <1>2, <2>2 DEF ReadRow, Reply, Goto, LedgerInv, TypeOK
        <4>3. req[c] \in Binding
          <5>1. pc[d] \in {"lookup", "recheck"}
            BY <2>2 DEF ReadRow
          <5> QED BY <1>2, <4>2, <5>1 DEF LedgerInv, TypeOK
        <4> QED BY <1>1, <1>2, <4>1, <4>2, <4>3
      <3>2. CASE Observed(rows[req[d].action], req[d]) # "not_started"
        <4>1. \/ Reply(d, "completed", rows[req[d].action].result, TRUE)
              \/ Reply(d, "unavailable", None, FALSE)
              \/ Reply(d, Observed(rows[req[d].action], req[d]), None, FALSE)
          BY <2>2 DEF ReadRow
        <4> QED BY <1>2, <3>2, <4>1 DEF Reply, Goto, LedgerInv, TypeOK
      <3> QED BY <3>1, <3>2
    <2>3. CASE ReserveLost(d) \/ ReadFails(d) \/ Complete(d)
      BY <1>2, <2>3 DEF ReserveLost, ReadFails, Complete, Reply, Goto, LedgerInv, TypeOK
    <2>4. CASE MarkUnknown(d)
      BY <1>2, <2>4 DEF MarkUnknown, Reply, Leave, Goto, LedgerInv, TypeOK
    <2>5. CASE Reserve(d) \/ ReserveRefused(d) \/ Invoke(d) \/ ToolRaises(d) \/ CompleteLost(d)
      BY <1>2, <2>5 DEF Reserve, ReserveRefused, Invoke, ToolRaises, CompleteLost, Goto,
                        LedgerInv, TypeOK
    <2>6. CASE \E r \in Envelopes : Return(d, r)
      BY <1>2, <2>6 DEF Return, Goto, LedgerInv, TypeOK
    <2> QED BY <2>1, <2>2, <2>3, <2>4, <2>5, <2>6 DEF CallerStep
  <1>3. LedgerInv /\ [Next]_ledgerVars => [\A c \in Callers : Told(c) => Safe(c)]_ledgerVars
    BY <1>2
  <1> QED BY <1>3, LedgerIsConsistent, PTL DEF Spec, NotStartedIsTrue

\* What RecordedOutcome says of one row.
LEMMA OutcomeOfRow ==
    ASSUME NEW a \in Actions
    PROVE  /\ RecordedOutcome[a] = CASE rows[a].status = "completed" -> rows[a].result
                                     [] rows[a].status = "unknown" -> "unknown"
                                     [] OTHER -> None
           /\ RecordedOutcome'[a] = CASE rows'[a].status = "completed" -> rows'[a].result
                                      [] rows'[a].status = "unknown" -> "unknown"
                                      [] OTHER -> None
BY DEF RecordedOutcome

\* The ledger implements AtMostOnce: one entry into the tool, then one
\* recorded outcome that never changes (ActionLedger as a whole).
THEOREM LedgerImplementsAtMostOnce == Spec => ImplementsAtMostOnce
  <1>1. Init => Once!Init
    BY DEF Init, Once!Init, RecordedOutcome, NoRow
  <1>2. ASSUME LedgerInv, LedgerInv', [Next]_ledgerVars
        PROVE  [Once!Next]_(Once!onceVars)
    <2>1. CASE UNCHANGED <<rows, dispatches>>
      BY <2>1 DEF Once!onceVars, RecordedOutcome
    <2>2. ASSUME UNCHANGED dispatches, NEW a \in Actions, RowWrite(a)
          PROVE  [Once!Next]_(Once!onceVars)
      <3>1. \A o \in Actions : o # a => RecordedOutcome'[o] = RecordedOutcome[o]
        BY <2>2, OutcomeOfRow DEF RowWrite
      <3>2. RecordedOutcome[a] = None
        BY <2>2, OutcomeOfRow DEF RowWrite, NoRow
      <3>3. CASE RecordedOutcome'[a] = None
        BY <2>2, <3>1, <3>2, <3>3 DEF Once!onceVars, RecordedOutcome
      <3>4. CASE RecordedOutcome'[a] # None
        <4>1. RecordedOutcome' = [RecordedOutcome EXCEPT ![a] = RecordedOutcome'[a]]
          BY <3>1 DEF RecordedOutcome
        <4>2. CASE rows'[a].status = "unknown"
          <5>1. RecordedOutcome'[a] = "unknown"
            BY <4>2, OutcomeOfRow
          <5> QED BY <2>2, <3>2, <4>1, <5>1 DEF Once!Next, Once!GiveUp
        <4>3. CASE /\ rows'[a].status = "completed" /\ dispatches[a] = 1
                   /\ rows'[a].result \in Envelopes
          <5>1. RecordedOutcome'[a] = rows'[a].result
            BY <4>3, OutcomeOfRow
          <5> QED BY <2>2, <3>2, <4>1, <4>3, <5>1 DEF Once!Next, Once!Record
        <4>4. CASE rows'[a].status = "in_progress"
          BY <3>4, <4>4, OutcomeOfRow
        <4> QED BY <2>2, <4>2, <4>3, <4>4 DEF RowWrite
      <3> QED BY <3>3, <3>4
    <2>3. ASSUME NEW s \in Sessions, DeleteSession(s)
          PROVE  [Once!Next]_(Once!onceVars)
      <3>1. \A a \in Actions : rows'[a].status = rows[a].status /\ rows'[a].result = rows[a].result
        BY <2>3 DEF DeleteSession, Forget
      <3> QED BY <2>3, <3>1 DEF DeleteSession, provider, Once!onceVars, RecordedOutcome
    <2>4. ASSUME NEW c \in Callers, Invoke(c)
          PROVE  [Once!Next]_(Once!onceVars)
      <3> DEFINE a == req[c].action
      <3>1. a \in Actions /\ dispatches[a] = 0 /\ rows[a].status = "in_progress"
        BY <1>2, <2>4 DEF Invoke, LedgerInv, TypeOK, OwnersInv, Owner, Binding
      <3>2. RecordedOutcome[a] = None
        BY <3>1, OutcomeOfRow
      <3>3. RecordedOutcome' = RecordedOutcome
        BY <2>4 DEF Invoke, RecordedOutcome
      <3>4. dispatches' = [dispatches EXCEPT ![a] = 1]
        BY <2>4, <3>1 DEF Invoke
      <3> QED BY <3>1, <3>2, <3>3, <3>4 DEF Once!Next, Once!Enter
    <2>5. UNCHANGED dispatches \/ \E c \in Callers : Invoke(c)
      BY <1>2
         DEF Next, CallerStep, Execute, LookUp, Reserve, ReserveRefused, ReserveLost, ReadRow,
                  ReadFails, Return, ToolRaises, Complete, CompleteLost, MarkUnknown, Cancel, Die,
                  LimboCommits, LimboAborts, DeleteSession, CreateSession, ledgerVars, provider
    <2> QED BY <1>2, <2>1, <2>2, <2>3, <2>4, <2>5, RowSteps
  <1>3. LedgerInv /\ LedgerInv' /\ [Next]_ledgerVars => [Once!Next]_(Once!onceVars)
    BY <1>2
  <1> QED BY <1>1, <1>3, LedgerIsConsistent, PTL DEF Spec, ImplementsAtMostOnce, Once!Spec

-----------------------------------------------------------------------------
(* The conversation that uses it. *)

\* What a proposal in the checkpoint or in a turn stands for: an id that was
\* staged, with what the customer was asked.
Offered(p) == p # Nothing => p.action \in used /\ offered[p.action] = p.claim

\* What the turn that asks the ledger may rely on.
AskedInv(c) ==
    LET a == turn.saw.action IN
    At(c, "asked") =>
        /\ turn.saw # Nothing
        /\ pc[c] # "idle" => req[c] = BindingOf(turn.saw)
        /\ pc[c] \notin {"idle", "lookup", "answered"} => a \in approved /\ a \notin calledOff
        /\ pc[c] \in {"reserve", "recheck", "lookup", "invoke"} => dispatches[a] = turn.before
        /\ pc[c] = "answered" /\ ans[c].status = "unavailable" => dispatches[a] = turn.before
        /\ pc[c] = "answered" /\ ans[c].status = "not_started" => dispatches[a] = 0

\* The turn works on what the saved checkpoint proposes, and has told
\* nothing before it is done.
TurnInv ==
    turn # NoTurn =>
        /\ turn.saw = staged
        /\ Offered(turn.next)
        /\ turn.step = "begun" /\ staged # Nothing => dispatches[staged.action] = turn.before
        /\ turn.step # "done" => turn.told = "nothing"
        /\ turn.told = "unavailable" => staged # Nothing /\ dispatches[staged.action] = turn.before

\* What was entered was confirmed as it was offered, and the checkpoint
\* proposes it until the customer heard of it.
PromisesInv ==
    /\ \A a \in Actions : dispatches[a] > 0 =>
        /\ a \in approved /\ sent[a].claim = offered[a]
        /\ a \in letGo \/ (staged # Nothing /\ staged.action = a)
    /\ \A a \in calledOff : dispatches[a] = 0

\* The inductive invariant, beyond that of the ledger.
TurnsInv ==
    /\ ConfirmationTypeOK
    /\ Offered(staged) /\ TurnInv /\ PromisesInv
    /\ \A c \in Callers : AskedInv(c)

DialogueInv == LedgerInv /\ TurnsInv

-----------------------------------------------------------------------------
(* Values that differ, and turns.                                          *)

LEMMA NothingIsNotPending == Nothing \notin Pending
BY NoneAssumption DEF Nothing, Pending

LEMMA NoTurnIsNoTurn == NoTurn \notin Turn
BY DEF NoTurn, Turn

LEMMA PendingFields ==
    ASSUME NEW p \in Pending
    PROVE  /\ p.action \in Actions /\ p.claim \in Claims
           /\ BindingOf(p) \in Binding
           /\ BindingOf(p).action = p.action /\ BindingOf(p).claim = p.claim
BY SessionAssumption DEF Pending, BindingOf, Binding

\* The type of a turn, field by field.
LEMMA TurnFields ==
    ASSUME ConfirmationTypeOK, turn # NoTurn
    PROVE  /\ turn \in Turn
           /\ turn.by \in Callers /\ turn.says \in Says /\ turn.step \in {"begun", "asked", "done"}
           /\ turn.saw \in Pending \cup {Nothing} /\ turn.next \in Pending \cup {Nothing}
           /\ turn.before \in Nat
BY DEF ConfirmationTypeOK, Turn

\* One turn at a time holds the lock.
LEMMA OneTurn ==
    ASSUME NEW c, NEW d, NEW s, NEW t, At(c, s), At(d, t) PROVE c = d /\ s = t
BY DEF At, Ongoing

LEMMA DecidedTurn ==
    ASSUME ConfirmationTypeOK, turn # NoTurn,
           NEW told \in Statuses \cup {"nothing", "cancelled", "expired"},
           NEW next \in Pending \cup {Nothing}, Decide(told, next)
    PROVE  /\ turn' \in Turn /\ turn' # NoTurn
           /\ turn'.by = turn.by /\ turn'.says = turn.says /\ turn'.saw = turn.saw
           /\ turn'.before = turn.before
           /\ turn'.step = "done" /\ turn'.told = told /\ turn'.next = next
<1>1. turn \in Turn BY TurnFields
<1>2. turn' \in Turn BY <1>1 DEF Decide, Turn
<1>3. turn' # NoTurn BY <1>2, NoTurnIsNoTurn
<1> QED BY <1>1, <1>2, <1>3 DEF Decide, Turn

LEMMA AskingTurn ==
    ASSUME ConfirmationTypeOK, turn # NoTurn, turn' = [turn EXCEPT !.step = "asked"]
    PROVE  /\ turn' \in Turn /\ turn' # NoTurn
           /\ turn'.by = turn.by /\ turn'.says = turn.says /\ turn'.saw = turn.saw
           /\ turn'.before = turn.before /\ turn'.told = turn.told /\ turn'.next = turn.next
           /\ turn'.step = "asked"
<1>1. turn \in Turn BY TurnFields
<1>2. turn' \in Turn BY <1>1 DEF Turn
<1>3. turn' # NoTurn BY <1>2, NoTurnIsNoTurn
<1> QED BY <1>1, <1>2, <1>3 DEF Turn

\* What the checkpoint holds is typed, and a turn works on it.
LEMMA StagedFields ==
    ASSUME TurnsInv
    PROVE  /\ staged \in Pending \cup {Nothing}
           /\ staged # Nothing => /\ staged \in Pending /\ staged.action \in used
                                  /\ staged.action \in Actions
           /\ turn # NoTurn => turn.saw = staged
<1>1. staged \in Pending \cup {Nothing} BY DEF TurnsInv, ConfirmationTypeOK
<1>2. staged # Nothing => staged.action \in used BY DEF TurnsInv, Offered
<1>3. turn # NoTurn => turn.saw = staged BY DEF TurnsInv, TurnInv
<1> QED BY <1>1, <1>2, <1>3, PendingFields

-----------------------------------------------------------------------------
(* What a step of the caller that works in the ledger can do.              *)

LedgerMove(c) ==
    /\ pc[c] \notin {"idle", "answered"}
    /\ pc' = [pc EXCEPT ![c] = pc'[c]]
    /\ ans' = [ans EXCEPT ![c] = ans'[c]]
    /\ \A d \in Callers : d # c => req'[d] = req[d]
    /\ pc'[c] # "idle" => req'[c] = req[c]
    /\ \/ dispatches' = dispatches /\ sent' = sent
       \/ /\ pc[c] = "invoke" /\ pc'[c] = "calling"
          /\ dispatches' = [dispatches EXCEPT ![req[c].action] = @ + 1]
          /\ sent' = [sent EXCEPT ![req[c].action] = req[c]]
    /\ pc'[c] \notin {"idle", "lookup", "answered"} => pc[c] # "lookup"
    /\ pc'[c] \in {"reserve", "recheck", "lookup", "invoke"} =>
        pc[c] \in {"reserve", "recheck", "lookup", "invoke"}
    /\ pc'[c] = "answered" /\ ans'[c].status = "unavailable" =>
        pc[c] \in {"reserve", "recheck", "lookup"}
    /\ pc'[c] = "answered" /\ ans'[c].status = "not_started" => rows[req[c].action] = NoRow

LEMMA ReplyMoves ==
    ASSUME LedgerInv, NEW c \in Callers, NEW status, NEW result, NEW replayed,
           Reply(c, status, result, replayed),
           pc[c] \notin {"idle", "answered"},
           req' = req, dispatches' = dispatches, sent' = sent,
           status = "unavailable" => pc[c] \in {"reserve", "recheck", "lookup"},
           status = "not_started" => rows[req[c].action] = NoRow
    PROVE  LedgerMove(c)
<1>1. pc \in [Callers -> Steps] /\ ans \in [Callers -> Answer] BY DEF LedgerInv, TypeOK
<1>2. pc' = [pc EXCEPT ![c] = "answered"] /\ pc'[c] = "answered" BY <1>1 DEF Reply, Goto
<1>3. ans' = [ans EXCEPT ![c] = ans'[c]] /\ ans'[c].status = status BY <1>1 DEF Reply
<1> QED BY <1>2, <1>3 DEF LedgerMove

LEMMA ReadMoves ==
    ASSUME LedgerInv, NEW c \in Callers, ReadRow(c) PROVE LedgerMove(c)
<1> DEFINE b == req[c]
           row == rows[b.action]
           status == Observed(row, b)
<1>1. TypeOK /\ pc[c] \in {"lookup", "recheck"} /\ b \in Binding
      BY DEF LedgerInv, ReadRow, TypeOK
<1>2. row \in Row \cup {NoRow} BY <1>1 DEF TypeOK, Binding
<1>3. status \in {"not_started", "conflict", "completed", "unknown"}
      /\ (status = "not_started" => row = NoRow)
      BY <1>2 DEF Observed
<1>4. \/ Reply(c, "completed", row.result, TRUE)
      \/ pc[c] = "recheck" /\ Reply(c, "unavailable", None, FALSE)
      \/ Reply(c, status, None, FALSE)
      BY DEF ReadRow
<1>5. req' = req /\ dispatches' = dispatches /\ sent' = sent BY DEF ReadRow, provider
<1>6. CASE Reply(c, "completed", row.result, TRUE) BY <1>1, <1>5, <1>6, ReplyMoves
<1>7. CASE pc[c] = "recheck" /\ Reply(c, "unavailable", None, FALSE)
      BY <1>1, <1>5, <1>7, ReplyMoves
<1>8. CASE Reply(c, status, None, FALSE)
  <2> HIDE DEF status
  <2> QED BY <1>1, <1>3, <1>5, <1>8, ReplyMoves
<1> QED BY <1>4, <1>6, <1>7, <1>8

LEMMA CallerMoves ==
    ASSUME LedgerInv, NEW c \in Callers, CallerStep(c) \/ Cancel(c) \/ Die(c)
    PROVE  LedgerMove(c)
<1>1. TypeOK BY DEF LedgerInv
<1>a. pc \in [Callers -> Steps] /\ req \in [Callers -> Binding \cup {NoBinding}]
      /\ ans \in [Callers -> Answer]
      BY <1>1 DEF TypeOK
<1>2. CASE Reserve(c) BY <1>a, <1>2 DEF Reserve, LedgerMove, Goto, provider
<1>3. CASE ReserveRefused(c) BY <1>a, <1>3 DEF ReserveRefused, LedgerMove, Goto, provider
<1>4. CASE ReserveLost(c)
  <2>1. pc[c] = "reserve" /\ req' = req /\ dispatches' = dispatches /\ sent' = sent
        /\ Reply(c, "unavailable", None, FALSE)
        BY <1>4 DEF ReserveLost, provider
  <2> QED BY <2>1, ReplyMoves
<1>5. CASE ReadRow(c) BY <1>5, ReadMoves
<1>6. CASE ReadFails(c)
  <2>1. pc[c] \in {"lookup", "recheck"} /\ req' = req /\ dispatches' = dispatches
        /\ sent' = sent /\ Reply(c, "unavailable", None, FALSE)
        BY <1>6 DEF ReadFails, provider
  <2> QED BY <2>1, ReplyMoves
<1>7. CASE Invoke(c) BY <1>a, <1>7 DEF Invoke, LedgerMove, Goto
<1>8. CASE ToolRaises(c) BY <1>a, <1>8 DEF ToolRaises, LedgerMove, Goto, provider
<1>9. CASE \E r \in Envelopes : Return(c, r) BY <1>a, <1>9 DEF Return, LedgerMove, Goto
<1>10. CASE Complete(c)
  <2>1. pc[c] = "complete" /\ req' = req /\ dispatches' = dispatches /\ sent' = sent
        /\ Reply(c, "completed", held[c], FALSE)
        BY <1>10 DEF Complete, provider
  <2> QED BY <2>1, ReplyMoves
<1>11. CASE CompleteLost(c) BY <1>a, <1>11 DEF CompleteLost, LedgerMove, Goto, provider
<1>12. CASE MarkUnknown(c)
  <2>1. pc[c] \in {"mark", "unwind"} /\ dispatches' = dispatches /\ sent' = sent
        BY <1>12 DEF MarkUnknown, provider
  <2>2. CASE pc[c] = "mark"
    <3>1. Reply(c, "unknown", None, FALSE) /\ req' = req BY <1>12, <2>2 DEF MarkUnknown
    <3> QED BY <2>1, <2>2, <3>1, ReplyMoves
  <2>3. CASE pc[c] = "unwind"
    <3>1. Leave(c) /\ UNCHANGED ans BY <1>12, <2>3 DEF MarkUnknown
    <3> QED BY <1>a, <2>1, <2>3, <3>1 DEF LedgerMove, Leave, Goto
  <2> QED BY <2>1, <2>2, <2>3
<1>13. CASE Cancel(c) BY <1>a, <1>13 DEF Cancel, LedgerMove, Goto, provider
<1>14. CASE Die(c) BY <1>a, <1>14 DEF Die, LedgerMove, Leave, Goto, provider
<1> QED BY <1>2, <1>3, <1>4, <1>5, <1>6, <1>7, <1>8, <1>9, <1>10, <1>11, <1>12, <1>13, <1>14
        DEF CallerStep

-----------------------------------------------------------------------------
(* The turns move the ledger by its own steps only.                        *)

LEMMA LedgerSteps ==
    ASSUME TurnsInv, [ConfirmationNext]_vars PROVE [Next]_ledgerVars
<1>1. CASE UNCHANGED vars BY <1>1 DEF vars
<1>2. ASSUME NEW c \in Callers, Ask(c) PROVE Next
  <2>1. turn # NoTurn /\ turn.saw # Nothing BY <1>2 DEF Ask, At, Ongoing
  <2>2. BindingOf(turn.saw) \in Binding BY <2>1, StagedFields, PendingFields
  <2>3. Execute(c, BindingOf(turn.saw)) \/ LookUp(c, BindingOf(turn.saw)) BY <1>2 DEF Ask
  <2> QED BY <2>2, <2>3 DEF Next
<1>3. ASSUME NEW c \in Callers, TurnStep(c), ~Ask(c) PROVE [Next]_ledgerVars
  <2>1. CASE LedgerStep(c) BY <2>1 DEF LedgerStep, Next
  <2>2. CASE Continue(c) \/ Unauthorized(c) \/ Hear(c) \/ Save(c)
             \/ \E a \in Actions, k \in Claims : Stage(c, a, k)
        BY <2>2 DEF Continue, Unauthorized, Hear, Save, Stage
  <2> QED BY <1>3, <2>1, <2>2 DEF TurnStep
<1>4. ASSUME NEW c \in Callers, Crash(c) PROVE Next BY <1>4 DEF Crash, Next
<1>5. ASSUME NEW c \in Callers, (\E says \in Says : Begin(c, says)) \/ Suspend(c) \/ Fail(c)
      PROVE  UNCHANGED ledgerVars
      BY <1>5 DEF Begin, Suspend, Fail
<1>6. CASE DatabaseDecides BY <1>6 DEF DatabaseDecides, Next
<1>7. CASE (\E a \in Actions : Expire(a)) \/ Discard BY <1>7 DEF Expire, Discard
<1>8. CASE EraseSession \/ RecreateSession
      BY <1>8, SessionAssumption DEF EraseSession, RecreateSession, Next
<1> QED BY <1>1, <1>2, <1>3, <1>4, <1>5, <1>6, <1>7, <1>8 DEF ConfirmationNext

LEMMA LedgerHolds ==
    ASSUME DialogueInv, [ConfirmationNext]_vars PROVE LedgerInv'
BY LedgerSteps, LedgerStepKeeps DEF DialogueInv

-----------------------------------------------------------------------------
(* Each action preserves the invariant.                                    *)

LEMMA Initially == ConfirmationInit => DialogueInv
<1> SUFFICES ASSUME ConfirmationInit PROVE DialogueInv OBVIOUS
<1>1. LedgerInv BY LedgerInitially DEF ConfirmationInit
<1>2. TurnsInv
  <2>1. ConfirmationTypeOK
        BY <1>1 DEF ConfirmationInit, Init, ConfirmationTypeOK, LedgerInv
  <2>2. \A a \in Actions : dispatches[a] = 0 BY DEF ConfirmationInit, Init
  <2> QED BY <2>1, <2>2
          DEF ConfirmationInit, TurnsInv, Offered, TurnInv, PromisesInv, AskedInv, At, Ongoing
<1> QED BY <1>1, <1>2 DEF DialogueInv

\* Steps in which the turn or the customer acts and the ledger does not.
LEMMA LedgerRests ==
    ASSUME UNCHANGED ledgerVars
    PROVE  /\ pc' = pc /\ req' = req /\ ans' = ans /\ rows' = rows
           /\ dispatches' = dispatches /\ sent' = sent
BY DEF ledgerVars, callers, provider

LEMMA BeginKeeps ==
    ASSUME DialogueInv, LedgerInv', NEW c \in Callers, NEW says \in Says, Begin(c, says)
    PROVE  TurnsInv'
<1>1. turn = NoTurn /\ UNCHANGED <<ledgerVars, staged, used, stale, offered, approved, calledOff, letGo>>
      BY DEF Begin, promises
<1>2. pc' = pc /\ req' = req /\ ans' = ans /\ dispatches' = dispatches /\ sent' = sent
      BY <1>1, LedgerRests
<1>3. TurnsInv /\ ConfirmationTypeOK /\ dispatches \in [Actions -> Nat]
      BY DEF DialogueInv, LedgerInv, TypeOK, TurnsInv
<1>4. staged \in Pending \cup {Nothing} /\ (staged # Nothing => staged.action \in Actions)
      BY <1>3, StagedFields
<1>5. turn' \in Turn /\ turn'.by = c /\ turn'.saw = staged /\ turn'.next = staged
      /\ turn'.step = "begun" /\ turn'.told = "nothing"
      /\ (staged # Nothing => turn'.before = dispatches[staged.action])
      BY <1>3, <1>4 DEF Begin, Turn
<1>6. turn' # NoTurn BY <1>5, NoTurnIsNoTurn
<1>7. \A d \in Callers : pc[d] \in {"idle", "answered"} BY <1>1, <1>3 DEF ConfirmationTypeOK, At, Ongoing
<1>8. ConfirmationTypeOK' BY <1>1, <1>2, <1>3, <1>5, <1>7 DEF ConfirmationTypeOK, LedgerInv
<1>9. \A d \in Callers : AskedInv(d)' BY <1>5 DEF AskedInv, At, Ongoing
<1>10. Offered(staged)' /\ PromisesInv' BY <1>1, <1>2, <1>3 DEF TurnsInv, Offered, PromisesInv
<1>11. TurnInv' BY <1>1, <1>2, <1>3, <1>5 DEF TurnsInv, TurnInv, Offered
<1> QED BY <1>8, <1>9, <1>10, <1>11 DEF TurnsInv

LEMMA SuspendKeeps ==
    ASSUME DialogueInv, LedgerInv', NEW c \in Callers, Suspend(c) PROVE TurnsInv'
<1>1. turn # NoTurn /\ turn.by = c /\ turn.step = "begun" /\ staged # Nothing /\ staged' = Nothing
      /\ UNCHANGED <<ledgerVars, used, stale, offered, approved, calledOff>>
      /\ letGo' = letGo \cup {staged.action}
      BY DEF Suspend, At, Ongoing, LetGo
<1>2. pc' = pc /\ req' = req /\ ans' = ans /\ dispatches' = dispatches /\ sent' = sent
      BY <1>1, LedgerRests
<1>3. TurnsInv /\ ConfirmationTypeOK BY DEF DialogueInv, TurnsInv
<1>4. staged.action \in used /\ turn \in Turn BY <1>1, <1>3, StagedFields, TurnFields
<1>5. turn' \in Turn /\ turn'.by = c /\ turn'.saw = Nothing /\ turn'.next = Nothing
      /\ turn'.step = "begun" /\ turn'.told = turn.told
      BY <1>1, <1>4 DEF Suspend, Turn
<1>6. turn' # NoTurn BY <1>5, NoTurnIsNoTurn
<1>7. turn.told = "nothing" BY <1>1, <1>3 DEF TurnsInv, TurnInv
<1>8. \A d \in Callers : pc[d] \in {"idle", "answered"} BY <1>1, <1>3 DEF ConfirmationTypeOK, At, Ongoing
<1>9. ConfirmationTypeOK' BY <1>1, <1>2, <1>3, <1>4, <1>5, <1>8 DEF ConfirmationTypeOK, LedgerInv
<1>10. \A d \in Callers : AskedInv(d)' BY <1>5 DEF AskedInv, At, Ongoing
<1>11. Offered(staged)' /\ PromisesInv' BY <1>1, <1>2, <1>3 DEF TurnsInv, Offered, PromisesInv
<1>12. TurnInv' BY <1>1, <1>5, <1>7 DEF TurnInv, Offered
<1> QED BY <1>9, <1>10, <1>11, <1>12 DEF TurnsInv

\* A turn that decides without the ledger: nothing is told that could turn
\* out wrong.
LEMMA DecidedKeeps ==
    ASSUME DialogueInv, LedgerInv', NEW c \in Callers,
           At(c, "begun") \/ (At(c, "asked") /\ pc[c] = "answered"),
           UNCHANGED <<ledgerVars, staged, stale, approved>>,
           NEW told \in Statuses \cup {"nothing", "cancelled", "expired"},
           NEW next \in Pending \cup {Nothing}, Decide(told, next),
           used \subseteq used', used' \subseteq Actions,
           offered' \in [Actions -> Claims \cup {None}],
           \A a \in used : offered'[a] = offered[a],
           Offered(next)',
           calledOff' \subseteq used', letGo \subseteq letGo', letGo' \subseteq used',
           \A a \in calledOff' : dispatches[a] = 0,
           told = "unavailable" => staged # Nothing /\ dispatches[staged.action] = turn.before
    PROVE  TurnsInv'
<1>1. turn # NoTurn /\ turn.by = c BY DEF At, Ongoing
<1>2. pc' = pc /\ req' = req /\ ans' = ans /\ dispatches' = dispatches /\ sent' = sent
      BY LedgerRests
<1>3. TurnsInv /\ ConfirmationTypeOK BY DEF DialogueInv, TurnsInv
<1>4. turn' \in Turn /\ turn' # NoTurn /\ turn'.by = c /\ turn'.saw = turn.saw
      /\ turn'.before = turn.before
      /\ turn'.step = "done" /\ turn'.told = told /\ turn'.next = next
      BY <1>1, <1>3, DecidedTurn
<1>5. \A d \in Callers : pc[d] \in {"idle", "answered"}
      BY <1>1, <1>3 DEF ConfirmationTypeOK, At, Ongoing
<1>6. ConfirmationTypeOK' BY <1>2, <1>3, <1>4, <1>5 DEF ConfirmationTypeOK, LedgerInv
<1>7. \A d \in Callers : AskedInv(d)' BY <1>4 DEF AskedInv, At, Ongoing
<1>8. Offered(staged)' BY <1>3 DEF TurnsInv, Offered
<1>9. PromisesInv'
  <2>1. approved \subseteq used BY <1>3 DEF ConfirmationTypeOK
  <2> QED BY <1>2, <1>3, <2>1 DEF TurnsInv, PromisesInv
<1>10. TurnInv' BY <1>1, <1>2, <1>3, <1>4 DEF TurnsInv, TurnInv
<1> QED BY <1>6, <1>7, <1>8, <1>9, <1>10 DEF TurnsInv

LEMMA StageKeeps ==
    ASSUME DialogueInv, LedgerInv', NEW c \in Callers, NEW a \in Actions, NEW k \in Claims,
           Stage(c, a, k)
    PROVE  TurnsInv'
<1> DEFINE p == [action |-> a, claim |-> k]
<1>1. At(c, "begun") /\ a \notin used /\ used' = used \cup {a} /\ offered' = [offered EXCEPT ![a] = k]
      /\ Decide("nothing", p)
      /\ UNCHANGED <<ledgerVars, staged, stale, approved, calledOff, letGo>>
      BY DEF Stage
<1>2. TurnsInv /\ ConfirmationTypeOK BY DEF DialogueInv, TurnsInv
<1>3. p \in Pending BY DEF Pending
<1>4. Offered(p)' BY <1>1, <1>2 DEF Offered, ConfirmationTypeOK
<1>5. \A b \in calledOff : dispatches[b] = 0 BY <1>2 DEF TurnsInv, PromisesInv
<1> HIDE DEF p
<1>6. used' \subseteq Actions /\ used \subseteq used' /\ calledOff' \subseteq used' /\ letGo' \subseteq used'
      /\ offered' \in [Actions -> Claims \cup {None}] /\ (\A b \in used : offered'[b] = offered[b])
      BY <1>1, <1>2 DEF ConfirmationTypeOK
<1> QED BY <1>1, <1>3, <1>4, <1>5, <1>6, DecidedKeeps

LEMMA ContinueKeeps ==
    ASSUME DialogueInv, LedgerInv', NEW c \in Callers, Continue(c) PROVE TurnsInv'
<1>1. At(c, "begun") /\ UNCHANGED <<ledgerVars, staged, used, stale, offered, approved, calledOff, letGo>>
      BY DEF Continue, promises
<1>2. TurnsInv /\ ConfirmationTypeOK BY DEF DialogueInv, TurnsInv
<1>3. PICK next \in {turn.saw, Nothing} : Decide("nothing", next) BY DEF Continue
<1>4. turn.saw = staged /\ staged \in Pending \cup {Nothing} BY <1>1, <1>2, StagedFields DEF At, Ongoing
<1>5. Offered(next)' BY <1>1, <1>2, <1>3, <1>4 DEF TurnsInv, Offered
<1>6. \A b \in calledOff : dispatches[b] = 0 BY <1>2 DEF TurnsInv, PromisesInv
<1>7. used' \subseteq Actions /\ calledOff' \subseteq used' /\ letGo' \subseteq used'
      /\ offered' \in [Actions -> Claims \cup {None}]
      BY <1>1, <1>2 DEF ConfirmationTypeOK
<1> QED BY <1>1, <1>3, <1>4, <1>5, <1>6, <1>7, DecidedKeeps

LEMMA UnauthorizedKeeps ==
    ASSUME DialogueInv, LedgerInv', NEW c \in Callers, Unauthorized(c) PROVE TurnsInv'
<1>1. At(c, "begun") /\ turn.saw # Nothing /\ Decide("conflict", Nothing)
      /\ UNCHANGED <<ledgerVars, staged, used, stale, offered, approved, calledOff>>
      /\ letGo' = letGo \cup {turn.saw.action}
      BY DEF Unauthorized, LetGo
<1>2. TurnsInv /\ ConfirmationTypeOK BY DEF DialogueInv, TurnsInv
<1>3. turn.saw.action \in used BY <1>1, <1>2, StagedFields DEF At, Ongoing
<1>4. Offered(Nothing)' BY DEF Offered
<1>5. \A b \in calledOff : dispatches[b] = 0 BY <1>2 DEF TurnsInv, PromisesInv
<1>6. used' \subseteq Actions /\ calledOff' \subseteq used' /\ letGo' \subseteq used'
      /\ offered' \in [Actions -> Claims \cup {None}] /\ "conflict" \in Statuses
      BY <1>1, <1>2, <1>3 DEF ConfirmationTypeOK, Statuses
<1> QED BY <1>1, <1>4, <1>5, <1>6, DecidedKeeps

\* The ledger's answer: "not_started" is what lets the action be called off,
\* and "unavailable" means that this turn has not entered the tool.
LEMMA HearKeeps ==
    ASSUME DialogueInv, LedgerInv', NEW c \in Callers, Hear(c) PROVE TurnsInv'
<1> DEFINE status == ans[c].status
           a == turn.saw.action
           told == IF status = "not_started"
                   THEN IF turn.says = "cancel" THEN "cancelled" ELSE "expired" ELSE status
           next == IF status # "not_started" /\ status \in {"unknown", "unavailable"} /\ turn.says = "confirm"
                   THEN turn.saw ELSE Nothing
<1>1. At(c, "asked") /\ pc[c] = "answered" /\ letGo' = letGo \cup {a}
      /\ UNCHANGED <<ledgerVars, staged, used, stale, offered, approved>>
      BY DEF Hear
<1>2. Decide(told, next) /\ calledOff' = IF status = "not_started" THEN calledOff \cup {a} ELSE calledOff
      BY DEF Hear
<1>3. TurnsInv /\ ConfirmationTypeOK /\ AskedInv(c) BY DEF DialogueInv, TurnsInv
<1>4. turn.saw = staged /\ staged \in Pending \cup {Nothing} /\ staged # Nothing /\ a \in used /\ a \in Actions
      BY <1>1, <1>3, StagedFields DEF AskedInv, At, Ongoing
<1>5. status \in Statuses BY DEF DialogueInv, LedgerInv, TypeOK, Answer
<1>6. status = "not_started" => dispatches[a] = 0 BY <1>1, <1>3 DEF AskedInv
<1>7. status = "unavailable" => dispatches[staged.action] = turn.before BY <1>1, <1>3, <1>4 DEF AskedInv
<1>8. told \in Statuses \cup {"nothing", "cancelled", "expired"} /\ next \in Pending \cup {Nothing}
      BY <1>4, <1>5
<1>a. PICK t \in Statuses \cup {"nothing", "cancelled", "expired"}, n \in Pending \cup {Nothing} :
           t = told /\ n = next
       BY <1>8
<1>9. t = "unavailable" => staged # Nothing /\ dispatches[staged.action] = turn.before BY <1>4, <1>7, <1>a
<1>10. Offered(n)' BY <1>1, <1>3, <1>4, <1>a DEF TurnsInv, Offered
<1>11. \A b \in calledOff' : dispatches[b] = 0 BY <1>2, <1>3, <1>6 DEF TurnsInv, PromisesInv
<1>12. used' \subseteq Actions /\ calledOff' \subseteq used' /\ letGo' \subseteq used'
       /\ offered' \in [Actions -> Claims \cup {None}]
       BY <1>1, <1>2, <1>3, <1>4 DEF ConfirmationTypeOK
<1>14. Decide(t, n) BY <1>2, <1>a
<1> HIDE DEF told, next
<1> QED BY <1>1, <1>9, <1>10, <1>11, <1>12, <1>14, DecidedKeeps

\* Only a confirmation in time makes the ledger execute.
LEMMA AskKeeps ==
    ASSUME DialogueInv, LedgerInv', NEW c \in Callers, Ask(c) PROVE TurnsInv'
<1> DEFINE a == turn.saw.action
           runs == turn.says = "confirm" /\ a \notin stale
<1>1. turn # NoTurn /\ turn.by = c /\ turn.step = "begun" /\ turn.saw # Nothing
      /\ turn' = [turn EXCEPT !.step = "asked"]
      /\ UNCHANGED <<staged, used, stale, offered, letGo>>
      BY DEF Ask, At, Ongoing
<1>2. IF runs THEN Execute(c, BindingOf(turn.saw)) /\ approved' = approved \cup {a} /\ calledOff' = calledOff \ {a}
      ELSE LookUp(c, BindingOf(turn.saw)) /\ UNCHANGED <<approved, calledOff>>
      BY DEF Ask
<1>3. TurnsInv /\ ConfirmationTypeOK /\ TurnInv /\ PromisesInv /\ TypeOK
      BY DEF DialogueInv, LedgerInv, TurnsInv
<1>4. turn.saw = staged /\ staged \in Pending /\ a \in used /\ a \in Actions
      BY <1>1, <1>3, StagedFields
<1>5. /\ pc' = [pc EXCEPT ![c] = pc'[c]] /\ req'[c] = BindingOf(turn.saw)
      /\ (runs => pc'[c] = "reserve") /\ (~runs => pc'[c] = "lookup")
      /\ dispatches' = dispatches /\ sent' = sent
  <2>1. pc \in [Callers -> Steps] /\ req \in [Callers -> Binding \cup {NoBinding}] BY <1>3 DEF TypeOK
  <2>2. CASE runs BY <1>2, <2>1, <2>2 DEF Execute, Goto, provider
  <2>3. CASE ~runs BY <1>2, <2>1, <2>3 DEF LookUp, Goto, provider
  <2> QED BY <2>2, <2>3
<1>6. turn' \in Turn /\ turn' # NoTurn /\ turn'.by = c /\ turn'.saw = turn.saw
      /\ turn'.before = turn.before /\ turn'.told = turn.told /\ turn'.next = turn.next
      /\ turn'.step = "asked"
      BY <1>1, <1>3, AskingTurn
<1>7. \A d \in Callers : d # c => pc'[d] \in {"idle", "answered"}
      BY <1>1, <1>3, <1>5 DEF ConfirmationTypeOK, At, Ongoing, TypeOK
<1>8. approved' \subseteq used /\ calledOff' \subseteq used
      /\ approved \subseteq approved' /\ calledOff' \subseteq calledOff
      BY <1>2, <1>3, <1>4 DEF ConfirmationTypeOK
<1>9. ConfirmationTypeOK'
  <2>1. \A d \in Callers : pc'[d] \notin {"idle", "answered"} => At(d, "asked")'
        BY <1>6, <1>7 DEF At, Ongoing
  <2> QED BY <1>1, <1>3, <1>6, <1>8, <2>1 DEF ConfirmationTypeOK, LedgerInv
<1>10. dispatches[a] = turn.before BY <1>1, <1>3, <1>4 DEF TurnInv
<1>11. AskedInv(c)'
  <2>1. runs => a \in approved' /\ a \notin calledOff' BY <1>2
  <2>2. BindingOf(turn'.saw) = BindingOf(turn.saw) BY <1>6
  <2>3. BindingOf(turn.saw)' = BindingOf(turn'.saw) BY DEF BindingOf
  <2> HIDE DEF runs
  <2> QED BY <1>1, <1>5, <1>6, <1>10, <2>1, <2>2, <2>3 DEF AskedInv
<1>12. \A d \in Callers : AskedInv(d)' BY <1>6, <1>11 DEF AskedInv, At, Ongoing
<1>13. Offered(staged)' BY <1>1, <1>3 DEF TurnsInv, Offered
<1>14. PromisesInv' BY <1>1, <1>3, <1>5, <1>8 DEF PromisesInv
<1>15. TurnInv'
  <2>1. Offered(turn.next)' BY <1>1, <1>3, <1>6 DEF TurnInv, Offered
  <2> QED BY <1>1, <1>3, <1>5, <1>6, <2>1 DEF TurnInv, Offered
<1> QED BY <1>9, <1>12, <1>13, <1>14, <1>15 DEF TurnsInv

LEMMA SaveKeeps ==
    ASSUME DialogueInv, LedgerInv', NEW c \in Callers, Save(c) PROVE TurnsInv'
<1>1. At(c, "done") /\ turn # NoTurn /\ staged' = turn.next /\ turn' = NoTurn
      /\ letGo' = (IF turn.next = staged THEN letGo ELSE LetGo(staged))
      /\ UNCHANGED <<ledgerVars, used, stale, offered, approved, calledOff>>
      BY DEF Save, At, Ongoing
<1>2. pc' = pc /\ req' = req /\ ans' = ans /\ dispatches' = dispatches /\ sent' = sent
      BY <1>1, LedgerRests
<1>3. TurnsInv /\ ConfirmationTypeOK /\ TurnInv /\ PromisesInv BY DEF DialogueInv, TurnsInv
<1>4. turn.next \in Pending \cup {Nothing} BY <1>1, <1>3, TurnFields
<1>5. staged # Nothing => staged.action \in used BY <1>3, StagedFields
<1>6. letGo \subseteq letGo' /\ letGo' \subseteq used
      /\ (turn.next # staged /\ staged # Nothing => staged.action \in letGo')
      BY <1>1, <1>3, <1>5 DEF LetGo, ConfirmationTypeOK
<1>7. \A d \in Callers : pc[d] \in {"idle", "answered"} BY <1>1, <1>3 DEF ConfirmationTypeOK, At, Ongoing
<1>8. ConfirmationTypeOK' BY <1>1, <1>2, <1>3, <1>4, <1>6, <1>7 DEF ConfirmationTypeOK, LedgerInv
<1>9. (\A d \in Callers : AskedInv(d)') /\ TurnInv' BY <1>1 DEF AskedInv, TurnInv, At, Ongoing
<1>10. Offered(staged)' BY <1>1, <1>3 DEF TurnInv, Offered
<1>11. PromisesInv' BY <1>1, <1>2, <1>3, <1>6 DEF PromisesInv
<1> QED BY <1>8, <1>9, <1>10, <1>11 DEF TurnsInv

\* The turn is gone and its checkpoint is the old one.
LEMMA FailKeeps ==
    ASSUME DialogueInv, LedgerInv', NEW c \in Callers, Fail(c) PROVE TurnsInv'
<1>1. turn # NoTurn /\ turn.by = c /\ pc[c] \in {"idle", "answered"} /\ turn' = NoTurn
      /\ UNCHANGED <<ledgerVars, staged, used, stale, offered, approved, calledOff, letGo>>
      BY DEF Fail, Ongoing, promises
<1>2. pc' = pc /\ dispatches' = dispatches /\ sent' = sent BY <1>1, LedgerRests
<1>3. TurnsInv /\ ConfirmationTypeOK /\ PromisesInv BY DEF DialogueInv, TurnsInv
<1>4. \A d \in Callers : pc[d] \in {"idle", "answered"} BY <1>1, <1>3 DEF ConfirmationTypeOK, At, Ongoing
<1>5. ConfirmationTypeOK' BY <1>1, <1>2, <1>3, <1>4 DEF ConfirmationTypeOK, LedgerInv
<1>6. (\A d \in Callers : AskedInv(d)') /\ TurnInv' BY <1>1 DEF AskedInv, TurnInv, At, Ongoing
<1>7. Offered(staged)' /\ PromisesInv' BY <1>1, <1>2, <1>3 DEF TurnsInv, Offered, PromisesInv
<1> QED BY <1>5, <1>6, <1>7 DEF TurnsInv

LEMMA CrashKeeps ==
    ASSUME DialogueInv, LedgerInv', NEW c \in Callers, Crash(c) PROVE TurnsInv'
<1>1. turn # NoTurn /\ turn.by = c /\ turn' = NoTurn /\ Die(c)
      /\ UNCHANGED <<staged, used, stale, offered, approved, calledOff, letGo>>
      BY DEF Crash, At, Ongoing, promises
<1>2. pc' = [pc EXCEPT ![c] = "idle"] /\ dispatches' = dispatches /\ sent' = sent
      BY <1>1 DEF Die, Leave, Goto, provider
<1>3. TurnsInv /\ ConfirmationTypeOK /\ PromisesInv /\ pc \in [Callers -> Steps]
      BY DEF DialogueInv, TurnsInv, LedgerInv, TypeOK
<1>4. \A d \in Callers : pc'[d] \in {"idle", "answered"}
      BY <1>1, <1>2, <1>3 DEF ConfirmationTypeOK, At, Ongoing
<1>5. ConfirmationTypeOK' BY <1>1, <1>3, <1>4 DEF ConfirmationTypeOK, LedgerInv
<1>6. (\A d \in Callers : AskedInv(d)') /\ TurnInv' BY <1>1 DEF AskedInv, TurnInv, At, Ongoing
<1>7. Offered(staged)' /\ PromisesInv' BY <1>1, <1>2, <1>3 DEF TurnsInv, Offered, PromisesInv
<1> QED BY <1>5, <1>6, <1>7 DEF TurnsInv

\* The heart of the argument: the tool is entered for what this turn asks
\* for, which was approved, is not called off, and stays in the checkpoint.
LEMMA LedgerStepOfTurnKeeps ==
    ASSUME DialogueInv, LedgerInv', NEW c \in Callers, LedgerStep(c) PROVE TurnsInv'
<1> DEFINE a == turn.saw.action
<1>1. At(c, "asked") /\ turn # NoTurn /\ turn.by = c /\ turn.step = "asked"
      /\ UNCHANGED <<staged, turn, used, stale, offered, approved, calledOff, letGo>>
      BY DEF LedgerStep, At, Ongoing, dialogue, promises
<1>2. LedgerMove(c) BY CallerMoves DEF LedgerStep, DialogueInv
<1>3. TurnsInv /\ ConfirmationTypeOK /\ TurnInv /\ PromisesInv /\ AskedInv(c) /\ LedgerInv /\ TypeOK
      BY DEF DialogueInv, TurnsInv, LedgerInv
<1>4. turn.saw = staged /\ staged # Nothing /\ staged \in Pending /\ a \in used /\ a \in Actions
      BY <1>1, <1>3, StagedFields DEF AskedInv
<1>5. pc[c] \notin {"idle", "answered"} /\ req[c] = BindingOf(turn.saw)
      /\ req[c].action = a /\ req[c].claim = turn.saw.claim
      BY <1>1, <1>2, <1>3, <1>4, PendingFields DEF LedgerMove, AskedInv
<1>6. ConfirmationTypeOK'
  <2>1. \A d \in Callers : d # c => pc'[d] = pc[d] BY <1>2, <1>3 DEF LedgerMove, TypeOK
  <2>2. \A d \in Callers : pc'[d] \notin {"idle", "answered"} => At(d, "asked")'
        BY <1>1, <1>3, <2>1 DEF ConfirmationTypeOK, At, Ongoing
  <2> QED BY <1>1, <1>3, <2>2 DEF ConfirmationTypeOK, LedgerInv
<1>7. dispatches \in [Actions -> Nat] /\ sent \in [Actions -> Binding \cup {None}] BY <1>3 DEF TypeOK
<1>8. AskedInv(c)'
  <2>1. pc'[c] # "idle" => req'[c] = BindingOf(turn.saw)' BY <1>1, <1>2, <1>5 DEF LedgerMove, BindingOf
  <2>2. pc'[c] \notin {"idle", "lookup", "answered"} => a \in approved' /\ a \notin calledOff'
        BY <1>1, <1>2, <1>3, <1>5 DEF LedgerMove, AskedInv
  <2>3. pc'[c] \in {"reserve", "recheck", "lookup", "invoke"} => dispatches'[a] = turn.before
        BY <1>1, <1>2, <1>3 DEF LedgerMove, AskedInv
  <2>4. pc'[c] = "answered" /\ ans'[c].status = "unavailable" => dispatches'[a] = turn.before
        BY <1>1, <1>2, <1>3 DEF LedgerMove, AskedInv
  <2>5. pc'[c] = "answered" /\ ans'[c].status = "not_started" => dispatches'[a] = 0
        BY <1>2, <1>3, <1>4, <1>5 DEF LedgerMove, LedgerInv, RowsInv
  <2> QED BY <1>1, <1>4, <2>1, <2>2, <2>3, <2>4, <2>5 DEF AskedInv
<1>9. \A d \in Callers : AskedInv(d)' BY <1>1, <1>8 DEF AskedInv, At, Ongoing
<1>10. Offered(staged)' BY <1>1, <1>3 DEF TurnsInv, Offered
<1>11. PromisesInv'
  <2>1. CASE dispatches' = dispatches /\ sent' = sent BY <1>1, <1>3, <2>1 DEF PromisesInv
  <2>2. CASE /\ pc[c] = "invoke"
             /\ dispatches' = [dispatches EXCEPT ![a] = @ + 1] /\ sent' = [sent EXCEPT ![a] = req[c]]
    <3>1. a \in approved /\ a \notin calledOff BY <1>1, <1>3, <2>2 DEF AskedInv
    <3>2. sent'[a].claim = offered[a] BY <1>3, <1>4, <1>5, <1>7, <2>2 DEF TurnsInv, Offered
    <3>3. \A b \in Actions : b # a => dispatches'[b] = dispatches[b] /\ sent'[b] = sent[b]
          BY <1>7, <2>2
    <3>4. calledOff \subseteq Actions BY <1>3 DEF ConfirmationTypeOK
    <3> QED BY <1>1, <1>3, <1>4, <3>1, <3>2, <3>3, <3>4 DEF PromisesInv
  <2> QED BY <1>2, <1>5, <2>1, <2>2 DEF LedgerMove
<1>12. TurnInv' BY <1>1, <1>3 DEF TurnInv, Offered
<1> QED BY <1>6, <1>9, <1>10, <1>11, <1>12 DEF TurnsInv

\* Steps that touch neither the turn nor what the callers were told.
LEMMA WorldKeeps ==
    ASSUME DialogueInv, LedgerInv',
           UNCHANGED <<pc, req, ans, dispatches, sent, turn, used, offered, approved, calledOff>>,
           staged' = staged \/ (turn = NoTurn /\ staged' = Nothing),
           letGo' = (IF staged' = staged THEN letGo ELSE LetGo(staged)),
           stale' \subseteq used
    PROVE  TurnsInv'
<1>1. TurnsInv /\ ConfirmationTypeOK /\ TurnInv /\ PromisesInv BY DEF DialogueInv, TurnsInv
<1>2. staged # Nothing => staged.action \in used BY <1>1, StagedFields
<1>3. letGo \subseteq letGo' /\ letGo' \subseteq used
      /\ (staged' # staged /\ staged # Nothing => staged.action \in letGo')
      BY <1>1, <1>2 DEF LetGo, ConfirmationTypeOK
<1>4. ConfirmationTypeOK'
  <2>1. \A d \in Callers : pc'[d] \notin {"idle", "answered"} => At(d, "asked")'
        BY <1>1 DEF ConfirmationTypeOK, At, Ongoing
  <2> QED BY <1>1, <1>3, <2>1 DEF ConfirmationTypeOK, LedgerInv
<1>5. \A d \in Callers : AskedInv(d)' BY <1>1 DEF TurnsInv, AskedInv, At, Ongoing, BindingOf
<1>6. Offered(staged)' BY <1>1 DEF TurnsInv, Offered
<1>7. TurnInv' BY <1>1 DEF TurnInv, Offered
<1>8. PromisesInv' BY <1>1, <1>3 DEF PromisesInv
<1> QED BY <1>4, <1>5, <1>6, <1>7, <1>8 DEF TurnsInv

LEMMA WorldStepKeeps ==
    ASSUME DialogueInv, LedgerInv',
           DatabaseDecides \/ (\E a \in Actions : Expire(a)) \/ Discard \/ EraseSession
             \/ RecreateSession
    PROVE  TurnsInv'
<1>a. stale \subseteq used BY DEF DialogueInv, TurnsInv, ConfirmationTypeOK
<1>1. CASE DatabaseDecides
  <2>1. UNCHANGED <<pc, req, ans, dispatches, sent, staged, turn, used, stale, promises>>
        BY <1>1 DEF DatabaseDecides, LimboCommits, LimboAborts, callers, provider, dialogue
  <2> QED BY <1>a, <2>1, WorldKeeps DEF promises
<1>2. CASE \E a \in Actions : Expire(a)
  <2>1. UNCHANGED <<ledgerVars, staged, turn, used, promises>> /\ stale' \subseteq used
        BY <1>2, <1>a DEF Expire
  <2> QED BY <2>1, LedgerRests, WorldKeeps DEF promises
<1>3. CASE Discard
  <2>1. UNCHANGED <<ledgerVars, turn, used, stale, offered, approved, calledOff>> /\ turn = NoTurn
        /\ staged # Nothing /\ staged' = Nothing /\ letGo' = LetGo(staged)
        BY <1>3 DEF Discard
  <2> QED BY <1>a, <2>1, LedgerRests, WorldKeeps
<1>4. CASE EraseSession \/ RecreateSession
  <2>1. UNCHANGED <<pc, req, ans, dispatches, sent, staged, turn, used, stale, promises>>
        BY <1>4 DEF EraseSession, RecreateSession, DeleteSession, CreateSession, callers, provider,
                    dialogue
  <2> QED BY <1>a, <2>1, WorldKeeps DEF promises
<1> QED BY <1>1, <1>2, <1>3, <1>4

LEMMA StutterKeeps == ASSUME DialogueInv, LedgerInv', UNCHANGED vars PROVE TurnsInv'
<1>1. UNCHANGED <<ledgerVars, staged, turn, used, stale, promises>> /\ stale \subseteq used
      BY DEF vars, dialogue, DialogueInv, TurnsInv, ConfirmationTypeOK
<1> QED BY <1>1, LedgerRests, WorldKeeps DEF promises

LEMMA TurnsKeep == ASSUME DialogueInv, [ConfirmationNext]_vars PROVE DialogueInv'
<1>1. LedgerInv' BY LedgerHolds
<1>2. TurnsInv'
  <2>1. ASSUME NEW c \in Callers, TurnStep(c) PROVE TurnsInv'
    <3>1. CASE \E a \in Actions, k \in Claims : Stage(c, a, k) BY <1>1, <3>1, StageKeeps
    <3>2. CASE Continue(c) BY <1>1, <3>2, ContinueKeeps
    <3>3. CASE Ask(c) BY <1>1, <3>3, AskKeeps
    <3>4. CASE Unauthorized(c) BY <1>1, <3>4, UnauthorizedKeeps
    <3>5. CASE Hear(c) BY <1>1, <3>5, HearKeeps
    <3>6. CASE Save(c) BY <1>1, <3>6, SaveKeeps
    <3>7. CASE LedgerStep(c) BY <1>1, <3>7, LedgerStepOfTurnKeeps
    <3> QED BY <2>1, <3>1, <3>2, <3>3, <3>4, <3>5, <3>6, <3>7 DEF TurnStep
  <2>2. ASSUME NEW c \in Callers, NEW says \in Says, Begin(c, says) PROVE TurnsInv'
        BY <1>1, <2>2, BeginKeeps
  <2>3. ASSUME NEW c \in Callers, Suspend(c) PROVE TurnsInv' BY <1>1, <2>3, SuspendKeeps
  <2>4. ASSUME NEW c \in Callers, Fail(c) PROVE TurnsInv' BY <1>1, <2>4, FailKeeps
  <2>5. ASSUME NEW c \in Callers, Crash(c) PROVE TurnsInv' BY <1>1, <2>5, CrashKeeps
  <2>6. CASE DatabaseDecides \/ (\E a \in Actions : Expire(a)) \/ Discard \/ EraseSession
               \/ RecreateSession
        BY <1>1, <2>6, WorldStepKeeps
  <2>7. CASE UNCHANGED vars BY <1>1, <2>7, StutterKeeps
  <2> QED BY <2>1, <2>2, <2>3, <2>4, <2>5, <2>6, <2>7 DEF ConfirmationNext
<1> QED BY <1>1, <1>2 DEF DialogueInv

-----------------------------------------------------------------------------
(* The theorems.                                                           *)

\* The invariant holds in every reachable state, for any number of actions,
\* workers, kinds of requests and lives of the session
\* (_handle_durable_confirmation over ActionLedger.execute_once).
THEOREM DialogueInvariant == ConfirmationSpec => []DialogueInv
<1>1. ConfirmationInit => DialogueInv BY Initially
<1>2. DialogueInv /\ [ConfirmationNext]_vars => DialogueInv' BY TurnsKeep
<1> QED BY <1>1, <1>2, PTL DEF ConfirmationSpec

\* Checkpoint, turn and ledger keep their types, and only the turn that
\* holds the session lock is at work in the ledger.
THEOREM ConfirmationIsTyped == ConfirmationSpec => []ConfirmationTypeOK
<1>1. DialogueInv => ConfirmationTypeOK BY DEF DialogueInv, TurnsInv
<1> QED BY <1>1, DialogueInvariant, PTL

\* Every irreversible action was confirmed as it was offered, what was called
\* off or reported unavailable was not entered, and what was entered stays
\* proposed until its customer heard of it (_handle_durable_confirmation).
THEOREM ActionsAreAccountedFor == ConfirmationSpec => []DispatchIsAccountable
<1>1. ASSUME DialogueInv PROVE DispatchIsAccountable
  <2>1. TurnsInv /\ TurnInv /\ PromisesInv /\ ConfirmationTypeOK BY <1>1 DEF DialogueInv, TurnsInv
  <2>2. DispatchNeedsConfirmation BY <2>1 DEF PromisesInv, DispatchNeedsConfirmation
  <2>3. DispatchIsNotForgotten BY <2>1 DEF PromisesInv, DispatchIsNotForgotten
  <2>4. CalledOffNeverRuns BY <2>1 DEF PromisesInv, CalledOffNeverRuns
  <2>5. UnavailableMeansNotEntered BY <2>1 DEF TurnInv, UnavailableMeansNotEntered
  <2> QED BY <2>2, <2>3, <2>4, <2>5 DEF DispatchIsAccountable, ToldTruly
<1> QED BY <1>1, DialogueInvariant, PTL

\* The turns of a conversation use the ledger only as it may be used: the
\* composition is a behaviour of ActionLedger (ToolRegistry.execute).
THEOREM TurnsUseTheLedger == ConfirmationSpec => UsesLedger
<1>1. ConfirmationInit => Init BY DEF ConfirmationInit
<1>2. DialogueInv /\ [ConfirmationNext]_vars => [Next]_ledgerVars BY LedgerSteps DEF DialogueInv
<1> QED BY <1>1, <1>2, DialogueInvariant, PTL DEF ConfirmationSpec, UsesLedger, Spec

\* So what AtMostOnce promises of an action holds of every action staged in
\* a conversation, across turns, crashes and lives of the session.
THEOREM StagedActionsRunOnce == ConfirmationSpec => ImplementsAtMostOnce
BY TurnsUseTheLedger, LedgerImplementsAtMostOnce, PTL DEF UsesLedger

-----------------------------------------------------------------------------
(* The public conversation. *)

\* The ways a visitor's stream can end.
Endings == {<<>>, <<"error">>, <<"error", "done">>, <<"content", "done">>,
            <<"content", "completion", "done">>, <<"content", "error", "done">>}

InTurn == {"accepting", "shopping", "storing", "answering", "recording"}

VisitRows == [stage : OpenStages \cup {"over"}, key : 0..MaxMark, says : Sayings,
              thread : 0..MaxMark, receipt : BOOLEAN]

Marks == [key : 0..MaxMark, epoch : 0..MaxMark, helped : BOOLEAN]

PublicTypes ==
    /\ mark \in Marks /\ mark.key <= mark.epoch
    /\ threads \in [0..MaxMark -> 0..refunds]
    /\ refunds \in Nat
    /\ refunded \subseteq 1..refunds /\ forsaken \subseteq 1..refunds
    /\ \A b \in bought : Admits(b.found, b.by)
    /\ holder \in Visits \cup {Nobody}
    /\ visit \in [Visits -> VisitRows]
    /\ frames \in [Visits -> Endings] /\ kept \subseteq Visits

\* Refunds are staged at most once and in no epoch to come; neither one that
\* was executed nor, in the epoch of now, one that was forsaken is still staged.
StagedNow ==
    /\ \A e, f \in 0..MaxMark : threads[e] # 0 /\ threads[e] = threads[f] => e = f
    /\ \A e \in 0..MaxMark : e > mark.epoch => threads[e] = 0
    /\ \A e \in 0..MaxMark : threads[e] \notin refunded
    /\ threads[mark.epoch] \notin forsaken
    /\ refunded \cap forsaken = {}

\* Where a message stands: who is at work holds the lock, a shopping turn is
\* admitted and past its fence, a support turn is in the thread of now, and
\* nothing was sent before the end.
Attended(row, v) ==
    /\ row.stage \in InTurn <=> holder = v
    /\ row.stage \in {"accepting", "shopping"} => Admits(mark, row.key)
    /\ row.stage = "shopping" => threads[mark.epoch] = 0
    /\ row.stage = "answering" => row.thread = mark.epoch
    /\ row.stage # "over" => frames[v] = <<>>
    /\ row.stage = "replied" /\ row.receipt => v \in kept
    /\ frames[v] = <<"content", "completion", "done">> => v \in kept

PublicInv == PublicTypes /\ StagedNow /\ \A v \in Visits : Attended(visit[v], v)

LEMMA Openings ==
    /\ InTurn \subseteq OpenStages /\ InTask \subseteq OpenStages /\ InRelay \subseteq InTurn
    /\ InTask \ {"queued"} \subseteq InTurn
    /\ "over" \notin OpenStages
BY DEF InTurn, OpenStages, InTask, InRelay

\* A move of one message alone: where it stands afterwards, and its frames.
MovesTo(v, row, fs) ==
    /\ UNCHANGED <<mark, business, bought, forsaken>>
    /\ visit' = [visit EXCEPT ![v] = row] /\ row \in VisitRows
    /\ frames' = [frames EXCEPT ![v] = fs] /\ fs \in Endings
    /\ kept' \subseteq kept \cup {v} /\ kept \subseteq kept' \cup {v}
    /\ holder' = IF row.stage \in InTurn THEN v ELSE IF holder = v THEN Nobody ELSE holder
    /\ row.stage \in InTurn => holder \in {v, Nobody}
    /\ row.stage \in {"accepting", "shopping"} => Admits(mark, row.key)
    /\ row.stage = "shopping" => threads[mark.epoch] = 0
    /\ row.stage = "answering" => row.thread = mark.epoch
    /\ row.stage # "over" => fs = <<>>
    /\ row.stage = "replied" /\ row.receipt => v \in kept'
    /\ fs = <<"content", "completion", "done">> => v \in kept'

LEMMA MoveKeeps == ASSUME PublicInv, NEW v \in Visits, NEW row, NEW fs, MovesTo(v, row, fs)
                   PROVE  PublicInv'
<1>1. Nobody \notin Visits
  BY VisitsAssumption
<1>2. PublicTypes'
  <2>1. visit' \in [Visits -> VisitRows] /\ frames' \in [Visits -> Endings] /\ kept' \subseteq Visits
    BY DEF PublicInv, PublicTypes, MovesTo
  <2>2. holder' \in Visits \cup {Nobody}
    BY DEF PublicInv, PublicTypes, MovesTo
  <2> QED BY <2>1, <2>2 DEF PublicInv, PublicTypes, MovesTo, business, Admits
<1>3. StagedNow'
  BY DEF PublicInv, StagedNow, MovesTo, business
<1>4. visit'[v] = row /\ frames'[v] = fs
  BY DEF PublicInv, PublicTypes, MovesTo
<1>5. Attended(visit[v], v)'
  <2>1. row.stage \in InTurn <=> holder' = v
    BY <1>1 DEF MovesTo
  <2> QED BY <1>4, <2>1 DEF MovesTo, Attended, Admits, business
<1>6. ASSUME NEW u \in Visits, u # v PROVE Attended(visit[u], u)'
  <2>1. visit'[u] = visit[u] /\ frames'[u] = frames[u] /\ (u \in kept' <=> u \in kept)
    BY <1>6 DEF PublicInv, PublicTypes, MovesTo
  <2>2. holder' = u <=> holder = u
    BY <1>1, <1>6 DEF MovesTo
  <2>3. Attended(visit[u], u)
    BY DEF PublicInv
  <2> QED BY <2>1, <2>2, <2>3 DEF MovesTo, Attended, Admits, business
<1> QED BY <1>2, <1>3, <1>5, <1>6 DEF PublicInv

LEMMA RowAfter ==
    ASSUME PublicInv, NEW v \in Visits, NEW stage \in OpenStages \cup {"over"}
    PROVE  \E row \in VisitRows :
              /\ row.stage = stage /\ row.key = visit[v].key /\ row.thread = visit[v].thread
              /\ row.receipt = visit[v].receipt
              /\ (Go(v, stage) => visit' = [visit EXCEPT ![v] = row])
              /\ row = [visit[v] EXCEPT !.stage = stage]
<1>1. PICK old \in VisitRows : old = visit[v]
  BY DEF PublicInv, PublicTypes
<1>2. PICK row : row = [old EXCEPT !.stage = stage]
  OBVIOUS
<1>3. row \in VisitRows
  BY <1>1, <1>2 DEF VisitRows
<1>4. row.stage = stage /\ row.key = old.key /\ row.thread = old.thread /\ row.receipt = old.receipt
  BY <1>1, <1>2 DEF VisitRows
<1> QED BY <1>1, <1>2, <1>3, <1>4 DEF Go

LEMMA PublicStarts == PublicInit => PublicInv
<1>1. SUFFICES ASSUME PublicInit PROVE PublicInv
  OBVIOUS
<1>2. 0 \in 0..MaxMark
  BY VisitsAssumption
<1>3. Fresh \in VisitRows /\ Fresh.stage = "over"
  BY <1>2 DEF Fresh, VisitRows, Sayings
<1>4. PublicTypes
  BY <1>1, <1>2, <1>3 DEF PublicInit, PublicTypes, Marks, Endings
<1>5. StagedNow
  BY <1>1, <1>2 DEF PublicInit, StagedNow
<1>6. ASSUME NEW v \in Visits PROVE Attended(visit[v], v)
  BY <1>1, <1>3, VisitsAssumption DEF PublicInit, Attended, InTurn
<1> QED BY <1>4, <1>5, <1>6 DEF PublicInv

\* What Attended says of one message, and its place among the others.
LEMMA OpenVisit ==
    ASSUME PublicInv, NEW v \in Visits
    PROVE  /\ visit[v] \in VisitRows /\ frames[v] \in Endings
           /\ visit \in [Visits -> VisitRows] /\ frames \in [Visits -> Endings]
           /\ Attended(visit[v], v)
           /\ frames = [frames EXCEPT ![v] = frames[v]]
BY DEF PublicInv, PublicTypes

LEMMA ArriveKeeps == ASSUME PublicInv, NEW v \in Visits, NEW says \in Sayings, Arrive(v, says)
                     PROVE  PublicInv'
<1>1. PICK k \in 0..MaxMark : k = mark.key
  BY DEF PublicInv, PublicTypes, Marks
<1>2. PICK row : row = [Fresh EXCEPT !.stage = "routing", !.key = k, !.says = says]
  OBVIOUS
<1>3. row \in VisitRows /\ row.stage = "routing"
  <2>1. 0 \in 0..MaxMark /\ "routing" \in OpenStages \cup {"over"}
    BY VisitsAssumption DEF OpenStages
  <2>2. row = [stage |-> "routing", key |-> k, says |-> says, thread |-> 0, receipt |-> FALSE]
    BY <1>2 DEF Fresh
  <2> QED BY <1>1, <2>1, <2>2 DEF VisitRows
<1>4. visit' = [visit EXCEPT ![v] = row]
  BY <1>1, <1>2 DEF Arrive
<1>5. holder # v
  BY OpenVisit DEF Arrive, Attended, InTurn
<1>6. /\ row.stage \notin InTurn \cup {"over", "replied"}
      /\ <<>> \in Endings /\ <<>> # <<"content", "completion", "done">>
  BY <1>3 DEF Endings, InTurn
<1>7. MovesTo(v, row, <<>>)
  BY <1>3, <1>4, <1>5, <1>6 DEF Arrive, MovesTo, InTurn
<1> QED BY <1>7, MoveKeeps

\* The ends of a stream, as they are put together.
LEMMA Behind == ASSUME NEW S, NEW a \in S, NEW b \in S PROVE <<a>> \o <<b>> = <<a, b>>
<1>1. <<a>> \in Seq(S) /\ <<b>> \in Seq(S) /\ <<a, b>> \in Seq(S)
  OBVIOUS
<1>2. PICK s \in Seq(S) : s = <<a>> \o <<b>>
  BY <1>1, ConcatProperties
<1>3. Len(s) = 2 /\ s[1] = a /\ s[2] = b
  BY <1>1, <1>2, ConcatProperties
<1>4. s = <<a, b>>
  BY <1>1, <1>3
<1> QED BY <1>2, <1>4

LEMMA Behind2 == ASSUME NEW S, NEW a \in S, NEW b \in S, NEW c \in S PROVE <<a>> \o <<b, c>> = <<a, b, c>>
<1>1. <<a>> \in Seq(S) /\ <<b, c>> \in Seq(S) /\ <<a, b, c>> \in Seq(S)
  OBVIOUS
<1>2. PICK s \in Seq(S) : s = <<a>> \o <<b, c>>
  BY <1>1, ConcatProperties
<1>3. Len(s) = 3 /\ s[1] = a /\ s[2] = b /\ s[3] = c
  BY <1>1, <1>2, ConcatProperties
<1>4. s = <<a, b, c>>
  BY <1>1, <1>3
<1> QED BY <1>2, <1>4

LEMMA Behind3 == ASSUME NEW S, NEW a \in S, NEW b \in S, NEW c \in S PROVE <<a, b>> \o <<c>> = <<a, b, c>>
<1>1. <<a, b>> \in Seq(S) /\ <<c>> \in Seq(S) /\ <<a, b, c>> \in Seq(S)
  OBVIOUS
<1>2. PICK s \in Seq(S) : s = <<a, b>> \o <<c>>
  BY <1>1, ConcatProperties
<1>3. Len(s) = 3 /\ s[1] = a /\ s[2] = b /\ s[3] = c
  BY <1>1, <1>2, ConcatProperties
<1>4. s = <<a, b, c>>
  BY <1>1, <1>3
<1> QED BY <1>2, <1>4

LEMMA Endgames ==
    /\ <<>> \o <<"error">> = <<"error">>
    /\ <<>> \o <<"error", "done">> = <<"error", "done">>
    /\ <<>> \o (<<"content">> \o <<"completion">> \o <<"done">>) = <<"content", "completion", "done">>
    /\ <<>> \o (<<"content">> \o <<>> \o <<"done">>) = <<"content", "done">>
    /\ <<>> \o (<<"content">> \o <<"error", "done">>) = <<"content", "error", "done">>
    /\ <<>> \o (<<>> \o <<"error", "done">>) = <<"error", "done">>
<1>1. PICK W : W = {"content", "completion", "done", "error"}
  OBVIOUS
<1>2. <<>> \o <<"error">> = <<"error">> /\ <<>> \o <<"error", "done">> = <<"error", "done">>
  OBVIOUS
<1>3. <<"content">> \o <<"completion">> = <<"content", "completion">>
  BY <1>1, Behind
<1>4. <<"content", "completion">> \o <<"done">> = <<"content", "completion", "done">>
  BY <1>1, Behind3
<1>5. <<"content">> \o <<"done">> = <<"content", "done">> /\ <<"content">> \o <<>> = <<"content">>
  BY <1>1, Behind
<1>6. <<"content">> \o <<"error", "done">> = <<"content", "error", "done">>
  BY <1>1, Behind2
<1>7. PICK x, y, z : /\ x = <<"content", "completion", "done">> /\ y = <<"content", "done">>
                     /\ z = <<"content", "error", "done">>
  OBVIOUS
<1>8. <<>> \o x = x /\ <<>> \o y = y /\ <<>> \o z = z
  BY <1>7
<1> QED BY <1>2, <1>3, <1>4, <1>5, <1>6, <1>7, <1>8

\* The stages a message is in before and after a move, as they concern the lock.
LEMMA UnlockOf ==
    ASSUME PublicInv, NEW v \in Visits, Unlock(v), NEW row, row.stage \notin InTurn
    PROVE  holder' = IF row.stage \in InTurn THEN v ELSE IF holder = v THEN Nobody ELSE holder
BY DEF Unlock

\* A message moves on without a word and without a change of the lock.
LEMMA QuietMove ==
    ASSUME PublicInv, NEW v \in Visits, NEW stage \in OpenStages \cup {"over"}, Go(v, stage),
           UNCHANGED <<mark, business, bought, forsaken, frames, kept, holder>>,
           visit[v].stage \in InTurn <=> stage \in InTurn,
           stage \notin {"accepting", "shopping", "answering", "replied"},
           visit[v].stage # "over"
    PROVE  PublicInv'
<1>1. PICK row \in VisitRows : row.stage = stage /\ visit' = [visit EXCEPT ![v] = row]
  BY RowAfter
<1>2. visit[v].stage \in InTurn <=> holder = v
  BY OpenVisit DEF Attended
<1>3. frames[v] = <<>> /\ frames' = [frames EXCEPT ![v] = <<>>]
  BY OpenVisit DEF Attended
<1>4. <<>> \in Endings /\ <<>> # <<"content", "completion", "done">>
  BY DEF Endings
<1>5. holder' = IF row.stage \in InTurn THEN v ELSE IF holder = v THEN Nobody ELSE holder
  BY <1>1, <1>2
<1>6. MovesTo(v, row, <<>>)
  BY <1>1, <1>2, <1>3, <1>4, <1>5 DEF MovesTo
<1> QED BY <1>6, MoveKeeps

\* A message comes to its end, or fails, and gives the lock back if it has it.
LEMMA LastMove ==
    ASSUME PublicInv, NEW v \in Visits, NEW stage \in {"over", "failed"}, Go(v, stage), Unlock(v),
           UNCHANGED <<mark, business, bought, forsaken>>,
           kept' \subseteq kept \cup {v}, kept \subseteq kept',
           NEW fs \in Endings, frames' = [frames EXCEPT ![v] = fs], 
           stage = "failed" => fs = <<>>,
           fs = <<"content", "completion", "done">> => v \in kept'
    PROVE  PublicInv'
<1>1. stage \in OpenStages \cup {"over"} /\ stage \notin InTurn \cup {"replied", "accepting", "shopping", "answering"}
  BY DEF OpenStages, InTurn
<1>2. PICK row \in VisitRows : row.stage = stage /\ visit' = [visit EXCEPT ![v] = row]
  BY <1>1, RowAfter
<1>3. MovesTo(v, row, fs)
  BY <1>1, <1>2 DEF MovesTo, Unlock
<1> QED BY <1>3, MoveKeeps

LEMMA RoutingKeeps ==
    ASSUME PublicInv, NEW v \in Visits,
           \/ \E stage \in {"limiting", "support"} : RouteTo(v, stage)
           \/ PassLimiter(v) \/ Conclude(v)
    PROVE  PublicInv'
<1>1. CASE \E stage \in {"limiting", "support"} : RouteTo(v, stage)
  BY <1>1, QuietMove DEF RouteTo, OpenStages, InTurn
<1>2. CASE PassLimiter(v)
  BY <1>2, QuietMove DEF PassLimiter, OpenStages, InTurn, InTask
<1>3. CASE Conclude(v)
  BY <1>3, QuietMove DEF Conclude, OpenStages, InTurn, InTask
<1> QED BY <1>1, <1>2, <1>3

\* What a message that is not over emits is all its client receives.
LEMMA FirstWords ==
    ASSUME PublicInv, NEW v \in Visits, visit[v].stage # "over", NEW fs, NEW gs, Emit(v, fs), <<>> \o fs = gs
    PROVE  frames' = [frames EXCEPT ![v] = gs]
<1>1. frames[v] = <<>>
  BY OpenVisit DEF Attended
<1> QED BY <1>1 DEF Emit

LEMMA Silence ==
    ASSUME PublicInv, NEW v \in Visits, UNCHANGED frames, visit[v].stage # "over"
    PROVE  frames' = [frames EXCEPT ![v] = <<>>]
BY OpenVisit DEF Attended

LEMMA FailuresKeep ==
    ASSUME PublicInv, NEW v \in Visits,
           RouterFails(v) \/ Deliver(v) \/ ReportFailure(v) \/ Deadline(v) \/ LeavePage(v)
    PROVE  PublicInv'
<1>0. "over" \in {"over", "failed"} /\ "failed" \in {"over", "failed"}
  OBVIOUS
<1>1. CASE RouterFails(v)
  <2>1. frames' = [frames EXCEPT ![v] = <<"error">>]
    BY <1>1, Endgames, FirstWords DEF RouterFails
  <2>2. <<"error">> \in Endings /\ <<"error">> # <<"content", "completion", "done">>
    BY DEF Endings
  <2>3. Unlock(v)
    BY <1>1, OpenVisit DEF RouterFails, Attended, InTurn, Unlock
  <2>4. PICK fs \in Endings : fs = <<"error">>
    BY <2>2
  <2> QED BY <1>0, <1>1, <2>1, <2>2, <2>3, <2>4, LastMove DEF RouterFails
<1>2. CASE Deliver(v)
  <2>1. PICK fs \in Endings :
           /\ frames' = [frames EXCEPT ![v] = fs]
           /\ fs = <<"content", "completion", "done">> => v \in kept
    <3>1. CASE visit[v].receipt
      <4>1. v \in kept
        BY <1>2, <3>1, OpenVisit DEF Deliver, Attended
      <4>2. frames' = [frames EXCEPT ![v] = <<"content", "completion", "done">>]
        BY <1>2, <3>1, Endgames, FirstWords DEF Deliver
      <4> QED BY <4>1, <4>2 DEF Endings
    <3>2. CASE ~visit[v].receipt
      <4>1. frames' = [frames EXCEPT ![v] = <<"content", "done">>]
        BY <1>2, <3>2, Endgames, FirstWords DEF Deliver
      <4>2. <<"content", "done">> # <<"content", "completion", "done">> /\ <<"content", "done">> \in Endings
        BY DEF Endings
      <4> QED BY <4>1, <4>2
    <3> QED BY <3>1, <3>2
  <2>2. Unlock(v)
    BY <1>2, OpenVisit DEF Deliver, Attended, InTurn, Unlock
  <2> QED BY <1>0, <1>2, <2>1, <2>2, LastMove DEF Deliver
<1>3. CASE ReportFailure(v)
  <2>1. frames' = [frames EXCEPT ![v] = <<"error", "done">>]
    BY <1>3, Endgames, FirstWords DEF ReportFailure
  <2>2. <<"error", "done">> \in Endings /\ <<"error", "done">> # <<"content", "completion", "done">>
    BY DEF Endings
  <2>3. PICK fs \in Endings : fs = <<"error", "done">>
    BY <2>2
  <2>4. Unlock(v)
    BY <1>3, OpenVisit DEF ReportFailure, Attended, InTurn, Unlock
  <2> QED BY <1>0, <1>3, <2>1, <2>2, <2>3, <2>4, LastMove DEF ReportFailure
<1>4. CASE Deadline(v) \/ LeavePage(v)
  <2>1. visit[v].stage # "over"
    BY <1>4, Openings DEF Deadline, LeavePage
  <2>2. frames' = [frames EXCEPT ![v] = <<>>]
    BY <1>4, <2>1, Silence DEF Deadline, LeavePage
  <2>3. PICK fs \in Endings : fs = <<>>
    BY DEF Endings
  <2>4. fs # <<"content", "completion", "done">>
    BY <2>3
  <2> QED BY <1>0, <1>4, <2>2, <2>3, <2>4, LastMove DEF Deadline, LeavePage
<1> QED BY <1>1, <1>2, <1>3, <1>4

LEMMA TakesKeeps ==
    ASSUME PublicInv, NEW v \in Visits, TakeConversation(v) \/ RelayTurn(v)
    PROVE  PublicInv'
<1>1. visit[v].stage \in {"queued", "support"} /\ holder # v
  BY OpenVisit DEF TakeConversation, RelayTurn, Attended, InTurn
<1>2. frames' = [frames EXCEPT ![v] = <<>>]
  BY <1>1, Silence DEF TakeConversation, RelayTurn
<1>3. <<>> \in Endings /\ <<>> # <<"content", "completion", "done">>
  BY DEF Endings
<1>4. CASE Go(v, "failed") /\ UNCHANGED holder
  <2>1. "failed" \in {"over", "failed"} /\ Unlock(v)
    BY <1>1, <1>4 DEF Unlock
  <2> QED BY <1>2, <1>3, <1>4, <2>1, LastMove DEF TakeConversation, RelayTurn
<1>5. CASE TakeConversation(v) /\ holder = Nobody /\ Admits(mark, visit[v].key)
  <2>1. "accepting" \in OpenStages \cup {"over"} /\ "accepting" \in InTurn
    BY DEF OpenStages, InTask, InTurn
  <2>2. PICK row \in VisitRows : /\ row.stage = "accepting" /\ row.key = visit[v].key
                                 /\ visit' = [visit EXCEPT ![v] = row]
    BY <1>5, <2>1, RowAfter DEF TakeConversation
  <2>3. MovesTo(v, row, <<>>)
    BY <1>2, <1>3, <1>5, <2>1, <2>2 DEF TakeConversation, MovesTo
  <2> QED BY <2>3, MoveKeeps
<1>6. CASE /\ RelayTurn(v) /\ holder = Nobody /\ holder' = v
           /\ visit' = [visit EXCEPT ![v].stage = "answering", ![v].thread = mark.epoch]
  <2>1. PICK e \in 0..MaxMark : e = mark.epoch
    BY DEF PublicInv, PublicTypes, Marks
  <2>2. PICK old \in VisitRows : old = visit[v]
    BY OpenVisit
  <2>3. PICK row : row = [old EXCEPT !.stage = "answering", !.thread = e]
    OBVIOUS
  <2>4. "answering" \in OpenStages \cup {"over"} /\ "answering" \in InTurn
    BY DEF OpenStages, InRelay, InTurn
  <2>5. row \in VisitRows /\ row.stage = "answering" /\ row.thread = e
    BY <2>1, <2>2, <2>3, <2>4 DEF VisitRows
  <2>6. visit' = [visit EXCEPT ![v] = row]
    BY <1>6, <2>1, <2>2, <2>3
  <2>7. MovesTo(v, row, <<>>)
    BY <1>2, <1>3, <1>6, <2>1, <2>4, <2>5, <2>6 DEF RelayTurn, MovesTo
  <2> QED BY <2>7, MoveKeeps
<1> QED BY <1>4, <1>5, <1>6 DEF TakeConversation, RelayTurn

LEMMA StoreReplyKeeps == ASSUME PublicInv, NEW v \in Visits, StoreReply(v) PROVE PublicInv'
<1>1. PICK done \in BOOLEAN, receipt \in BOOLEAN :
         /\ receipt => done
         /\ kept' = IF done THEN kept \cup {v} ELSE kept
         /\ visit' = [visit EXCEPT ![v].stage = "replied", ![v].receipt = receipt]
  BY DEF StoreReply
<1>2. PICK old \in VisitRows : old = visit[v]
  BY OpenVisit
<1>3. PICK row : row = [old EXCEPT !.stage = "replied", !.receipt = receipt]
  OBVIOUS
<1>4. "replied" \in OpenStages \cup {"over"} /\ "replied" \notin InTurn
  BY DEF OpenStages, InTurn
<1>5. row \in VisitRows /\ row.stage = "replied" /\ row.receipt = receipt
  BY <1>1, <1>2, <1>3, <1>4 DEF VisitRows
<1>6. visit' = [visit EXCEPT ![v] = row]
  BY <1>1, <1>2, <1>3
<1>7. frames' = [frames EXCEPT ![v] = <<>>]
  BY Silence DEF StoreReply
<1>8. <<>> \in Endings /\ <<>> # <<"content", "completion", "done">>
  BY DEF Endings
<1>9. MovesTo(v, row, <<>>)
  BY <1>1, <1>4, <1>5, <1>6, <1>7, <1>8 DEF StoreReply, MovesTo, Unlock
<1> QED BY <1>9, MoveKeeps

LEMMA SupportEndKeeps ==
    ASSUME PublicInv, NEW v \in Visits, SupportEnds(v) \/ SupportFails(v)
    PROVE  PublicInv'
<1>0. "over" \in {"over", "failed"}
  OBVIOUS
<1>1. CASE SupportEnds(v)
  <2>1. PICK done \in BOOLEAN, receipt \in BOOLEAN :
           /\ receipt => done
           /\ kept' = IF done THEN kept \cup {v} ELSE kept
           /\ Emit(v, <<"content">> \o (IF receipt THEN <<"completion">> ELSE <<>>) \o <<"done">>)
    BY <1>1 DEF SupportEnds
  <2>2. PICK fs \in Endings :
           /\ frames' = [frames EXCEPT ![v] = fs]
           /\ fs = <<"content", "completion", "done">> => v \in kept'
    <3>1. CASE receipt
      <4>1. v \in kept'
        BY <2>1, <3>1
      <4>2. frames' = [frames EXCEPT ![v] = <<"content", "completion", "done">>]
        BY <1>1, <2>1, <3>1, Endgames, FirstWords DEF SupportEnds
      <4> QED BY <4>1, <4>2 DEF Endings
    <3>2. CASE ~receipt
      <4>1. frames' = [frames EXCEPT ![v] = <<"content", "done">>]
        BY <1>1, <2>1, <3>2, Endgames, FirstWords DEF SupportEnds
      <4>2. <<"content", "done">> # <<"content", "completion", "done">> /\ <<"content", "done">> \in Endings
        BY DEF Endings
      <4> QED BY <4>1, <4>2
    <3> QED BY <3>1, <3>2
  <2>3. kept' \subseteq kept \cup {v} /\ kept \subseteq kept'
    BY <2>1
  <2> QED BY <1>0, <1>1, <2>2, <2>3, LastMove DEF SupportEnds
<1>2. CASE SupportFails(v)
  <2>1. visit[v].stage # "over"
    BY <1>2 DEF SupportFails, InRelay
  <2>2. PICK part \in {<<>>, <<"content">>} : Emit(v, part \o <<"error", "done">>)
    BY <1>2 DEF SupportFails
  <2>3. PICK fs \in {<<"error", "done">>, <<"content", "error", "done">>} :
           frames' = [frames EXCEPT ![v] = fs]
    <3>1. CASE part = <<>>
      <4>1. frames' = [frames EXCEPT ![v] = <<"error", "done">>]
        BY <2>1, <2>2, <3>1, Endgames, FirstWords
      <4> QED BY <4>1
    <3>2. CASE part = <<"content">>
      <4>1. frames' = [frames EXCEPT ![v] = <<"content", "error", "done">>]
        BY <2>1, <2>2, <3>2, Endgames, FirstWords
      <4> QED BY <4>1
    <3> QED BY <2>2, <3>1, <3>2
  <2>4. fs \in Endings /\ fs # <<"content", "completion", "done">>
    BY DEF Endings
  <2> QED BY <1>0, <1>2, <2>3, <2>4, LastMove DEF SupportFails
<1> QED BY <1>1, <1>2

\* The epoch moves on while no support turn is at work: its thread is new, so
\* that nothing is staged in it.
LEMMA EpochMoves ==
    ASSUME PublicInv, NEW new \in Marks, new.epoch = mark.epoch + 1, new.key <= new.epoch,
           mark' = new, UNCHANGED <<business, bought, forsaken>>
    PROVE  mark' \in Marks /\ mark'.key <= mark'.epoch /\ StagedNow' /\ threads'[mark'.epoch] = 0
<1>1. PICK e \in 0..MaxMark : e = mark.epoch
  BY DEF PublicInv, PublicTypes, Marks
<1>2. e + 1 \in 0..MaxMark /\ mark'.epoch = e + 1
  BY <1>1 DEF Marks
<1>3. threads[e + 1] = 0 /\ 0 \notin forsaken
  BY <1>1, <1>2, VisitsAssumption DEF PublicInv, StagedNow, PublicTypes
<1>4. StagedNow'
  BY <1>1, <1>2, <1>3, VisitsAssumption DEF PublicInv, StagedNow, business
<1> QED BY <1>1, <1>2, <1>3, <1>4 DEF business

\* A message without the lock does not notice what is done under it.
LEMMA IdleStays ==
    ASSUME PublicInv, NEW u \in Visits, visit'[u] = visit[u], frames'[u] = frames[u],
           holder # u, holder' # u, u \in kept => u \in kept'
    PROVE  Attended(visit[u], u)'
<1>1. Attended(visit[u], u)
  BY DEF PublicInv
<1>2. visit[u].stage \notin InTurn
  BY <1>1 DEF Attended
<1>3. visit[u].stage \notin {"accepting", "shopping", "answering"}
  BY <1>2 DEF InTurn
<1> QED BY <1>1, <1>2, <1>3 DEF Attended

LEMMA NextEpoch ==
    ASSUME PublicInv, mark.epoch < MaxMark, mark' = [mark EXCEPT !.epoch = mark.epoch + 1],
           UNCHANGED <<business, bought, forsaken>>
    PROVE  /\ mark' \in Marks /\ mark'.key <= mark'.epoch /\ StagedNow' /\ threads'[mark'.epoch] = 0
           /\ mark'.key = mark.key /\ mark'.helped = mark.helped
<1>1. PICK old \in Marks : old = mark /\ old.key <= old.epoch
  BY DEF PublicInv, PublicTypes
<1>2. PICK new : new = [old EXCEPT !.epoch = old.epoch + 1]
  OBVIOUS
<1>3. new \in Marks /\ new.epoch = old.epoch + 1 /\ new.key = old.key /\ new.helped = old.helped
  BY <1>1, <1>2, VisitsAssumption DEF Marks
<1>4. new.key <= new.epoch
  BY <1>1, <1>3, VisitsAssumption DEF Marks
<1>5. mark' = new
  BY <1>1, <1>2
<1> QED BY <1>1, <1>3, <1>4, <1>5, EpochMoves

LEMMA AcceptKeeps == ASSUME PublicInv, NEW v \in Visits, Accept(v) PROVE PublicInv'
<1>1. mark' = [mark EXCEPT !.epoch = mark.epoch + 1]
  BY DEF Accept
<1>2. /\ mark' \in Marks /\ mark'.key <= mark'.epoch /\ StagedNow' /\ threads'[mark'.epoch] = 0
      /\ mark'.key = mark.key /\ mark'.helped = mark.helped
  BY <1>1, NextEpoch DEF Accept
<1>3. "shopping" \in OpenStages \cup {"over"} /\ "accepting" \in InTurn /\ "shopping" \in InTurn
  BY DEF OpenStages, InTask, InTurn
<1>4. PICK row \in VisitRows : /\ row.stage = "shopping" /\ row.key = visit[v].key
                               /\ visit' = [visit EXCEPT ![v] = row]
  BY <1>3, RowAfter DEF Accept
<1>5. visit[v].stage = "accepting" /\ Attended(visit[v], v) /\ holder = v
  BY <1>3, OpenVisit DEF Accept, Attended
<1>6. PublicTypes'
  <2>1. visit' \in [Visits -> VisitRows]
    BY <1>4, OpenVisit
  <2> QED BY <1>2, <2>1 DEF Accept, PublicInv, PublicTypes, business, Admits
<1>7. visit'[v] = row
  BY <1>4, OpenVisit
<1>8. Attended(visit[v], v)'
  BY <1>2, <1>3, <1>4, <1>5, <1>7 DEF Accept, Attended, Admits, business
<1>9. ASSUME NEW u \in Visits, u # v PROVE Attended(visit[u], u)'
  BY <1>4, <1>5, <1>9, OpenVisit, IdleStays DEF Accept
<1> QED BY <1>2, <1>6, <1>8, <1>9 DEF PublicInv

LEMMA TaskFailsKeeps == ASSUME PublicInv, NEW v \in Visits, TaskFails(v) PROVE PublicInv'
<1>1. visit[v].stage # "over" /\ visit[v].stage \in InTurn
  BY Openings DEF TaskFails, InTurn
<1>2. frames' = [frames EXCEPT ![v] = <<>>]
  BY <1>1, Silence DEF TaskFails
<1>3. PICK fs \in Endings : fs = <<>> /\ fs # <<"content", "completion", "done">>
  BY DEF Endings
<1>4. CASE UNCHANGED mark
  <2>1. "failed" \in {"over", "failed"}
    OBVIOUS
  <2> QED BY <1>2, <1>3, <1>4, <2>1, LastMove DEF TaskFails
<1>5. CASE mark.epoch < MaxMark /\ mark' = [mark EXCEPT !.epoch = mark.epoch + 1]
  <2>1. mark' \in Marks /\ mark'.key <= mark'.epoch /\ StagedNow'
    BY <1>5, NextEpoch DEF TaskFails
  <2>2. "failed" \in OpenStages \cup {"over"} /\ "failed" \notin InTurn
    BY DEF OpenStages, InTurn
  <2>3. PICK row \in VisitRows : row.stage = "failed" /\ visit' = [visit EXCEPT ![v] = row]
    BY <2>2, RowAfter DEF TaskFails
  <2>4. holder = v /\ holder' = Nobody /\ Nobody # v
    BY <1>1, OpenVisit, VisitsAssumption DEF Attended, TaskFails, Unlock
  <2>5. PublicTypes'
    <3>1. visit' \in [Visits -> VisitRows]
      BY <2>3, OpenVisit
    <3> QED BY <2>1, <2>4, <3>1 DEF TaskFails, PublicInv, PublicTypes, business, Admits
  <2>6. visit'[v] = row /\ frames'[v] = <<>> /\ <<>> # <<"content", "completion", "done">>
    BY <1>2, <1>3, <2>3, OpenVisit
  <2>7. Attended(visit[v], v)'
    BY <2>2, <2>3, <2>4, <2>6 DEF Attended
  <2>8. ASSUME NEW u \in Visits, u # v PROVE Attended(visit[u], u)'
    BY <2>3, <2>4, <2>8, OpenVisit, VisitsAssumption, IdleStays DEF TaskFails
  <2> QED BY <2>1, <2>5, <2>7, <2>8 DEF PublicInv
<1> QED BY <1>4, <1>5 DEF TaskFails

LEMMA ShopKeeps == ASSUME PublicInv, NEW v \in Visits, Shop(v) PROVE PublicInv'
<1>1. Attended(visit[v], v) /\ visit[v].stage = "shopping"
  BY OpenVisit DEF Shop
<1>2. Admits(mark, visit[v].key) /\ threads[mark.epoch] = 0
  BY <1>1 DEF Attended
<1>3. PICK step : bought' = bought \cup {[by |-> visit[v].key, found |-> mark, step |-> step]}
  BY DEF Shop
<1>4. \A b \in bought' : Admits(b.found, b.by)
  BY <1>2, <1>3 DEF PublicInv, PublicTypes
<1>5. forsaken' \subseteq 1..refunds
  <2>1. refunds \in Nat /\ threads \in [0..MaxMark -> 0..refunds] /\ forsaken \subseteq 1..refunds
    BY DEF PublicInv, PublicTypes
  <2>2. {threads[e] : e \in DOMAIN threads} \ {0} \subseteq 1..refunds
    BY <2>1
  <2> QED BY <2>1, <2>2 DEF Shop
<1>6. PublicTypes'
  BY <1>4, <1>5 DEF Shop, PublicInv, PublicTypes, business, Admits
<1>7. StagedNow'
  <2>1. refunded \cap forsaken' = {}
    <3>1. refunded \cap {threads[e] : e \in DOMAIN threads} = {}
      BY DEF PublicInv, PublicTypes, StagedNow
    <3> QED BY <3>1 DEF Shop, PublicInv, StagedNow
  <2>2. 0 \notin forsaken'
    BY <1>5 DEF PublicInv, PublicTypes
  <2> QED BY <1>2, <2>1, <2>2 DEF Shop, PublicInv, StagedNow, business
<1>8. ASSUME NEW u \in Visits PROVE Attended(visit[u], u)'
  BY OpenVisit DEF Shop, Attended, Admits, business
<1> QED BY <1>6, <1>7, <1>8 DEF PublicInv

LEMMA SupportActKeeps == ASSUME PublicInv, NEW v \in Visits, SupportAct(v) PROVE PublicInv'
<1>1. PICK e \in 0..MaxMark : e = mark.epoch /\ e = visit[v].thread
  BY OpenVisit DEF SupportAct, Attended, PublicInv, PublicTypes, Marks
<1>2. "recording" \in OpenStages \cup {"over"} /\ {"answering", "recording"} \subseteq InTurn
  BY DEF OpenStages, InRelay, InTurn
<1>3. PICK row \in VisitRows : row.stage = "recording" /\ visit' = [visit EXCEPT ![v] = row]
  BY <1>2, RowAfter DEF SupportAct
<1>4. Attended(visit[v], v) /\ holder = v /\ visit'[v] = row
  BY <1>2, <1>3, OpenVisit DEF SupportAct, Attended
<1>5. visit' \in [Visits -> VisitRows]
  BY <1>3, OpenVisit
<1>6. ASSUME NEW u \in Visits, u # v PROVE Attended(visit[u], u)'
  BY <1>3, <1>4, <1>6, OpenVisit, IdleStays DEF SupportAct
<1>7. Attended(visit[v], v)'
  BY <1>2, <1>3, <1>4 DEF SupportAct, Attended
<1>8. refunds \in Nat /\ threads \in [0..MaxMark -> 0..refunds]
  BY DEF PublicInv, PublicTypes
<1>9. PublicTypes' /\ StagedNow'
  <2>1. CASE UNCHANGED business
    BY <1>5, <2>1 DEF SupportAct, business, PublicInv, PublicTypes, StagedNow, Admits
  <2>2. CASE /\ refunds' = refunds + 1 /\ threads' = [threads EXCEPT ![e] = refunds + 1]
             /\ UNCHANGED refunded
    <3>1. refunds' \in Nat /\ 0..refunds \subseteq 0..refunds' /\ 1..refunds \subseteq 1..refunds'
          /\ refunds' \in 0..refunds' /\ refunds' \notin 0..refunds /\ refunds' # 0
      BY <1>8, <2>2
    <3>2. threads' \in [0..MaxMark -> 0..refunds'] /\ threads'[e] = refunds'
          /\ \A f \in 0..MaxMark : f # e => threads'[f] = threads[f]
      BY <1>8, <2>2, <3>1
    <3>3. PublicTypes'
      BY <1>5, <3>1, <3>2, <2>2 DEF SupportAct, PublicInv, PublicTypes, Admits
    <3>4. refunds' \notin refunded /\ refunds' \notin forsaken
      BY <3>1 DEF PublicInv, PublicTypes
    <3>5. \A f \in 0..MaxMark : threads[f] # refunds'
      BY <1>8, <3>1
    <3>6. \A x, y \in 0..MaxMark : threads'[x] # 0 /\ threads'[x] = threads'[y] => x = y
      BY <3>2, <3>5 DEF PublicInv, StagedNow
    <3>7. \A x \in 0..MaxMark : x > e => threads'[x] = 0
      BY <1>1, <3>2 DEF PublicInv, StagedNow
    <3>8. \A x \in 0..MaxMark : threads'[x] \notin refunded
      BY <3>2, <3>4 DEF PublicInv, StagedNow
    <3>9. mark' = mark /\ refunded' = refunded /\ forsaken' = forsaken
      BY <2>2 DEF SupportAct
    <3>10. StagedNow'
      BY <1>1, <3>2, <3>4, <3>6, <3>7, <3>8, <3>9 DEF StagedNow, PublicInv
    <3> QED BY <3>3, <3>10
  <2>3. CASE /\ refunded' = refunded \cup ({threads[e]} \ {0}) /\ threads' = [threads EXCEPT ![e] = 0]
             /\ UNCHANGED refunds
    <3>1. threads' \in [0..MaxMark -> 0..refunds] /\ threads'[e] = 0
          /\ \A f \in 0..MaxMark : f # e => threads'[f] = threads[f]
      BY <1>8, <2>3
    <3>2. refunded' \subseteq 1..refunds
      <4>1. threads[e] \in 0..refunds /\ refunded \subseteq 1..refunds
        BY <1>8 DEF PublicInv, PublicTypes
      <4>2. {threads[e]} \ {0} \subseteq 1..refunds
        BY <1>8, <4>1
      <4> QED BY <2>3, <4>1, <4>2
    <3>3. PublicTypes'
      BY <1>5, <2>3, <3>1, <3>2 DEF SupportAct, PublicInv, PublicTypes, Admits
    <3>4. mark' = mark /\ forsaken' = forsaken /\ threads[e] \notin forsaken /\ 0 \notin forsaken
      BY <1>1 DEF SupportAct, PublicInv, StagedNow, PublicTypes
    <3>5. \A x \in 0..MaxMark : threads'[x] \notin refunded'
      BY <1>8, <2>3, <3>1, <3>2 DEF PublicInv, StagedNow
    <3>6. StagedNow'
      BY <1>1, <2>3, <3>1, <3>4, <3>5 DEF StagedNow, PublicInv
    <3> QED BY <3>3, <3>6
  <2> QED BY <1>1, <2>1, <2>2, <2>3 DEF SupportAct, business
<1> QED BY <1>6, <1>7, <1>9 DEF PublicInv

LEMMA StaffKeeps == ASSUME PublicInv, StaffTakes \/ StaffCloses \/ OwnerClears PROVE PublicInv'
<1>1. PICK old \in Marks : old = mark /\ old.key <= old.epoch
  BY DEF PublicInv, PublicTypes
<1>2. \A u \in Visits : Attended(visit[u], u)'
  BY VisitsAssumption, IdleStays DEF StaffTakes, StaffCloses, OwnerClears
<1>3. mark' \in Marks /\ mark'.key <= mark'.epoch /\ StagedNow'
  <2>1. CASE StaffTakes
    <3>1. PICK new : new = [old EXCEPT !.helped = TRUE]
      OBVIOUS
    <3>2. new \in Marks /\ new.epoch = old.epoch /\ new.key = old.key
      BY <3>1 DEF Marks
    <3>3. mark' = new
      BY <1>1, <2>1, <3>1 DEF StaffTakes
    <3> QED BY <1>1, <2>1, <3>2, <3>3 DEF StaffTakes, PublicInv, StagedNow, business
  <2>2. CASE StaffCloses
    <3>1. PICK new : new = [old EXCEPT !.helped = FALSE, !.epoch = old.epoch + 1]
      OBVIOUS
    <3>2. new \in Marks /\ new.epoch = old.epoch + 1 /\ new.key = old.key
      <4>1. PICK e \in 0..MaxMark : e = old.epoch + 1
        BY <1>1, <2>2, VisitsAssumption DEF StaffCloses, Marks
      <4>2. new = [old EXCEPT !.helped = FALSE, !.epoch = e]
        BY <3>1, <4>1
      <4> QED BY <4>1, <4>2 DEF Marks
    <3>3. mark' = new /\ new.key <= new.epoch
      BY <1>1, <2>2, <3>1, <3>2, VisitsAssumption DEF StaffCloses, Marks
    <3> QED BY <1>1, <2>2, <3>2, <3>3, EpochMoves DEF StaffCloses
  <2>3. CASE OwnerClears
    <3>1. PICK new : new = [old EXCEPT !.key = old.key + 1, !.epoch = old.epoch + 1]
      OBVIOUS
    <3>2. new \in Marks /\ new.epoch = old.epoch + 1 /\ new.key = old.key + 1
      <4>1. PICK e \in 0..MaxMark, k \in 0..MaxMark : e = old.epoch + 1 /\ k = old.key + 1
        BY <1>1, <2>3, VisitsAssumption DEF OwnerClears, Marks
      <4>2. new = [old EXCEPT !.key = k, !.epoch = e]
        BY <3>1, <4>1
      <4> QED BY <4>1, <4>2 DEF Marks
    <3>3. mark' = new /\ new.key <= new.epoch
      BY <1>1, <2>3, <3>1, <3>2, VisitsAssumption DEF OwnerClears, Marks
    <3> QED BY <1>1, <2>3, <3>2, <3>3, EpochMoves DEF OwnerClears
  <2> QED BY <2>1, <2>2, <2>3
<1>4. PublicTypes'
  BY <1>3 DEF StaffTakes, StaffCloses, OwnerClears, PublicInv, PublicTypes, business, Admits
<1> QED BY <1>2, <1>3, <1>4 DEF PublicInv

\* The invariant of the public conversation.
THEOREM PublicInvariant == PublicSpec => []PublicInv
<1>1. PublicInit => PublicInv
  BY PublicStarts
<1>2. PublicInv /\ [PublicNext]_publicVars => PublicInv'
  <2>1. SUFFICES ASSUME PublicInv, [PublicNext]_publicVars PROVE PublicInv'
    OBVIOUS
  <2>2. CASE UNCHANGED publicVars
    BY <2>1, <2>2 DEF publicVars, business, PublicInv, PublicTypes, StagedNow, Attended, Admits
  <2>3. ASSUME NEW v \in Visits,
               \/ \E says \in Sayings : Arrive(v, says)
               \/ \E stage \in {"limiting", "support"} : RouteTo(v, stage)
               \/ RouterFails(v) \/ ShoppingStep(v) \/ LeavePage(v)
               \/ RelayTurn(v) \/ SupportAct(v) \/ SupportEnds(v) \/ SupportFails(v)
        PROVE  PublicInv'
    BY <2>1, <2>3, ArriveKeeps, RoutingKeeps, FailuresKeep, TakesKeeps, AcceptKeeps, ShopKeeps,
       StoreReplyKeeps, TaskFailsKeeps, SupportActKeeps, SupportEndKeeps DEF ShoppingStep
  <2> QED BY <2>1, <2>2, <2>3, StaffKeeps DEF PublicNext
<1> QED BY <1>1, <1>2, PTL DEF PublicSpec

\* A refund staged before an accepted shopping turn is never executed after
\* it; nothing is bought unwatched; and a stream says what became of its turn
\* (public_chat.py, respond and its stream; chat_service.py for the relay).
THEOREM ChatIsSafe == PublicSpec => []PublicChatIsSafe
<1>1. PublicInv => PublicChatIsSafe
  <2>1. SUFFICES ASSUME PublicInv PROVE PublicChatIsSafe
    OBVIOUS
  <2>2. TaskBoundaryHolds
    BY <2>1 DEF TaskBoundaryHolds, PublicInv, StagedNow
  <2>3. ShopsOnlyWhileWatched
    BY <2>1 DEF ShopsOnlyWhileWatched, PublicInv, PublicTypes, Attended, InTurn
  <2>4. StreamTellsTheOutcome
    <3>1. SUFFICES ASSUME NEW v \in Visits, NEW fs \in Endings, fs = frames[v],
                          fs = <<"content", "completion", "done">> => v \in kept
                   PROVE  /\ \A i \in DOMAIN fs : fs[i] = "completion" =>
                                v \in kept /\ fs[1] = "content" /\ \A j \in DOMAIN fs : fs[j] # "error"
                          /\ \A i \in DOMAIN fs : fs[i] = "done" => i = Len(fs)
                          /\ fs # <<>> => fs[Len(fs)] = "done" \/ fs = <<"error">>
      BY <2>1 DEF PublicInv, PublicTypes, Attended, StreamTellsTheOutcome
    <3>2. CASE fs \in {<<>>, <<"error">>}
      BY <3>2
    <3>3. CASE fs = <<"error", "done">>
      BY <3>3
    <3>4. CASE fs = <<"content", "done">>
      BY <3>4
    <3>5. CASE fs = <<"content", "completion", "done">>
      BY <3>1, <3>5
    <3>6. CASE fs = <<"content", "error", "done">>
      BY <3>6
    <3> QED BY <3>2, <3>3, <3>4, <3>5, <3>6 DEF Endings
  <2> QED BY <2>2, <2>3, <2>4 DEF PublicChatIsSafe
<1> QED BY <1>1, PublicInvariant, PTL
-----------------------------------------------------------------------------
(* The rolling summary.                                                      *)

TurnRows == [kind : {"turn", "summary"}, id : Nat, carries : SUBSET Nat]
TaskRows == [step : {"none", "read", "write"}, worker : Workers \cup {NoWorker}, carries : SUBSET Nat]

\* The summary at l is the latest of some rows, or l is 0 and there is none.
IsLatest(hist, l) ==
    /\ l \in 0..Len(hist) /\ (l > 0 => hist[l].kind = "summary")
    /\ \A i \in (l + 1)..Len(hist) : hist[i].kind = "turn"

\* The newest turn of from..upto that is before the latest summary.
LastBefore(hist, l, upto) == upto - (Len(hist) - l)

\* Some rows are the turns from..upto, the ones behind the latest summary in
\* their order, with summaries that carry nothing else and nothing newer.
RowsKept(hist, l, from, upto) ==
    /\ hist \in Seq(TurnRows) /\ IsLatest(hist, l)
    /\ Len(hist) - l <= upto - from + 1 /\ (l = 0 => Len(hist) = upto - from + 1)
    /\ \A n \in from..upto : \E i \in DOMAIN hist : hist[i].kind = "turn" /\ hist[i].id = n
    /\ \A i \in DOMAIN hist : hist[i].carries \subseteq from..upto
    /\ \A i \in DOMAIN hist : hist[i].kind = "turn" => hist[i].id \in from..upto
    /\ \A i \in (l + 1)..Len(hist) : hist[i].id = upto - (Len(hist) - i)
    /\ \A i \in 1..l : hist[i].kind = "turn" => hist[i].id <= LastBefore(hist, l, upto)
    /\ l > 0 => \A n \in hist[l].carries : n <= LastBefore(hist, l, upto)

\* Turn rows there may be after the latest summary when the next is written.
Room(l) == IF l = 0 THEN Threshold ELSE Interval

\* In calm times the latest summary carries all before it, and the next one is
\* written exactly when there is no more room.
CalmRows(hist, l, from, upto) ==
    /\ (upto - from + 1) % 2 = 0
    /\ l > 0 => hist[l].carries = from..LastBefore(hist, l, upto) /\ Due(LastBefore(hist, l, upto) - from + 1)
    /\ Len(hist) - l <= Room(l)
CalmTasks(hist, l, from, upto, tasks) ==
    /\ (\A t \in Tasks : tasks[t] = NoTask) => Len(hist) - l < Room(l)
    /\ \A t, u \in Tasks : tasks[t] # NoTask /\ tasks[u] # NoTask => t = u
    /\ \A t \in Tasks : tasks[t].step = "write" => tasks[t].carries = from..upto /\ Due(upto - from + 1)

TasksKept ==
    /\ task \in [Tasks -> TaskRows]
    /\ \A t \in Tasks : /\ task[t].carries \subseteq start..stored
                        /\ task[t].worker = NoWorker <=> task[t].step = "none"
                        /\ task[t].step = "none" => task[t] = NoTask
SummaryInv ==
    /\ stored \in Nat /\ start \in 1..(stored + 1) /\ calm \in BOOLEAN
    /\ clearing \in Workers \cup {NoWorker}
    /\ RowsKept(turnRows, LatestSummary, start, stored) /\ TasksKept
    /\ calm => /\ CalmRows(turnRows, LatestSummary, start, stored)
               /\ CalmTasks(turnRows, LatestSummary, start, stored, task)

\* The hypotheses: one process (clear_history drains its own tasks only), and
\* a cadence that a turn and its reply cannot step over (20 and 10 by default).
OneProcess == \A v, w \in Workers : v = w
EvenCadence == Threshold % 2 = 0 /\ Interval % 2 = 0

LatestIn(hist) ==
    LET at == {i \in DOMAIN hist : hist[i].kind = "summary"} IN
    IF at = {} THEN 0 ELSE CHOOSE i \in at : \A j \in at : j <= i

LEMMA LatestIsUnique ==
    ASSUME NEW hist \in Seq(TurnRows), NEW l, IsLatest(hist, l)
    PROVE  LatestIn(hist) = l
<1> DEFINE at == {i \in DOMAIN hist : hist[i].kind = "summary"}
<1>1. Len(hist) \in Nat /\ DOMAIN hist = 1..Len(hist) /\ l \in 0..Len(hist)
  BY DEF IsLatest
<1>2. \A i \in at : i <= l
  BY <1>1 DEF IsLatest
<1>3. CASE l = 0
  <2>1. at = {}
    BY <1>1, <1>2, <1>3
  <2> QED BY <2>1, <1>3 DEF LatestIn
<1>4. CASE l > 0
  <2>1. l \in at
    BY <1>1, <1>4 DEF IsLatest
  <2>2. \A i \in at : (\A j \in at : j <= i) => i = l
    BY <1>1, <1>2, <2>1
  <2>3. (CHOOSE i \in at : \A j \in at : j <= i) = l
    BY <1>2, <2>1, <2>2
  <2> QED BY <2>1, <2>3 DEF LatestIn
<1> QED BY <1>1, <1>3, <1>4

LEMMA LatestSummaryIs == LatestSummary = LatestIn(turnRows)
BY DEF LatestSummary, LatestIn

LEMMA PartIs ==
    ASSUME NEW hist \in Seq(TurnRows), NEW a \in 1..(Len(hist) + 1), NEW b \in 0..Len(hist), a <= b + 1,
           NEW s, s = SubSeq(hist, a, b)
    PROVE  Len(s) = b - a + 1 /\ DOMAIN s = 1..(b - a + 1) /\ \A i \in 1..(b - a + 1) : s[i] = hist[a + i - 1]
<1>1. Len(hist) \in Nat /\ DOMAIN hist = 1..Len(hist) /\ a \in Int /\ b \in Int
  OBVIOUS
<1>2. \A i \in a..b : hist[i] \in TurnRows
  BY <1>1
<1>3. /\ s \in Seq(TurnRows) /\ Len(s) = IF a <= b THEN b - a + 1 ELSE 0
      /\ \A i \in 1..(b - a + 1) : s[i] = hist[a + i - 1]
  BY <1>1, <1>2, SubSeqProperties
<1>4. Len(s) = b - a + 1
  BY <1>1, <1>3
<1>5. DOMAIN s = 1..Len(s)
  BY <1>3
<1> QED BY <1>3, <1>4, <1>5

\* What the window and the history show of rows that are kept.
LEMMA TurnsOfNewest ==
    ASSUME NEW hist \in Seq(TurnRows), NEW n \in Nat \ {0}
    PROVE  Turns(Newest(hist, n)) =
               {hist[i].id : i \in {j \in DOMAIN hist : j > Len(hist) - n /\ hist[j].kind = "turn"}}
<1> DEFINE a == IF Len(hist) > n THEN Len(hist) - n + 1 ELSE 1
           s == SubSeq(hist, a, Len(hist))
<1>1. Len(hist) \in Nat /\ DOMAIN hist = 1..Len(hist) /\ a \in 1..(Len(hist) + 1)
  OBVIOUS
<1>2. Len(s) = Len(hist) - a + 1 /\ DOMAIN s = 1..(Len(hist) - a + 1)
      /\ \A i \in 1..(Len(hist) - a + 1) : s[i] = hist[a + i - 1]
  <2>1. Len(hist) \in 0..Len(hist) /\ a <= Len(hist) + 1 /\ a \in 1..(Len(hist) + 1)
    BY <1>1
  <2> HIDE DEF a
  <2> QED BY <2>1, PartIs
<1>3. \A j \in DOMAIN hist : j > Len(hist) - n <=> j >= a
  BY <1>1
<1> HIDE DEF a, s
<1>4. ASSUME NEW x \in Turns(s)
      PROVE  x \in {hist[i].id : i \in {j \in DOMAIN hist : j > Len(hist) - n /\ hist[j].kind = "turn"}}
  <2>1. PICK i \in DOMAIN s : s[i].kind = "turn" /\ x = s[i].id
    BY <1>4 DEF Turns
  <2>2. a + i - 1 \in DOMAIN hist /\ a + i - 1 >= a /\ s[i] = hist[a + i - 1]
    BY <1>1, <1>2, <2>1
  <2> QED BY <1>3, <2>1, <2>2
<1>5. ASSUME NEW j \in DOMAIN hist, j > Len(hist) - n, hist[j].kind = "turn"
      PROVE  hist[j].id \in Turns(s)
  <2>1. j >= a /\ j \in 1..Len(hist)
    BY <1>1, <1>3, <1>5
  <2> DEFINE k == j - a + 1
  <2>2. k \in 1..(Len(hist) - a + 1) /\ a + k - 1 = j
    BY <1>1, <2>1
  <2> HIDE DEF k
  <2>3. k \in DOMAIN s /\ s[k] = hist[j]
    BY <1>2, <2>2
  <2> QED BY <1>5, <2>3 DEF Turns
<1>6. Newest(hist, n) = s
  BY DEF Newest, s, a
<1> QED BY <1>4, <1>5, <1>6

LEMMA TurnsOfPart ==
    ASSUME NEW hist \in Seq(TurnRows), NEW a \in 1..(Len(hist) + 1), NEW b \in 0..Len(hist), a <= b + 1
    PROVE  Turns(SubSeq(hist, a, b)) = {hist[i].id : i \in {j \in a..b : hist[j].kind = "turn"}}
<1> DEFINE s == SubSeq(hist, a, b)
<1>1. Len(hist) \in Nat /\ DOMAIN hist = 1..Len(hist)
  OBVIOUS
<1>2. Len(s) = b - a + 1 /\ DOMAIN s = 1..(b - a + 1) /\ \A i \in 1..(b - a + 1) : s[i] = hist[a + i - 1]
  BY PartIs
<1> HIDE DEF s
<1>3. ASSUME NEW x \in Turns(s) PROVE x \in {hist[i].id : i \in {j \in a..b : hist[j].kind = "turn"}}
  <2>1. PICK i \in DOMAIN s : s[i].kind = "turn" /\ x = s[i].id
    BY <1>3 DEF Turns
  <2>2. a + i - 1 \in a..b /\ s[i] = hist[a + i - 1]
    BY <1>1, <1>2, <2>1
  <2> QED BY <2>1, <2>2
<1>4. ASSUME NEW j \in a..b, hist[j].kind = "turn" PROVE hist[j].id \in Turns(s)
  <2> DEFINE k == j - a + 1
  <2>1. k \in 1..(b - a + 1) /\ a + k - 1 = j
    BY <1>1
  <2> HIDE DEF k
  <2>2. k \in DOMAIN s /\ s[k] = hist[j]
    BY <1>2, <2>1
  <2> QED BY <1>4, <2>2 DEF Turns
<1> QED BY <1>3, <1>4 DEF s

LEMMA AllTurns ==
    ASSUME NEW hist, NEW l, NEW from \in Nat \ {0}, NEW upto \in Nat, from <= upto + 1, RowsKept(hist, l, from, upto)
    PROVE  Turns(hist) = from..upto /\ Cardinality(Turns(hist)) = upto - from + 1
<1>1. Turns(hist) = from..upto
  BY DEF Turns, RowsKept
<1>2. Cardinality(from..upto) = upto - from + 1
  <2>1. from \in Int /\ upto \in Int
    OBVIOUS
  <2>2. Cardinality(from..upto) = IF from > upto THEN 0 ELSE upto - from + 1
    BY <2>1, FS_Interval
  <2> QED BY <2>2
<1> QED BY <1>1, <1>2

LEMMA Trailing ==
    ASSUME NEW hist, NEW l, NEW from \in Nat \ {0}, NEW upto \in Nat, from <= upto + 1, RowsKept(hist, l, from, upto)
    PROVE  /\ LastBefore(hist, l, upto) \in Int /\ LastBefore(hist, l, upto) >= from - 1 /\ LastBefore(hist, l, upto) <= upto
           /\ Turns(SubSeq(hist, l + 1, Len(hist))) = (LastBefore(hist, l, upto) + 1)..upto
<1>1. Len(hist) \in Nat /\ l \in 0..Len(hist) /\ hist \in Seq(TurnRows) /\ DOMAIN hist = 1..Len(hist)
  BY DEF RowsKept, IsLatest
<1>2. Turns(SubSeq(hist, l + 1, Len(hist))) = {hist[i].id : i \in {j \in (l + 1)..Len(hist) : hist[j].kind = "turn"}}
  <2>1. l + 1 \in 1..(Len(hist) + 1) /\ Len(hist) \in 0..Len(hist) /\ l + 1 <= Len(hist) + 1
    BY <1>1
  <2> QED BY <1>1, <2>1, TurnsOfPart
<1>3. \A i \in (l + 1)..Len(hist) : hist[i].kind = "turn" /\ hist[i].id = upto - (Len(hist) - i)
  BY DEF RowsKept, IsLatest
<1>4. \A n \in (LastBefore(hist, l, upto) + 1)..upto :
         Len(hist) - (upto - n) \in (l + 1)..Len(hist) /\ n = upto - (Len(hist) - (Len(hist) - (upto - n)))
  BY <1>1 DEF LastBefore
<1>5. \A i \in (l + 1)..Len(hist) : upto - (Len(hist) - i) \in (LastBefore(hist, l, upto) + 1)..upto
  BY <1>1 DEF LastBefore
<1>6. LastBefore(hist, l, upto) \in Int /\ LastBefore(hist, l, upto) >= from - 1 /\ LastBefore(hist, l, upto) <= upto
  BY <1>1 DEF LastBefore, RowsKept
<1>7. {hist[i].id : i \in {j \in (l + 1)..Len(hist) : hist[j].kind = "turn"}} = (LastBefore(hist, l, upto) + 1)..upto
  <2>1. ASSUME NEW i \in (l + 1)..Len(hist) PROVE hist[i].id \in (LastBefore(hist, l, upto) + 1)..upto
    BY <1>3, <1>5
  <2>2. ASSUME NEW n \in (LastBefore(hist, l, upto) + 1)..upto
        PROVE  \E i \in (l + 1)..Len(hist) : hist[i].kind = "turn" /\ hist[i].id = n
    BY <1>3, <1>4
  <2> QED BY <2>1, <2>2
<1> QED BY <1>2, <1>6, <1>7

-----------------------------------------------------------------------------
(* The cadence.                                                              *)

LEMMA NextIsDue ==
    ASSUME NEW n \in Int, Due(n)
    PROVE  Due(n + Interval) /\ n >= Threshold
<1>1. Threshold \in Nat \ {0} /\ Interval \in Nat \ {0}
  BY CadenceAssumption
<1>2. (n - Threshold) \in Nat /\ (n - Threshold) % Interval = 0
  BY <1>1 DEF Due
<1> DEFINE a == n - Threshold
<1>3. a = Interval * (a \div Interval) + (a % Interval)
  BY <1>1, <1>2
<1>4. (a + Interval) % Interval = 0
  <2> DEFINE k == a \div Interval
  <2>1. k \in Nat /\ a = Interval * k
    BY <1>1, <1>2, <1>3
  <2> HIDE DEF k, a
  <2>2. k + 1 \in Nat /\ a + Interval = Interval * (k + 1)
    BY <1>1, <2>1
  <2>3. \A m \in Nat : (Interval * m) % Interval = 0
    BY <1>1
  <2> QED BY <2>2, <2>3
<1> QED BY <1>1, <1>2, <1>4 DEF Due

LEMMA DueIsEven ==
    ASSUME EvenCadence, NEW n \in Int, Due(n)
    PROVE  n % 2 = 0
<1>1. Threshold \in Nat \ {0} /\ Interval \in Nat \ {0}
  BY CadenceAssumption
<1>2. PICK h \in Nat, j \in Nat : Threshold = 2 * h /\ Interval = 2 * j
  <2>1. Threshold = 2 * (Threshold \div 2) /\ Interval = 2 * (Interval \div 2)
        /\ Threshold \div 2 \in Nat /\ Interval \div 2 \in Nat
    BY <1>1 DEF EvenCadence
  <2> QED BY <2>1
<1>3. (n - Threshold) \in Nat /\ (n - Threshold) % Interval = 0
  BY <1>1 DEF Due
<1> DEFINE k == (n - Threshold) \div Interval
<1>4. k \in Nat /\ n - Threshold = Interval * k
  BY <1>1, <1>3
<1> HIDE DEF k
<1>5. j * k \in Nat /\ Interval * k = 2 * (j * k)
  BY <1>2, <1>4
<1> DEFINE p == j * k
<1>6. p \in Nat /\ n = 2 * h + 2 * p
  BY <1>1, <1>2, <1>4, <1>5
<1> HIDE DEF p
<1> QED BY <1>2, <1>6
-----------------------------------------------------------------------------
(* What the steps do to the rows.                                            *)

LEMMA LatestKept ==
    ASSUME SummaryInv
    PROVE  LatestSummary = LatestIn(turnRows) /\ IsLatest(turnRows, LatestSummary)
BY LatestSummaryIs DEF SummaryInv, RowsKept

NewTurns(upto, n) == [i \in 1..n |-> TurnRow(upto + i)]

\* One or two turn rows are put behind the others.
TurnsFollow(more, hist, l, from, upto, n) ==
    /\ RowsKept(more, l, from, upto + n) /\ LatestIn(more) = l /\ Len(more) = Len(hist) + n
    /\ LastBefore(more, l, upto + n) = LastBefore(hist, l, upto)
    /\ l > 0 => more[l] = hist[l]

LEMMA RowsGrow ==
    ASSUME NEW hist, NEW l, NEW from \in Nat \ {0}, NEW upto \in Nat, from <= upto + 1,
           RowsKept(hist, l, from, upto), NEW n \in 1..2,
           NEW more, more = hist \o NewTurns(upto, n)
    PROVE  TurnsFollow(more, hist, l, from, upto, n)
<1> DEFINE new == NewTurns(upto, n)
<1>1. hist \in Seq(TurnRows) /\ Len(hist) \in Nat /\ DOMAIN hist = 1..Len(hist) /\ l \in 0..Len(hist)
  BY DEF RowsKept, IsLatest
<1>2. new \in Seq(TurnRows) /\ Len(new) = n /\ \A i \in 1..n : new[i] = TurnRow(upto + i)
  <2>1. \A i \in 1..n : TurnRow(upto + i) \in TurnRows
    BY DEF TurnRow, TurnRows
  <2> QED BY <2>1 DEF NewTurns
<1> HIDE DEF new
<1>3. /\ more \in Seq(TurnRows) /\ Len(more) = Len(hist) + n /\ DOMAIN more = 1..(Len(hist) + n)
      /\ \A i \in 1..Len(hist) : more[i] = hist[i]
      /\ \A i \in (Len(hist) + 1)..(Len(hist) + n) : more[i] = TurnRow(upto + (i - Len(hist)))
  <2>1. more = hist \o new
    BY DEF new
  <2>2. /\ hist \o new \in Seq(TurnRows) /\ Len(hist \o new) = Len(hist) + Len(new)
        /\ \A i \in 1..(Len(hist) + Len(new)) :
              (hist \o new)[i] = IF i <= Len(hist) THEN hist[i] ELSE new[i - Len(hist)]
    BY <1>1, <1>2, ConcatProperties
  <2>3. DOMAIN more = 1..(Len(hist) + n)
    BY <1>2, <2>1, <2>2
  <2>4. \A i \in 1..Len(hist) : more[i] = hist[i]
    BY <1>1, <1>2, <2>1, <2>2
  <2>5. ASSUME NEW i \in (Len(hist) + 1)..(Len(hist) + n) PROVE more[i] = TurnRow(upto + (i - Len(hist)))
    <3>1. i \in 1..(Len(hist) + n) /\ ~(i <= Len(hist)) /\ i - Len(hist) \in 1..n
      BY <1>1
    <3> QED BY <1>2, <2>1, <2>2, <3>1
  <2> QED BY <1>2, <2>1, <2>2, <2>3, <2>4, <2>5
<1>4. \A k \in Nat : TurnRow(k).kind = "turn" /\ TurnRow(k).id = k /\ TurnRow(k).carries = {}
  BY DEF TurnRow
<1>5. \A i \in (Len(hist) + 1)..(Len(hist) + n) :
         /\ more[i].kind = "turn" /\ more[i].carries = {} /\ more[i].id = upto + (i - Len(hist))
         /\ more[i].id \in from..(upto + n) /\ more[i].id > upto
  <2> TAKE i \in (Len(hist) + 1)..(Len(hist) + n)
  <2> DEFINE k == upto + (i - Len(hist))
  <2>1. k \in Nat /\ k \in from..(upto + n) /\ k > upto
    BY <1>1
  <2>2. more[i] = TurnRow(k)
    BY <1>3
  <2> HIDE DEF k
  <2>3. more[i].kind = "turn" /\ more[i].id = k /\ more[i].carries = {}
    BY <1>4, <2>1, <2>2
  <2> QED BY <2>1, <2>3 DEF k
<1>6. IsLatest(more, l)
  BY <1>1, <1>3, <1>5 DEF IsLatest, RowsKept
<1>7. LastBefore(more, l, upto + n) = LastBefore(hist, l, upto)
  BY <1>1, <1>3 DEF LastBefore
<1>8. RowsKept(more, l, from, upto + n)
  <2>1. Len(more) - l <= (upto + n) - from + 1 /\ (l = 0 => Len(more) = (upto + n) - from + 1)
    <3>1. Len(hist) - l <= upto - from + 1 /\ (l = 0 => Len(hist) = upto - from + 1)
      BY DEF RowsKept
    <3> DEFINE size == Len(hist)
    <3>2. size \in Nat /\ Len(more) = size + n /\ l \in 0..size
      BY <1>1, <1>3
    <3> HIDE DEF size
    <3>3. size - l <= upto - from + 1 /\ (l = 0 => size = upto - from + 1)
      BY <3>1 DEF size
    <3> QED BY <3>2, <3>3
  <2>2. ASSUME NEW k \in from..(upto + n) PROVE \E i \in DOMAIN more : more[i].kind = "turn" /\ more[i].id = k
    <3>1. CASE k <= upto
      <4>1. PICK i \in DOMAIN hist : hist[i].kind = "turn" /\ hist[i].id = k
        BY <3>1 DEF RowsKept
      <4>2. i \in 1..Len(hist) /\ i \in DOMAIN more
        BY <4>1, <1>1, <1>3
      <4> QED BY <4>1, <4>2, <1>3
    <3>2. CASE k > upto
      <4>1. Len(hist) + (k - upto) \in (Len(hist) + 1)..(Len(hist) + n) /\ upto + ((Len(hist) + (k - upto)) - Len(hist)) = k
        BY <1>1, <3>2
      <4>2. Len(hist) + (k - upto) \in DOMAIN more
        BY <1>1, <1>3, <4>1
      <4> QED BY <1>5, <4>1, <4>2
    <3> QED BY <3>1, <3>2
  <2>3. ASSUME NEW i \in DOMAIN more
        PROVE  more[i].carries \subseteq from..(upto + n) /\ (more[i].kind = "turn" => more[i].id \in from..(upto + n))
    <3>1. CASE i \in 1..Len(hist)
      <4>1. hist[i].carries \subseteq from..upto /\ (hist[i].kind = "turn" => hist[i].id \in from..upto)
        BY <3>1, <1>1 DEF RowsKept
      <4>2. from..upto \subseteq from..(upto + n)
        OBVIOUS
      <4> QED BY <3>1, <1>3, <4>1, <4>2
    <3>2. CASE i \in (Len(hist) + 1)..(Len(hist) + n)
      BY <3>2, <1>5
    <3>3. i \in 1..Len(hist) \/ i \in (Len(hist) + 1)..(Len(hist) + n)
      BY <1>1, <1>3
    <3> QED BY <3>1, <3>2, <3>3
  <2>4. ASSUME NEW i \in (l + 1)..Len(more) PROVE more[i].id = (upto + n) - (Len(more) - i)
    <3>1. CASE i \in 1..Len(hist)
      <4>1. i \in (l + 1)..Len(hist)
        BY <3>1, <1>1
      <4>2. hist[i].id = upto - (Len(hist) - i)
        BY <4>1 DEF RowsKept
      <4>3. more[i].id = upto - (Len(hist) - i) /\ Len(more) = Len(hist) + n
        BY <3>1, <1>3, <4>2
      <4> QED BY <4>3, <1>1, <3>1
    <3>2. CASE i \in (Len(hist) + 1)..(Len(hist) + n)
      <4>1. more[i].id = upto + (i - Len(hist))
        BY <3>2, <1>5
      <4> QED BY <4>1, <1>1, <1>3, <3>2
    <3> QED BY <3>1, <3>2, <1>1, <1>3
  <2>5. ASSUME NEW i \in 1..l, more[i].kind = "turn" PROVE more[i].id <= LastBefore(more, l, upto + n)
    <3>1. i \in 1..Len(hist) /\ more[i] = hist[i]
      BY <1>1, <1>3
    <3> QED BY <2>5, <3>1, <1>7 DEF RowsKept
  <2>6. l > 0 => \A k \in more[l].carries : k <= LastBefore(more, l, upto + n)
    <3>1. l > 0 => more[l] = hist[l]
      BY <1>1, <1>3
    <3> QED BY <3>1, <1>7 DEF RowsKept
  <2> QED BY <1>3, <1>6, <2>1, <2>2, <2>3, <2>4, <2>5, <2>6 DEF RowsKept
<1>9. LatestIn(more) = l
  BY <1>3, <1>6, LatestIsUnique
<1>10. l > 0 => more[l] = hist[l]
  BY <1>1, <1>3
<1> QED BY <1>3, <1>7, <1>8, <1>9, <1>10 DEF TurnsFollow

\* A summary of turns that there are is put behind the rows.
SummaryFollows(more, hist, l, from, upto, carries) ==
    /\ RowsKept(more, Len(hist) + 1, from, upto) /\ LatestIn(more) = Len(hist) + 1
    /\ Len(more) = Len(hist) + 1 /\ Len(hist) \in Nat
    /\ more[Len(hist) + 1].carries = carries
    /\ LastBefore(more, Len(hist) + 1, upto) = upto

LEMMA SummaryGrows ==
    ASSUME NEW hist, NEW l, NEW from \in Nat \ {0}, NEW upto \in Nat, from <= upto + 1,
           RowsKept(hist, l, from, upto), NEW carries \in SUBSET (from..upto),
           NEW more, more = Append(hist, SummaryRow(carries))
    PROVE  SummaryFollows(more, hist, l, from, upto, carries)
<1> DEFINE k == Len(hist)
<1>1. hist \in Seq(TurnRows) /\ k \in Nat /\ DOMAIN hist = 1..k /\ l \in 0..k
  BY DEF RowsKept, IsLatest
<1>2. SummaryRow(carries) \in TurnRows /\ SummaryRow(carries).kind = "summary" /\ SummaryRow(carries).carries = carries
  <2>1. carries \in SUBSET Nat
    OBVIOUS
  <2> QED BY <2>1 DEF SummaryRow, TurnRows
<1>3. /\ more \in Seq(TurnRows) /\ Len(more) = k + 1 /\ DOMAIN more = 1..(k + 1)
      /\ \A i \in 1..k : more[i] = hist[i]
      /\ more[k + 1] = SummaryRow(carries)
  BY <1>1, <1>2, AppendProperties
<1>4. LastBefore(more, k + 1, upto) = upto
  BY <1>1, <1>3 DEF LastBefore
<1>5. IsLatest(more, k + 1)
  BY <1>1, <1>2, <1>3 DEF IsLatest
<1> HIDE DEF k
<1> DEFINE last == k + 1
<1>6. RowsKept(more, last, from, upto)
  <2>1. Len(more) = last /\ last \in Nat /\ last > 0 /\ DOMAIN more = 1..last
    BY <1>1, <1>3
  <2>2. ASSUME NEW n \in from..upto PROVE \E i \in DOMAIN more : more[i].kind = "turn" /\ more[i].id = n
    <3>1. PICK i \in DOMAIN hist : hist[i].kind = "turn" /\ hist[i].id = n
      BY DEF RowsKept
    <3> QED BY <3>1, <1>1, <1>3
  <2>3. ASSUME NEW i \in DOMAIN more
        PROVE  more[i].carries \subseteq from..upto /\ (more[i].kind = "turn" => more[i].id \in from..upto)
    <3>1. CASE i \in 1..k
      BY <3>1, <1>1, <1>3 DEF RowsKept
    <3>2. CASE i = k + 1
      BY <3>2, <1>2, <1>3
    <3> QED BY <3>1, <3>2, <1>1, <1>3
  <2>4. more[last].carries = carries /\ LastBefore(more, last, upto) = upto /\ IsLatest(more, last)
    BY <1>2, <1>3, <1>4, <1>5
  <2>5. \A x \in from..upto : x <= upto
    OBVIOUS
  <2> HIDE DEF last
  <2>6. Len(more) - last <= upto - from + 1 /\ (last = 0 => Len(more) = upto - from + 1)
    BY <2>1
  <2>7. \A i \in (last + 1)..Len(more) : more[i].id = upto - (Len(more) - i)
    BY <2>1
  <2>8. \A i \in 1..last : more[i].kind = "turn" => more[i].id <= LastBefore(more, last, upto)
    BY <2>1, <2>3, <2>4, <2>5
  <2>9. last > 0 => \A n \in more[last].carries : n <= LastBefore(more, last, upto)
    BY <2>4, <2>5
  <2> QED BY <1>3, <2>2, <2>3, <2>4, <2>6, <2>7, <2>8, <2>9 DEF RowsKept
<1>7. LatestIn(more) = k + 1
  BY <1>3, <1>5, LatestIsUnique
<1> QED BY <1>1, <1>2, <1>3, <1>4, <1>6, <1>7 DEF k, SummaryFollows

\* The rows of a session without messages.
LEMMA NoRows ==
    ASSUME NEW upto \in Nat
    PROVE  /\ RowsKept(<<>>, 0, upto + 1, upto) /\ LatestIn(<<>>) = 0
           /\ CalmRows(<<>>, 0, upto + 1, upto) /\ Len(<<>>) - 0 < Room(0)
<1>1. <<>> \in Seq(TurnRows) /\ Len(<<>>) = 0 /\ DOMAIN <<>> = 1..0 /\ (upto + 1)..upto = {}
  OBVIOUS
<1>2. IsLatest(<<>>, 0)
  BY <1>1 DEF IsLatest
<1>3. RowsKept(<<>>, 0, upto + 1, upto)
  BY <1>1, <1>2 DEF RowsKept
<1>4. CalmRows(<<>>, 0, upto + 1, upto) /\ 0 < Room(0)
  BY <1>1, CadenceAssumption DEF CalmRows, Room
<1>5. LatestIn(<<>>) = 0
  BY <1>1, <1>2, LatestIsUnique
<1> QED BY <1>1, <1>3, <1>4, <1>5

-----------------------------------------------------------------------------
LEMMA SummaryStarts == SummaryInit => SummaryInv
<1> SUFFICES ASSUME SummaryInit PROVE SummaryInv
  OBVIOUS
<1>1. /\ turnRows = <<>> /\ stored = 0 /\ start = 1 /\ calm = TRUE /\ clearing = NoWorker
      /\ task = [t \in Tasks |-> NoTask]
  BY DEF SummaryInit
<1>2. /\ RowsKept(<<>>, 0, 1, 0) /\ LatestIn(<<>>) = 0
      /\ CalmRows(<<>>, 0, 1, 0) /\ Len(<<>>) - 0 < Room(0)
  BY NoRows
<1>3. LatestSummary = 0
  BY <1>1, <1>2, LatestSummaryIs
<1>4. NoTask \in TaskRows /\ NoTask.step = "none" /\ NoTask.worker = NoWorker /\ NoTask.carries = {}
  BY DEF NoTask, TaskRows
<1>5. TasksKept
  BY <1>1, <1>4 DEF TasksKept
<1>6. CalmTasks(turnRows, 0, 1, 0, task)
  BY <1>1, <1>2, <1>4 DEF CalmTasks
<1> QED BY <1>1, <1>2, <1>3, <1>5, <1>6 DEF SummaryInv

\* What the steps find, and what they must leave.
SummaryFacts ==
    /\ stored \in Nat /\ start \in Nat \ {0} /\ start <= stored + 1
    /\ RowsKept(turnRows, LatestSummary, start, stored)
    /\ Len(turnRows) \in Nat /\ LatestSummary \in 0..Len(turnRows)
    /\ LatestSummary' = LatestIn(turnRows')
LEMMA FactsHold == SummaryInv => SummaryFacts
<1> SUFFICES ASSUME SummaryInv PROVE SummaryFacts
  OBVIOUS
<1>1. stored \in Nat /\ start \in Nat \ {0} /\ start <= stored + 1 /\ RowsKept(turnRows, LatestSummary, start, stored)
  BY DEF SummaryInv
<1>2. Len(turnRows) \in Nat /\ LatestSummary \in 0..Len(turnRows)
  BY <1>1 DEF RowsKept, IsLatest
<1>3. LatestSummary' = LatestIn(turnRows')
  BY DEF LatestSummary, LatestIn
<1> QED BY <1>1, <1>2, <1>3 DEF SummaryFacts

LEMMA NoTaskIs == NoTask \in TaskRows /\ NoTask.step = "none" /\ NoTask.worker = NoWorker /\ NoTask.carries = {}
BY DEF NoTask, TaskRows

ReadBy(w) == [NoTask EXCEPT !.step = "read", !.worker = w]
WriteOf(x, c) == [x EXCEPT !.step = "write", !.carries = c]

LEMMA ReadingTask ==
    ASSUME NEW w \in Workers, NEW x, x = ReadBy(w)
    PROVE  /\ x \in TaskRows /\ x # NoTask /\ x.step = "read" /\ x.worker = w
           /\ x.carries = {} /\ w # NoWorker
<1>1. x = [step |-> "read", worker |-> w, carries |-> {}]
  BY DEF NoTask, ReadBy
<1> QED BY <1>1, WorkersAssumption DEF NoTask, TaskRows

Writing(y, x, c) == y \in TaskRows /\ y # NoTask /\ y.step = "write" /\ y.worker = x.worker /\ y.carries = c

LEMMA WritingTask ==
    ASSUME NEW x \in TaskRows, NEW c \in SUBSET Nat, NEW y, y = WriteOf(x, c)
    PROVE  Writing(y, x, c)
<1>1. y = [step |-> "write", worker |-> x.worker, carries |-> c]
  BY DEF TaskRows, WriteOf
<1> QED BY <1>1 DEF NoTask, TaskRows, Writing

\* A task has ended, and the others are as they were.
LEMMA TaskEnds ==
    ASSUME SummaryInv, NEW t \in Tasks, task' = [task EXCEPT ![t] = NoTask]
    PROVE  /\ task'[t] = NoTask /\ \A u \in Tasks \ {t} : task'[u] = task[u]
           /\ stored' = stored /\ start' = start => TasksKept'
<1>1. task'[t] = NoTask /\ task' \in [Tasks -> TaskRows] /\ \A u \in Tasks \ {t} : task'[u] = task[u]
  BY NoTaskIs DEF SummaryInv, TasksKept
<1>2. ASSUME stored' = stored, start' = start PROVE TasksKept'
  BY <1>1, <1>2, NoTaskIs DEF SummaryInv, TasksKept
<1> QED BY <1>1, <1>2

LEMMA PersistKeeps ==
    ASSUME SummaryInv, EvenCadence, NEW w \in Workers, NEW replied \in BOOLEAN, NEW t \in Tasks, Persist(w, replied, t)
    PROVE  SummaryInv'
<1> DEFINE n == IF replied THEN 2 ELSE 1
           l == LatestSummary
<1>1. SummaryFacts
  BY FactsHold
<1>2. /\ n \in 1..2 /\ task[t] = NoTask /\ stored' = stored + n /\ start' = start /\ clearing' = clearing
      /\ turnRows' = turnRows \o [i \in 1..n |-> TurnRow(stored + i)]
      /\ task' = [task EXCEPT ![t] = [NoTask EXCEPT !.step = "read", !.worker = w]]
      /\ calm' = (calm /\ replied /\ \A u \in Tasks : task[u] = NoTask)
  BY DEF Persist
<1>3. /\ RowsKept(turnRows', l, start, stored + n) /\ LatestIn(turnRows') = l /\ Len(turnRows') = Len(turnRows) + n
      /\ LastBefore(turnRows', l, stored + n) = LastBefore(turnRows, l, stored)
      /\ l > 0 => turnRows'[l] = turnRows[l]
  <2>1. start \in Nat \ {0} /\ stored \in Nat /\ start <= stored + 1 /\ RowsKept(turnRows, l, start, stored)
    BY <1>1 DEF SummaryFacts
  <2> HIDE DEF n, l
  <2>2. turnRows' = turnRows \o NewTurns(stored, n) /\ n \in 1..2
    BY <1>2 DEF NewTurns
  <2>3. TurnsFollow(turnRows', turnRows, l, start, stored, n)
    BY <2>1, <2>2, RowsGrow
  <2> QED BY <2>3 DEF TurnsFollow
<1>4. LatestSummary' = l
  BY <1>1, <1>3 DEF SummaryFacts
<1>5. TasksKept'
  <2>1. start..stored \subseteq start..(stored + n)
    BY <1>1, <1>2 DEF SummaryFacts
  <2>2. /\ task'[t] \in TaskRows /\ task'[t] # NoTask /\ task'[t].step = "read" /\ task'[t].worker = w
        /\ task'[t].carries = {} /\ w # NoWorker /\ \A u \in Tasks \ {t} : task'[u] = task[u]
    <3>1. task'[t] = ReadBy(w) /\ \A u \in Tasks \ {t} : task'[u] = task[u]
      BY <1>2 DEF SummaryInv, TasksKept, ReadBy
    <3> QED BY <3>1, ReadingTask
  <2>3. task' \in [Tasks -> TaskRows]
    BY <1>2, <2>2 DEF SummaryInv, TasksKept
  <2> HIDE DEF n
  <2>4. ASSUME NEW u \in Tasks
        PROVE  /\ task'[u].carries \subseteq start..(stored + n)
               /\ task'[u].worker = NoWorker <=> task'[u].step = "none"
               /\ task'[u].step = "none" => task'[u] = NoTask
    <3>1. CASE u = t
      BY <2>2, <3>1
    <3>2. CASE u # t
      BY <2>1, <2>2, <3>2 DEF SummaryInv, TasksKept
    <3> QED BY <3>1, <3>2
  <2> QED BY <1>2, <2>3, <2>4 DEF TasksKept
<1>6. ASSUME calm' PROVE CalmRows(turnRows', l, start, stored + n) /\ CalmTasks(turnRows', l, start, stored + n, task')
  <2>1. calm /\ replied /\ n = 2 /\ \A u \in Tasks : task[u] = NoTask
    BY <1>2, <1>6 DEF SummaryInv
  <2>2. CalmRows(turnRows, l, start, stored) /\ Len(turnRows) - l < Room(l)
    BY <2>1 DEF SummaryInv, CalmTasks
  <2>3. Room(l) \in Nat /\ Room(l) % 2 = 0
    BY CadenceAssumption DEF EvenCadence, Room
  <2>4. (Len(turnRows) - l) % 2 = 0
    <3>1. CASE l = 0
      <4>1. Len(turnRows) = stored - start + 1
        BY <1>1, <3>1 DEF SummaryFacts, RowsKept
      <4> QED BY <4>1, <2>2, <3>1, <1>1 DEF CalmRows, SummaryFacts
    <3>2. CASE l > 0
      <4>1. Due(LastBefore(turnRows, l, stored) - start + 1) /\ (stored - start + 1) % 2 = 0
        BY <2>2, <3>2 DEF CalmRows
      <4>2. LastBefore(turnRows, l, stored) = stored - (Len(turnRows) - l)
        BY DEF LastBefore
      <4>3. LastBefore(turnRows, l, stored) - start + 1 \in Int
        BY <4>2, <1>1 DEF SummaryFacts
      <4>4. (LastBefore(turnRows, l, stored) - start + 1) % 2 = 0
        BY <4>1, <4>3, DueIsEven
      <4> QED BY <4>1, <4>2, <4>4, <1>1 DEF SummaryFacts
    <3> QED BY <3>1, <3>2, <1>1 DEF SummaryFacts
  <2>5. Len(turnRows) - l + 2 <= Room(l)
    BY <2>2, <2>3, <2>4, <1>1 DEF SummaryFacts
  <2>6. ((stored + 2) - start + 1) % 2 = 0
    BY <2>2, <1>1 DEF CalmRows, SummaryFacts
  <2>7. CalmRows(turnRows', l, start, stored + n)
    <3>1. Len(turnRows') - l <= Room(l)
      BY <2>1, <2>5, <1>3, <1>1 DEF SummaryFacts
    <3>2. l > 0 => turnRows'[l].carries = start..LastBefore(turnRows', l, stored + n)
                   /\ Due(LastBefore(turnRows', l, stored + n) - start + 1)
      BY <2>2, <1>3 DEF CalmRows
    <3> QED BY <2>1, <2>6, <3>1, <3>2 DEF CalmRows
  <2>8. CalmTasks(turnRows', l, start, stored + n, task')
    <3>1. task'[t] # NoTask /\ task'[t].step # "write" /\ \A u \in Tasks \ {t} : task'[u] = NoTask
      <4>1. task'[t] = ReadBy(w) /\ \A u \in Tasks \ {t} : task'[u] = task[u]
        BY <1>2 DEF SummaryInv, TasksKept, ReadBy
      <4>2. task'[t] # NoTask /\ task'[t].step = "read"
        BY <4>1, ReadingTask
      <4> QED BY <2>1, <4>1, <4>2
    <3> HIDE DEF l, n
    <3>2. NoTask.step # "write"
      BY NoTaskIs
    <3>3. ~(\A u \in Tasks : task'[u] = NoTask)
      BY <3>1
    <3>4. \A u, v \in Tasks : task'[u] # NoTask /\ task'[v] # NoTask => u = v
      BY <3>1
    <3>5. \A u \in Tasks : task'[u].step # "write"
      BY <3>1, <3>2
    <3> QED BY <3>3, <3>4, <3>5 DEF CalmTasks
  <2> QED BY <2>7, <2>8
<1> QED BY <1>1, <1>2, <1>3, <1>4, <1>5, <1>6 DEF SummaryInv, SummaryFacts

\* What a compression is about to carry.
LEMMA WindowIs ==
    ASSUME SummaryInv
    PROVE  /\ Carried \cup Window \subseteq start..stored
           /\ Count = stored - start + 1
           /\ calm => (Window # {} => Carried \cup Window = start..stored)
                      /\ (Len(turnRows) - LatestSummary = Room(LatestSummary) => Due(Count) /\ Window # {})
<1> DEFINE l == LatestSummary
           b == LastBefore(turnRows, l, stored)
<1>1. SummaryFacts
  BY FactsHold
<1>2. Threshold \in Nat \ {0} /\ Interval \in Nat \ {0} /\ Interval <= Threshold
  BY CadenceAssumption, WindowAssumption
<1>3. turnRows \in Seq(TurnRows) /\ Len(turnRows) \in Nat /\ DOMAIN turnRows = 1..Len(turnRows) /\ l \in 0..Len(turnRows)
  BY <1>1 DEF SummaryFacts, RowsKept
<1>4. /\ b \in Int /\ b >= start - 1 /\ b <= stored /\ SinceSummary = (b + 1)..stored
  BY <1>1, Trailing DEF SummaryFacts, SinceSummary
<1>5. Count = stored - start + 1
  BY <1>1, AllTurns DEF SummaryFacts, Count
<1>6. Carried \subseteq start..stored
  BY <1>1, <1>3 DEF SummaryFacts, Carried, RowsKept
<1>7. Window \subseteq (b + 1)..stored /\ (b + 1)..stored \subseteq start..stored
  BY <1>1, <1>4 DEF Window, SummaryFacts
<1>8. ASSUME calm
      PROVE  /\ Window # {} => Carried \cup Window = start..stored
             /\ Len(turnRows) - l = Room(l) => Due(Count) /\ Window # {}
  <2>1. CalmRows(turnRows, l, start, stored)
    BY <1>8 DEF SummaryInv
  <2>2. Len(turnRows) - l <= Threshold /\ Room(l) \in Nat \ {0}
    BY <1>1, <1>2, <2>1 DEF CalmRows, Room, SummaryFacts
  <2>3. b = stored - (Len(turnRows) - l)
    BY DEF LastBefore
  <2> HIDE DEF b
  <2>4. (b + 1)..stored \subseteq Turns(Newest(turnRows, Threshold))
    <3> SUFFICES ASSUME NEW k \in (b + 1)..stored PROVE k \in Turns(Newest(turnRows, Threshold))
      OBVIOUS
    <3> DEFINE i == Len(turnRows) - (stored - k)
    <3>1. i \in (l + 1)..Len(turnRows) /\ i > Len(turnRows) - Threshold /\ k = stored - (Len(turnRows) - i)
      BY <1>1, <1>2, <1>3, <1>4, <2>2, <2>3 DEF SummaryFacts
    <3> HIDE DEF i
    <3>2. turnRows[i].kind = "turn" /\ turnRows[i].id = k
      BY <3>1, <1>1 DEF SummaryFacts, RowsKept, IsLatest
    <3>3. i \in DOMAIN turnRows
      BY <3>1, <1>3
    <3> QED BY <3>1, <3>2, <3>3, <1>2, <1>3, TurnsOfNewest
  <2>5. Window = (b + 1)..stored
    BY <2>4, <1>4 DEF Window
  <2>6. CASE l = 0
    <3>1. Carried = {} /\ Len(turnRows) = stored - start + 1 /\ b = start - 1
      <4>1. Carried = {}
        BY <2>6 DEF Carried
      <4>2. Len(turnRows) = stored - start + 1
        BY <2>6, <1>1 DEF SummaryFacts, RowsKept
      <4> QED BY <4>1, <4>2, <2>3, <2>6, <1>1 DEF SummaryFacts
    <3>2. Carried \cup Window = start..stored
      BY <3>1, <2>5, <1>1 DEF SummaryFacts
    <3>3. Len(turnRows) - l = Room(l) => Due(Count) /\ Window # {}
      <4> SUFFICES ASSUME Len(turnRows) - l = Room(l) PROVE Due(Count) /\ Window # {}
        OBVIOUS
      <4>1. Room(l) = Threshold
        BY <2>6 DEF Room
      <4>2. Len(turnRows) = Threshold
        BY <4>1, <2>6, <1>3
      <4>3. Count = Threshold
        BY <4>2, <3>1, <1>5
      <4>4. stored \in (b + 1)..stored
        BY <4>2, <3>1, <1>1, <1>2 DEF SummaryFacts
      <4> QED BY <4>3, <4>4, <2>5 DEF Due
    <3> QED BY <3>2, <3>3
  <2>7. CASE l > 0
    <3>1. Carried = start..b /\ Due(b - start + 1)
      BY <2>1, <2>7 DEF CalmRows, Carried, b
    <3>2. Carried \cup Window = start..stored
      BY <3>1, <2>5, <1>1, <1>4 DEF SummaryFacts
    <3>3. Len(turnRows) - l = Room(l) => Due(Count) /\ Window # {}
      <4> SUFFICES ASSUME Len(turnRows) - l = Room(l) PROVE Due(Count) /\ Window # {}
        OBVIOUS
      <4>1. Len(turnRows) - l = Interval
        BY <2>7 DEF Room
      <4>2. Count = (b - start + 1) + Interval /\ b - start + 1 \in Int
        BY <4>1, <2>3, <1>1, <1>2, <1>4, <1>5 DEF SummaryFacts
      <4>3. stored \in (b + 1)..stored
        BY <4>1, <2>3, <1>1, <1>2, <1>4 DEF SummaryFacts
      <4> QED BY <3>1, <4>2, <4>3, <2>5, NextIsDue
    <3> QED BY <3>2, <3>3
  <2> QED BY <2>6, <2>7, <1>3
<1> QED BY <1>5, <1>6, <1>7, <1>8

LEMMA ReadWindowKeeps ==
    ASSUME SummaryInv, NEW t \in Tasks, ReadWindow(t)
    PROVE  SummaryInv'
<1> DEFINE l == LatestSummary
           due == Due(Count) /\ Window # {}
<1>1. SummaryFacts
  BY FactsHold
<1>2. /\ task[t].step = "read" /\ turnRows' = turnRows /\ stored' = stored /\ start' = start
      /\ clearing' = clearing /\ calm' = calm
      /\ due => task' = [task EXCEPT ![t].step = "write", ![t].carries = Carried \cup Window]
      /\ ~due => task' = [task EXCEPT ![t] = NoTask]
  BY DEF ReadWindow, End
<1>3. LatestSummary' = l
  BY <1>1, <1>2, LatestSummaryIs DEF SummaryFacts
<1>4. /\ Carried \cup Window \subseteq start..stored /\ Count = stored - start + 1
      /\ calm => (Window # {} => Carried \cup Window = start..stored) /\ (Len(turnRows) - l = Room(l) => due)
  BY WindowIs
<1>5. task \in [Tasks -> TaskRows] /\ task[t] \in TaskRows
  BY DEF SummaryInv, TasksKept
<1>6. start..stored \subseteq Nat
  BY <1>1 DEF SummaryFacts
<1> DEFINE carries == Carried \cup Window
<1> HIDE DEF carries, due
<1>7. CASE due
  <2>1. /\ task' = [task EXCEPT ![t] = [task[t] EXCEPT !.step = "write", !.carries = carries]]
        /\ carries \in SUBSET Nat /\ carries \subseteq start..stored
    BY <1>2, <1>4, <1>5, <1>6, <1>7 DEF carries
  <2>2. /\ task'[t] \in TaskRows /\ task'[t] # NoTask /\ task'[t].step = "write"
        /\ task'[t].worker = task[t].worker /\ task'[t].carries = carries
        /\ \A u \in Tasks \ {t} : task'[u] = task[u]
    <3>1. task'[t] = WriteOf(task[t], carries) /\ \A u \in Tasks \ {t} : task'[u] = task[u]
      BY <2>1, <1>5 DEF WriteOf
    <3>2. Writing(task'[t], task[t], carries)
      BY <3>1, <2>1, <1>5, WritingTask
    <3> QED BY <3>1, <3>2 DEF Writing
  <2>3. task' \in [Tasks -> TaskRows]
    BY <2>1, <2>2, <1>5
  <2>4. task[t].worker # NoWorker
    BY <1>2 DEF SummaryInv, TasksKept
  <2>5. TasksKept'
    BY <1>2, <2>1, <2>2, <2>3, <2>4 DEF SummaryInv, TasksKept
  <2>6. calm => CalmTasks(turnRows, l, start, stored, task')
    <3> SUFFICES ASSUME calm PROVE CalmTasks(turnRows, l, start, stored, task')
      OBVIOUS
    <3>1. CalmTasks(turnRows, l, start, stored, task)
      BY DEF SummaryInv
    <3>2. task[t] # NoTask
      BY <1>2, NoTaskIs
    <3>3. carries = start..stored /\ Due(stored - start + 1)
      BY <1>4, <1>7 DEF carries, due
    <3> QED BY <2>2, <3>1, <3>2, <3>3 DEF CalmTasks
  <2> QED BY <1>2, <1>3, <2>5, <2>6 DEF SummaryInv
<1>8. CASE ~due
  <2>1. task'[t] = NoTask /\ task' \in [Tasks -> TaskRows] /\ \A u \in Tasks \ {t} : task'[u] = task[u]
    BY <1>2, <1>5, <1>8, NoTaskIs
  <2>2. TasksKept'
    BY <1>2, <1>8, TaskEnds
  <2>3. calm => CalmTasks(turnRows, l, start, stored, task')
    <3> SUFFICES ASSUME calm PROVE CalmTasks(turnRows, l, start, stored, task')
      OBVIOUS
    <3>1. CalmTasks(turnRows, l, start, stored, task) /\ Len(turnRows) - l <= Room(l)
      BY DEF SummaryInv, CalmRows
    <3>2. Len(turnRows) - l < Room(l)
      BY <1>1, <1>4, <1>8, <3>1, CadenceAssumption DEF SummaryFacts, Room
    <3> QED BY <2>1, <3>1, <3>2, NoTaskIs DEF CalmTasks
  <2> QED BY <1>2, <1>3, <2>2, <2>3 DEF SummaryInv
<1> QED BY <1>7, <1>8

LEMMA WriteSummaryKeeps ==
    ASSUME SummaryInv, NEW t \in Tasks, WriteSummary(t)
    PROVE  SummaryInv'
<1> DEFINE l == LatestSummary
           carries == task[t].carries
           new == Len(turnRows) + 1
<1>1. SummaryFacts
  BY FactsHold
<1>2. /\ task[t].step = "write" /\ turnRows' = Append(turnRows, SummaryRow(carries)) /\ stored' = stored /\ start' = start
      /\ clearing' = clearing /\ calm' = calm /\ task' = [task EXCEPT ![t] = NoTask]
  BY DEF WriteSummary, End
<1>3. carries \in SUBSET (start..stored)
  BY DEF SummaryInv, TasksKept
<1>4. /\ RowsKept(turnRows', new, start, stored) /\ LatestIn(turnRows') = new
      /\ Len(turnRows') = Len(turnRows) + 1 /\ Len(turnRows) \in Nat
      /\ turnRows'[new].carries = carries /\ LastBefore(turnRows', new, stored) = stored
  <2>1. start \in Nat \ {0} /\ stored \in Nat /\ start <= stored + 1 /\ RowsKept(turnRows, l, start, stored)
    BY <1>1 DEF SummaryFacts
  <2> HIDE DEF l, carries
  <2>2. SummaryFollows(turnRows', turnRows, l, start, stored, carries)
    BY <1>2, <1>3, <2>1, SummaryGrows
  <2> QED BY <2>2 DEF SummaryFollows
<1>5. LatestSummary' = new
  BY <1>1, <1>4 DEF SummaryFacts
<1>6. task'[t] = NoTask /\ \A u \in Tasks \ {t} : task'[u] = task[u]
  BY <1>2, TaskEnds
<1>7. TasksKept'
  BY <1>2, TaskEnds
<1>8. ASSUME calm PROVE CalmRows(turnRows', new, start, stored) /\ CalmTasks(turnRows', new, start, stored, task')
  <2>1. CalmTasks(turnRows, l, start, stored, task) /\ (stored - start + 1) % 2 = 0
    BY <1>8 DEF SummaryInv, CalmRows
  <2>2. carries = start..stored /\ Due(stored - start + 1)
    BY <2>1, <1>2 DEF CalmTasks
  <2>3. Len(turnRows') - new = 0 /\ 0 < Room(new) /\ 0 <= Room(new)
    BY <1>4, CadenceAssumption DEF Room
  <2>4. CalmRows(turnRows', new, start, stored)
    BY <1>4, <2>1, <2>2, <2>3 DEF CalmRows
  <2>5. CalmTasks(turnRows', new, start, stored, task')
    <3>1. \A u \in Tasks \ {t} : task[u] = NoTask
      BY <2>1, <1>2, NoTaskIs DEF CalmTasks
    <3>2. \A u \in Tasks : task'[u] = NoTask
      BY <1>6, <3>1
    <3> HIDE DEF new
    <3> QED BY <2>3, <3>2, NoTaskIs DEF CalmTasks
  <2> QED BY <2>4, <2>5
<1> HIDE DEF new
<1> QED BY <1>2, <1>4, <1>5, <1>7, <1>8 DEF SummaryInv

LEMMA AbandonKeeps ==
    ASSUME SummaryInv, NEW t \in Tasks, Abandon(t)
    PROVE  SummaryInv'
<1>1. SummaryFacts
  BY FactsHold
<1>2. /\ turnRows' = turnRows /\ stored' = stored /\ start' = start /\ clearing' = clearing /\ calm' = FALSE
      /\ task' = [task EXCEPT ![t] = NoTask]
  BY DEF Abandon, End
<1>3. LatestSummary' = LatestSummary
  BY <1>1, <1>2, LatestSummaryIs DEF SummaryFacts
<1>4. TasksKept'
  BY <1>2, TaskEnds
<1> QED BY <1>2, <1>3, <1>4 DEF SummaryInv

LEMMA ClearKeeps ==
    ASSUME SummaryInv, OneProcess, (\E w \in Workers : BeginClear(w)) \/ DeleteHistory \/ FailClear
    PROVE  SummaryInv'
<1>1. SummaryFacts
  BY FactsHold
<1>2. CASE turnRows' = turnRows /\ stored' = stored /\ start' = start /\ calm' = calm /\ task' = task
           /\ clearing' \in Workers \cup {NoWorker}
  <2>1. LatestSummary' = LatestSummary
    BY <1>1, <1>2, LatestSummaryIs DEF SummaryFacts
  <2> QED BY <1>2, <2>1 DEF SummaryInv, TasksKept
<1>3. CASE DeleteHistory
  <2>1. /\ clearing # NoWorker /\ \A t \in Tasks : task[t].worker # clearing
        /\ turnRows' = <<>> /\ start' = stored + 1 /\ clearing' = NoWorker /\ task' = task /\ stored' = stored
        /\ calm' = \A t \in Tasks : task[t] = NoTask
    BY <1>3 DEF DeleteHistory
  <2>2. clearing \in Workers /\ task \in [Tasks -> TaskRows]
    BY <2>1 DEF SummaryInv, TasksKept
  <2>3. \A t \in Tasks : task[t] = NoTask
    <3> TAKE t \in Tasks
    <3>1. task[t].worker \in Workers \cup {NoWorker}
      BY <2>2 DEF TaskRows
    <3>2. task[t].worker = NoWorker
      BY <3>1, <2>1, <2>2 DEF OneProcess
    <3> QED BY <3>2 DEF SummaryInv, TasksKept
  <2>4. /\ RowsKept(<<>>, 0, stored + 1, stored) /\ LatestIn(<<>>) = 0
        /\ CalmRows(<<>>, 0, stored + 1, stored) /\ Len(<<>>) - 0 < Room(0)
    BY <1>1, NoRows DEF SummaryFacts
  <2>5. LatestSummary' = 0
    BY <1>1, <2>1, <2>4 DEF SummaryFacts
  <2>6. TasksKept'
    BY <2>1, <2>2, <2>3, NoTaskIs DEF TasksKept
  <2>7. CalmTasks(turnRows', 0, stored + 1, stored, task')
    BY <2>1, <2>3, <2>4, NoTaskIs DEF CalmTasks
  <2> QED BY <1>1, <2>1, <2>4, <2>5, <2>6, <2>7 DEF SummaryInv, SummaryFacts
<1>4. CASE (\E w \in Workers : BeginClear(w)) \/ FailClear
  BY <1>2, <1>4 DEF BeginClear, FailClear
<1> QED BY <1>3, <1>4

LEMMA SummaryNextKeeps ==
    ASSUME SummaryInv, OneProcess, EvenCadence, [SummaryNext]_summaryVars
    PROVE  SummaryInv'
<1>1. CASE UNCHANGED summaryVars
  <2>1. LatestSummary' = LatestSummary
    BY <1>1, LatestSummaryIs, FactsHold DEF summaryVars, SummaryFacts
  <2> QED BY <1>1, <2>1 DEF summaryVars, SummaryInv, TasksKept
<1>2. CASE SummaryNext
  BY <1>2, PersistKeeps, ReadWindowKeeps, WriteSummaryKeeps, AbandonKeeps, ClearKeeps DEF SummaryNext
<1> QED BY <1>1, <1>2

\* The rows, the summaries and the compressions of a session fit together, for
\* any cadence that a turn and its reply cannot step over and any number of
\* turns, clears and compressions at work (ChatMessagePersister).
THEOREM SummaryInvariant == ASSUME OneProcess, EvenCadence PROVE SummarySpec => []SummaryInv
<1>1. SummaryInit => SummaryInv
  BY SummaryStarts
<1>2. SummaryInv /\ [SummaryNext]_summaryVars => SummaryInv'
  BY SummaryNextKeeps
<1> QED BY <1>1, <1>2, PTL DEF SummarySpec

LEMMA KeptMeansSound == SummaryInv => PromptHistoryIsSound
<1> SUFFICES ASSUME SummaryInv PROVE PromptHistoryIsSound
  OBVIOUS
<1> DEFINE l == LatestSummary
           b == LastBefore(turnRows, l, stored)
<1>1. SummaryFacts
  BY FactsHold
<1>2. turnRows \in Seq(TurnRows) /\ DOMAIN turnRows = 1..Len(turnRows) /\ Len(turnRows) \in Nat /\ l \in 0..Len(turnRows)
  BY <1>1 DEF SummaryFacts, RowsKept
<1>3. SummariesAreOfThisConversation
  BY <1>1 DEF SummaryFacts, RowsKept, SummariesAreOfThisConversation
<1>4. HistoryIsOverlapFree
  <2>1. SinceSummary = (b + 1)..stored /\ b \in Int
    BY <1>1, Trailing DEF SummaryFacts, SinceSummary
  <2>2. \A n \in Carried : n <= b
    BY <1>1 DEF SummaryFacts, RowsKept, Carried
  <2> QED BY <2>1, <2>2 DEF HistoryIsOverlapFree, History
<1>5. CalmSummariesAreComplete
  <2> SUFFICES ASSUME calm, l > 0 PROVE Turns(SubSeq(turnRows, 1, l)) \subseteq Carried
    BY DEF CalmSummariesAreComplete
  <2>1. Carried = start..b
    BY DEF SummaryInv, CalmRows, Carried
  <2>2. Turns(SubSeq(turnRows, 1, l)) = {turnRows[i].id : i \in {j \in 1..l : turnRows[j].kind = "turn"}}
    BY <1>2, TurnsOfPart
  <2>3. \A i \in 1..l : turnRows[i].kind = "turn" => turnRows[i].id <= b /\ turnRows[i].id \in start..stored
    BY <1>1, <1>2 DEF SummaryFacts, RowsKept
  <2>4. b \in Int
    BY <1>1, Trailing DEF SummaryFacts
  <2> QED BY <2>1, <2>2, <2>3, <2>4
<1> QED BY <1>3, <1>4, <1>5 DEF PromptHistoryIsSound

\* What the model is prompted with is of this conversation, none of it twice,
\* and in calm times none of it missing (get_history, _compress).
THEOREM PromptHistoryHolds == ASSUME OneProcess, EvenCadence PROVE SummarySpec => []PromptHistoryIsSound
<1>1. SummarySpec => []SummaryInv
  BY SummaryInvariant
<1>2. SummaryInv => PromptHistoryIsSound
  BY KeptMeansSound
<1> QED BY <1>1, <1>2, PTL
=============================================================================
