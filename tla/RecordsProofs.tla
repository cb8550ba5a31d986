---------------------------- MODULE RecordsProofs ----------------------------
(***************************************************************************)
(* Proofs about components that keep small records of their own: the       *)
(* conversation of an anonymous visitor (GuestIdentity), the judgements of *)
(* a finished one (QualityReview), the minted half of the provider's       *)
(* catalog (ProviderCatalog), the desk of the human agents (HandoffDesk),  *)
(* the category registry of the shop (TaxonomyRegistry) and what a boot    *)
(* puts into a replica (Replicas).  They share no variable; each has its   *)
(* inductive invariant and its theorems.                                   *)
(***************************************************************************)
EXTENDS GuestIdentity, QualityReview, ProviderCatalog, HandoffDesk, TaxonomyRegistry, Replicas,
        FiniteSetTheorems, SequenceTheorems, WellFoundedInduction, TLAPS

-----------------------------------------------------------------------------
(* Anonymous visitors. *)

GuestSteps == {"idle", "loading", "replacing", "opened", "unavailable"}

VisitorRows == [current : (1..MaxSessions) \cup {NoSession}, valid : BOOLEAN, guest : BOOLEAN]

TabRows == [step : GuestSteps,
            token : (1..MaxVisitors) \cup {NoVisitor},
            found : (1..MaxSessions) \cup {NoSession},
            try : 0..MaxAttempts,
            session : (1..MaxSessions) \cup {NoSession}]

\* Numbers are given out in sequence, so the next one is unused.
Numbered == \E n \in Nat : DOMAIN sessions = 1..n
VisitorsNumbered == \E n \in Nat : Created = 1..n

\* A conversation belongs to a visitor that exists, and the row of a visitor
\* points to nothing but a conversation of its own that is still there.
Owned == \A s \in DOMAIN sessions : sessions[s] \in Created
PointsToOwn == \A v \in Created : visitors[v].current # NoSession =>
    /\ visitors[v].current \in DOMAIN sessions
    /\ visitors[v].current \notin deleted
    /\ sessions[visitors[v].current] = v

\* Who sets out to replace a conversation has found that there is none.
FoundNone == \A t \in Tabs : tab[t].step = "replacing" => tab[t].found = NoSession

GuestInv ==
    /\ GuestTypeOK
    /\ Numbered /\ VisitorsNumbered
    /\ Owned /\ PointsToOwn /\ FoundNone
    /\ OneConversationEach

\* A number that follows 1..n is not among them.
LEMMA NextNumber ==
    ASSUME NEW n \in Nat, NEW S, S = 1..n
    PROVE  /\ Cardinality(S) + 1 = n + 1
           /\ Cardinality(S) + 1 \notin S
           /\ S \cup {Cardinality(S) + 1} = 1..(n + 1)
<1>1. Cardinality(S) = n
  BY FS_Interval, n - 1 + 1 = n
<1> QED BY <1>1

LEMMA GuestStarts == ASSUME GuestInit PROVE GuestInv
<1> USE GuestAssumption
<1>1. DOMAIN visitors = {} /\ DOMAIN sessions = {} /\ 1..0 = {}
  BY DEF GuestInit
<1>2. GuestTypeOK
  BY <1>1 DEF GuestInit, GuestTypeOK, Created, Idle
<1> QED BY <1>1, <1>2 DEF GuestInit, GuestInv, Numbered, VisitorsNumbered, Created, Owned,
                         PointsToOwn, FoundNone, OneConversationEach, Idle

\* A step that moves a tab and nothing else keeps the invariant, as long as
\* the tab is well formed and keeps to FoundNone.
LEMMA TabMoves ==
    ASSUME GuestInv, NEW t \in Tabs, NEW row \in TabRows,
           row.step = "replacing" => row.found = NoSession,
           tab' = [tab EXCEPT ![t] = row],
           UNCHANGED <<visitors, sessions, deleted, cookie>>
    PROVE  GuestInv'
<1>1. GuestTypeOK'
  BY DEF GuestInv, GuestTypeOK, Created, TabRows, GuestSteps
<1>2. FoundNone'
  BY DEF GuestInv, FoundNone, GuestTypeOK
<1> QED BY <1>1, <1>2 DEF GuestInv, Numbered, VisitorsNumbered, Created, Owned, PointsToOwn,
                         OneConversationEach

LEMMA BeginsKeeps == ASSUME GuestInv, NEW t \in Tabs, Begins(t) PROVE GuestInv'
<1> DEFINE row == [Idle EXCEPT !.step = "loading", !.token = cookie]
<1>1. MaxAttempts \in Nat /\ 0 \in 0..MaxAttempts
  BY GuestAssumption
<1>2. cookie \in (1..MaxVisitors) \cup {NoVisitor}
  BY DEF GuestInv, GuestTypeOK
<1>3. row \in TabRows /\ row.step = "loading"
  BY <1>1, <1>2 DEF Idle, TabRows, GuestSteps
<1> QED BY <1>3, TabMoves DEF Begins

LEMMA ReusesKeeps == ASSUME GuestInv, NEW t \in Tabs, Reuses(t) PROVE GuestInv'
<1> DEFINE row == [tab[t] EXCEPT !.step = "opened", !.session = visitors[tab[t].token].current]
<1>1. tab[t] \in TabRows /\ visitors[tab[t].token] \in VisitorRows
  BY DEF GuestInv, GuestTypeOK, TabRows, GuestSteps, VisitorRows, Reuses, Live
<1>2. row \in TabRows /\ row.step = "opened"
  BY <1>1 DEF TabRows, GuestSteps, VisitorRows
<1> QED BY <1>2, TabMoves DEF Reuses

LEMMA FindsNoneKeeps == ASSUME GuestInv, NEW t \in Tabs, FindsNone(t) PROVE GuestInv'
<1> DEFINE row == [tab[t] EXCEPT !.step = "replacing", !.found = visitors[tab[t].token].current]
<1>1. tab[t] \in TabRows /\ tab[t].token \in Created
  BY DEF GuestInv, GuestTypeOK, TabRows, GuestSteps, FindsNone, Live
<1>2. visitors[tab[t].token].current = NoSession
  BY <1>1 DEF GuestInv, PointsToOwn, FindsNone, Readable
<1>3. row \in TabRows /\ row.found = NoSession
  BY <1>1, <1>2 DEF TabRows, GuestSteps
<1> QED BY <1>3, TabMoves DEF FindsNone

LEMMA LosesRaceKeeps == ASSUME GuestInv, NEW t \in Tabs, LosesRace(t) PROVE GuestInv'
<1> DEFINE again == [tab[t] EXCEPT !.step = "loading", !.try = @ + 1]
           gives == [tab[t] EXCEPT !.step = "unavailable"]
<1>1. tab[t] \in TabRows /\ tab[t].try \in 0..MaxAttempts /\ MaxAttempts \in Nat
  BY GuestAssumption DEF GuestInv, GuestTypeOK, TabRows, GuestSteps
<1>2. CASE tab[t].try + 1 < MaxAttempts
  <2>1. tab[t].try + 1 \in 0..MaxAttempts
    BY <1>1, <1>2
  <2>2. again \in TabRows /\ again.step = "loading"
    BY <1>1, <2>1 DEF TabRows, GuestSteps
  <2>3. tab' = [tab EXCEPT ![t] = again]
    BY <1>2 DEF LosesRace
  <2> QED BY <2>2, <2>3, TabMoves DEF LosesRace
<1>3. CASE ~(tab[t].try + 1 < MaxAttempts)
  <2>1. gives \in TabRows /\ gives.step = "unavailable"
    BY <1>1 DEF TabRows, GuestSteps
  <2>2. tab' = [tab EXCEPT ![t] = gives]
    BY <1>3 DEF LosesRace
  <2> QED BY <2>1, <2>2, TabMoves DEF LosesRace
<1> QED BY <1>2, <1>3

LEMMA CreatesKeeps == ASSUME GuestInv, NEW t \in Tabs, Creates(t) PROVE GuestInv'
<1>1. PICK n \in Nat : DOMAIN sessions = 1..n
  BY DEF GuestInv, Numbered
<1>2. PICK m \in Nat : Created = 1..m
  BY DEF GuestInv, VisitorsNumbered
<1>3. NewSession = n + 1 /\ NewVisitor = m + 1
  BY <1>1, <1>2, NextNumber DEF NewSession, NewVisitor
<1>4. n + 1 \in 1..MaxSessions /\ m + 1 \in 1..MaxVisitors
  BY <1>3, GuestAssumption DEF Creates
<1> DEFINE row == [current |-> n + 1, valid |-> TRUE, guest |-> TRUE]
<1>5. /\ sessions' = [s \in 1..(n + 1) |-> IF s = n + 1 THEN m + 1 ELSE sessions[s]]
      /\ visitors' = [v \in 1..(m + 1) |-> IF v = m + 1 THEN row ELSE visitors[v]]
      /\ cookie' = m + 1 /\ deleted' = deleted
  <2>1. 1..n \cup {n + 1} = 1..(n + 1) /\ 1..m \cup {m + 1} = 1..(m + 1)
    OBVIOUS
  <2> QED BY <1>1, <1>2, <1>3, <2>1 DEF Creates
<1>6. DOMAIN sessions' = 1..(n + 1) /\ Created' = 1..(m + 1)
  BY <1>5 DEF Created
<1>30. PICK old \in TabRows : old = tab[t]
  BY DEF GuestInv, GuestTypeOK, TabRows, GuestSteps
<1>7. PICK next : next = [old EXCEPT !.step = "opened", !.token = m + 1, !.session = n + 1]
  OBVIOUS
<1>8. tab' = [tab EXCEPT ![t] = next]
  BY <1>3, <1>7, <1>30 DEF Creates
<1>9. next \in TabRows /\ next.step = "opened"
  <2>1. "opened" \in GuestSteps
    BY DEF GuestSteps
  <2> QED BY <1>4, <1>7, <1>30, <2>1 DEF TabRows
<1>10. \A v \in 1..m : visitors'[v] = visitors[v]
  BY <1>5
<1>11. \A s \in 1..n : sessions'[s] = sessions[s]
  BY <1>5
<1>12. visitors'[m + 1] = row /\ sessions'[n + 1] = m + 1
  BY <1>5
<1>13. \A v \in Created' : v \in 1..m \/ v = m + 1
  BY <1>6
<1>14. \A s \in DOMAIN sessions' : s \in 1..n \/ s = n + 1
  BY <1>6
<1>15. GuestTypeOK'
  <2>1. Created' \subseteq 1..MaxVisitors /\ DOMAIN sessions' \subseteq 1..MaxSessions
    BY <1>4, <1>6, GuestAssumption
  <2>2. \A v \in Created' : visitors'[v] \in VisitorRows
    <3>1. row \in VisitorRows
      BY <1>4 DEF VisitorRows
    <3>2. \A v \in Created : visitors[v] \in VisitorRows
      BY DEF GuestInv, GuestTypeOK, VisitorRows
    <3> QED BY <1>2, <1>10, <1>12, <1>13, <3>1, <3>2
  <2>3. deleted' \subseteq DOMAIN sessions'
    BY <1>1, <1>5, <1>6 DEF GuestInv, GuestTypeOK
  <2>4. tab' \in [Tabs -> TabRows]
    BY <1>8, <1>9 DEF GuestInv, GuestTypeOK, TabRows, GuestSteps
  <2> QED BY <1>5, <1>6, <2>1, <2>2, <2>3, <2>4 DEF GuestTypeOK, VisitorRows, TabRows, GuestSteps
<1>16. Numbered' /\ VisitorsNumbered'
  BY <1>6, n + 1 \in Nat, m + 1 \in Nat DEF Numbered, VisitorsNumbered
<1>17. Owned'
  BY <1>1, <1>2, <1>6, <1>11, <1>12, <1>14 DEF GuestInv, Owned
<1>18. PointsToOwn'
  <2>1. n + 1 \notin deleted'
    BY <1>1, <1>5 DEF GuestInv, GuestTypeOK
  <2>2. SUFFICES ASSUME NEW v \in Created', visitors'[v].current # NoSession
                 PROVE  /\ visitors'[v].current \in DOMAIN sessions'
                        /\ visitors'[v].current \notin deleted'
                        /\ sessions'[visitors'[v].current] = v
    BY DEF PointsToOwn
  <2>3. CASE v = m + 1
    BY <1>6, <1>12, <2>1, <2>3
  <2>4. CASE v \in 1..m
    BY <1>1, <1>2, <1>5, <1>6, <1>10, <1>11, <2>2, <2>4 DEF GuestInv, PointsToOwn
  <2> QED BY <1>13, <2>3, <2>4
<1>19. FoundNone'
  BY <1>8, <1>9 DEF GuestInv, FoundNone, GuestTypeOK
<1>20. OneConversationEach'
  <2>1. SUFFICES ASSUME NEW s \in DOMAIN sessions' \ deleted'
                 PROVE  visitors'[sessions'[s]].current = s
    BY DEF OneConversationEach
  <2>2. CASE s = n + 1
    BY <1>12, <2>2
  <2>3. CASE s \in 1..n
    <3>1. s \in DOMAIN sessions \ deleted /\ sessions'[s] = sessions[s]
      BY <1>1, <1>5, <1>11, <2>1, <2>3
    <3>2. sessions[s] \in 1..m /\ visitors[sessions[s]].current = s
      BY <1>2, <3>1 DEF GuestInv, OneConversationEach, Owned
    <3> QED BY <1>10, <3>1, <3>2
  <2>4. s \in 1..n \/ s = n + 1
    BY <1>14, <2>1
  <2> QED BY <2>2, <2>3, <2>4
<1> QED BY <1>15, <1>16, <1>17, <1>18, <1>19, <1>20 DEF GuestInv

LEMMA ReplacesKeeps == ASSUME GuestInv, NEW t \in Tabs, Replaces(t) PROVE GuestInv'
<1>1. PICK n \in Nat : DOMAIN sessions = 1..n
  BY DEF GuestInv, Numbered
<1>2. PICK w : w = tab[t].token
  OBVIOUS
<1>3. NewSession = n + 1 /\ n + 1 \in 1..MaxSessions
  BY <1>1, NextNumber, GuestAssumption DEF NewSession, Replaces
<1>4. w \in Created /\ visitors[w].current = NoSession
  BY <1>2 DEF Replaces, StillAsFound, Live, GuestInv, FoundNone
<1>5. /\ sessions' = [s \in 1..(n + 1) |-> IF s = n + 1 THEN w ELSE sessions[s]]
      /\ visitors' = [visitors EXCEPT ![w].current = n + 1]
      /\ cookie' = cookie /\ deleted' = deleted
  <2>1. 1..n \cup {n + 1} = 1..(n + 1)
    OBVIOUS
  <2> QED BY <1>1, <1>2, <1>3, <2>1 DEF Replaces
<1>6. DOMAIN sessions' = 1..(n + 1) /\ Created' = Created
  BY <1>5 DEF Created
<1>30. PICK old \in TabRows : old = tab[t]
  BY DEF GuestInv, GuestTypeOK, TabRows, GuestSteps
<1>7. PICK next : next = [old EXCEPT !.step = "opened", !.session = n + 1]
  OBVIOUS
<1>8. tab' = [tab EXCEPT ![t] = next]
  BY <1>3, <1>7, <1>30 DEF Replaces
<1>9. next \in TabRows /\ next.step = "opened"
  <2>1. "opened" \in GuestSteps
    BY DEF GuestSteps
  <2> QED BY <1>3, <1>7, <1>30, <2>1 DEF TabRows
<1>10. \A v \in Created : v # w => visitors'[v] = visitors[v]
  BY <1>5 DEF Created
<1>11. \A s \in 1..n : sessions'[s] = sessions[s]
  BY <1>5
<1>12. sessions'[n + 1] = w /\ visitors'[w] = [visitors[w] EXCEPT !.current = n + 1]
  BY <1>4, <1>5 DEF Created
<1>13. visitors[w] \in VisitorRows
  BY <1>4 DEF GuestInv, GuestTypeOK, VisitorRows
<1>14. visitors'[w] \in VisitorRows /\ visitors'[w].current = n + 1
  BY <1>3, <1>12, <1>13 DEF VisitorRows
<1>15. \A s \in DOMAIN sessions' : s \in 1..n \/ s = n + 1
  BY <1>6
\* The visitor had no conversation, so every one of its own was deleted.
<1>16. \A s \in DOMAIN sessions \ deleted : sessions[s] # w
  <2>1. SUFFICES ASSUME NEW s \in DOMAIN sessions \ deleted, sessions[s] = w PROVE FALSE
    OBVIOUS
  <2>2. visitors[w].current = s
    BY <2>1 DEF GuestInv, OneConversationEach
  <2> QED BY <1>1, <1>4, <2>2, GuestAssumption
<1>17. GuestTypeOK'
  <2>1. DOMAIN sessions' \subseteq 1..MaxSessions
    BY <1>3, <1>6, GuestAssumption
  <2>2. \A v \in Created' : visitors'[v] \in VisitorRows
    BY <1>6, <1>10, <1>14 DEF GuestInv, GuestTypeOK, VisitorRows
  <2>3. deleted' \subseteq DOMAIN sessions'
    BY <1>1, <1>5, <1>6 DEF GuestInv, GuestTypeOK
  <2>4. tab' \in [Tabs -> TabRows]
    BY <1>8, <1>9 DEF GuestInv, GuestTypeOK, TabRows, GuestSteps
  <2>5. Created' \subseteq 1..MaxVisitors /\ cookie' \in Created' \cup {NoVisitor}
    BY <1>5, <1>6 DEF GuestInv, GuestTypeOK
  <2> QED BY <2>1, <2>2, <2>3, <2>4, <2>5 DEF GuestTypeOK, VisitorRows, TabRows, GuestSteps
<1>18. Numbered' /\ VisitorsNumbered'
  BY <1>6, n + 1 \in Nat DEF Numbered, VisitorsNumbered, GuestInv
<1>19. Owned'
  BY <1>1, <1>4, <1>6, <1>11, <1>12, <1>15 DEF GuestInv, Owned
<1>20. PointsToOwn'
  <2>1. n + 1 \notin deleted'
    BY <1>1, <1>5 DEF GuestInv, GuestTypeOK
  <2>2. SUFFICES ASSUME NEW v \in Created', visitors'[v].current # NoSession
                 PROVE  /\ visitors'[v].current \in DOMAIN sessions'
                        /\ visitors'[v].current \notin deleted'
                        /\ sessions'[visitors'[v].current] = v
    BY DEF PointsToOwn
  <2>3. CASE v = w
    <3>1. visitors'[v].current = n + 1 /\ sessions'[n + 1] = v
      BY <1>12, <1>14, <2>3
    <3>2. n + 1 \in DOMAIN sessions'
      BY <1>6
    <3> QED BY <2>1, <3>1, <3>2
  <2>4. CASE v # w
    <3>1. v \in Created /\ visitors'[v] = visitors[v]
      BY <1>6, <1>10, <2>4
    <3>2. PICK s : s = visitors[v].current
      OBVIOUS
    <3>3. s \in 1..n /\ s \notin deleted /\ sessions[s] = v
      BY <1>1, <2>2, <3>1, <3>2 DEF GuestInv, PointsToOwn
    <3>4. s \in DOMAIN sessions' /\ sessions'[s] = v /\ s \notin deleted'
      BY <1>5, <1>6, <1>11, <3>3
    <3> QED BY <3>1, <3>2, <3>4
  <2> QED BY <2>3, <2>4
<1>21. FoundNone'
  BY <1>8, <1>9 DEF GuestInv, FoundNone, GuestTypeOK
<1>22. OneConversationEach'
  <2>1. SUFFICES ASSUME NEW s \in DOMAIN sessions' \ deleted'
                 PROVE  visitors'[sessions'[s]].current = s
    BY DEF OneConversationEach
  <2>2. CASE s = n + 1
    BY <1>12, <1>14, <2>2
  <2>3. CASE s \in 1..n
    <3>1. s \in DOMAIN sessions \ deleted /\ sessions'[s] = sessions[s] /\ sessions[s] \in Created
      BY <1>1, <1>5, <1>11, <2>1, <2>3 DEF GuestInv, Owned
    <3> QED BY <1>10, <1>16, <3>1 DEF GuestInv, OneConversationEach
  <2> QED BY <1>15, <2>2, <2>3
<1> QED BY <1>17, <1>18, <1>19, <1>20, <1>21, <1>22 DEF GuestInv

LEMMA DeletesKeeps == ASSUME GuestInv, NEW d, Deletes(d) PROVE GuestInv'
<1>1. /\ deleted' = deleted \cup {d} /\ d \in DOMAIN sessions
      /\ sessions' = sessions /\ cookie' = cookie /\ tab' = tab /\ Created' = Created
  BY DEF Deletes, Created
<1>2. \A v \in Created : visitors'[v] = IF visitors[v].current = d
                                        THEN [visitors[v] EXCEPT !.current = NoSession]
                                        ELSE visitors[v]
  BY DEF Deletes
<1>3. \A v \in Created : visitors[v] \in VisitorRows
  BY DEF GuestInv, GuestTypeOK, VisitorRows
<1>4. \A v \in Created : /\ visitors'[v] \in VisitorRows
                         /\ visitors'[v].current = IF visitors[v].current = d
                                                   THEN NoSession ELSE visitors[v].current
  BY <1>2, <1>3 DEF VisitorRows
<1>5. GuestTypeOK'
  BY <1>1, <1>4 DEF GuestInv, GuestTypeOK, VisitorRows
<1>6. PointsToOwn'
  BY <1>1, <1>4 DEF GuestInv, PointsToOwn
<1>7. OneConversationEach'
  BY <1>1, <1>4 DEF GuestInv, OneConversationEach, Owned
<1>8. Numbered' /\ VisitorsNumbered' /\ Owned' /\ FoundNone'
  BY <1>1 DEF GuestInv, Numbered, VisitorsNumbered, Owned, FoundNone
<1> QED BY <1>5, <1>6, <1>7, <1>8 DEF GuestInv

\* Whether a visitor is still admitted has nothing to do with what it owns.
LEMMA AdmissionEnds ==
    ASSUME GuestInv, NEW v \in Created, Expires(v) \/ StopsBeingGuest(v)
    PROVE  GuestInv'
<1>1. /\ sessions' = sessions /\ deleted' = deleted /\ cookie' = cookie /\ tab' = tab
      /\ Created' = Created
  BY DEF Expires, StopsBeingGuest, Created
<1>2. \A w \in Created : visitors[w] \in VisitorRows
  BY DEF GuestInv, GuestTypeOK, VisitorRows
<1>3. \A w \in Created : visitors'[w] \in VisitorRows /\ visitors'[w].current = visitors[w].current
  <2>1. CASE Expires(v)
    BY <1>2, <2>1 DEF Expires, Created, VisitorRows
  <2>2. CASE StopsBeingGuest(v)
    BY <1>2, <2>2 DEF StopsBeingGuest, Created, VisitorRows
  <2> QED BY <2>1, <2>2
<1>4. GuestTypeOK'
  BY <1>1, <1>3 DEF GuestInv, GuestTypeOK, VisitorRows
<1>5. PointsToOwn' /\ OneConversationEach'
  BY <1>1, <1>3 DEF GuestInv, PointsToOwn, OneConversationEach, Owned
<1>6. Numbered' /\ VisitorsNumbered' /\ Owned' /\ FoundNone'
  BY <1>1 DEF GuestInv, Numbered, VisitorsNumbered, Owned, FoundNone
<1> QED BY <1>4, <1>5, <1>6 DEF GuestInv

LEMMA GuestMoves ==
    ASSUME GuestInv, [GuestNext]_guestVars PROVE GuestInv'
<1>1. ASSUME NEW t \in Tabs, Begins(t) PROVE GuestInv'
  BY <1>1, BeginsKeeps
<1>2. ASSUME NEW t \in Tabs, Creates(t) PROVE GuestInv'
  BY <1>2, CreatesKeeps
<1>3. ASSUME NEW t \in Tabs, Reuses(t) PROVE GuestInv'
  BY <1>3, ReusesKeeps
<1>4. ASSUME NEW t \in Tabs, FindsNone(t) PROVE GuestInv'
  BY <1>4, FindsNoneKeeps
<1>5. ASSUME NEW t \in Tabs, Replaces(t) PROVE GuestInv'
  BY <1>5, ReplacesKeeps
<1>6. ASSUME NEW t \in Tabs, LosesRace(t) PROVE GuestInv'
  BY <1>6, LosesRaceKeeps
<1>7. ASSUME NEW s \in 1..MaxSessions, Deletes(s) PROVE GuestInv'
  BY <1>7, DeletesKeeps
<1>8. ASSUME NEW v \in 1..MaxVisitors, Expires(v) \/ StopsBeingGuest(v) PROVE GuestInv'
  <2>1. v \in Created
    BY <1>8 DEF Expires, StopsBeingGuest
  <2> QED BY <1>8, <2>1, AdmissionEnds
<1>9. CASE UNCHANGED guestVars
  BY <1>9 DEF guestVars, GuestInv, GuestTypeOK, Numbered, VisitorsNumbered, Created, Owned,
              PointsToOwn, FoundNone, OneConversationEach
<1> QED BY <1>1, <1>2, <1>3, <1>4, <1>5, <1>6, <1>7, <1>8, <1>9 DEF GuestNext

\* Whatever tabs, deletions and expiries do, rows of visitors and
\* conversations keep pointing at each other (guest_identity.py).
THEOREM GuestInvariant == GuestSpec => []GuestInv
<1>1. GuestInit => GuestInv
  BY GuestStarts
<1>2. GuestInv /\ [GuestNext]_guestVars => GuestInv'
  BY GuestMoves
<1> QED BY <1>1, <1>2, PTL DEF GuestSpec

\* No visitor ever has two conversations, for any number of tabs, attempts,
\* visitors and conversations (guest_identity.py, the conditional update of
\* _reuse): it holds because who replaces found no conversation at all.
THEOREM OneEach == GuestSpec => []OneConversationEach
BY GuestInvariant, PTL DEF GuestInv

-----------------------------------------------------------------------------
(* The judgements of a finished conversation. *)

Replies == [confirms : BOOLEAN, rated : {"none", "up", "down"}, of : Nat]

ChatRows == [key : Nat, resolved : Nat, reopened : Nat, verdict : Nat,
             replies : Seq(Replies), human : Nat, ticket : BOOLEAN]

ReviewRows == [step : {"idle", "offered", "holding", "checked", "done"},
               seen : ChatRows \cup {Nobody}, fresh : ChatRows \cup {Nobody}]

RatingRows == [step : {"idle", "found", "done"}, reply : Nat, key : Nat]

ReviewTypes ==
    /\ chat \in ChatRows
    /\ gate \in Reviewers \cup {Nobody} /\ gateLost \subseteq Reviewers
    /\ review \in [Reviewers -> ReviewRows] /\ rating \in [Raters -> RatingRows]
    /\ events \in Nat

\* A reply is of the key the conversation has: clearing removes the others.
RepliesAreOfNow == \A i \in DOMAIN chat.replies : chat.replies[i].of = chat.key

\* Verdicts carry the time they were given at, so a later one is greater.
VerdictIsPast == chat.verdict <= events

\* A review that did not lose its lock has it.
HoldersHold == \A r \in Reviewers :
    review[r].step \in {"holding", "checked"} /\ r \notin gateLost => gate = r

\* A snapshot was compared with what the reviewer had seen.  Under a lock
\* that did not break nothing but a verdict can have come after it, from a
\* review whose own lock broke; and that one shows in the row.
SnapshotsHold == \A r \in Reviewers : review[r].step = "checked" =>
    /\ review[r].fresh \in ChatRows /\ review[r].seen = review[r].fresh
    /\ review[r].fresh.verdict <= chat.verdict
    /\ r \notin gateLost /\ review[r].fresh.verdict = chat.verdict
          => review[r].fresh = Evidence

ReviewInv ==
    /\ ReviewTypes
    /\ RepliesAreOfNow /\ VerdictIsPast
    /\ HoldersHold /\ SnapshotsHold
    /\ JudgedAsSeen

LEMMA EvidenceIsTheRow == ASSUME chat \in ChatRows PROVE Evidence \in ChatRows
BY DEF Evidence, ChatRows

LEMMA ReviewStarts == ASSUME ReviewInit PROVE ReviewInv
<1>1. chat \in ChatRows /\ chat.replies = <<>> /\ chat.verdict = 0
  <2>1. <<>> \in Seq(Replies)
    OBVIOUS
  <2> QED BY <2>1 DEF ReviewInit, ChatRows
<1>2. NoProposal \in ReviewRows /\ NoProposal.step = "idle" /\ NoRating \in RatingRows
  BY DEF NoProposal, NoRating, ReviewRows, RatingRows
<1>3. ReviewTypes
  BY <1>1, <1>2 DEF ReviewInit, ReviewTypes
<1> QED BY <1>1, <1>2, <1>3 DEF ReviewInit, ReviewInv, RepliesAreOfNow, VerdictIsPast, HoldersHold,
                               SnapshotsHold, JudgedAsSeen, VerdictSawTheTranscript, RatingHitsItsReply

\* What is written to the conversation while nobody has its lock cannot be
\* missed by a review that kept its own.
LEMMA ChatMoves ==
    ASSUME ReviewInv, gate = Nobody, chat' \in ChatRows, chat'.verdict = chat.verdict,
           RepliesAreOfNow', events' \in Nat, events <= events',
           rating' \in [Raters -> RatingRows], RatingHitsItsReply',
           UNCHANGED <<gate, gateLost, review, judged>>
    PROVE  ReviewInv'
<1>1. ReviewTypes'
  BY DEF ReviewInv, ReviewTypes
<1>2. VerdictIsPast'
  BY DEF ReviewInv, VerdictIsPast, ReviewTypes, ChatRows
<1>3. HoldersHold'
  BY DEF ReviewInv, HoldersHold
<1>4. \A r \in Reviewers : review[r].step = "checked" => r \in gateLost
  BY ReviewAssumption DEF ReviewInv, HoldersHold
<1>5. SnapshotsHold'
  BY <1>4 DEF ReviewInv, SnapshotsHold
<1>6. JudgedAsSeen'
  BY DEF ReviewInv, JudgedAsSeen, VerdictSawTheTranscript
<1> QED BY <1>1, <1>2, <1>3, <1>5, <1>6 DEF ReviewInv

\* A step of a review or of a rating that leaves the conversation alone.
LEMMA DeskMoves ==
    ASSUME ReviewInv, ReviewTypes', HoldersHold', SnapshotsHold',
           UNCHANGED <<chat, events, judged, rated>>
    PROVE  ReviewInv'
BY DEF ReviewInv, RepliesAreOfNow, VerdictIsPast, JudgedAsSeen, VerdictSawTheTranscript,
       RatingHitsItsReply

LEMMA TurnKeeps == ASSUME ReviewInv, NEW confirms \in BOOLEAN, TurnIsStored(confirms)
                   PROVE  ReviewInv'
<1>1. PICK reply : reply = [confirms |-> confirms, rated |-> "none", of |-> chat.key]
  OBVIOUS
<1>2. chat \in ChatRows /\ events \in Nat /\ events' = events + 1
  BY DEF ReviewInv, ReviewTypes, TurnIsStored, Happens
<1>3. reply \in Replies /\ reply.of = chat.key
  BY <1>1, <1>2 DEF Replies, ChatRows
<1>4. PICK said : said = Append(chat.replies, reply)
  OBVIOUS
<1>5. said \in Seq(Replies) /\ \A i \in DOMAIN said : said[i].of = chat.key
  <2>1. chat.replies \in Seq(Replies)
    BY <1>2 DEF ChatRows
  <2>2. \A i \in DOMAIN chat.replies : chat.replies[i].of = chat.key
    BY DEF ReviewInv, RepliesAreOfNow
  <2> QED BY <1>3, <1>4, <2>1, <2>2
<1>6. PICK at : at = IF confirms THEN Now ELSE 0
  OBVIOUS
<1>7. at \in Nat
  BY <1>2, <1>6 DEF Now
<1>8. PICK times : times = IF ~confirms /\ chat.resolved # 0 THEN chat.reopened + 1 ELSE chat.reopened
  OBVIOUS
<1>9. times \in Nat
  BY <1>2, <1>8 DEF ChatRows
<1>10. chat' = [chat EXCEPT !.replies = said, !.resolved = at, !.reopened = times]
  BY <1>1, <1>4, <1>6, <1>8 DEF TurnIsStored
<1>11. chat' \in ChatRows /\ chat'.verdict = chat.verdict /\ chat'.key = chat.key
       /\ chat'.replies = said
  BY <1>2, <1>5, <1>7, <1>9, <1>10 DEF ChatRows
<1>12. RepliesAreOfNow'
  BY <1>5, <1>11 DEF RepliesAreOfNow
<1>13. rating' \in [Raters -> RatingRows] /\ RatingHitsItsReply'
  BY DEF ReviewInv, ReviewTypes, JudgedAsSeen, RatingHitsItsReply, TurnIsStored
<1>14. events <= events' /\ events' \in Nat
  BY <1>2
<1> QED BY <1>11, <1>12, <1>13, <1>14, ChatMoves DEF TurnIsStored

LEMMA HumanKeeps == ASSUME ReviewInv, HumanWrites PROVE ReviewInv'
<1>1. chat \in ChatRows /\ events \in Nat /\ events' = events + 1
  BY DEF ReviewInv, ReviewTypes, HumanWrites, Happens
<1>2. PICK n \in Nat : n = chat.human + 1
  BY <1>1 DEF ChatRows
<1>3. chat' = [chat EXCEPT !.human = n, !.ticket = TRUE]
  BY <1>2 DEF HumanWrites
<1>4. chat' \in ChatRows /\ chat'.verdict = chat.verdict /\ chat'.key = chat.key
      /\ chat'.replies = chat.replies
  BY <1>1, <1>3 DEF ChatRows
<1>5. RepliesAreOfNow'
  BY <1>4 DEF ReviewInv, RepliesAreOfNow
<1>6. rating' \in [Raters -> RatingRows] /\ RatingHitsItsReply'
  BY DEF ReviewInv, ReviewTypes, JudgedAsSeen, RatingHitsItsReply, HumanWrites
<1>7. events <= events' /\ events' \in Nat
  BY <1>1
<1> QED BY <1>4, <1>5, <1>6, <1>7, ChatMoves DEF HumanWrites

LEMMA ClearsKeeps == ASSUME ReviewInv, Clears PROVE ReviewInv'
<1>1. chat \in ChatRows /\ events \in Nat /\ events' = events + 1
  BY DEF ReviewInv, ReviewTypes, Clears, Happens
<1>2. PICK n \in Nat : n = chat.key + 1
  BY <1>1 DEF ChatRows
<1>3. chat' = [chat EXCEPT !.key = n, !.replies = <<>>]
  BY <1>2 DEF Clears
<1>4. chat' \in ChatRows /\ chat'.verdict = chat.verdict /\ chat'.replies = <<>>
  <2>1. <<>> \in Seq(Replies)
    OBVIOUS
  <2> QED BY <1>1, <1>3, <2>1 DEF ChatRows
<1>5. RepliesAreOfNow'
  BY <1>4 DEF RepliesAreOfNow
<1>6. rating' \in [Raters -> RatingRows] /\ RatingHitsItsReply'
  BY DEF ReviewInv, ReviewTypes, JudgedAsSeen, RatingHitsItsReply, Clears
<1>7. events <= events' /\ events' \in Nat
  BY <1>1
<1> QED BY <1>4, <1>5, <1>6, <1>7, ChatMoves DEF Clears

LEMMA RatesKeeps ==
    ASSUME ReviewInv, NEW f \in Raters, NEW value \in {"up", "down"}, Rates(f, value)
    PROVE  ReviewInv'
<1>1. PICK i : i = rating[f].reply
  OBVIOUS
<1>2. chat \in ChatRows /\ rating \in [Raters -> RatingRows] /\ events \in Nat
  BY DEF ReviewInv, ReviewTypes
<1>3. PICK said : said = chat.replies
  OBVIOUS
<1>4. said \in Seq(Replies) /\ i \in 1..Len(said) /\ said[i] \in Replies
  BY <1>1, <1>2, <1>3 DEF ChatRows, Rates, StillThere
<1>5. PICK marked : marked = [said EXCEPT ![i].rated = value]
  OBVIOUS
<1>6. chat' = [chat EXCEPT !.replies = marked]
  BY <1>1, <1>3, <1>5 DEF Rates
<1>7. marked = [said EXCEPT ![i] = [said[i] EXCEPT !.rated = value]]
  BY <1>5
<1>8. PICK reply : reply = [said[i] EXCEPT !.rated = value]
  OBVIOUS
<1>9. reply \in Replies /\ reply.of = said[i].of
  BY <1>4, <1>8 DEF Replies
<1>10. marked \in Seq(Replies) /\ DOMAIN marked = DOMAIN said
  BY <1>4, <1>7, <1>8, <1>9
<1>11. \A j \in DOMAIN said : marked[j].of = said[j].of
  BY <1>4, <1>7, <1>8, <1>9
<1>12. chat' \in ChatRows /\ chat'.verdict = chat.verdict /\ chat'.key = chat.key
       /\ chat'.replies = marked
  BY <1>2, <1>6, <1>10 DEF ChatRows
<1>13. RepliesAreOfNow'
  BY <1>3, <1>10, <1>11, <1>12 DEF ReviewInv, RepliesAreOfNow
<1>14. rating' \in [Raters -> RatingRows]
  <2>1. rating[f] \in RatingRows
    BY <1>2
  <2>2. PICK row : row = [rating[f] EXCEPT !.step = "done"]
    OBVIOUS
  <2>3. row \in RatingRows
    BY <2>1, <2>2 DEF RatingRows
  <2>4. rating' = [rating EXCEPT ![f] = row]
    BY <2>2 DEF Rates
  <2> QED BY <1>2, <2>3, <2>4
\* What is found under the key that was meant is of that key.
<1>15. RatingHitsItsReply'
  <2>1. rated' = [key |-> said[i].of, meant |-> rating[f].key]
    BY <1>1, <1>3 DEF Rates
  <2>2. said[i].of = chat.key /\ rating[f].key = chat.key
    BY <1>3, <1>4 DEF ReviewInv, RepliesAreOfNow, Rates, StillThere
  <2> QED BY <2>1, <2>2 DEF RatingHitsItsReply
<1> QED BY <1>2, <1>12, <1>13, <1>14, <1>15, ChatMoves DEF Rates

LEMMA RatingMovesKeep ==
    ASSUME ReviewInv, NEW f \in Raters, NEW i,
           FindsReply(f, i) \/ RatingRefused(f)
    PROVE  ReviewInv'
<1>1. /\ UNCHANGED <<chat, gate, gateLost, review, events, judged, rated>>
      /\ rating \in [Raters -> RatingRows] /\ chat \in ChatRows
  BY DEF FindsReply, RatingRefused, ReviewInv, ReviewTypes
<1>2. rating' \in [Raters -> RatingRows]
  <2>1. CASE FindsReply(f, i)
    <3>1. chat.key \in Nat /\ Len(chat.replies) \in Nat
      BY <1>1 DEF ChatRows
    <3>2. i \in Nat
      BY <2>1, <3>1 DEF FindsReply
    <3>3. PICK row : row = [step |-> "found", reply |-> i, key |-> chat.key]
      OBVIOUS
    <3>4. row \in RatingRows
      BY <3>1, <3>2, <3>3 DEF RatingRows
    <3>5. rating' = [rating EXCEPT ![f] = row]
      BY <2>1, <3>3 DEF FindsReply
    <3> QED BY <1>1, <3>4, <3>5
  <2>2. CASE RatingRefused(f)
    <3>1. NoRating \in RatingRows
      BY DEF NoRating, RatingRows
    <3> QED BY <1>1, <2>2, <3>1 DEF RatingRefused
  <2> QED BY <2>1, <2>2, <1>1
<1>3. ReviewTypes' /\ HoldersHold' /\ SnapshotsHold'
  BY <1>1, <1>2 DEF ReviewInv, ReviewTypes, HoldersHold, SnapshotsHold, Evidence
<1> QED BY <1>1, <1>3, DeskMoves

LEMMA OffersKeeps == ASSUME ReviewInv, NEW r \in Reviewers, NEW sampled, Offers(r, sampled)
                     PROVE  ReviewInv'
<1>1. PICK row : row = [step |-> "offered", seen |-> Evidence, fresh |-> Nobody]
  OBVIOUS
<1>2. review' = [review EXCEPT ![r] = row] /\ row.step = "offered"
      /\ UNCHANGED <<chat, gate, gateLost, rating, events, judged, rated>>
  BY <1>1 DEF Offers
<1>3. row \in ReviewRows
  BY <1>1, EvidenceIsTheRow DEF ReviewRows, ReviewInv, ReviewTypes
<1>4. ReviewTypes'
  BY <1>2, <1>3 DEF ReviewInv, ReviewTypes
<1>5. \A q \in Reviewers : review'[q] = IF q = r THEN row ELSE review[q]
  BY <1>2 DEF ReviewInv, ReviewTypes
<1>6. HoldersHold' /\ SnapshotsHold'
  BY <1>2, <1>5 DEF ReviewInv, HoldersHold, SnapshotsHold, Evidence
<1> QED BY <1>2, <1>4, <1>6, DeskMoves

LEMMA BeginsVerdictKeeps == ASSUME ReviewInv, NEW r \in Reviewers, BeginsVerdict(r) PROVE ReviewInv'
<1>1. PICK row : row = [review[r] EXCEPT !.step = "holding"]
  OBVIOUS
<1>2. review' = [review EXCEPT ![r] = row] /\ gate = Nobody /\ gate' = r
      /\ UNCHANGED <<chat, gateLost, rating, events, judged, rated>>
  BY <1>1 DEF BeginsVerdict
<1>3. row \in ReviewRows /\ row.step = "holding"
  BY <1>1 DEF ReviewInv, ReviewTypes, ReviewRows
<1>4. ReviewTypes'
  BY <1>2, <1>3 DEF ReviewInv, ReviewTypes
<1>5. \A q \in Reviewers : review'[q] = IF q = r THEN row ELSE review[q]
  BY <1>2 DEF ReviewInv, ReviewTypes
<1>6. HoldersHold'
  BY <1>2, <1>5, ReviewAssumption DEF ReviewInv, HoldersHold
<1>7. SnapshotsHold'
  BY <1>2, <1>3, <1>5 DEF ReviewInv, SnapshotsHold, Evidence
<1> QED BY <1>2, <1>4, <1>6, <1>7, DeskMoves

LEMMA ChecksKeeps == ASSUME ReviewInv, NEW r \in Reviewers, Checks(r) PROVE ReviewInv'
<1>1. UNCHANGED <<chat, rating, events, judged, rated>> /\ review[r].step = "holding"
  BY DEF Checks
<1>2. review[r] \in ReviewRows /\ Evidence \in ChatRows
  BY EvidenceIsTheRow DEF ReviewInv, ReviewTypes
<1>3. CASE SameVersion(r)
  <2>1. PICK row : row = [review[r] EXCEPT !.step = "checked", !.fresh = Evidence]
    OBVIOUS
  <2>2. review' = [review EXCEPT ![r] = row] /\ UNCHANGED <<gate, gateLost>>
    BY <1>3, <2>1 DEF Checks
  <2>3. row \in ReviewRows /\ row.step = "checked" /\ row.fresh = Evidence
        /\ row.seen = review[r].seen
    BY <1>2, <2>1 DEF ReviewRows
  <2>4. row.seen = Evidence
    BY <1>3, <2>3 DEF SameVersion
  <2>5. ReviewTypes'
    BY <1>1, <2>2, <2>3 DEF ReviewInv, ReviewTypes
  <2>6. \A q \in Reviewers : review'[q] = IF q = r THEN row ELSE review[q]
    BY <2>2 DEF ReviewInv, ReviewTypes
  <2>7. HoldersHold'
    BY <1>1, <2>2, <2>6 DEF ReviewInv, HoldersHold
  <2>8. Evidence' = Evidence /\ Evidence.verdict = chat.verdict /\ chat.verdict <= chat.verdict
    BY <1>1 DEF Evidence, ReviewInv, ReviewTypes, ChatRows
  <2>9. SnapshotsHold'
    BY <1>1, <1>2, <2>2, <2>3, <2>4, <2>6, <2>8 DEF ReviewInv, SnapshotsHold
  <2> QED BY <1>1, <2>5, <2>7, <2>9, DeskMoves
<1>4. CASE ~SameVersion(r)
  <2>1. /\ review' = [review EXCEPT ![r] = NoProposal]
        /\ gate' = IF gate = r THEN Nobody ELSE gate
        /\ gateLost' = gateLost \ {r}
    BY <1>4 DEF Checks
  <2>2. NoProposal \in ReviewRows /\ NoProposal.step = "idle"
    BY DEF NoProposal, ReviewRows
  <2>3. ReviewTypes'
    BY <1>1, <2>1, <2>2 DEF ReviewInv, ReviewTypes
  <2>4. \A q \in Reviewers : review'[q] = IF q = r THEN NoProposal ELSE review[q]
    BY <2>1 DEF ReviewInv, ReviewTypes
  <2>5. HoldersHold'
    BY <2>1, <2>2, <2>4 DEF ReviewInv, HoldersHold
  <2>6. SnapshotsHold'
    BY <1>1, <2>1, <2>2, <2>4 DEF ReviewInv, SnapshotsHold, Evidence
  <2> QED BY <1>1, <2>3, <2>5, <2>6, DeskMoves
<1> QED BY <1>3, <1>4

LEMMA RecordsKeeps == ASSUME ReviewInv, NEW r \in Reviewers, NEW resolved \in BOOLEAN,
                             Records(r, resolved)
                      PROVE  ReviewInv'
<1>1. /\ review' = [review EXCEPT ![r] = NoProposal]
      /\ gate' = IF gate = r THEN Nobody ELSE gate
      /\ gateLost' = gateLost \ {r}
      /\ UNCHANGED <<rating, rated>> /\ review[r].step = "checked"
  BY DEF Records
<1>2. NoProposal \in ReviewRows /\ NoProposal.step = "idle"
  BY DEF NoProposal, ReviewRows
<1>3. \A q \in Reviewers : review'[q] = IF q = r THEN NoProposal ELSE review[q]
  BY <1>1 DEF ReviewInv, ReviewTypes
<1>4. HoldersHold'
  BY <1>1, <1>2, <1>3 DEF ReviewInv, HoldersHold
<1>5. CASE ~Unchanged(r)
  <2>1. UNCHANGED <<chat, judged, events>>
    BY <1>5 DEF Records
  <2>2. ReviewTypes'
    BY <1>1, <1>2, <2>1 DEF ReviewInv, ReviewTypes
  <2>3. SnapshotsHold'
    BY <1>1, <1>2, <1>3, <2>1 DEF ReviewInv, SnapshotsHold, Evidence
  <2> QED BY <1>1, <1>4, <2>1, <2>2, <2>3, DeskMoves
<1>6. CASE Unchanged(r)
  <2>1. /\ events' = events + 1
        /\ judged' = [seen |-> review[r].seen, found |-> Evidence, lost |-> r \in gateLost]
    BY <1>6 DEF Records, Happens
  <2>2. chat \in ChatRows /\ events \in Nat /\ chat.verdict <= events
    BY DEF ReviewInv, ReviewTypes, VerdictIsPast
  <2>3. PICK at \in Nat : at = IF resolved THEN Now ELSE 0
    BY <2>2 DEF Now
  <2>4. chat' = [chat EXCEPT !.verdict = events + 1, !.resolved = at]
    BY <1>6, <2>3 DEF Records, Now
  <2>5. chat' \in ChatRows /\ chat'.verdict = events + 1 /\ chat'.key = chat.key
        /\ chat'.replies = chat.replies
    <3>1. PICK stamp \in Nat : stamp = events + 1
      BY <2>2
    <3>2. chat' = [chat EXCEPT !.verdict = stamp, !.resolved = at]
      BY <2>4, <3>1
    <3> QED BY <2>2, <3>1, <3>2 DEF ChatRows
  <2>6. ReviewTypes'
    BY <1>1, <1>2, <2>1, <2>2, <2>5 DEF ReviewInv, ReviewTypes
  <2>7. RepliesAreOfNow'
    BY <2>5 DEF ReviewInv, RepliesAreOfNow
  <2>8. VerdictIsPast'
    BY <2>1, <2>2, <2>5 DEF VerdictIsPast
  <2>9. SnapshotsHold'
    <3>1. SUFFICES ASSUME NEW q \in Reviewers, review'[q].step = "checked"
                   PROVE  /\ review'[q].fresh \in ChatRows /\ review'[q].seen = review'[q].fresh
                          /\ review'[q].fresh.verdict <= chat'.verdict
                          /\ review'[q].fresh.verdict # chat'.verdict
      BY DEF SnapshotsHold
    <3>2. review'[q] = review[q]
      BY <1>2, <1>3, <3>1
    <3>3. PICK fresh : fresh = review[q].fresh
      OBVIOUS
    <3>4. fresh \in ChatRows /\ review[q].seen = fresh /\ fresh.verdict <= chat.verdict
      BY <3>1, <3>2, <3>3 DEF ReviewInv, SnapshotsHold
    <3>5. fresh.verdict \in Nat /\ chat.verdict \in Nat
      BY <2>2, <3>4 DEF ChatRows
    <3> QED BY <2>2, <2>5, <3>2, <3>3, <3>4, <3>5
  <2>10. VerdictSawTheTranscript'
    <3>1. PICK fresh : fresh = review[r].fresh
      OBVIOUS
    <3>2. /\ fresh \in ChatRows /\ review[r].seen = fresh
          /\ r \notin gateLost /\ fresh.verdict = chat.verdict => fresh = Evidence
      BY <1>1, <3>1 DEF ReviewInv, SnapshotsHold
    <3>3. /\ chat.key = fresh.key /\ chat.resolved = fresh.resolved
          /\ chat.verdict = fresh.verdict
          /\ Len(chat.replies) = Len(fresh.replies) /\ chat.human = fresh.human
      BY <1>6, <3>1 DEF Unchanged
    <3>4. /\ Evidence.key = chat.key /\ Evidence.resolved = chat.resolved
          /\ Evidence.verdict = chat.verdict /\ Evidence.human = chat.human
          /\ Evidence.replies = chat.replies
      BY DEF Evidence
    <3>5. judged'.seen = fresh /\ judged'.found = Evidence /\ judged'.lost = (r \in gateLost)
      BY <2>1, <3>2
    <3>6. ~judged'.lost => fresh = Evidence
      BY <3>2, <3>3, <3>5
    <3> QED BY <3>3, <3>4, <3>5, <3>6 DEF VerdictSawTheTranscript
  <2>11. RatingHitsItsReply'
    BY <1>1 DEF ReviewInv, JudgedAsSeen, RatingHitsItsReply
  <2> QED BY <1>4, <2>6, <2>7, <2>8, <2>9, <2>10, <2>11 DEF ReviewInv, JudgedAsSeen
<1> QED BY <1>5, <1>6

LEMMA LockBreaksKeeps == ASSUME ReviewInv, LockBreaks PROVE ReviewInv'
<1>1. /\ UNCHANGED <<chat, review, rating, events, judged, rated>>
      /\ gate # Nobody /\ gate' = Nobody /\ gateLost' = gateLost \cup {gate}
  BY DEF LockBreaks
<1>2. ReviewTypes'
  BY <1>1 DEF ReviewInv, ReviewTypes
<1>3. HoldersHold'
  BY <1>1 DEF ReviewInv, HoldersHold
<1>4. SnapshotsHold'
  BY <1>1 DEF ReviewInv, SnapshotsHold, Evidence
<1> QED BY <1>1, <1>2, <1>3, <1>4, DeskMoves

LEMMA ReviewMoves == ASSUME ReviewInv, [ReviewNext]_reviewVars PROVE ReviewInv'
<1>1. ASSUME NEW confirms \in BOOLEAN, TurnIsStored(confirms) PROVE ReviewInv'
  BY <1>1, TurnKeeps
<1>2. CASE HumanWrites \/ Clears \/ LockBreaks
  BY <1>2, HumanKeeps, ClearsKeeps, LockBreaksKeeps
<1>3. ASSUME NEW f \in Raters, NEW i, FindsReply(f, i) PROVE ReviewInv'
  BY <1>3, RatingMovesKeep
<1>4. ASSUME NEW f \in Raters, NEW value \in {"up", "down"}, Rates(f, value) PROVE ReviewInv'
  BY <1>4, RatesKeeps
<1>5. ASSUME NEW f \in Raters, RatingRefused(f) PROVE ReviewInv'
  BY <1>5, RatingMovesKeep
<1>6. ASSUME NEW r \in Reviewers, NEW sampled, Offers(r, sampled) PROVE ReviewInv'
  BY <1>6, OffersKeeps
<1>7. ASSUME NEW r \in Reviewers, BeginsVerdict(r) PROVE ReviewInv'
  BY <1>7, BeginsVerdictKeeps
<1>8. ASSUME NEW r \in Reviewers, Checks(r) PROVE ReviewInv'
  BY <1>8, ChecksKeeps
<1>9. ASSUME NEW r \in Reviewers, NEW resolved \in BOOLEAN, Records(r, resolved) PROVE ReviewInv'
  BY <1>9, RecordsKeeps
<1>10. CASE UNCHANGED reviewVars
  <2>1. /\ UNCHANGED <<chat, events, judged, rated>> /\ UNCHANGED <<gate, gateLost, review, rating>>
    BY <1>10 DEF reviewVars
  <2>2. ReviewTypes' /\ HoldersHold' /\ SnapshotsHold'
    BY <2>1 DEF ReviewInv, ReviewTypes, HoldersHold, SnapshotsHold, Evidence
  <2> QED BY <2>1, <2>2, DeskMoves
<1> QED BY <1>1, <1>2, <1>3, <1>4, <1>5, <1>6, <1>7, <1>8, <1>9, <1>10 DEF ReviewNext

\* A review that kept its lock holds a snapshot of the conversation as it
\* is, unless a verdict came in between, and that one shows
\* (session_repository.py, record_review_verdict).
THEOREM ReviewInvariant == ReviewSpec => []ReviewInv
<1>1. ReviewInit => ReviewInv
  BY ReviewStarts
<1>2. ReviewInv /\ [ReviewNext]_reviewVars => ReviewInv'
  BY ReviewMoves
<1> QED BY <1>1, <1>2, PTL DEF ReviewSpec

\* For any number of reviewers, raters, replies and events, a verdict is of
\* the transcript its reviewer was shown, also when the lock broke, and a
\* rating lands on the reply it was meant for (session_repository.py and
\* feedback_repository.py).
THEOREM Judgements == ReviewSpec => []JudgedAsSeen
BY ReviewInvariant, PTL DEF ReviewInv

-----------------------------------------------------------------------------
(* The minted half of the provider's catalog. *)

MintStates == {"new", "look", "write", "register", "done"}

UnderMintLock == {"look", "write", "register"}

MintTypes ==
    /\ catRows \in Seq(STRING) /\ registered \in Seq(Nat)
    /\ \A r \in MintCalls : MintKey[r] \in DOMAIN minted
    /\ \A k \in DOMAIN minted : minted[k] # NoCat => minted[k] \in DOMAIN catRows
    /\ mint \in [MintCalls -> [pc : MintStates, answer : Nat \cup {NoCat}]]
    /\ mintLock \in MintCalls \cup {NoCat}

\* The catalog in memory lists the rows in their order, and all of them but
\* one that the holder of the lock is about to register.
Listed ==
    /\ Len(registered) <= Len(catRows)
    /\ \A i \in DOMAIN registered : registered[i] = i
    /\ Len(registered) < Len(catRows) =>
          /\ Len(catRows) = Len(registered) + 1
          /\ mintLock # NoCat /\ mint[mintLock] = [pc |-> "register", answer |-> Len(catRows)]

\* What a request that is being or was answered may rely on.
Stated(r) ==
    /\ mint[r].pc \in UnderMintLock <=> mintLock = r
    /\ mint[r].pc = "register" => mint[r].answer # NoCat
    /\ mint[r].pc \in {"register", "done"} /\ mint[r].answer # NoCat =>
          mint[r].answer \in DOMAIN catRows /\ catRows[mint[r].answer] = MintName[r]
    /\ mint[r].pc = "done" /\ mint[r].answer # NoCat => mint[r].answer <= Len(registered)

NamedOnce == \A i, j \in DOMAIN catRows : catRows[i] = catRows[j] => i = j

MintInv == MintTypes /\ Listed /\ NamedOnce /\ \A r \in MintCalls : Stated(r)

MintRows == [pc : MintStates, answer : Nat \cup {NoCat}]

LEMMA MintLengths ==
    ASSUME MintInv
    PROVE  /\ Len(catRows) \in Nat /\ DOMAIN catRows = 1..Len(catRows)
           /\ Len(registered) \in Nat /\ DOMAIN registered = 1..Len(registered)
BY DEF MintInv, MintTypes

LEMMA OpenMint ==
    ASSUME MintInv, NEW r \in MintCalls
    PROVE  mint[r] \in MintRows /\ Stated(r) /\ mint \in [MintCalls -> MintRows] /\ r # NoCat
BY MintAssumption DEF MintInv, MintTypes, MintRows

LEMMA NothingPending ==
    ASSUME MintInv, NEW r \in MintCalls, mintLock \in {r, NoCat}, mint[r].pc # "register"
    PROVE  Len(registered) = Len(catRows)
BY MintLengths DEF MintInv, Listed

\* A step of one request that neither writes a row nor registers one.
MintMoves(r, row) ==
    /\ UNCHANGED <<catRows, minted, registered>>
    /\ mint' = [mint EXCEPT ![r] = row] /\ row \in MintRows
    /\ mint[r].pc # "register" /\ mintLock \in {r, NoCat}
    /\ mintLock' = IF row.pc \in UnderMintLock THEN r ELSE NoCat
    /\ row.pc = "register" => row.answer # NoCat
    /\ row.pc \in {"register", "done"} /\ row.answer # NoCat =>
          row.answer \in DOMAIN catRows /\ catRows[row.answer] = MintName[r]

LEMMA MintMoveKeeps == ASSUME MintInv, NEW r \in MintCalls, NEW row, MintMoves(r, row) PROVE MintInv'
<1>1. Len(registered) = Len(catRows)
  BY NothingPending DEF MintMoves
<1>2. MintTypes'
  BY OpenMint DEF MintMoves, MintInv, MintTypes, MintRows
<1>3. Listed'
  BY <1>1, MintLengths DEF MintMoves, MintInv, Listed
<1>4. NamedOnce'
  BY DEF MintMoves, MintInv, NamedOnce
<1>5. Stated(r)'
  <2>1. mint'[r] = row
    BY OpenMint DEF MintMoves
  <2> QED BY <1>1, <2>1, MintLengths, OpenMint DEF MintMoves, Stated
<1>6. ASSUME NEW u \in MintCalls, u # r PROVE Stated(u)'
  <2>1. mint'[u] = mint[u] /\ u # NoCat
    BY <1>6, OpenMint DEF MintMoves
  <2>2. mintLock' = u <=> mintLock = u
    BY <1>6, <2>1 DEF MintMoves
  <2> QED BY <2>1, <2>2, OpenMint DEF MintMoves, Stated
<1> QED BY <1>2, <1>3, <1>4, <1>5, <1>6 DEF MintInv

LEMMA MintRowsAre ==
    /\ \A s \in MintStates : [pc |-> s, answer |-> NoCat] \in MintRows
    /\ \A s \in MintStates, n \in Nat : [pc |-> s, answer |-> n] \in MintRows
    /\ UnderMintLock \subseteq MintStates /\ "done" \in MintStates /\ "new" \in MintStates
    /\ "done" \notin UnderMintLock /\ "new" \notin UnderMintLock /\ "register" \in UnderMintLock
BY DEF MintRows, MintStates, UnderMintLock

LEMMA AcquireKeeps == ASSUME MintInv, NEW r \in MintCalls, AcquireMint(r) PROVE MintInv'
<1>1. PICK old \in MintRows : old = mint[r]
  BY OpenMint
<1>2. PICK row : row = [old EXCEPT !.pc = "look"]
  OBVIOUS
<1>3. row \in MintRows /\ row.pc = "look"
  BY <1>1, <1>2 DEF MintRows, MintStates
<1>4. mint' = [mint EXCEPT ![r] = row]
  BY <1>1, <1>2 DEF AcquireMint
<1>5. MintMoves(r, row)
  BY <1>3, <1>4 DEF AcquireMint, MintMoves, UnderMintLock
<1> QED BY <1>5, MintMoveKeeps

\* The end of a handler that registers nothing.
LEMMA AnswerKeeps ==
    ASSUME MintInv, NEW r \in MintCalls, NEW a \in Nat \cup {NoCat}, Answer(r, a),
           mint[r].pc \in {"look", "write"}, UNCHANGED <<catRows, minted, registered>>,
           a # NoCat => a \in DOMAIN catRows /\ catRows[a] = MintName[r]
    PROVE  MintInv'
<1>1. PICK row \in MintRows : row = [pc |-> "done", answer |-> a]
  BY MintRowsAre
<1>2. mintLock = r
  BY OpenMint DEF Stated, UnderMintLock
<1>3. MintMoves(r, row)
  BY <1>1, <1>2, MintRowsAre DEF Answer, MintMoves
<1> QED BY <1>3, MintMoveKeeps

\* A handler found what it was to mint and goes on to register it.
LEMMA FoundKeeps ==
    ASSUME MintInv, NEW r \in MintCalls, mint[r].pc \in {"look", "write"},
           NEW seq \in DOMAIN catRows, catRows[seq] = MintName[r],
           mint' = [mint EXCEPT ![r] = [pc |-> "register", answer |-> seq]],
           UNCHANGED <<catRows, minted, registered, mintLock>>
    PROVE  MintInv'
<1>1. seq \in Nat /\ seq # NoCat
  BY MintLengths, MintAssumption
<1>2. PICK row \in MintRows : row = [pc |-> "register", answer |-> seq]
  BY <1>1, MintRowsAre
<1>3. mintLock = r
  BY OpenMint DEF Stated, UnderMintLock
<1>4. MintMoves(r, row)
  BY <1>1, <1>2, <1>3, MintRowsAre DEF MintMoves
<1> QED BY <1>4, MintMoveKeeps

LEMMA LookUpKeeps == ASSUME MintInv, NEW r \in MintCalls, LookUpMint(r) PROVE MintInv'
<1>1. mint[r].pc = "look" /\ mintLock = r /\ UNCHANGED <<catRows, minted, registered>>
  BY OpenMint DEF LookUpMint, Stated, UnderMintLock
<1>2. PICK seq : seq = minted[MintKey[r]]
  OBVIOUS
<1>3. seq # NoCat => seq \in DOMAIN catRows
  BY <1>2 DEF MintInv, MintTypes
<1>4. NoCat \in Nat \cup {NoCat}
  OBVIOUS
<1>5. CASE seq # NoCat /\ catRows[seq] = MintName[r]
  BY <1>1, <1>2, <1>3, <1>5, FoundKeeps DEF LookUpMint
<1>6. CASE seq # NoCat /\ catRows[seq] # MintName[r]
  BY <1>1, <1>2, <1>4, <1>6, AnswerKeeps DEF LookUpMint
<1>7. CASE seq = NoCat /\ Registered(MintName[r]) /\ Answer(r, Existing(MintName[r]))
  <2>1. PICK a : a = Existing(MintName[r])
    OBVIOUS
  <2>2. CASE MintName[r] \in Curated
    <3>1. a = NoCat
      BY <2>1, <2>2 DEF Existing
    <3> QED BY <1>1, <1>4, <1>7, <2>1, <3>1, AnswerKeeps
  <2>3. CASE MintName[r] \notin Curated
    <3>1. PICK i \in DOMAIN registered : catRows[registered[i]] = MintName[r]
      BY <1>7, <2>3 DEF Registered
    <3>2. registered[i] \in DOMAIN catRows
      BY <3>1, MintLengths DEF MintInv, Listed
    <3>3. a \in DOMAIN catRows /\ catRows[a] = MintName[r]
      BY <2>1, <2>3, <3>1, <3>2 DEF Existing
    <3>4. a \in Nat \cup {NoCat}
      BY <3>3, MintLengths
    <3> QED BY <1>1, <1>7, <2>1, <3>3, <3>4, AnswerKeeps
  <2> QED BY <2>2, <2>3
<1>8. CASE /\ seq = NoCat /\ ~Registered(MintName[r])
           /\ mint' = [mint EXCEPT ![r].pc = "write"] /\ UNCHANGED mintLock
  <2>1. PICK old \in MintRows : old = mint[r]
    BY OpenMint
  <2>2. PICK row : row = [old EXCEPT !.pc = "write"]
    OBVIOUS
  <2>3. row \in MintRows /\ row.pc = "write"
    BY <2>1, <2>2 DEF MintRows, MintStates
  <2>4. mint' = [mint EXCEPT ![r] = row]
    BY <1>8, <2>1, <2>2
  <2>5. MintMoves(r, row)
    BY <1>1, <1>8, <2>3, <2>4 DEF MintMoves, UnderMintLock
  <2> QED BY <2>5, MintMoveKeeps
<1> QED BY <1>2, <1>5, <1>6, <1>7, <1>8 DEF LookUpMint

LEMMA CommitMintKeeps == ASSUME MintInv, NEW r \in MintCalls, CommitMint(r) PROVE MintInv'
<1>1. mint[r].pc = "write" /\ mintLock = r /\ UNCHANGED registered
  BY OpenMint DEF CommitMint, Stated, UnderMintLock
<1>2. PICK seq, k, name, n : /\ seq = minted[MintKey[r]] /\ k = MintKey[r] /\ name = MintName[r]
                             /\ n = Len(catRows)
  OBVIOUS
<1>3. seq # NoCat => seq \in DOMAIN catRows
  BY <1>2 DEF MintInv, MintTypes
<1>4. CASE seq # NoCat
  <2>1. CASE catRows[seq] = MintName[r]
    BY <1>1, <1>2, <1>3, <1>4, <2>1, FoundKeeps DEF CommitMint
  <2>2. CASE catRows[seq] # MintName[r]
    BY <1>1, <1>2, <1>4, <2>2, AnswerKeeps DEF CommitMint
  <2> QED BY <2>1, <2>2
<1>5. CASE seq = NoCat /\ (Len(catRows) >= CatLimit \/ Contains(catRows, MintName[r]))
  BY <1>1, <1>2, <1>5, AnswerKeeps DEF CommitMint
<1>6. CASE seq = NoCat /\ ~(Len(catRows) >= CatLimit \/ Contains(catRows, MintName[r]))
  <2>1. /\ catRows' = Append(catRows, name) /\ minted' = [minted EXCEPT ![k] = n + 1]
        /\ mint' = [mint EXCEPT ![r] = [pc |-> "register", answer |-> n + 1]]
        /\ UNCHANGED mintLock
    BY <1>2, <1>6 DEF CommitMint
  <2>2. n \in Nat /\ Len(registered) = n /\ DOMAIN catRows = 1..n /\ name \in STRING
    BY <1>1, <1>2, MintLengths, NothingPending, MintAssumption
  <2>3. /\ catRows' \in Seq(STRING) /\ Len(catRows') = n + 1 /\ DOMAIN catRows' = 1..(n + 1)
        /\ catRows'[n + 1] = name /\ \A i \in 1..n : catRows'[i] = catRows[i]
    BY <1>2, <2>1, <2>2 DEF MintInv, MintTypes
  <2>4. \A i \in 1..n : catRows[i] # name
    BY <1>2, <1>6, <2>2 DEF Contains
  <2>5. NamedOnce'
    <3>1. \A i \in 1..(n + 1) : i \in 1..n \/ i = n + 1
      BY <2>2
    <3>2. \A i, j \in 1..n : catRows[i] = catRows[j] => i = j
      BY <2>2 DEF MintInv, NamedOnce
    <3> QED BY <2>3, <2>4, <3>1, <3>2 DEF NamedOnce
  <2>6. PICK row \in MintRows : row = [pc |-> "register", answer |-> n + 1]
    <3>1. n + 1 \in Nat
      BY <2>2
    <3> QED BY <3>1, MintRowsAre
  <2>7. mint' \in [MintCalls -> MintRows] /\ mint'[r] = row /\ \A u \in MintCalls : u # r => mint'[u] = mint[u]
    BY <2>1, <2>6, OpenMint
  <2>8. n + 1 # NoCat /\ r # NoCat
    BY <2>2, MintAssumption
  <2>9. MintTypes'
    <3>1. DOMAIN minted' = DOMAIN minted /\ \A l \in DOMAIN minted : minted'[l] \in {minted[l], n + 1}
      BY <2>1
    <3> QED BY <1>1, <2>1, <2>2, <2>3, <2>7, <3>1 DEF MintInv, MintTypes, MintRows
  <2>10. Listed'
    BY <1>1, <2>1, <2>2, <2>3, <2>6, <2>7, <2>8 DEF MintInv, Listed
  <2>11. Stated(r)'
    BY <1>1, <1>2, <2>1, <2>2, <2>3, <2>6, <2>7, <2>8, MintRowsAre DEF Stated
  <2>12. ASSUME NEW u \in MintCalls, u # r PROVE Stated(u)'
    <3>1. mint'[u] = mint[u] /\ Stated(u)
      BY <2>7, <2>12, OpenMint
    <3> QED BY <1>1, <2>1, <2>2, <2>3, <3>1, MintLengths DEF Stated
  <2> QED BY <2>5, <2>9, <2>10, <2>11, <2>12 DEF MintInv
<1> QED BY <1>4, <1>5, <1>6

LEMMA RegisterKeeps == ASSUME MintInv, NEW r \in MintCalls, RegisterMint(r)
                       PROVE  /\ MintInv'
                              /\ \A i \in DOMAIN registered : i \in DOMAIN registered' /\ registered'[i] = registered[i]
<1>1. PICK seq : seq = mint[r].answer
  OBVIOUS
<1>2. /\ mint[r].pc = "register" /\ mintLock = r /\ seq # NoCat
      /\ seq \in DOMAIN catRows /\ catRows[seq] = MintName[r]
  BY <1>1, OpenMint DEF RegisterMint, Stated, UnderMintLock
<1>3. PICK n \in Nat, m \in Nat : n = Len(catRows) /\ m = Len(registered) /\ DOMAIN registered = 1..m
  BY MintLengths
<1>4. seq \in 1..n
  BY <1>2, <1>3, MintLengths
<1>5. PICK row \in MintRows : row = [pc |-> "done", answer |-> seq]
  <2>1. seq \in Nat
    BY <1>3, <1>4
  <2> QED BY <2>1, MintRowsAre
<1>6. mint' = [mint EXCEPT ![r] = row] /\ mintLock' = NoCat /\ UNCHANGED <<catRows, minted>>
  BY <1>1, <1>5 DEF RegisterMint, Answer
<1>7. /\ registered' \in Seq(Nat) /\ Len(registered') = n /\ DOMAIN registered' = 1..n
      /\ m <= n /\ \A i \in 1..n : registered'[i] = i
  <2>1. CASE Contains(registered, seq)
    <3>1. registered' = registered
      BY <1>1, <2>1 DEF RegisterMint
    <3>2. seq <= m
      BY <1>3, <2>1 DEF Contains, MintInv, Listed
    <3>3. m = n
      BY <1>1, <1>2, <1>3, <1>4, <3>2 DEF MintInv, Listed
    <3> QED BY <1>3, <3>1, <3>3 DEF MintInv, MintTypes, Listed
  <2>2. CASE ~Contains(registered, seq)
    <3>1. registered' = Append(registered, seq)
      BY <1>1, <2>2 DEF RegisterMint
    <3>2. seq > m
      BY <1>3, <1>4, <2>2 DEF Contains, MintInv, Listed
    <3>3. n = m + 1 /\ seq = m + 1
      BY <1>1, <1>2, <1>3, <1>4, <3>2 DEF MintInv, Listed
    <3>4. Len(registered') = m + 1 /\ registered'[m + 1] = seq /\ \A i \in 1..m : registered'[i] = registered[i]
      BY <1>3, <1>4, <3>1 DEF MintInv, MintTypes
    <3> QED BY <1>3, <1>4, <3>1, <3>3, <3>4 DEF MintInv, MintTypes, Listed
  <2> QED BY <2>1, <2>2
<1>8. \A i \in DOMAIN registered : i \in DOMAIN registered' /\ registered'[i] = registered[i]
  BY <1>3, <1>7 DEF MintInv, Listed
<1>9. mint' \in [MintCalls -> MintRows] /\ mint'[r] = row /\ \A u \in MintCalls : u # r => mint'[u] = mint[u]
  BY <1>5, <1>6, OpenMint
<1>10. MintTypes' /\ NamedOnce'
  BY <1>6, <1>7, <1>9 DEF MintInv, MintTypes, NamedOnce, MintRows
<1>11. Listed'
  BY <1>3, <1>6, <1>7 DEF Listed
<1>12. Stated(r)'
  BY <1>2, <1>4, <1>5, <1>6, <1>7, <1>9, MintRowsAre, OpenMint DEF Stated
<1>13. ASSUME NEW u \in MintCalls, u # r PROVE Stated(u)'
  <2>1. Stated(u) /\ u # NoCat /\ mint[u] \in MintRows
    BY OpenMint
  <2>2. mint'[u] = mint[u]
    BY <1>9, <1>13
  <2>3. mint[u].answer \in DOMAIN catRows => mint[u].answer \in Nat
    BY MintLengths
  <2> QED BY <1>2, <1>3, <1>6, <1>7, <1>13, <2>1, <2>2, <2>3 DEF Stated
<1> QED BY <1>8, <1>10, <1>11, <1>12, <1>13 DEF MintInv

LEMMA RestartKeeps == ASSUME MintInv, RestartProvider
                      PROVE  /\ MintInv'
                             /\ \A i \in DOMAIN registered : i \in DOMAIN registered' /\ registered'[i] = registered[i]
<1>1. PICK n \in Nat, m \in Nat : n = Len(catRows) /\ m = Len(registered) /\ DOMAIN registered = 1..m
  BY MintLengths
<1>2. registered' \in Seq(Nat) /\ Len(registered') = n /\ DOMAIN registered' = 1..n /\ \A i \in 1..n : registered'[i] = i
  BY <1>1 DEF RestartProvider, LoadDynamicCategories
<1>3. m <= n
  BY <1>1 DEF MintInv, Listed
<1>4. \A i \in DOMAIN registered : i \in DOMAIN registered' /\ registered'[i] = registered[i]
  BY <1>1, <1>2, <1>3 DEF MintInv, Listed
<1>5. Waiting \in MintRows /\ Waiting.pc = "new"
  BY MintRowsAre DEF Waiting
<1>6. \A r \in MintCalls : mint'[r] = IF mint[r].pc = "done" THEN mint[r] ELSE Waiting
  BY DEF RestartProvider
<1>7. mint' \in [MintCalls -> MintRows]
  BY <1>5, OpenMint DEF RestartProvider
<1>8. MintTypes' /\ NamedOnce'
  BY <1>2, <1>7 DEF RestartProvider, MintInv, MintTypes, NamedOnce, MintRows
<1>9. Listed'
  BY <1>1, <1>2 DEF RestartProvider, Listed
<1>10. ASSUME NEW r \in MintCalls PROVE Stated(r)'
  <2>1. Stated(r) /\ r # NoCat
    BY OpenMint
  <2>2. CASE mint[r].pc = "done"
    BY <1>1, <1>2, <1>3, <1>6, <2>1, <2>2, MintRowsAre, MintLengths DEF Stated, RestartProvider
  <2>3. CASE mint[r].pc # "done"
    BY <1>5, <1>6, <2>1, <2>3, MintRowsAre DEF Stated, RestartProvider
  <2> QED BY <2>2, <2>3
<1> QED BY <1>4, <1>8, <1>9, <1>10 DEF MintInv

\* The steps that leave the minted categories alone.
LEMMA OthersMintNothing == ASSUME MintInv, UNCHANGED mintVars PROVE MintInv'
BY DEF mintVars, MintInv, MintTypes, Listed, NamedOnce, Stated

LEMMA CatalogSteps ==
    ASSUME MintInv, [CatalogNext]_catalogVars
    PROVE  /\ MintInv'
           /\ \A i \in DOMAIN registered : i \in DOMAIN registered' /\ registered'[i] = registered[i]
<1>1. CASE UNCHANGED mintVars
  BY <1>1, OthersMintNothing DEF mintVars
<1>2. ASSUME NEW r \in MintCalls, AcquireMint(r) \/ LookUpMint(r) \/ CommitMint(r)
      PROVE  MintInv' /\ UNCHANGED registered
  BY <1>2, AcquireKeeps, LookUpKeeps, CommitMintKeeps DEF AcquireMint, LookUpMint, CommitMint
<1>3. ASSUME NEW r \in MintCalls, RegisterMint(r)
      PROVE  /\ MintInv'
             /\ \A i \in DOMAIN registered : i \in DOMAIN registered' /\ registered'[i] = registered[i]
  BY <1>3, RegisterKeeps
<1>4. CASE \E x \in Readers : ReadStock(x) \/ StoreStock(x) \/ ReadTaxonomy(x) \/ StoreTaxonomy(x)
  BY <1>1, <1>4 DEF ReadStock, StoreStock, ReadTaxonomy, StoreTaxonomy
<1>5. CASE Sell \/ InvalidateStockCache
  BY <1>1, <1>5 DEF Sell, InvalidateStockCache
<1> QED BY <1>1, <1>2, <1>3, <1>4, <1>5, RestartKeeps DEF CatalogNext, catalogVars

LEMMA MintStarts == CatalogInit => MintInv
<1>1. SUFFICES ASSUME CatalogInit PROVE MintInv
  OBVIOUS
<1>2. Waiting \in MintRows /\ Waiting.pc = "new"
  BY MintRowsAre DEF Waiting
<1>3. MintTypes
  BY <1>1, <1>2 DEF CatalogInit, MintTypes, MintRows
<1>4. Listed /\ NamedOnce
  BY <1>1 DEF CatalogInit, Listed, NamedOnce
<1>5. ASSUME NEW r \in MintCalls PROVE Stated(r)
  BY <1>1, <1>2, MintRowsAre, MintAssumption DEF CatalogInit, Stated
<1> QED BY <1>3, <1>4, <1>5 DEF MintInv

\* The invariant of the minted categories.
THEOREM MintInvariant == CatalogSpec => []MintInv
<1>1. MintInv /\ [CatalogNext]_catalogVars => MintInv'
  BY CatalogSteps
<1> QED BY <1>1, MintStarts, PTL DEF CatalogSpec

LEMMA AnsweredAreListed == MintInv => AnsweredMintsAreListed
<1>1. SUFFICES ASSUME MintInv PROVE AnsweredMintsAreListed
  OBVIOUS
<1>2. ASSUME NEW r \in MintCalls, mint[r].pc = "done", mint[r].answer # NoCat
      PROVE  /\ mint[r].answer \in DOMAIN registered
             /\ registered[mint[r].answer] = mint[r].answer
             /\ catRows[mint[r].answer] = MintName[r]
  BY <1>1, <1>2, OpenMint, MintLengths DEF Stated, MintInv, Listed
<1> QED BY <1>1, <1>2 DEF AnsweredMintsAreListed, MintInv, NamedOnce

\* A category that was minted is where its answer put it, and its address
\* stays its address through mints and restarts (core.py, propose_category
\* and _mint_lock).
THEOREM MintedStay == CatalogSpec => MintedCategoriesStay
<1>1. (MintInv => AnsweredMintsAreListed)'
  BY AnsweredAreListed, PTL
<1>2. MintInv /\ [CatalogNext]_catalogVars
         => [/\ AnsweredMintsAreListed'
             /\ \A i \in DOMAIN registered :
                   i \in DOMAIN registered' /\ registered'[i] = registered[i]]_catalogVars
  BY <1>1, CatalogSteps
<1> QED BY <1>2, MintInvariant, PTL DEF CatalogSpec, MintedCategoriesStay

-----------------------------------------------------------------------------
(* The desk of the human agents. *)

SlipRows == [thread : Threads, tier : {FirstTier, Routine}, status : {"open", "claimed", "resolved", "deleted"},
             clerk : Clerks \cup {NoClerk}]

ReportRows == [at : 1..5, served : SUBSET Threads, escalated : SUBSET Threads, rejected : SUBSET Threads,
               failed : Nat]

TallyRows == [at : 1..4, existed : SUBSET Nat, counted : Nat]

\* The types of the desk, and the ids that are out.
DeskTypes ==
    /\ slips \in Seq(SlipRows) /\ askedTier \in Seq({FirstTier, Routine})
    /\ Len(askedTier) = Len(slips)
    /\ lastLine \in Nat
    /\ \A l \in lines : l.id \in 1..lastLine
    /\ \A m \in sending : m.id \in 1..lastLine /\ m.slip \in Slips
    /\ \A s \in Threads : cursor[s] \in 0..lastLine
    /\ cursor \in [Threads -> Nat] /\ got \in [Threads -> SUBSET Nat]
    /\ reading \in [Clerks -> Nat]
    /\ tally \in TallyRows
    /\ report \in ReportRows
    /\ answered \subseteq Threads /\ IsFiniteSet(answered) /\ disliked \subseteq answered

\* A conversation has one waiting ticket; who writes has it locked and is
\* alone, and so is the agent who reads it.
OneWaiting == \A t, u \in Slips :
    WaitingSlips(t) /\ WaitingSlips(u) /\ slips[t].thread = slips[u].thread => t = u

SendersHold == \A m \in sending :
    /\ WaitingSlips(m.slip) /\ slips[m.slip].thread = m.thread
    /\ \A n \in sending : n.slip = m.slip => n = m
    /\ \A a \in Clerks : reading[a] # m.slip

ReadersHold == \A a \in Clerks : reading[a] # 0 => reading[a] \in Slips /\ Handles(a, reading[a])

\* A message that is still to be committed is the newest of its conversation.
ToCome == \A m \in sending : \A i \in Durable(m.thread) : i < m.id

\* So no customer's cursor has reached it.
Reached == \A m \in sending : cursor[m.thread] < m.id

\* The statuses whose tickets have been counted before statement n.
Passed(n) == IF n = 1 THEN {} ELSE IF n = 2 THEN {"open"}
             ELSE IF n = 3 THEN {"open", "claimed"} ELSE {"open", "claimed", "resolved"}

\* Tickets move towards what is counted last: one that has a status counted
\* before had it, or one before it, when that was counted.
Behind == {t \in tally.existed : slips[t].status \in Passed(tally.at)}

Counting == tally.existed \subseteq Slips /\ Cardinality(Behind) <= tally.counted

\* What a report has counted is still there, or it is told.
Reporting ==
    /\ Underway => answered \subseteq report.served /\ IsFiniteSet(report.served)
    /\ report.at \in 3..4 => report.escalated \subseteq Ticketed
    /\ report.at = 4 => report.rejected \subseteq disliked
    /\ ReportAddsUp

DeskInv ==
    /\ DeskTypes /\ OneWaiting /\ SendersHold /\ ReadersHold /\ stray = {}
    /\ ToCome /\ Reached /\ PollsSkipNothing
    /\ UrgencyStays /\ Counting /\ Reporting

-----------------------------------------------------------------------------
\* What the row of a waiting ticket may do: its thread stays and its status
\* only moves on.
SlipStep(t, row) ==
    /\ t \in Slips /\ row \in SlipRows /\ row.thread = slips[t].thread
    /\ WaitingSlips(t) /\ row.status # "deleted"
    /\ slips[t].status = "claimed" => row.status # "open"
    /\ slips' = [slips EXCEPT ![t] = row]

QueueKept == slips' \in Seq(SlipRows) /\ OneWaiting' /\ Counting' /\ Reporting'

LEMMA SlipsAre == ASSUME DeskTypes
                  PROVE  /\ Len(slips) \in Nat /\ Slips = DOMAIN slips
                         /\ \A t \in Slips : slips[t] \in SlipRows /\ t \in Nat /\ t # 0
<1>1. slips \in Seq(SlipRows)
  BY DEF DeskTypes
<1> QED BY <1>1 DEF Slips

\* Sets of tickets are finite, and a larger one has no fewer.
LEMMA SlipCounts == ASSUME NEW n \in Nat, NEW S \in SUBSET (1..n)
                    PROVE  /\ IsFiniteSet(S) /\ Cardinality(S) \in Nat
                           /\ \A T \in SUBSET S : Cardinality(T) <= Cardinality(S)
<1>1. IsFiniteSet(1..n)
  BY FS_Interval
<1>2. IsFiniteSet(S)
  BY <1>1, FS_Subset
<1> QED BY <1>2, FS_Subset, FS_CardinalityType

LEMMA CountsFollow ==
    ASSUME DeskInv, UNCHANGED tally, Slips \subseteq Slips',
           \A u \in Slips : slips'[u].status # slips[u].status =>
                \/ slips'[u].status = "deleted"
                \/ slips[u].status = "open"
                \/ slips[u].status = "claimed" /\ slips'[u].status # "open"
    PROVE  Counting'
<1>1. tally.existed \subseteq Slips /\ tally.existed' = tally.existed /\ tally.at' = tally.at /\ tally.at \in 1..4
  BY DEF DeskInv, Counting, DeskTypes, TallyRows
<1>2. \A u \in Slips : slips'[u].status \in Passed(tally.at) => slips[u].status \in Passed(tally.at)
  BY <1>1 DEF Passed
<1>3. Behind' \subseteq Behind
  BY <1>1, <1>2 DEF Behind
<1>4. Behind \in SUBSET (1..Len(slips)) /\ Len(slips) \in Nat
  BY <1>1, SlipsAre DEF Behind, Slips, DeskInv
<1>5. Cardinality(Behind') <= Cardinality(Behind) /\ Cardinality(Behind') \in Nat /\ Cardinality(Behind) \in Nat
  <2>1. Behind' \in SUBSET (1..Len(slips))
    BY <1>3, <1>4
  <2> QED BY <1>3, <1>4, <2>1, SlipCounts
<1>6. tally.counted \in Nat /\ tally.counted' = tally.counted /\ Cardinality(Behind) <= tally.counted
  BY DEF DeskInv, Counting, DeskTypes, TallyRows
<1>7. Cardinality(Behind') <= tally.counted'
  BY <1>5, <1>6
<1> QED BY <1>1, <1>7 DEF Counting

LEMMA ReportFollows ==
    ASSUME DeskInv, UNCHANGED <<report, answered, disliked>>, Slips \subseteq Slips',
           \A u \in Slips : slips'[u].thread = slips[u].thread /\ (Kept(u) => Kept(u)')
    PROVE  Reporting'
<1>1. Ticketed \subseteq Ticketed'
  BY DEF Ticketed
<1> QED BY <1>1 DEF DeskInv, Reporting, ReportAddsUp, Underway

\* The row of one ticket moves on.
LEMMA SlipMoves ==
    ASSUME DeskInv, NEW t, NEW row, SlipStep(t, row), UNCHANGED reportVars
    PROVE  /\ QueueKept /\ Len(slips') = Len(slips) /\ Slips' = Slips /\ slips'[t] = row
           /\ \A u \in Slips : u # t => slips'[u] = slips[u]
<1>1. /\ slips \in Seq(SlipRows) /\ t \in DOMAIN slips /\ row \in SlipRows
      /\ Len(slips) \in Nat /\ Slips = DOMAIN slips
  BY SlipsAre DEF DeskInv, DeskTypes, SlipStep
<1>2. /\ slips' \in Seq(SlipRows) /\ Len(slips') = Len(slips) /\ slips'[t] = row
      /\ \A u \in Slips : u # t => slips'[u] = slips[u]
  BY <1>1, ExceptSeq DEF SlipStep
<1>3. Slips' = Slips
  BY <1>2 DEF Slips
<1>4. \A u \in Slips : slips'[u].thread = slips[u].thread /\ (slips'[u].status # slips[u].status => u = t)
  BY <1>2 DEF SlipStep
<1>5. \A u \in Slips : slips'[u].status # slips[u].status =>
          \/ slips[u].status = "open"
          \/ slips[u].status = "claimed" /\ slips'[u].status # "open"
  BY <1>2, <1>4 DEF SlipStep, WaitingSlips
<1>6. \A u \in Slips : Kept(u) => Kept(u)'
  BY <1>2, <1>4 DEF SlipStep, Kept
<1>7. OneWaiting'
  <2>1. \A u \in Slips : WaitingSlips(u)' => WaitingSlips(u)
    BY <1>2, <1>4 DEF WaitingSlips, SlipStep
  <2> QED BY <1>3, <1>4, <2>1 DEF DeskInv, OneWaiting
<1>8. Counting'
  <2>1. UNCHANGED tally
    BY DEF reportVars
  <2> QED BY <1>3, <1>5, <2>1, CountsFollow
<1>9. Reporting'
  <2>1. UNCHANGED <<report, answered, disliked>>
    BY DEF reportVars
  <2> QED BY <1>3, <1>4, <1>6, <2>1, ReportFollows
<1> QED BY <1>2, <1>3, <1>7, <1>8, <1>9 DEF QueueKept

\* A ticket is added for a conversation that has none waiting.
LEMMA SlipJoins ==
    ASSUME DeskInv, NEW row \in SlipRows, ActiveOf(row.thread) = {}, slips' = Append(slips, row),
           UNCHANGED reportVars
    PROVE  /\ QueueKept /\ Len(slips') = Len(slips) + 1 /\ Slips' = Slips \cup {Len(slips) + 1}
           /\ \A u \in Slips : slips'[u] = slips[u]
           /\ slips'[Len(slips) + 1] = row
<1>1. slips \in Seq(SlipRows) /\ Len(slips) \in Nat /\ Slips = DOMAIN slips
  BY SlipsAre DEF DeskInv, DeskTypes
<1>2. /\ slips' \in Seq(SlipRows) /\ Len(slips') = Len(slips) + 1 /\ slips'[Len(slips) + 1] = row
      /\ \A u \in 1..Len(slips) : slips'[u] = slips[u]
  BY <1>1, AppendProperties
<1>3. Slips' = Slips \cup {Len(slips) + 1}
  BY <1>1, <1>2 DEF Slips
<1>4. \A u \in Slips : slips'[u] = slips[u]
  BY <1>2 DEF Slips
<1>5. OneWaiting'
  <2>1. SUFFICES ASSUME NEW u \in Slips', NEW w \in Slips', WaitingSlips(u)', WaitingSlips(w)',
                        slips'[u].thread = slips'[w].thread
                 PROVE  u = w
    BY DEF OneWaiting
  <2>2. \A v \in Slips : WaitingSlips(v) => slips[v].thread # row.thread
    BY DEF ActiveOf
  <2>3. \A v \in Slips : WaitingSlips(v)' => WaitingSlips(v)
    BY <1>4 DEF WaitingSlips
  <2>4. CASE u \in Slips /\ w \in Slips
    BY <1>4, <2>1, <2>3, <2>4 DEF DeskInv, OneWaiting
  <2>5. CASE u \notin Slips
    BY <1>2, <1>3, <1>4, <2>1, <2>2, <2>3, <2>5
  <2>6. CASE w \notin Slips
    BY <1>2, <1>3, <1>4, <2>1, <2>2, <2>3, <2>6
  <2> QED BY <2>4, <2>5, <2>6
<1>6. Counting'
  <2>1. UNCHANGED tally
    BY DEF reportVars
  <2> QED BY <1>3, <1>4, <2>1, CountsFollow
<1>7. Reporting'
  <2>1. UNCHANGED <<report, answered, disliked>>
    BY DEF reportVars
  <2> QED BY <1>3, <1>4, <2>1, ReportFollows DEF Kept
<1> QED BY <1>2, <1>3, <1>4, <1>5, <1>6, <1>7 DEF QueueKept

\* What is said, and to whom.
TalkKept == SendersHold' /\ ReadersHold' /\ stray' = {} /\ ToCome' /\ Reached' /\ PollsSkipNothing'

\* A locked row stays as it is.
HeldStay == \A u \in Slips : u \in Slips' /\ (DeskLocked(u) => slips'[u] = slips[u])

LEMMA TalkStays == ASSUME DeskInv, HeldStay, UNCHANGED <<talkVars, readVars>> PROVE TalkKept
<1>1. UNCHANGED <<lines, sending, lastLine, reading, stray, cursor, got>>
  BY DEF talkVars, readVars
<1>2. SendersHold'
  <2>1. \A m \in sending : m.slip \in Slips
    BY DEF DeskInv, DeskTypes
  <2>2. \A m \in sending : slips'[m.slip] = slips[m.slip]
    BY <2>1 DEF HeldStay, DeskLocked, LockedBySender
  <2> QED BY <1>1, <2>2 DEF DeskInv, SendersHold, WaitingSlips
<1>3. ReadersHold'
  <2>1. \A a \in Clerks : reading[a] # 0 => slips'[reading[a]] = slips[reading[a]] /\ reading[a] \in Slips'
    BY DEF HeldStay, DeskLocked, LockedByReader, DeskInv, ReadersHold
  <2> QED BY <1>1, <2>1 DEF DeskInv, ReadersHold, Handles
<1>4. ToCome' /\ Reached' /\ PollsSkipNothing'
  BY <1>1 DEF DeskInv, ToCome, Reached, PollsSkipNothing, Durable
<1> QED BY <1>1, <1>2, <1>3, <1>4 DEF TalkKept, DeskInv

\* The types that the queue has no part in.
OtherTypes ==
    /\ \A l \in lines : l.id \in 1..lastLine
    /\ cursor \in [Threads -> Nat] /\ got \in [Threads -> SUBSET Nat] /\ reading \in [Clerks -> Nat]
    /\ lastLine \in Nat /\ \A s \in Threads : cursor[s] \in 0..lastLine
    /\ tally \in TallyRows
    /\ report \in ReportRows
    /\ answered \subseteq Threads /\ IsFiniteSet(answered) /\ disliked \subseteq answered

SendTypes == \A m \in sending : m.id \in 1..lastLine /\ m.slip \in Slips

QueueTypes == askedTier \in Seq({FirstTier, Routine}) /\ Len(askedTier) = Len(slips) /\ UrgencyStays

LEMMA DeskParts ==
    /\ DeskTypes /\ UrgencyStays <=> slips \in Seq(SlipRows) /\ OtherTypes /\ SendTypes /\ QueueTypes
BY DEF DeskTypes, OtherTypes, SendTypes, QueueTypes

LEMMA DeskHolds ==
    ASSUME QueueKept, TalkKept, OtherTypes', SendTypes', QueueTypes'
    PROVE  DeskInv'
<1>1. slips' \in Seq(SlipRows) /\ OtherTypes' /\ SendTypes' /\ QueueTypes'
  BY DEF QueueKept
<1>2. DeskTypes' /\ UrgencyStays'
  BY <1>1 DEF DeskTypes, OtherTypes, SendTypes, QueueTypes
<1> QED BY <1>2 DEF QueueKept, TalkKept, DeskInv

LEMMA QueueQuiet == ASSUME DeskInv, UNCHANGED <<slips, askedTier>>
                    PROVE  /\ QueueTypes' /\ OneWaiting' /\ slips' \in Seq(SlipRows) /\ Slips' = Slips
                           /\ UNCHANGED <<tally, report, answered, disliked>> => QueueKept
<1>1. QueueTypes' /\ OneWaiting' /\ slips' \in Seq(SlipRows) /\ Slips' = Slips
  BY DEF DeskInv, DeskTypes, QueueTypes, UrgencyStays, OneWaiting, WaitingSlips, Slips
<1>2. UNCHANGED <<tally, report, answered, disliked>> => Counting' /\ Reporting'
  BY <1>1 DEF DeskInv, Counting, Reporting, Behind, Ticketed, Kept, ReportAddsUp, Underway
<1> QED BY <1>1, <1>2 DEF QueueKept

LEMMA AskKeeps == ASSUME DeskInv, NEW s \in Threads, NEW tier \in {FirstTier, Routine}, AskForPerson(s, tier)
                  PROVE DeskInv'
<1>1. UNCHANGED <<talkVars, readVars, reportVars>>
  BY DEF AskForPerson
<1>2. /\ slips \in Seq(SlipRows) /\ Len(slips) \in Nat /\ Slips = DOMAIN slips
      /\ askedTier \in Seq({FirstTier, Routine}) /\ Len(askedTier) = Len(slips)
      /\ OtherTypes /\ SendTypes
  BY SlipsAre, DeskParts DEF DeskInv, DeskTypes
<1>3. OtherTypes'
  BY <1>1, <1>2 DEF OtherTypes, talkVars, readVars, reportVars
<1>4. SUFFICES QueueKept /\ HeldStay /\ QueueTypes'
  <2>1. ASSUME HeldStay PROVE SendTypes'
    BY <1>1, <1>2, <2>1 DEF HeldStay, SendTypes, talkVars
  <2> QED BY <1>1, <1>3, <2>1, TalkStays, DeskHolds
<1>5. CASE ActiveOf(s) = {}
  <2>1. PICK row : row = [thread |-> s, tier |-> tier, status |-> "open", clerk |-> NoClerk]
    OBVIOUS
  <2>2. row \in SlipRows /\ row.thread = s /\ row.tier = tier
    BY <2>1 DEF SlipRows
  <2>3. slips' = Append(slips, row) /\ askedTier' = Append(askedTier, tier)
    BY <1>5, <2>1 DEF AskForPerson
  <2>4. /\ QueueKept /\ Len(slips') = Len(slips) + 1 /\ Slips' = Slips \cup {Len(slips) + 1}
        /\ \A u \in Slips : slips'[u] = slips[u]
        /\ slips'[Len(slips) + 1] = row
    BY <1>1, <1>5, <2>2, <2>3, SlipJoins
  <2>5. /\ askedTier' \in Seq({FirstTier, Routine}) /\ Len(askedTier') = Len(askedTier) + 1
        /\ askedTier'[Len(askedTier) + 1] = tier
        /\ \A u \in 1..Len(askedTier) : askedTier'[u] = askedTier[u]
    BY <1>2, <2>3, AppendProperties
  <2>6. UrgencyStays'
    <3>1. \A u \in Slips : slips'[u].tier = askedTier'[u]
      BY <1>2, <2>4, <2>5 DEF DeskInv, UrgencyStays, Slips
    <3>2. slips'[Len(slips) + 1].tier = askedTier'[Len(slips) + 1]
      BY <1>2, <2>2, <2>4, <2>5
    <3> QED BY <2>4, <3>1, <3>2 DEF UrgencyStays
  <2> QED BY <1>2, <2>4, <2>5, <2>6 DEF HeldStay, QueueTypes
<1>6. CASE ActiveOf(s) # {}
  <2>1. PICK t : t = (CHOOSE u \in ActiveOf(s) : TRUE)
    OBVIOUS
  <2>2. t \in ActiveOf(s)
    BY <1>6, <2>1
  <2>3. t \in Slips /\ t \in DOMAIN slips /\ t \in DOMAIN askedTier
    BY <1>2, <2>2 DEF ActiveOf
  <2>4. /\ ~DeskLocked(t) /\ slips' = [slips EXCEPT ![t].tier = TierAfter(tier, @)]
        /\ askedTier' = [askedTier EXCEPT ![t] = Better(tier, @)]
    BY <1>6, <2>1 DEF AskForPerson
  <2>5. PICK old \in SlipRows : old = slips[t]
    BY <1>2, <2>3
  <2>6. PICK best : best = Better(tier, old.tier)
    OBVIOUS
  <2>7. best \in {FirstTier, Routine}
    BY <2>5, <2>6 DEF SlipRows, Better
  <2>8. PICK row : row = [old EXCEPT !.tier = best]
    OBVIOUS
  <2>9. /\ row \in SlipRows /\ row.tier = best /\ row.thread = old.thread
        /\ row.status = old.status
    BY <2>5, <2>7, <2>8 DEF SlipRows
  <2>10. slips' = [slips EXCEPT ![t] = row]
    BY <2>4, <2>5, <2>6, <2>8 DEF TierAfter
  <2>11. SlipStep(t, row)
    BY <2>2, <2>3, <2>5, <2>9, <2>10 DEF SlipStep, ActiveOf, WaitingSlips
  <2>12. /\ QueueKept /\ Len(slips') = Len(slips) /\ Slips' = Slips /\ slips'[t] = row
         /\ \A u \in Slips : u # t => slips'[u] = slips[u]
    BY <1>1, <2>11, SlipMoves
  <2>13. askedTier[t] = old.tier
    BY <2>3, <2>5 DEF DeskInv, UrgencyStays
  <2>14. askedTier' = [askedTier EXCEPT ![t] = best]
    BY <2>4, <2>6, <2>13
  <2>15. /\ askedTier' \in Seq({FirstTier, Routine}) /\ Len(askedTier') = Len(askedTier)
         /\ askedTier'[t] = best /\ \A u \in DOMAIN askedTier : u # t => askedTier'[u] = askedTier[u]
    BY <1>2, <2>3, <2>7, <2>14, ExceptSeq
  <2>16. UrgencyStays'
    BY <1>2, <2>9, <2>12, <2>15 DEF DeskInv, UrgencyStays
  <2> QED BY <1>2, <2>4, <2>12, <2>15, <2>16 DEF HeldStay, QueueTypes
<1> QED BY <1>5, <1>6

LEMMA TierStays ==
    ASSUME DeskInv, NEW t, NEW row, SlipStep(t, row), row.tier = slips[t].tier, UNCHANGED <<askedTier, reportVars>>
    PROVE  QueueTypes'
<1>1. /\ Len(slips') = Len(slips) /\ Slips' = Slips /\ slips'[t] = row
      /\ \A u \in Slips : u # t => slips'[u] = slips[u]
  BY SlipMoves
<1> QED BY <1>1 DEF DeskInv, DeskTypes, QueueTypes, UrgencyStays

\* The status of one row moves on while nobody holds it.
LEMMA FreeSlipMoves ==
    ASSUME DeskInv, NEW t, NEW row, SlipStep(t, row), row.tier = slips[t].tier, ~DeskLocked(t),
           UNCHANGED <<askedTier, talkVars, readVars, reportVars>>
    PROVE  DeskInv'
<1>1. /\ QueueKept /\ Len(slips') = Len(slips) /\ Slips' = Slips /\ slips'[t] = row
      /\ \A u \in Slips : u # t => slips'[u] = slips[u]
  BY SlipMoves
<1>2. QueueTypes'
  BY TierStays
<1>3. HeldStay
  BY <1>1 DEF HeldStay
<1>4. OtherTypes' /\ SendTypes'
  <2>1. OtherTypes /\ SendTypes
    BY DeskParts DEF DeskInv
  <2> QED BY <1>1, <2>1 DEF OtherTypes, SendTypes, talkVars, readVars, reportVars
<1> QED BY <1>1, <1>2, <1>3, <1>4, TalkStays, DeskHolds

LEMMA ClaimKeeps == ASSUME DeskInv, NEW a \in Clerks, NEW t \in Slips, ClaimSlip(a, t) PROVE DeskInv'
<1>1. PICK old \in SlipRows : old = slips[t]
  BY SlipsAre DEF DeskInv
<1>2. PICK row : row = [old EXCEPT !.status = "claimed", !.clerk = a]
  OBVIOUS
<1>3. row \in SlipRows /\ row.tier = old.tier /\ row.thread = old.thread /\ row.status = "claimed"
  BY <1>1, <1>2 DEF SlipRows
<1>4. slips' = [slips EXCEPT ![t] = row]
  BY <1>1, <1>2 DEF ClaimSlip
<1>5. SlipStep(t, row)
  BY <1>1, <1>3, <1>4 DEF SlipStep, ClaimSlip, WaitingSlips
<1> QED BY <1>1, <1>3, <1>5, FreeSlipMoves DEF ClaimSlip

\* What resolving does to the row, in whichever transaction.
LEMMA Resolved ==
    ASSUME DeskInv, NEW t \in Slips, WaitingSlips(t), slips' = [slips EXCEPT ![t].status = "resolved"]
    PROVE  \E row : SlipStep(t, row) /\ row.tier = slips[t].tier /\ row.thread = slips[t].thread
<1>1. PICK old \in SlipRows : old = slips[t]
  BY SlipsAre DEF DeskInv
<1>2. PICK row : row = [old EXCEPT !.status = "resolved"]
  OBVIOUS
<1>3. row \in SlipRows /\ row.tier = old.tier /\ row.thread = old.thread /\ row.status = "resolved"
  BY <1>1, <1>2 DEF SlipRows
<1>4. slips' = [slips EXCEPT ![t] = row]
  BY <1>1, <1>2
<1> QED BY <1>1, <1>3, <1>4 DEF SlipStep

LEMMA ResolveKeeps == ASSUME DeskInv, NEW t \in Slips, ResolveSlip(t) PROVE DeskInv'
<1>1. PICK row : SlipStep(t, row) /\ row.tier = slips[t].tier
  BY Resolved DEF ResolveSlip
<1> QED BY <1>1, FreeSlipMoves DEF ResolveSlip

\* Who waits in one conversation for the commit of a message waits alone.
LEMMA OneSender == ASSUME DeskInv, NEW m \in sending, NEW n \in sending, m.thread = n.thread PROVE m = n
<1>1. /\ WaitingSlips(m.slip) /\ slips[m.slip].thread = m.thread /\ m.slip \in Slips
      /\ WaitingSlips(n.slip) /\ slips[n.slip].thread = n.thread /\ n.slip \in Slips
  BY DEF DeskInv, SendersHold, DeskTypes
<1>2. m.slip = n.slip
  BY <1>1 DEF DeskInv, OneWaiting
<1> QED BY <1>2 DEF DeskInv, SendersHold

LEMMA DurableAre == ASSUME DeskInv, NEW s \in Threads
                    PROVE  Durable(s) \subseteq 1..lastLine /\ lastLine \in Nat /\ cursor[s] \in Nat
<1>1. \A l \in lines : l.id \in 1..lastLine
  BY DEF DeskInv, DeskTypes
<1> QED BY <1>1 DEF Durable, DeskInv, DeskTypes

LEMMA WriteKeeps == ASSUME DeskInv, NEW t \in Slips, NEW side \in Sides, WriteLine(slips[t].thread, side, t)
                    PROVE DeskInv'
<1>1. PICK m : m = [id |-> lastLine + 1, thread |-> slips[t].thread, slip |-> t, side |-> side]
  OBVIOUS
<1>2. /\ sending' = sending \cup {m} /\ lastLine' = lastLine + 1
      /\ UNCHANGED <<slips, askedTier, lines, reading, stray, cursor, got, tally, answered, disliked, report>>
  BY <1>1 DEF WriteLine, queueVars, readVars, reportVars
<1>3. m.id = lastLine + 1 /\ m.thread = slips[t].thread /\ m.slip = t
  BY <1>1
<1>4. WaitingSlips(t) /\ ~DeskLocked(t)
  <2>1. slips[t].status = "claimed" => WaitingSlips(t)
    BY DEF WaitingSlips
  <2> QED BY <2>1 DEF WriteLine, Sides
<1>5. lastLine \in Nat
  BY DEF DeskInv, DeskTypes
<1>6. QueueTypes' /\ QueueKept /\ Slips' = Slips
  BY <1>2, QueueQuiet
<1>7. OtherTypes'
  <2>1. OtherTypes
    BY DeskParts DEF DeskInv
  <2>2. \A l \in lines : l.id \in 1..(lastLine + 1)
    BY <1>5, <2>1 DEF OtherTypes
  <2>3. \A s \in Threads : cursor[s] \in 0..(lastLine + 1)
    BY <1>5, <2>1 DEF OtherTypes
  <2> QED BY <1>2, <1>5, <2>1, <2>2, <2>3 DEF OtherTypes
<1>8. SendTypes'
  <2>1. \A n \in sending : n.id \in 1..(lastLine + 1) /\ n.slip \in Slips
    BY <1>5 DEF DeskInv, DeskTypes
  <2> QED BY <1>2, <1>3, <1>5, <1>6, <2>1 DEF SendTypes
<1>9. SendersHold'
  <2>1. \A n \in sending : n.slip # t
    BY <1>4 DEF DeskLocked, LockedBySender
  <2>2. \A a \in Clerks : reading[a] # t
    BY <1>4 DEF DeskLocked, LockedByReader
  <2>3. \A n \in sending' : WaitingSlips(n.slip)' /\ slips'[n.slip].thread = n.thread
    BY <1>2, <1>3, <1>4 DEF DeskInv, SendersHold, WaitingSlips
  <2>4. \A n, o \in sending' : n.slip = o.slip => n = o
    BY <1>2, <1>3, <2>1 DEF DeskInv, SendersHold
  <2>5. \A n \in sending' : \A a \in Clerks : reading'[a] # n.slip
    BY <1>2, <1>3, <2>2 DEF DeskInv, SendersHold
  <2> QED BY <2>3, <2>4, <2>5 DEF SendersHold
<1>10. ReadersHold' /\ stray' = {}
  BY <1>2, <1>6 DEF DeskInv, ReadersHold, Handles
<1>11. ToCome'
  <2>1. m.thread \in Threads
    BY <1>3, SlipsAre DEF DeskInv, SlipRows
  <2>2. \A i \in Durable(m.thread) : i < m.id
    BY <1>3, <1>5, <2>1, DurableAre
  <2>3. \A s : Durable(s)' = Durable(s)
    BY <1>2 DEF Durable
  <2> QED BY <1>2, <2>2, <2>3 DEF DeskInv, ToCome
<1>12. Reached' /\ PollsSkipNothing'
  <2>1. m.thread \in Threads
    BY <1>3, SlipsAre DEF DeskInv, SlipRows
  <2>2. cursor[m.thread] < m.id
    BY <1>3, <1>5, <2>1 DEF DeskInv, DeskTypes
  <2> QED BY <1>2, <2>2 DEF DeskInv, Reached, PollsSkipNothing, Durable
<1> QED BY <1>6, <1>7, <1>8, <1>9, <1>10, <1>11, <1>12, DeskHolds DEF TalkKept

\* A message leaves the senders: nothing else is touched by that.
LEMMA SenderLeaves ==
    ASSUME DeskInv, NEW m \in sending, sending' = sending \ {m}, UNCHANGED <<lastLine, readVars, reportVars>>,
           Slips' = Slips, \A u \in Slips : u # m.slip => slips'[u] = slips[u]
    PROVE  SendersHold' /\ ReadersHold' /\ stray' = {} /\ SendTypes'
<1>1. UNCHANGED <<reading, stray>>
  BY DEF readVars
<1>2. \A n \in sending' : n \in sending /\ n # m /\ n.slip \in Slips /\ n.slip # m.slip
  BY DEF DeskInv, DeskTypes, SendersHold
<1>3. SendersHold'
  BY <1>1, <1>2 DEF DeskInv, SendersHold, WaitingSlips
<1>4. \A a \in Clerks : reading[a] # 0 => reading[a] \in Slips /\ slips'[reading[a]] = slips[reading[a]]
  BY DEF DeskInv, ReadersHold, SendersHold
<1>5. ReadersHold' /\ stray' = {}
  BY <1>1, <1>4 DEF DeskInv, ReadersHold, Handles
<1>6. SendTypes'
  BY <1>2 DEF DeskInv, DeskTypes, SendTypes
<1> QED BY <1>3, <1>5, <1>6

LEMMA CommitKeeps == ASSUME DeskInv, NEW m \in sending, NEW resolves \in BOOLEAN, CommitLine(m, resolves)
                     PROVE DeskInv'
<1>1. PICK line : line = [id |-> m.id, thread |-> m.thread]
  OBVIOUS
<1>2. line.id = m.id /\ line.thread = m.thread
  BY <1>1
<1>3. /\ lines' = lines \cup {line} /\ sending' = sending \ {m}
      /\ UNCHANGED <<askedTier, lastLine, readVars, reportVars>>
  BY <1>1 DEF CommitLine
<1>4. m.slip \in Slips /\ m.id \in 1..lastLine /\ lastLine \in Nat /\ slips[m.slip].thread = m.thread
  BY DEF DeskInv, DeskTypes, SendersHold
<1>5. m.thread \in Threads
  BY <1>4, SlipsAre DEF DeskInv, SlipRows
<1>6. QueueKept /\ QueueTypes' /\ Slips' = Slips /\ \A u \in Slips : u # m.slip => slips'[u] = slips[u]
  <2>1. CASE resolves
    <3>1. slips' = [slips EXCEPT ![m.slip].status = "resolved"]
      BY <2>1 DEF CommitLine
    <3>2. PICK row : SlipStep(m.slip, row) /\ row.tier = slips[m.slip].tier
      BY <1>4, <3>1, Resolved DEF DeskInv, SendersHold
    <3>3. QueueTypes'
      BY <1>3, <3>2, TierStays
    <3> QED BY <1>3, <3>2, <3>3, SlipMoves
  <2>2. CASE ~resolves
    <3>1. slips' = slips
      BY <2>2 DEF CommitLine
    <3> QED BY <1>3, <3>1, QueueQuiet DEF reportVars
  <2> QED BY <2>1, <2>2
<1>7. SendersHold' /\ ReadersHold' /\ stray' = {} /\ SendTypes'
  BY <1>3, <1>6, SenderLeaves
<1>8. UNCHANGED <<lastLine, cursor, got, reading, tally, report, answered, disliked>>
  BY <1>3 DEF readVars, reportVars
<1>9. OtherTypes'
  <2>1. OtherTypes
    BY DeskParts DEF DeskInv
  <2> QED BY <1>2, <1>3, <1>4, <1>8, <2>1 DEF OtherTypes
<1>10. \A s : Durable(s)' = IF s = m.thread THEN Durable(s) \cup {m.id} ELSE Durable(s)
  BY <1>2, <1>3 DEF Durable
<1>11. ToCome'
  <2>1. \A n \in sending' : n.thread # m.thread
    BY <1>3, OneSender
  <2> QED BY <1>3, <1>10, <2>1 DEF DeskInv, ToCome
<1>12. Reached'
  BY <1>3, <1>8 DEF DeskInv, Reached
<1>13. PollsSkipNothing'
  <2>1. cursor[m.thread] < m.id
    BY DEF DeskInv, Reached
  <2>2. ~(m.id <= cursor[m.thread])
    BY <1>4, <1>5, <2>1, DurableAre
  <2> QED BY <1>8, <1>10, <2>2 DEF DeskInv, PollsSkipNothing
<1> QED BY <1>6, <1>7, <1>9, <1>11, <1>12, <1>13, DeskHolds DEF TalkKept

LEMMA FailKeeps == ASSUME DeskInv, NEW m \in sending, FailLine(m) PROVE DeskInv'
<1>1. /\ sending' = sending \ {m}
      /\ UNCHANGED <<slips, askedTier, lines, lastLine, readVars, reportVars>>
  BY DEF FailLine, queueVars
<1>2. UNCHANGED <<lines, lastLine, reading, stray, cursor, got, tally, report, answered, disliked>>
  BY <1>1 DEF readVars, reportVars
<1>3. QueueKept /\ QueueTypes' /\ Slips' = Slips
  BY <1>1, <1>2, QueueQuiet
<1>4. SendersHold' /\ ReadersHold' /\ stray' = {} /\ SendTypes'
  BY <1>1, <1>3, SenderLeaves
<1>5. OtherTypes'
  BY <1>2, DeskParts DEF DeskInv, OtherTypes
<1>6. ToCome' /\ Reached' /\ PollsSkipNothing'
  BY <1>1, <1>2 DEF DeskInv, ToCome, Reached, PollsSkipNothing, Durable
<1> QED BY <1>3, <1>4, <1>5, <1>6, DeskHolds DEF TalkKept

\* A set of numbers up to n that is not empty has a largest.
LEMMA LargestExists ==
    ASSUME NEW n \in Nat, NEW S \in SUBSET (1..n), S # {}
    PROVE  \E i \in S : \A j \in S : j <= i
<1>1. PICK T : T = {n - i : i \in S}
  OBVIOUS
<1>2. T \in SUBSET Nat /\ T # {}
  <2>1. \A i \in S : i \in 1..n /\ n - i \in Nat
    OBVIOUS
  <2> QED BY <1>1, <2>1
<1>3. IsWellFoundedOn(OpToRel(<, Nat), Nat)
  BY NatLessThanWellFounded
<1>4. PICK d \in T : \A e \in T : ~(<<e, d>> \in OpToRel(<, Nat))
  BY <1>2, <1>3, WFMin
<1>5. \A e \in T : ~(e < d)
  <2>1. \A e \in T : e \in Nat /\ d \in Nat
    BY <1>2
  <2> QED BY <1>4, <2>1 DEF OpToRel
<1>6. PICK i \in S : d = n - i
  BY <1>1
<1>7. \A j \in S : n - j \in T
  BY <1>1
<1> QED BY <1>5, <1>6, <1>7

LEMMA LargestIs ==
    ASSUME NEW n \in Nat, NEW S \in SUBSET (1..n), S # {}, NEW x
    PROVE  LargestOf(S, x) \in S /\ \A j \in S : j <= LargestOf(S, x)
BY LargestExists DEF LargestOf

\* What a page leaves out comes after all it shows.
LEMMA PageIsPrefix ==
    ASSUME DeskInv, NEW s \in Threads, NEW i \in Durable(s), i > cursor[s],
           NEW k \in PageAfter(s, cursor[s]), i <= k
    PROVE  i \in PageAfter(s, cursor[s])
<1>1. PICK rows : rows = {j \in Durable(s) : j > cursor[s]}
  OBVIOUS
<1>2. PageAfter(s, cursor[s]) = {j \in rows : Cardinality({l \in rows : l <= j}) <= PageLimit}
  BY <1>1 DEF PageAfter
<1>3. rows \subseteq 1..lastLine /\ lastLine \in Nat /\ i \in rows /\ k \in rows
  BY <1>1, <1>2, DurableAre
<1>4. {l \in rows : l <= i} \in SUBSET {l \in rows : l <= k}
  <2>1. \A l \in rows : l \in Nat
    BY <1>3
  <2>2. \A l \in rows : l <= i => l <= k
    BY <1>3, <2>1
  <2> QED BY <2>2
<1>5. {l \in rows : l <= k} \in SUBSET (1..lastLine)
  BY <1>3
<1>6. Cardinality({l \in rows : l <= i}) <= Cardinality({l \in rows : l <= k})
  BY <1>3, <1>4, <1>5, SlipCounts
<1>7. Cardinality({l \in rows : l <= i}) \in Nat /\ Cardinality({l \in rows : l <= k}) \in Nat
  BY <1>3, <1>4, <1>5, SlipCounts
<1>8. Cardinality({l \in rows : l <= k}) <= PageLimit
  BY <1>2
<1>9. Cardinality({l \in rows : l <= i}) <= PageLimit
  BY <1>6, <1>7, <1>8, DeskAssumption
<1> QED BY <1>2, <1>3, <1>9

LEMMA PollKeeps == ASSUME DeskInv, NEW s \in Threads, PollLines(s) PROVE DeskInv'
<1>1. PICK page : page = PageAfter(s, cursor[s])
  OBVIOUS
<1>2. PICK next : next = LargestOf(page, cursor[s])
  OBVIOUS
<1>3. page # {} /\ page \subseteq Durable(s) /\ Durable(s) \subseteq 1..lastLine /\ lastLine \in Nat
  BY <1>1, DurableAre DEF PollLines, PageAfter
<1>4. next \in page /\ \A j \in page : j <= next
  BY <1>2, <1>3, LargestIs
<1>5. cursor' = [cursor EXCEPT ![s] = next] /\ got' = [got EXCEPT ![s] = @ \cup page]
  BY <1>1, <1>2 DEF PollLines
<1>6. UNCHANGED <<slips, askedTier, lines, lastLine, sending, reading, stray, tally, report, answered, disliked>>
  BY DEF PollLines, queueVars, talkVars, reportVars
<1>7. /\ cursor \in [Threads -> Nat] /\ got \in [Threads -> SUBSET Nat]
      /\ next \in 1..lastLine /\ page \subseteq Nat
  BY <1>3, <1>4 DEF DeskInv, DeskTypes
<1>8. /\ cursor' \in [Threads -> Nat] /\ got' \in [Threads -> SUBSET Nat]
      /\ cursor'[s] = next /\ \A u \in Threads : u # s => cursor'[u] = cursor[u]
      /\ got'[s] = got[s] \cup page /\ \A u \in Threads : u # s => got'[u] = got[u]
  <2>1. /\ cursor' \in [Threads -> Nat]
        /\ cursor'[s] = next /\ \A u \in Threads : u # s => cursor'[u] = cursor[u]
    BY <1>3, <1>5, <1>7
  <2>2. PICK all \in SUBSET Nat : all = got[s] \cup page
    BY <1>7
  <2>3. got' = [got EXCEPT ![s] = all]
    BY <1>5, <2>2
  <2>4. /\ got' \in [Threads -> SUBSET Nat]
        /\ got'[s] = all /\ \A u \in Threads : u # s => got'[u] = got[u]
    BY <1>7, <2>2, <2>3
  <2> QED BY <2>1, <2>2, <2>4
<1>9. QueueKept /\ QueueTypes' /\ Slips' = Slips
  BY <1>6, QueueQuiet
<1>10. OtherTypes'
  <2>1. \A u \in Threads : cursor'[u] \in 0..lastLine
    <3>1. \A u \in Threads : cursor[u] \in 0..lastLine
      BY DEF DeskInv, DeskTypes
    <3>2. next \in 0..lastLine
      BY <1>3, <1>7
    <3> QED BY <1>8, <3>1, <3>2
  <2> QED BY <1>6, <1>8, <2>1, DeskParts DEF DeskInv, OtherTypes
<1>11. SendTypes'
  BY <1>6, <1>9, DeskParts DEF DeskInv, SendTypes
<1>12. SendersHold' /\ ReadersHold' /\ stray' = {} /\ ToCome'
  BY <1>6, <1>9 DEF DeskInv, SendersHold, ReadersHold, ToCome, Durable, WaitingSlips, Handles
<1>13. \A u \in Threads : Durable(u)' = Durable(u)
  BY <1>6 DEF Durable
<1>14. Reached'
  <2>1. \A m \in sending : m.thread = s => next < m.id
    BY <1>3, <1>4 DEF DeskInv, ToCome
  <2>2. \A m \in sending : m.thread \in Threads
    BY SlipsAre DEF DeskInv, DeskTypes, SendersHold, SlipRows
  <2> QED BY <1>6, <1>8, <2>1, <2>2 DEF DeskInv, Reached
<1>15. PollsSkipNothing'
  <2>1. SUFFICES ASSUME NEW u \in Threads, NEW i \in Durable(u), i <= cursor'[u]
                 PROVE  i \in got'[u]
    BY <1>13 DEF PollsSkipNothing
  <2>2. CASE u # s
    BY <1>8, <2>1, <2>2 DEF DeskInv, PollsSkipNothing
  <2>3. CASE u = s /\ i <= cursor[s]
    BY <1>8, <2>1, <2>3 DEF DeskInv, PollsSkipNothing
  <2>4. CASE u = s /\ ~(i <= cursor[s])
    <3>1. i > cursor[s] /\ i <= next
      BY <1>3, <1>8, <2>1, <2>4, DurableAre
    <3>2. i \in page
      BY <1>1, <1>4, <2>1, <2>4, <3>1, PageIsPrefix
    <3> QED BY <1>8, <2>4, <3>2
  <2> QED BY <2>2, <2>3, <2>4
<1> QED BY <1>9, <1>10, <1>11, <1>12, <1>14, <1>15, DeskHolds DEF TalkKept

\* The readers of the desk: agents and reports.
LEMMA OpenKeeps == ASSUME DeskInv, NEW a \in Clerks, NEW t \in Slips, OpenTranscript(a, t) PROVE DeskInv'
<1>1. /\ reading' = [reading EXCEPT ![a] = t] /\ Handles(a, t) /\ ~DeskLocked(t)
      /\ UNCHANGED <<slips, askedTier, lines, lastLine, sending, stray, cursor, got, tally, report, answered, disliked>>
  BY DEF OpenTranscript, queueVars, talkVars, reportVars
<1>2. QueueKept /\ QueueTypes' /\ Slips' = Slips
  BY <1>1, QueueQuiet
<1>3. t \in Nat /\ reading \in [Clerks -> Nat]
  BY SlipsAre DEF DeskInv, DeskTypes
<1>4. reading' \in [Clerks -> Nat] /\ reading'[a] = t /\ \A b \in Clerks : b # a => reading'[b] = reading[b]
  BY <1>1, <1>3
<1>5. OtherTypes' /\ SendTypes'
  BY <1>1, <1>2, <1>4, DeskParts DEF DeskInv, OtherTypes, SendTypes
<1>6. SendersHold'
  <2>1. \A m \in sending : m.slip # t
    BY <1>1 DEF DeskLocked, LockedBySender
  <2>2. \A m \in sending : \A b \in Clerks : reading'[b] # m.slip
    BY <1>4, <2>1 DEF DeskInv, SendersHold
  <2> QED BY <1>1, <2>2 DEF DeskInv, SendersHold, WaitingSlips
<1>7. ReadersHold'
  BY <1>1, <1>2, <1>4 DEF DeskInv, ReadersHold, Handles
<1>8. stray' = {} /\ ToCome' /\ Reached' /\ PollsSkipNothing'
  BY <1>1 DEF DeskInv, ToCome, Reached, PollsSkipNothing, Durable
<1> QED BY <1>2, <1>5, <1>6, <1>7, <1>8, DeskHolds DEF TalkKept

LEMMA ServeKeeps == ASSUME DeskInv, NEW a \in Clerks, ServeTranscript(a) PROVE DeskInv'
<1>1. /\ reading[a] # 0 /\ stray' = stray \cup {t \in {reading[a]} : ~Handles(a, t)}
      /\ reading' = [reading EXCEPT ![a] = 0]
      /\ UNCHANGED <<slips, askedTier, lines, lastLine, sending, cursor, got, tally, report, answered, disliked>>
  BY DEF ServeTranscript, queueVars, talkVars, reportVars
<1>2. QueueKept /\ QueueTypes' /\ Slips' = Slips
  BY <1>1, QueueQuiet
<1>3. Handles(a, reading[a])
  BY <1>1 DEF DeskInv, ReadersHold
<1>4. {t \in {reading[a]} : ~Handles(a, t)} = {}
  BY <1>3
<1>5. stray' = {}
  BY <1>1, <1>4 DEF DeskInv
<1>6. reading \in [Clerks -> Nat]
  BY DEF DeskInv, DeskTypes
<1>7. reading' \in [Clerks -> Nat] /\ reading'[a] = 0 /\ \A b \in Clerks : b # a => reading'[b] = reading[b]
  BY <1>1, <1>6
<1>8. OtherTypes' /\ SendTypes'
  BY <1>1, <1>2, <1>7, DeskParts DEF DeskInv, OtherTypes, SendTypes
<1>9. SendersHold'
  <2>1. \A m \in sending : m.slip # 0
    BY SlipsAre DEF DeskInv, DeskTypes
  <2>2. \A m \in sending : \A b \in Clerks : reading'[b] # m.slip
    BY <1>7, <2>1 DEF DeskInv, SendersHold
  <2> QED BY <1>1, <2>2 DEF DeskInv, SendersHold, WaitingSlips
<1>10. ReadersHold'
  BY <1>1, <1>2, <1>7 DEF DeskInv, ReadersHold, Handles
<1>11. ToCome' /\ Reached' /\ PollsSkipNothing'
  BY <1>1 DEF DeskInv, ToCome, Reached, PollsSkipNothing, Durable
<1> QED BY <1>2, <1>5, <1>8, <1>9, <1>10, <1>11, DeskHolds DEF TalkKept

\* A step that only concerns the reports.
LEMMA ReportStep ==
    ASSUME DeskInv, UNCHANGED <<queueVars, talkVars, readVars>>,
           Counting', Reporting', tally' \in TallyRows,
           report' \in ReportRows,
           answered' \subseteq Threads, IsFiniteSet(answered'), disliked' \subseteq answered'
    PROVE  DeskInv'
<1>1. UNCHANGED <<slips, askedTier, lines, lastLine, sending, reading, stray, cursor, got>>
  BY DEF queueVars, talkVars, readVars
<1>2. QueueKept /\ QueueTypes' /\ Slips' = Slips
  BY <1>1, QueueQuiet DEF QueueKept
<1>3. HeldStay
  BY <1>1, <1>2 DEF HeldStay
<1>4. OtherTypes' /\ SendTypes'
  BY <1>1, <1>2, DeskParts DEF DeskInv, OtherTypes, SendTypes
<1> QED BY <1>2, <1>3, <1>4, TalkStays, DeskHolds

LEMMA ReportingStays == ASSUME DeskInv, UNCHANGED <<slips, report, answered, disliked>> PROVE Reporting'
BY DEF DeskInv, Reporting, ReportAddsUp, Ticketed, Slips, Kept, Underway

LEMMA CountKeeps == ASSUME DeskInv, CountStatus PROVE DeskInv'
<1>1. PICK some : some = {t \in Slips : slips[t].status = CountOrder[tally.at]}
  OBVIOUS
<1>2. PICK ones : ones = IF tally.at = 1 THEN {t \in Slips : Kept(t)} ELSE tally.existed
  OBVIOUS
<1>3. /\ tally.at \in 1..3 /\ tally.counted \in Nat /\ tally.existed \subseteq Slips
      /\ Cardinality(Behind) <= tally.counted
  BY DEF CountStatus, DeskInv, DeskTypes, TallyRows, Counting
<1>4. Len(slips) \in Nat /\ Slips = 1..Len(slips)
  BY SlipsAre DEF DeskInv, Slips
<1>5. some \in SUBSET (1..Len(slips)) /\ ones \in SUBSET (1..Len(slips)) /\ Behind \in SUBSET (1..Len(slips))
  BY <1>1, <1>2, <1>3, <1>4 DEF Behind
<1>6. /\ IsFiniteSet(some) /\ Cardinality(some) \in Nat
      /\ IsFiniteSet(Behind) /\ Cardinality(Behind) \in Nat
  BY <1>4, <1>5, SlipCounts
<1>7. PICK sum \in Nat : sum = tally.counted + Cardinality(some)
  BY <1>3, <1>6
<1>8. tally' = [at |-> tally.at + 1, existed |-> ones, counted |-> sum]
  BY <1>1, <1>2, <1>7 DEF CountStatus
<1>9. tally'.at = tally.at + 1 /\ tally'.existed = ones /\ tally'.counted = sum
  BY <1>8
<1>10. tally' \in TallyRows
  BY <1>3, <1>4, <1>5, <1>8 DEF TallyRows
<1>11. UNCHANGED <<queueVars, talkVars, readVars, slips, answered, disliked, report>>
  BY DEF CountStatus, queueVars
<1>12. Behind' \subseteq Behind \cup some
  <2>1. Behind' = {t \in ones : slips[t].status \in Passed(tally.at + 1)}
    BY <1>9, <1>11 DEF Behind
  <2>2. CASE tally.at = 1
    BY <1>1, <1>2, <2>1, <2>2 DEF Passed, CountOrder
  <2>3. CASE tally.at # 1
    <3>1. ones = tally.existed /\ ones \subseteq Slips
      BY <1>2, <1>3, <2>3
    <3>2. \A t \in ones : slips[t].status \in Passed(tally.at + 1)
              => slips[t].status \in Passed(tally.at) \/ slips[t].status = CountOrder[tally.at]
      <4>1. CASE tally.at = 2
        BY <4>1 DEF Passed, CountOrder
      <4>2. CASE tally.at = 3
        BY <4>2 DEF Passed, CountOrder
      <4> QED BY <1>3, <2>3, <4>1, <4>2
    <3> QED BY <1>1, <2>1, <3>1, <3>2 DEF Behind
  <2> QED BY <2>2, <2>3
<1>13. Cardinality(Behind') <= sum
  <2>1. /\ IsFiniteSet(Behind \cup some)
        /\ Cardinality(Behind \cup some) = Cardinality(Behind) + Cardinality(some) - Cardinality(Behind \cap some)
    BY <1>6, FS_Union
  <2>2. IsFiniteSet(Behind') /\ Cardinality(Behind') <= Cardinality(Behind \cup some)
    BY <1>12, <2>1, FS_Subset
  <2>3. IsFiniteSet(Behind \cap some)
    BY <1>6, FS_Subset
  <2>4. Cardinality(Behind') \in Nat /\ Cardinality(Behind \cap some) \in Nat /\ Cardinality(Behind \cup some) \in Nat
    BY <2>1, <2>2, <2>3, FS_CardinalityType
  <2> QED BY <1>3, <1>6, <1>7, <2>1, <2>2, <2>4
<1>14. Counting'
  <2>1. ones \subseteq Slips /\ Slips' = Slips
    BY <1>4, <1>5, <1>11 DEF Slips
  <2> QED BY <1>9, <1>13, <2>1 DEF Counting
<1>15. Reporting'
  BY <1>11, ReportingStays
<1> QED BY <1>10, <1>11, <1>14, <1>15, ReportStep DEF DeskInv, DeskTypes

LEMMA ShowKeeps == ASSUME DeskInv, ShowTally PROVE DeskInv'
<1>1. tally' = NoTally /\ UNCHANGED <<queueVars, talkVars, readVars, slips, answered, disliked, report>>
  BY DEF ShowTally, queueVars
<1>2. tally' \in TallyRows /\ tally'.existed = {} /\ tally'.counted = 0
  BY <1>1 DEF NoTally, TallyRows
<1>3. Behind' = {}
  BY <1>2 DEF Behind
<1>4. Counting'
  BY <1>2, <1>3, FS_EmptySet DEF Counting
<1> QED BY <1>1, <1>2, <1>4, ReportingStays, ReportStep DEF DeskInv, DeskTypes

LEMMA CountingStays == ASSUME DeskInv, UNCHANGED <<slips, tally>> PROVE Counting'
BY DEF DeskInv, Counting, Behind, Slips

LEMMA ServedKeeps == ASSUME DeskInv, CountServed PROVE DeskInv'
<1>1. /\ report' = [NoReport EXCEPT !.at = 2, !.served = answered]
      /\ UNCHANGED <<queueVars, talkVars, readVars, slips, tally, answered, disliked>>
  BY DEF CountServed, queueVars
<1>2. answered \subseteq Threads /\ IsFiniteSet(answered)
  BY DEF DeskInv, DeskTypes
<1>3. report' \in ReportRows /\ report'.at = 2 /\ report'.served = answered
  <2>1. PICK g \in ReportRows : g = NoReport
    <3>1. NoReport \in ReportRows
      BY DEF NoReport, ReportRows
    <3> QED BY <3>1
  <2>2. PICK n \in 1..5 : n = 2
    OBVIOUS
  <2>3. PICK v \in SUBSET Threads : v = answered
    BY <1>2 DEF NoReport, ReportRows
  <2>4. report' = [g EXCEPT !.at = n, !.served = v]
    BY <1>1, <2>1, <2>2, <2>3
  <2> QED BY <1>2, <2>1, <2>2, <2>3, <2>4 DEF ReportRows
<1>4. Reporting'
  BY <1>1, <1>2, <1>3 DEF Reporting, ReportAddsUp, Underway
<1> QED BY <1>1, <1>3, <1>4, CountingStays, ReportStep DEF DeskInv, DeskTypes

LEMMA EscalatedKeeps == ASSUME DeskInv, CountEscalated PROVE DeskInv'
<1>1. /\ report.at = 2 /\ report' = [report EXCEPT !.at = 3, !.escalated = Ticketed]
      /\ UNCHANGED <<queueVars, talkVars, readVars, slips, tally, answered, disliked>>
  BY DEF CountEscalated, queueVars
<1>2. report \in ReportRows /\ Ticketed \subseteq Threads
  BY DEF DeskInv, DeskTypes, Ticketed
<1>3. /\ report' \in ReportRows /\ report'.at = 3
      /\ report'.escalated = Ticketed /\ report'.served = report.served
  <2>1. PICK g \in ReportRows : g = report
    BY <1>2
  <2>2. PICK n \in 1..5 : n = 3
    OBVIOUS
  <2>3. PICK v \in SUBSET Threads : v = Ticketed
    BY <1>2
  <2>4. report' = [g EXCEPT !.at = n, !.escalated = v]
    BY <1>1, <2>1, <2>2, <2>3
  <2> QED BY <1>2, <2>1, <2>2, <2>3, <2>4 DEF ReportRows
<1>4. Ticketed' = Ticketed
  BY <1>1 DEF Ticketed, Slips, Kept
<1>5. Reporting'
  BY <1>1, <1>3, <1>4 DEF DeskInv, Reporting, ReportAddsUp, Underway
<1> QED BY <1>1, <1>3, <1>5, CountingStays, ReportStep DEF DeskInv, DeskTypes

LEMMA RejectedKeeps == ASSUME DeskInv, CountRejected PROVE DeskInv'
<1>1. /\ report.at = 3 /\ report' = [report EXCEPT !.at = 4, !.rejected = disliked]
      /\ UNCHANGED <<queueVars, talkVars, readVars, slips, tally, answered, disliked>>
  BY DEF CountRejected, queueVars
<1>2. report \in ReportRows /\ disliked \subseteq Threads
  BY DEF DeskInv, DeskTypes
<1>3. /\ report' \in ReportRows /\ report'.at = 4 /\ report'.rejected = disliked
      /\ report'.escalated = report.escalated /\ report'.served = report.served
  <2>1. PICK g \in ReportRows : g = report
    BY <1>2
  <2>2. PICK n \in 1..5 : n = 4
    OBVIOUS
  <2>3. PICK v \in SUBSET Threads : v = disliked
    BY <1>2
  <2>4. report' = [g EXCEPT !.at = n, !.rejected = v]
    BY <1>1, <2>1, <2>2, <2>3
  <2> QED BY <1>2, <2>1, <2>2, <2>3, <2>4 DEF ReportRows
<1>4. Ticketed' = Ticketed
  BY <1>1 DEF Ticketed, Slips, Kept
<1>5. Reporting'
  BY <1>1, <1>3, <1>4 DEF DeskInv, Reporting, ReportAddsUp, Underway
<1> QED BY <1>1, <1>3, <1>5, CountingStays, ReportStep DEF DeskInv, DeskTypes

LEMMA FailedKeeps == ASSUME DeskInv, CountFailed PROVE DeskInv'
<1>1. /\ report.at = 4 /\ report' = [report EXCEPT !.at = 5, !.failed = FailedCount]
      /\ UNCHANGED <<queueVars, talkVars, readVars, slips, tally, answered, disliked>>
  BY DEF CountFailed, queueVars
<1>2. /\ report \in ReportRows /\ report.escalated \subseteq Ticketed /\ report.rejected \subseteq disliked
      /\ answered \subseteq report.served /\ IsFiniteSet(report.served)
      /\ disliked \subseteq answered /\ Ticketed \subseteq answered
  BY <1>1 DEF DeskInv, DeskTypes, Reporting, Underway, Ticketed
<1>3. IsFiniteSet(Ticketed \cup disliked) /\ FailedCount <= Cardinality(report.served)
  <2>1. Ticketed \cup disliked \subseteq report.served
    BY <1>2
  <2> QED BY <1>2, <2>1, FS_Subset DEF FailedCount
<1>4. Cardinality(report.escalated \cup report.rejected) <= FailedCount
  <2>1. report.escalated \cup report.rejected \subseteq Ticketed \cup disliked
    BY <1>2
  <2> QED BY <1>3, <2>1, FS_Subset DEF FailedCount
<1>5. FailedCount \in Nat
  BY <1>3, FS_CardinalityType DEF FailedCount
<1>6. /\ report' \in ReportRows /\ report'.at = 5 /\ report'.failed = FailedCount
      /\ report'.escalated = report.escalated /\ report'.rejected = report.rejected
      /\ report'.served = report.served
  <2>1. PICK g \in ReportRows : g = report
    BY <1>2, <1>5
  <2>2. PICK n \in 1..5 : n = 5
    OBVIOUS
  <2>3. PICK v \in Nat : v = FailedCount
    BY <1>2, <1>5
  <2>4. report' = [g EXCEPT !.at = n, !.failed = v]
    BY <1>1, <2>1, <2>2, <2>3
  <2> QED BY <1>2, <2>1, <2>2, <2>3, <2>4 DEF ReportRows
<1>7. Reporting'
  BY <1>3, <1>4, <1>6 DEF Reporting, ReportAddsUp, Underway
<1> QED BY <1>1, <1>6, <1>7, CountingStays, ReportStep DEF DeskInv, DeskTypes

LEMMA PublishKeeps == ASSUME DeskInv, PublishReport PROVE DeskInv'
<1>1. report' = NoReport /\ UNCHANGED <<queueVars, talkVars, readVars, slips, tally, answered, disliked>>
  BY DEF PublishReport, queueVars
<1>2. report' \in ReportRows /\ report'.at = 1
  BY <1>1 DEF NoReport, ReportRows
<1>3. Reporting'
  BY <1>2 DEF Reporting, ReportAddsUp, Underway
<1> QED BY <1>1, <1>2, <1>3, CountingStays, ReportStep DEF DeskInv, DeskTypes

LEMMA AnsweredKeeps == ASSUME DeskInv, NEW s \in Threads, AnsweredIn(s) PROVE DeskInv'
<1>1. /\ answered' = answered \cup {s}
      /\ report' = IF Underway THEN [report EXCEPT !.served = @ \cup {s}] ELSE report
      /\ UNCHANGED <<queueVars, talkVars, readVars, slips, tally, disliked>>
  BY DEF AnsweredIn, queueVars
<1>2. report \in ReportRows /\ answered \subseteq Threads /\ IsFiniteSet(answered) /\ disliked \subseteq answered
  BY DEF DeskInv, DeskTypes
<1>3. answered' \subseteq Threads /\ IsFiniteSet(answered') /\ disliked' \subseteq answered' /\ answered \subseteq answered'
  BY <1>1, <1>2, FS_AddElement
<1>4. Ticketed \subseteq Ticketed'
  BY <1>1, <1>3 DEF Ticketed, Slips, Kept
<1>5. CASE Underway
  <2>1. /\ report' \in ReportRows /\ report'.at = report.at /\ report'.served = report.served \cup {s}
        /\ report'.escalated = report.escalated /\ report'.rejected = report.rejected
    BY <1>1, <1>2, <1>5 DEF ReportRows
  <2>2. IsFiniteSet(report'.served) /\ answered' \subseteq report'.served
    BY <1>1, <1>5, <2>1, FS_AddElement DEF DeskInv, Reporting
  <2>3. Reporting'
    BY <1>1, <1>4, <1>5, <2>1, <2>2 DEF DeskInv, Reporting, ReportAddsUp, Underway
  <2> QED BY <1>1, <1>3, <2>1, <2>3, CountingStays, ReportStep DEF DeskInv, DeskTypes
<1>6. CASE ~Underway
  <2>1. report' = report
    BY <1>1, <1>6
  <2>2. Reporting'
    BY <1>4, <1>6, <2>1 DEF DeskInv, Reporting, ReportAddsUp, Underway
  <2> QED BY <1>1, <1>2, <1>3, <2>1, <2>2, CountingStays, ReportStep DEF DeskInv, DeskTypes
<1> QED BY <1>5, <1>6

LEMMA RatedKeeps == ASSUME DeskInv, NEW s \in Threads, Rated(s) PROVE DeskInv'
<1>1. /\ disliked' \subseteq disliked \cup {s} /\ disliked \ {s} \subseteq disliked' /\ s \in answered
      /\ report' = IF Underway THEN [report EXCEPT !.rejected = @ \ {s}] ELSE report
      /\ UNCHANGED <<queueVars, talkVars, readVars, slips, tally, answered>>
  BY DEF Rated, queueVars
<1>2. report \in ReportRows /\ answered \subseteq Threads /\ IsFiniteSet(answered) /\ disliked \subseteq answered
  BY DEF DeskInv, DeskTypes
<1>3. answered' \subseteq Threads /\ IsFiniteSet(answered') /\ disliked' \subseteq answered'
  BY <1>1, <1>2
<1>4. Ticketed' = Ticketed
  BY <1>1 DEF Ticketed, Slips, Kept
<1>5. CASE Underway
  <2>1. /\ report' \in ReportRows /\ report'.at = report.at /\ report'.served = report.served
        /\ report'.escalated = report.escalated /\ report'.rejected = report.rejected \ {s}
    BY <1>1, <1>2, <1>5 DEF ReportRows
  <2>2. Reporting'
    BY <1>1, <1>4, <1>5, <2>1 DEF DeskInv, Reporting, ReportAddsUp, Underway
  <2> QED BY <1>1, <1>3, <2>1, <2>2, CountingStays, ReportStep DEF DeskInv, DeskTypes
<1>6. CASE ~Underway
  <2>1. report' = report
    BY <1>1, <1>6
  <2>2. Reporting'
    BY <1>4, <1>6, <2>1 DEF DeskInv, Reporting, ReportAddsUp, Underway
  <2> QED BY <1>1, <1>2, <1>3, <2>1, <2>2, CountingStays, ReportStep DEF DeskInv, DeskTypes
<1> QED BY <1>5, <1>6

\* What the report has counted goes with the answers of a conversation.
LEMMA GoneTogether ==
    ASSUME DeskInv, NEW s \in Threads, AnswersGone(s), Slips' = Slips,
           \A u \in Slips : slips'[u].thread = slips[u].thread
                            /\ (slips[u].thread # s => slips'[u].status = slips[u].status)
    PROVE  /\ Reporting' /\ report' \in ReportRows
           /\ answered' \subseteq Threads /\ IsFiniteSet(answered') /\ disliked' \subseteq answered'
<1>1. /\ answered' = answered \ {s} /\ disliked' = disliked \ {s}
      /\ report' = IF Underway THEN [report EXCEPT !.escalated = @ \ {s}, !.rejected = @ \ {s}] ELSE report
  BY DEF AnswersGone
<1>2. report \in ReportRows /\ answered \subseteq Threads /\ IsFiniteSet(answered) /\ disliked \subseteq answered
  BY DEF DeskInv, DeskTypes
<1>3. answered' \subseteq Threads /\ IsFiniteSet(answered') /\ disliked' \subseteq answered'
  BY <1>1, <1>2, FS_Subset
<1>4. Ticketed \ {s} \subseteq Ticketed'
  BY <1>1 DEF Ticketed, Kept
<1>5. CASE Underway
  <2>1. /\ report' \in ReportRows /\ report'.at = report.at /\ report'.served = report.served
        /\ report'.escalated = report.escalated \ {s} /\ report'.rejected = report.rejected \ {s}
    BY <1>1, <1>2, <1>5 DEF ReportRows
  <2>2. Reporting'
    BY <1>1, <1>4, <1>5, <2>1 DEF DeskInv, Reporting, ReportAddsUp, Underway
  <2> QED BY <1>3, <2>1, <2>2
<1>6. CASE ~Underway
  <2>1. report' = report
    BY <1>1, <1>6
  <2>2. Reporting'
    BY <1>6, <2>1 DEF DeskInv, Reporting, ReportAddsUp, Underway
  <2> QED BY <1>2, <1>3, <2>1, <2>2
<1> QED BY <1>5, <1>6

LEMMA AnswersClearKeeps == ASSUME DeskInv, NEW s \in Threads, ClearAnswers(s) PROVE DeskInv'
<1>1. AnswersGone(s) /\ UNCHANGED <<queueVars, talkVars, readVars, slips, tally>>
  BY DEF ClearAnswers, queueVars
<1>2. Slips' = Slips
  BY <1>1 DEF Slips
<1>3. /\ Reporting' /\ report' \in ReportRows
      /\ answered' \subseteq Threads /\ IsFiniteSet(answered') /\ disliked' \subseteq answered'
  BY <1>1, <1>2, GoneTogether
<1> QED BY <1>1, <1>3, CountingStays, ReportStep DEF DeskInv, DeskTypes

LEMMA LinesClearKeeps == ASSUME DeskInv, NEW s \in Threads, ClearLines(s) PROVE DeskInv'
<1>1. /\ lines' \subseteq lines
      /\ UNCHANGED <<slips, askedTier, lastLine, sending, reading, stray, cursor, got, tally, report, answered, disliked>>
  BY DEF ClearLines, queueVars, readVars, reportVars
<1>2. QueueKept /\ QueueTypes' /\ Slips' = Slips
  BY <1>1, QueueQuiet
<1>3. OtherTypes' /\ SendTypes'
  BY <1>1, <1>2, DeskParts DEF DeskInv, OtherTypes, SendTypes
<1>4. SendersHold' /\ ReadersHold' /\ stray' = {}
  BY <1>1, <1>2 DEF DeskInv, SendersHold, ReadersHold, WaitingSlips, Handles
<1>5. \A u : Durable(u)' \subseteq Durable(u)
  BY <1>1 DEF Durable
<1>6. ToCome' /\ Reached' /\ PollsSkipNothing'
  BY <1>1, <1>5 DEF DeskInv, ToCome, Reached, PollsSkipNothing
<1> QED BY <1>2, <1>3, <1>4, <1>6, DeskHolds DEF TalkKept

LEMMA DeleteKeeps == ASSUME DeskInv, NEW s \in Threads, DeleteConversation(s) PROVE DeskInv'
<1>1. PICK n \in Nat : n = Len(slips)
  BY SlipsAre DEF DeskInv
<1>2. Slips = 1..n /\ \A t \in Slips : slips[t] \in SlipRows
  BY <1>1, SlipsAre DEF DeskInv, Slips
<1>3. PICK f : f = [t \in 1..n |->
                    IF slips[t].thread = s THEN [slips[t] EXCEPT !.status = "deleted"] ELSE slips[t]]
  OBVIOUS
<1>4. slips' = f
  BY <1>2, <1>3 DEF DeleteConversation
<1>5. f \in [1..n -> SlipRows]
  <2>1. \A t \in 1..n : [slips[t] EXCEPT !.status = "deleted"] \in SlipRows
    BY <1>2 DEF SlipRows
  <2> QED BY <1>2, <1>3, <2>1
<1>6. slips' \in Seq(SlipRows) /\ Len(slips') = n
  <2>1. f \in Seq(SlipRows)
    BY <1>5, SeqDef
  <2>2. DOMAIN f = 1..n
    BY <1>5
  <2> QED BY <1>4, <2>1, <2>2, LenProperties
<1>7. Slips' = Slips
  BY <1>1, <1>6 DEF Slips
<1>8. \A u \in Slips : /\ slips'[u].thread = slips[u].thread /\ slips'[u].tier = slips[u].tier
                       /\ slips[u].thread = s => slips'[u].status = "deleted"
                       /\ slips[u].thread # s => slips'[u] = slips[u]
  <2>1. SUFFICES ASSUME NEW u \in Slips
                 PROVE  /\ f[u].thread = slips[u].thread /\ f[u].tier = slips[u].tier
                        /\ slips[u].thread = s => f[u].status = "deleted"
                        /\ slips[u].thread # s => f[u] = slips[u]
    BY <1>4
  <2>2. PICK row \in SlipRows : row = slips[u]
    BY <1>2
  <2>3. f[u] = IF row.thread = s THEN [row EXCEPT !.status = "deleted"] ELSE row
    BY <1>2, <1>3, <2>2
  <2> QED BY <2>2, <2>3 DEF SlipRows
<1>9. /\ AnswersGone(s) /\ lines' = {l \in lines : l.thread # s}
      /\ cursor' = [cursor EXCEPT ![s] = 0] /\ got' = [got EXCEPT ![s] = {}]
      /\ UNCHANGED <<watch, askedTier, lastLine, sending, reading, stray, tally>>
      /\ \A t \in Slips : slips[t].thread = s => ~DeskLocked(t)
  BY DEF DeleteConversation
<1>10. /\ Reporting' /\ report' \in ReportRows
       /\ answered' \subseteq Threads /\ IsFiniteSet(answered') /\ disliked' \subseteq answered'
  BY <1>7, <1>8, <1>9, GoneTogether
<1>11. QueueKept
  <2>1. OneWaiting'
    BY <1>7, <1>8 DEF DeskInv, OneWaiting, WaitingSlips
  <2>2. Counting'
    BY <1>7, <1>8, <1>9, CountsFollow
  <2> QED BY <1>6, <1>10, <2>1, <2>2 DEF QueueKept
<1>12. QueueTypes'
  BY <1>1, <1>6, <1>7, <1>8, <1>9 DEF DeskInv, DeskTypes, QueueTypes, UrgencyStays
<1>13. \A m \in sending : m.slip \in Slips /\ m.thread # s /\ slips'[m.slip] = slips[m.slip]
  BY <1>8, <1>9 DEF DeskInv, DeskTypes, SendersHold, DeskLocked, LockedBySender
<1>14. /\ cursor' \in [Threads -> Nat] /\ got' \in [Threads -> SUBSET Nat]
       /\ cursor'[s] = 0 /\ \A u \in Threads : u # s => cursor'[u] = cursor[u] /\ got'[u] = got[u]
  BY <1>9 DEF DeskInv, DeskTypes
<1>15. OtherTypes' /\ SendTypes'
  <2>1. OtherTypes /\ SendTypes
    BY DeskParts DEF DeskInv
  <2>2. \A u \in Threads : cursor'[u] \in 0..lastLine
    BY <1>14, <2>1 DEF OtherTypes
  <2>3. OtherTypes'
    BY <1>9, <1>10, <1>14, <2>1, <2>2 DEF OtherTypes
  <2> QED BY <1>7, <1>9, <2>1, <2>3 DEF SendTypes
<1>16. SendersHold'
  BY <1>9, <1>13 DEF DeskInv, SendersHold, WaitingSlips
<1>17. ReadersHold' /\ stray' = {}
  <2>1. \A a \in Clerks : reading[a] # 0 => reading[a] \in Slips /\ slips'[reading[a]] = slips[reading[a]]
    BY <1>8, <1>9 DEF DeskInv, ReadersHold, DeskLocked, LockedByReader
  <2> QED BY <1>7, <1>9, <2>1 DEF DeskInv, ReadersHold, Handles
<1>18. \A u \in Threads : Durable(u)' \subseteq Durable(u)
  BY <1>9 DEF Durable
<1>19. Durable(s)' = {}
  BY <1>9 DEF Durable
<1>20. ToCome'
  <2>1. \A u : Durable(u)' \subseteq Durable(u)
    BY <1>9 DEF Durable
  <2> QED BY <1>9, <2>1 DEF DeskInv, ToCome
<1>21. Reached'
  <2>1. \A m \in sending : m.thread \in Threads
    BY SlipsAre DEF DeskInv, DeskTypes, SendersHold, SlipRows
  <2> QED BY <1>9, <1>13, <1>14, <2>1 DEF DeskInv, Reached
<1>22. PollsSkipNothing'
  <2>1. SUFFICES ASSUME NEW u \in Threads, NEW i \in Durable(u)', i <= cursor'[u] PROVE i \in got'[u]
    BY DEF PollsSkipNothing
  <2> QED BY <1>14, <1>18, <1>19, <2>1 DEF DeskInv, PollsSkipNothing
<1> QED BY <1>11, <1>12, <1>15, <1>16, <1>17, <1>20, <1>21, <1>22, DeskHolds DEF TalkKept

LEMMA NobodyAtTheDesk == ASSUME DeskInv, UNCHANGED deskVars PROVE DeskInv'
<1>1. /\ UNCHANGED <<queueVars, talkVars, readVars>> /\ UNCHANGED <<slips, tally, report, answered, disliked>>
  BY DEF deskVars, queueVars, talkVars, readVars
<1> QED BY <1>1, ReportingStays, CountingStays, ReportStep DEF DeskInv, DeskTypes

LEMMA DeskSteps == ASSUME DeskInv, [DeskNext]_deskVars PROVE DeskInv'
<1>1. CASE \E s \in Threads, tier \in {FirstTier, Routine} : AskForPerson(s, tier)
  BY <1>1, AskKeeps
<1>2. CASE \E t \in Slips : ResolveSlip(t) \/ \E a \in Clerks : ClaimSlip(a, t) \/ OpenTranscript(a, t)
  BY <1>2, ResolveKeeps, ClaimKeeps, OpenKeeps
<1>3. CASE \E t \in Slips, side \in Sides : WriteLine(slips[t].thread, side, t)
  BY <1>3, WriteKeeps
<1>4. CASE \E m \in sending : FailLine(m) \/ \E resolves \in BOOLEAN : CommitLine(m, resolves)
  BY <1>4, FailKeeps, CommitKeeps
<1>5. CASE \E s \in Threads : PollLines(s) \/ AnsweredIn(s) \/ Rated(s)
  BY <1>5, PollKeeps, AnsweredKeeps, RatedKeeps
<1>6. CASE \E a \in Clerks : ServeTranscript(a)
  BY <1>6, ServeKeeps
<1>7. CASE CountStatus \/ ShowTally
  BY <1>7, CountKeeps, ShowKeeps
<1>8. CASE CountServed \/ CountEscalated \/ CountRejected \/ CountFailed \/ PublishReport
  BY <1>8, ServedKeeps, EscalatedKeeps, RejectedKeeps, FailedKeeps, PublishKeeps
<1>9. CASE \E s \in Threads : ClearAnswers(s) \/ ClearLines(s) \/ DeleteConversation(s)
  BY <1>9, AnswersClearKeeps, LinesClearKeeps, DeleteKeeps
<1>10. CASE UNCHANGED deskVars
  BY <1>10, NobodyAtTheDesk
<1> QED BY <1>1, <1>2, <1>3, <1>4, <1>5, <1>6, <1>7, <1>8, <1>9, <1>10 DEF DeskNext

LEMMA DeskStarts == ASSUME DeskInit PROVE DeskInv
<1>1. /\ slips = <<>> /\ askedTier = <<>> /\ lines = {} /\ lastLine = 0 /\ sending = {} /\ stray = {}
      /\ reading = [a \in Clerks |-> 0] /\ cursor = [s \in Threads |-> 0]
      /\ got = [s \in Threads |-> {}] /\ answered = {} /\ disliked = {}
      /\ tally = NoTally /\ report = NoReport
  BY DEF DeskInit
<1>2. Len(slips) = 0 /\ Len(askedTier) = 0 /\ Slips = {}
  BY <1>1 DEF Slips
<1>3. slips \in Seq(SlipRows) /\ askedTier \in Seq({FirstTier, Routine})
  BY <1>1
<1>4. tally \in TallyRows /\ tally.existed = {} /\ tally.counted = 0
  BY <1>1 DEF NoTally, TallyRows
<1>5. report \in ReportRows /\ report.at = 1
  BY <1>1 DEF NoReport, ReportRows
<1>6. reading \in [Clerks -> Nat] /\ cursor \in [Threads -> Nat] /\ got \in [Threads -> SUBSET Nat]
  BY <1>1
<1>7. \A s \in Threads : cursor[s] = 0 /\ got[s] = {}
  BY <1>1
<1>8. IsFiniteSet(answered)
  BY <1>1, FS_EmptySet
<1>9. DeskTypes
  BY <1>1, <1>2, <1>3, <1>4, <1>5, <1>6, <1>7, <1>8 DEF DeskTypes
<1>10. OneWaiting /\ UrgencyStays /\ SendersHold /\ ToCome /\ Reached
  BY <1>1, <1>2 DEF OneWaiting, UrgencyStays, SendersHold, ToCome, Reached
<1>11. ReadersHold /\ PollsSkipNothing
  BY <1>1, <1>7 DEF ReadersHold, PollsSkipNothing, Durable
<1>12. Counting
  <2>1. Behind = {}
    BY <1>4 DEF Behind
  <2> QED BY <1>4, <2>1, FS_EmptySet DEF Counting
<1>13. Reporting
  BY <1>5 DEF Reporting, ReportAddsUp, Underway
<1> QED BY <1>1, <1>9, <1>10, <1>11, <1>12, <1>13 DEF DeskInv

\* The invariant of the desk: who waits, who holds which row, what the cursor
\* of a poll has passed, and what a count under way may still miss.
THEOREM DeskInvariant == DeskSpec => []DeskInv
<1>1. DeskInit => DeskInv
  BY DeskStarts
<1>2. DeskInv /\ [DeskNext]_deskVars => DeskInv'
  BY DeskSteps
<1> QED BY <1>1, <1>2, PTL DEF DeskSpec

\* Polls skip no message, transcripts end with the claim, the dashboard counts
\* everybody, tickets keep their urgency and reports add up, for any number of
\* conversations, agents, tickets and messages and any length of a page.
THEOREM DeskSound == DeskSpec => []DeskIsSound
<1>1. DeskInv => DeskIsSound
  <2>1. SUFFICES ASSUME DeskInv PROVE DeskIsSound
    OBVIOUS
  <2>2. NobodyIsUncounted
    <3>1. tally.at \in 1..4 /\ tally.counted \in Nat /\ tally.existed \subseteq Slips
          /\ Cardinality(Behind) <= tally.counted
      BY <2>1 DEF DeskInv, DeskTypes, TallyRows, Counting
    <3>2. SUFFICES ASSUME tally.at = 4 PROVE Cardinality({t \in tally.existed : Kept(t)}) <= tally.counted
      <4>1. tally.counted \in Nat /\ Cardinality({t \in tally.existed : Kept(t)}) \in Nat
        <5>1. Len(slips) \in Nat /\ {t \in tally.existed : Kept(t)} \in SUBSET (1..Len(slips))
          BY <2>1, <3>1, SlipsAre DEF DeskInv, Slips
        <5> QED BY <3>1, <5>1, SlipCounts
      <4> QED BY <3>1, <4>1 DEF NobodyIsUncounted
    <3>3. \A t \in Slips : slips[t].status \in {"open", "claimed", "resolved", "deleted"}
      BY <2>1, SlipsAre DEF DeskInv, SlipRows
    <3>4. {t \in tally.existed : Kept(t)} = Behind
      BY <3>1, <3>2, <3>3 DEF Behind, Kept, Passed
    <3> QED BY <3>1, <3>4
  <2>3. PollsSkipNothing /\ ReadsEndWithTheClaim /\ UrgencyStays /\ ReportAddsUp
    BY <2>1 DEF DeskInv, Reporting, ReadsEndWithTheClaim
  <2> QED BY <2>2, <2>3 DEF DeskIsSound
<1> QED BY <1>1, DeskInvariant, PTL

-----------------------------------------------------------------------------
(* The category registry of the shop. *)

Proposable == Builtin \cup {NewCategory[r] : r \in DOMAIN NewCategory}

Switching == {"asking", "archiving", "committing"}
AtWork == Switching \cup {"marking", "refreshing", "loading", "projecting"}

VersionRows == [status : {"none", "draft", "active", "archived"}, cats : SUBSET Proposable]

DeskRows == [pc : AtWork \cup {"off", "mapping"}, job : {0} \cup DOMAIN NewCategory \cup DOMAIN AliasOf,
             target : Versions \cup {0}, cats : SUBSET Proposable, seen : SUBSET Versions,
             locks : SUBSET Versions, alone : BOOLEAN, links : SUBSET DOMAIN AliasOf]

RegistryTypes ==
    /\ versions \in [Versions -> VersionRows] /\ edges \subseteq DOMAIN AliasOf
    /\ desk \in [Admins -> DeskRows]
    /\ crowded \in BOOLEAN /\ unprojected \in BOOLEAN

Published(v) == versions[v].status # "none"

\* The version a command is about to switch to is its own, or it has the
\* categories already; what it locked or maps is there for good.
Aimed(a) ==
    /\ desk[a].pc \in Switching =>
          /\ desk[a].target \in Versions
          /\ Published(desk[a].target) => desk[a].cats = versions[desk[a].target].cats
          /\ ~Published(desk[a].target) => \A b \in Admins \ {a} : desk[b].target # desk[a].target
    /\ \A v \in desk[a].locks : Published(v)
    /\ desk[a].pc = "mapping" =>
          \A v \in desk[a].seen : Published(v) /\ desk[a].cats \subseteq versions[v].cats

\* Who is alone shares the tables with mappings only.
Undisturbed(a) ==
    /\ desk[a].alone => \A b \in Admins \ {a} : desk[b].pc \in {"off", "mapping"}
    /\ ~desk[a].alone /\ desk[a].pc \in AtWork => crowded

ShowsServed(d) == d.links = {r \in edges : AliasOf[r] \in d.cats}

\* What an approval publishes.
Approving(a) ==
    /\ desk[a].pc \in Switching /\ desk[a].job # 0 =>
          desk[a].job \in DOMAIN NewCategory /\ NewCategory[desk[a].job] \in desk[a].cats
    /\ desk[a].pc = "marking" => desk[a].job \in DOMAIN NewCategory

\* What a command that is alone knows of the tables.
Informed(a) ==
    desk[a].alone =>
        /\ desk[a].pc \in Switching /\ desk[a].job # 0 => due \subseteq desk[a].cats
        /\ desk[a].pc = "archiving" => desk[a].seen = Actives
        /\ desk[a].pc = "committing" => desk[a].locks = Actives
        /\ desk[a].pc = "marking" =>
              ~crowded /\ \A cats \in Served : NewCategory[desk[a].job] \in cats
        /\ ~crowded /\ desk[a].pc \in {"loading", "projecting"} => desk[a].cats \in Served
        /\ ~crowded /\ desk[a].pc = "projecting" => ShowsServed(desk[a])

OneServed ==
    ~crowded => (\A v, w \in Actives : v = w) /\ \A cats \in Served : due \subseteq cats

Projected ==
    ~crowded /\ ~unprojected =>
        \A cats \in Served : graph = [cats |-> cats, links |-> {r \in edges : AliasOf[r] \in cats}]

MappingsHold == \A p \in mappings : p[1] \in Versions /\ Published(p[1]) /\ p[2] \in versions[p[1]].cats

DesksInv == \A a \in Admins : Aimed(a) /\ Undisturbed(a) /\ Approving(a) /\ Informed(a)

TablesInv ==
    /\ \A v \in Versions : ~Published(v) => versions[v].cats = {}
    /\ OneServed /\ Projected /\ MappingsHold
    /\ crowded => due = {}
    /\ NeverBackToBuiltin

RegistryInv == RegistryTypes /\ DesksInv /\ TablesInv

-----------------------------------------------------------------------------
LEMMA OffIsARow == Off \in DeskRows
BY DEF Off, DeskRows, AtWork, Switching

LEMMA DeskOf ==
    ASSUME RegistryInv, NEW a \in Admins
    PROVE  /\ desk[a] \in DeskRows /\ Aimed(a) /\ Undisturbed(a) /\ Approving(a) /\ Informed(a)
           /\ desk \in [Admins -> DeskRows]
BY DEF RegistryInv, RegistryTypes, DesksInv

LEMMA ServedHolds ==
    ASSUME RegistryTypes, NEW cats \in Served
    PROVE  cats \subseteq Proposable
BY DEF RegistryTypes, Served, Actives, VersionRows, Proposable

\* One command goes on or ends while the versions stay: what the others rely
\* on stays, if it tells the truth about itself.
DeskStep(a, new) ==
    /\ new \in DeskRows
    /\ desk' = [desk EXCEPT ![a] = new]
    /\ UNCHANGED <<versions, edges, crowded>>
    /\ due' = due \/ desk[a].alone
    /\ new.alone => desk[a].alone
    /\ new.pc \in AtWork => desk[a].pc \in AtWork /\ new.alone = desk[a].alone
    /\ new.target \in {desk[a].target, 0}
    /\ new.pc \in Switching => desk[a].pc \in Switching /\ new.target = desk[a].target /\ new.cats = desk[a].cats
                               /\ new.job = desk[a].job

Truthful(a) == Aimed(a) /\ Approving(a) /\ Informed(a)

LEMMA SameVersions ==
    ASSUME UNCHANGED versions
    PROVE  /\ Actives' = Actives /\ Served' = Served
           /\ \A v : Published(v)' <=> Published(v)
BY DEF Actives, Served, Published

LEMMA DeskStepKeeps ==
    ASSUME RegistryInv, NEW a \in Admins, NEW new, DeskStep(a, new), Truthful(a)'
    PROVE  DesksInv' /\ (desk \in [Admins -> DeskRows])'
<1>1. /\ new \in DeskRows /\ desk' = [desk EXCEPT ![a] = new] /\ UNCHANGED <<versions, edges, crowded>>
      /\ due' = due \/ desk[a].alone
      /\ new.alone => desk[a].alone
      /\ new.pc \in AtWork => desk[a].pc \in AtWork /\ new.alone = desk[a].alone
      /\ new.target \in {desk[a].target, 0}
  BY DEF DeskStep
<1>2. desk'[a] = new /\ (\A b \in Admins \ {a} : desk'[b] = desk[b]) /\ (desk \in [Admins -> DeskRows])'
  BY <1>1, DeskOf
<1>3. UNCHANGED <<Actives, Served>> /\ \A v : Published(v)' <=> Published(v)
  BY <1>1, SameVersions
<1>4. new.pc \in AtWork \cup {"off", "mapping"} /\ "off" \notin AtWork /\ "mapping" \notin AtWork
  BY <1>1 DEF DeskRows, AtWork, Switching
<1>5. Undisturbed(a)'
  BY <1>1, <1>2, DeskOf DEF Undisturbed
<1>6. ASSUME NEW b \in Admins, b # a PROVE Aimed(b)' /\ Undisturbed(b)' /\ Approving(b)' /\ Informed(b)'
  <2>1. desk'[b] = desk[b] /\ Aimed(b) /\ Undisturbed(b) /\ Approving(b) /\ Informed(b) /\ desk[b] \in DeskRows
    BY <1>2, <1>6, DeskOf
  <2>2. Undisturbed(b)'
    <3>1. \A c \in Admins \ {b} : desk[c].pc \in {"off", "mapping"} => desk'[c].pc \in {"off", "mapping"}
      BY <1>1, <1>2, <1>4
    <3> QED BY <1>1, <2>1, <3>1 DEF Undisturbed
  <2>3. Approving(b)'
    BY <2>1 DEF Approving
  <2>4. Aimed(b)'
    <3>1. 0 \notin Versions
      BY TaxonomyAssumption DEF Versions
    <3>2. \A c \in Admins \ {b} : desk'[c].target \in {desk[c].target, 0}
      BY <1>1, <1>2
    <3> QED BY <1>1, <1>3, <2>1, <3>1, <3>2 DEF Aimed
  <2>5. Informed(b)'
    <3>1. CASE due' = due
      BY <1>1, <1>3, <2>1, <3>1 DEF Informed, ShowsServed
    <3>2. CASE desk[a].alone
      <4>1. desk[b].pc \in {"off", "mapping"}
        BY <1>6, <3>2, DeskOf DEF Undisturbed
      <4> QED BY <2>1, <4>1 DEF Informed, Switching
    <3> QED BY <1>1, <3>1, <3>2
  <2> QED BY <2>2, <2>3, <2>4, <2>5
<1> QED BY <1>2, <1>5, <1>6 DEF DesksInv, Truthful

\* The tables of a step that changes none of them.
LEMMA TablesStay ==
    ASSUME RegistryInv, UNCHANGED <<tables, graph, toldVars>>
    PROVE  TablesInv' /\ (desk \in [Admins -> DeskRows] => RegistryTypes)'
<1>1. UNCHANGED <<versions, edges, mappings, graph, crowded, unprojected, due>>
  BY DEF tables, toldVars
<1>2. UNCHANGED <<Actives, Served>> /\ \A v : Published(v)' <=> Published(v)
  BY <1>1, SameVersions
<1> QED BY <1>1, <1>2 DEF RegistryInv, TablesInv, RegistryTypes, OneServed, Projected, MappingsHold,
                        NeverBackToBuiltin

LEMMA QuietStepKeeps ==
    ASSUME RegistryInv, NEW a \in Admins, NEW new, DeskStep(a, new), Truthful(a)',
           UNCHANGED <<tables, graph, toldVars>>
    PROVE  RegistryInv'
BY DeskStepKeeps, TablesStay DEF RegistryInv

LEMMA FailsKeeps == ASSUME RegistryInv, NEW a \in Admins, Fails(a) PROVE RegistryInv'
<1>1. desk' = [desk EXCEPT ![a] = Off] /\ UNCHANGED <<tables, graph, toldVars>>
  BY DEF Fails, Set
<1>2. UNCHANGED <<versions, edges, crowded, due>>
  BY <1>1 DEF tables, toldVars
<1>3. Off.pc = "off" /\ Off.target = 0 /\ Off.alone = FALSE /\ Off.locks = {} /\ "off" \notin AtWork /\ "off" \notin Switching
  BY DEF Off, AtWork, Switching
<1>4. DeskStep(a, Off)
  BY <1>1, <1>2, <1>3, OffIsARow DEF DeskStep
<1>5. desk'[a] = Off
  BY <1>1, DeskOf
<1>6. Truthful(a)'
  BY <1>3, <1>5 DEF Truthful, Aimed, Approving, Informed
<1> QED BY <1>1, <1>4, <1>6, QuietStepKeeps

LEMMA AskForActivesKeeps == ASSUME RegistryInv, NEW a \in Admins, AskForActives(a) PROVE RegistryInv'
<1>1. PICK old \in DeskRows : old = desk[a]
  BY DeskOf
<1>2. PICK new : new = [old EXCEPT !.pc = "archiving", !.seen = Actives]
  OBVIOUS
<1>3. old.pc = "asking" /\ desk' = [desk EXCEPT ![a] = new] /\ UNCHANGED <<tables, graph, toldVars>>
  BY <1>1, <1>2 DEF AskForActives, Set
<1>4. Actives \subseteq Versions
  BY DEF Actives
<1>5. new \in DeskRows
  BY <1>2, <1>4 DEF DeskRows, AtWork, Switching
<1>6. /\ new.pc = "archiving" /\ new.seen = Actives /\ new.job = old.job /\ new.target = old.target
      /\ new.cats = old.cats /\ new.locks = old.locks /\ new.alone = old.alone
  BY <1>2 DEF DeskRows
<1>7. UNCHANGED <<versions, edges, crowded, due>> /\ desk'[a] = new
  BY <1>1, <1>3, DeskOf DEF tables, toldVars
<1>8. "archiving" \in AtWork /\ "archiving" \in Switching /\ "asking" \in AtWork /\ "asking" \in Switching
  BY DEF AtWork, Switching
<1>9. DeskStep(a, new)
  BY <1>1, <1>3, <1>5, <1>6, <1>7, <1>8 DEF DeskStep
<1>10. /\ UNCHANGED <<Actives, Served>> /\ (\A v : Published(v)' <=> Published(v))
       /\ \A b \in Admins \ {a} : desk'[b] = desk[b]
  BY <1>3, <1>7, SameVersions, DeskOf
<1>11. Aimed(a)'
  BY <1>1, <1>3, <1>6, <1>7, <1>8, <1>10, DeskOf DEF Aimed
<1>12. Approving(a)'
  BY <1>1, <1>3, <1>6, <1>7, <1>8, DeskOf DEF Approving
<1>13. Informed(a)'
  <2>1. old.alone /\ old.job # 0 => due \subseteq old.cats
    BY <1>1, <1>3, <1>8, DeskOf DEF Informed
  <2>2. /\ desk'[a].pc = "archiving" /\ desk'[a].seen = Actives' /\ due' = due
        /\ desk'[a].cats = old.cats /\ desk'[a].job = old.job /\ desk'[a].alone = old.alone
    BY <1>6, <1>7, <1>10
  <2> QED BY <2>1, <2>2 DEF Informed
<1> QED BY <1>3, <1>9, <1>11, <1>12, <1>13, QuietStepKeeps DEF Truthful

LEMMA ArchiveKeeps == ASSUME RegistryInv, NEW a \in Admins, Archive(a) PROVE RegistryInv'
<1>1. PICK old \in DeskRows : old = desk[a]
  BY DeskOf
<1>2. PICK held : held = old.seen \cap Actives
  OBVIOUS
<1>3. PICK new : new = [old EXCEPT !.pc = "committing", !.locks = held]
  OBVIOUS
<1>4. old.pc = "archiving" /\ desk' = [desk EXCEPT ![a] = new] /\ UNCHANGED <<tables, graph, toldVars>>
  BY <1>1, <1>2, <1>3 DEF Archive, Set
<1>5. held \subseteq Versions /\ (\A v \in held : Published(v)) /\ held \subseteq Actives
  BY <1>2 DEF Actives, Published
<1>6. new \in DeskRows
  BY <1>3, <1>5 DEF DeskRows, AtWork, Switching
<1>7. /\ new.pc = "committing" /\ new.locks = held /\ new.job = old.job /\ new.target = old.target
      /\ new.cats = old.cats /\ new.alone = old.alone
  BY <1>3 DEF DeskRows
<1>8. UNCHANGED <<versions, edges, crowded, due>> /\ desk'[a] = new
  BY <1>1, <1>4, DeskOf DEF tables, toldVars
<1>9. /\ "archiving" \in AtWork /\ "archiving" \in Switching
      /\ "committing" \in AtWork /\ "committing" \in Switching
  BY DEF AtWork, Switching
<1>10. DeskStep(a, new)
  BY <1>1, <1>4, <1>6, <1>7, <1>8, <1>9 DEF DeskStep
<1>11. /\ UNCHANGED <<Actives, Served>> /\ (\A v : Published(v)' <=> Published(v))
       /\ \A b \in Admins \ {a} : desk'[b] = desk[b]
  BY <1>4, <1>8, SameVersions, DeskOf
<1>12. Aimed(a)'
  BY <1>1, <1>4, <1>5, <1>7, <1>8, <1>9, <1>11, DeskOf DEF Aimed
<1>13. Approving(a)'
  BY <1>1, <1>4, <1>7, <1>8, <1>9, DeskOf DEF Approving
<1>14. Informed(a)'
  BY <1>1, <1>2, <1>4, <1>7, <1>8, <1>9, <1>11, DeskOf DEF Informed
<1> QED BY <1>4, <1>10, <1>12, <1>13, <1>14, QuietStepKeeps DEF Truthful

LEMMA LoadTaxonomyKeeps == ASSUME RegistryInv, NEW a \in Admins, LoadTaxonomy(a) PROVE RegistryInv'
<1>1. PICK old \in DeskRows : old = desk[a]
  BY DeskOf
<1>2. PICK cats \in Served : desk' = [desk EXCEPT ![a] = [old EXCEPT !.pc = "loading", !.cats = cats]]
  BY <1>1 DEF LoadTaxonomy, Set
<1>3. PICK new : new = [old EXCEPT !.pc = "loading", !.cats = cats]
  OBVIOUS
<1>4. old.pc = "refreshing" /\ desk' = [desk EXCEPT ![a] = new] /\ UNCHANGED <<tables, graph, toldVars>>
  BY <1>1, <1>2, <1>3 DEF LoadTaxonomy
<1>5. cats \subseteq Proposable
  BY <1>2, ServedHolds DEF RegistryInv
<1>6. new \in DeskRows
  BY <1>3, <1>5 DEF DeskRows, AtWork, Switching
<1>7. /\ new.pc = "loading" /\ new.locks = old.locks /\ new.target = old.target
      /\ new.cats = cats /\ new.alone = old.alone
  BY <1>3 DEF DeskRows
<1>8. UNCHANGED <<versions, edges, crowded, due>> /\ desk'[a] = new
  BY <1>1, <1>4, DeskOf DEF tables, toldVars
<1>9. "loading" \in AtWork /\ "refreshing" \in AtWork /\ "loading" \notin Switching
  BY DEF AtWork, Switching
<1>10. DeskStep(a, new)
  BY <1>1, <1>4, <1>6, <1>7, <1>8, <1>9 DEF DeskStep
<1>11. UNCHANGED Served /\ \A v : Published(v)' <=> Published(v)
  BY <1>8, SameVersions
<1>12. Truthful(a)'
  BY <1>1, <1>2, <1>4, <1>7, <1>8, <1>9, <1>11, DeskOf DEF Truthful, Aimed, Approving, Informed
<1> QED BY <1>4, <1>10, <1>12, QuietStepKeeps

LEMMA LoadSemanticsKeeps == ASSUME RegistryInv, NEW a \in Admins, LoadSemantics(a) PROVE RegistryInv'
<1>1. PICK old \in DeskRows : old = desk[a]
  BY DeskOf
<1>2. PICK links : links = {r \in edges : AliasOf[r] \in old.cats}
  OBVIOUS
<1>3. PICK new : new = [old EXCEPT !.pc = "projecting", !.links = links]
  OBVIOUS
<1>4. old.pc = "loading" /\ desk' = [desk EXCEPT ![a] = new] /\ UNCHANGED <<tables, graph, toldVars>>
  BY <1>1, <1>2, <1>3 DEF LoadSemantics, Set
<1>5. links \subseteq DOMAIN AliasOf
  BY <1>2 DEF RegistryInv, RegistryTypes
<1>6. new \in DeskRows
  BY <1>3, <1>5 DEF DeskRows, AtWork, Switching
<1>7. /\ new.pc = "projecting" /\ new.locks = old.locks /\ new.target = old.target
      /\ new.cats = old.cats /\ new.alone = old.alone /\ new.links = links
  BY <1>3 DEF DeskRows
<1>8. UNCHANGED <<versions, edges, crowded, due>> /\ desk'[a] = new
  BY <1>1, <1>4, DeskOf DEF tables, toldVars
<1>9. "loading" \in AtWork /\ "projecting" \in AtWork /\ "projecting" \notin Switching
  BY DEF AtWork, Switching
<1>10. DeskStep(a, new)
  BY <1>1, <1>4, <1>6, <1>7, <1>8, <1>9 DEF DeskStep
<1>11. UNCHANGED Served /\ \A v : Published(v)' <=> Published(v)
  BY <1>8, SameVersions
<1>12. Aimed(a)' /\ Approving(a)'
  BY <1>1, <1>4, <1>7, <1>8, <1>9, <1>11, DeskOf DEF Aimed, Approving
<1>13. Informed(a)'
  BY <1>1, <1>2, <1>4, <1>7, <1>8, <1>9, <1>11, DeskOf DEF Informed, ShowsServed
<1> QED BY <1>4, <1>10, <1>12, <1>13, QuietStepKeeps DEF Truthful

LEMMA BeginMappingKeeps ==
    ASSUME RegistryInv, NEW a \in Admins, NEW c, BeginMapping(a, c)
    PROVE  RegistryInv'
<1>1. PICK v \in Actives : c \in versions[v].cats
                           /\ Set(a, [Off EXCEPT !.pc = "mapping", !.seen = {v}, !.cats = {c}])
  BY DEF BeginMapping
<1>2. PICK old \in DeskRows : old = desk[a]
  BY DeskOf
<1>3. PICK one : one = {v}
  OBVIOUS
<1>4. PICK only : only = {c}
  OBVIOUS
<1>5. PICK new : new = [Off EXCEPT !.pc = "mapping", !.seen = one, !.cats = only]
  OBVIOUS
<1>6. old.pc = "off" /\ desk' = [desk EXCEPT ![a] = new] /\ UNCHANGED <<tables, graph, toldVars>>
  BY <1>1, <1>2, <1>3, <1>4, <1>5 DEF BeginMapping, IdleDesk, Set
<1>7. v \in Versions /\ versions[v].cats \subseteq Proposable /\ Published(v)
  BY <1>1 DEF Actives, RegistryInv, RegistryTypes, VersionRows, Published
<1>8. one \subseteq Versions /\ only \subseteq Proposable
  BY <1>1, <1>3, <1>4, <1>7
<1>9. new \in DeskRows
  BY <1>5, <1>8, OffIsARow DEF DeskRows
<1>10. /\ new.pc = "mapping" /\ new.seen = one /\ new.cats = only /\ new.alone = FALSE
       /\ new.target = 0 /\ new.locks = {}
  BY <1>5 DEF Off
<1>11. UNCHANGED <<versions, edges, crowded, due>> /\ desk'[a] = new
  BY <1>2, <1>6, DeskOf DEF tables, toldVars
<1>12. "mapping" \notin AtWork /\ "mapping" \notin Switching
  BY DEF AtWork, Switching
<1>13. DeskStep(a, new)
  BY <1>2, <1>6, <1>9, <1>10, <1>11, <1>12 DEF DeskStep
<1>14. \A w : Published(w)' <=> Published(w)
  BY <1>11, SameVersions
<1>15. Truthful(a)'
  BY <1>1, <1>3, <1>4, <1>7, <1>10, <1>11, <1>12, <1>14 DEF Truthful, Aimed, Approving, Informed
<1> QED BY <1>6, <1>13, <1>15, QuietStepKeeps

LEMMA MarkApprovedKeeps == ASSUME RegistryInv, NEW a \in Admins, MarkApproved(a) PROVE RegistryInv'
<1>1. PICK old \in DeskRows : old = desk[a]
  BY DeskOf
<1>2. PICK new : new = [old EXCEPT !.pc = "refreshing"]
  OBVIOUS
<1>3. /\ old.pc = "marking" /\ desk' = [desk EXCEPT ![a] = new] /\ UNCHANGED <<tables, graph, crowded, unprojected>>
      /\ due' = IF old.alone THEN due \cup {NewCategory[old.job]} ELSE due
  BY <1>1, <1>2 DEF MarkApproved, Set
<1>4. new \in DeskRows
  BY <1>2 DEF DeskRows, AtWork, Switching
<1>5. /\ new.pc = "refreshing" /\ new.locks = old.locks /\ new.target = old.target /\ new.alone = old.alone
  BY <1>2 DEF DeskRows
<1>6. UNCHANGED <<versions, edges, mappings, graph, crowded, unprojected>> /\ desk'[a] = new
  BY <1>1, <1>3, DeskOf DEF tables
<1>7. "marking" \in AtWork /\ "refreshing" \in AtWork /\ "refreshing" \notin Switching
  BY DEF AtWork, Switching
<1>8. DeskStep(a, new)
  BY <1>1, <1>3, <1>4, <1>5, <1>6, <1>7 DEF DeskStep
<1>9. UNCHANGED <<Actives, Served>> /\ \A v : Published(v)' <=> Published(v)
  BY <1>6, SameVersions
<1>10. Truthful(a)'
  BY <1>1, <1>3, <1>5, <1>6, <1>7, <1>9, DeskOf DEF Truthful, Aimed, Approving, Informed
<1>11. DesksInv' /\ RegistryTypes'
  BY <1>6, <1>8, <1>10, DeskStepKeeps DEF RegistryInv, RegistryTypes
<1>12. old.alone => ~crowded /\ \A cats \in Served : NewCategory[old.job] \in cats
  BY <1>1, <1>3, DeskOf DEF Informed
<1>13. OneServed'
  <2>1. SUFFICES ASSUME ~crowded, NEW cats \in Served PROVE due' \subseteq cats
    BY <1>6, <1>9 DEF OneServed, RegistryInv, TablesInv
  <2> QED BY <1>3, <1>12, <2>1 DEF OneServed, RegistryInv, TablesInv
<1>14. (crowded => due = {})'
  BY <1>3, <1>6, <1>12 DEF RegistryInv, TablesInv
<1>15. Projected' /\ MappingsHold' /\ NeverBackToBuiltin'
  BY <1>6, <1>9 DEF RegistryInv, TablesInv, Projected, MappingsHold, NeverBackToBuiltin
<1>16. \A v \in Versions : ~Published(v)' => versions'[v].cats = {}
  BY <1>6, <1>9 DEF RegistryInv, TablesInv
<1> QED BY <1>11, <1>13, <1>14, <1>15, <1>16 DEF RegistryInv, TablesInv

LEMMA ProjectKeeps == ASSUME RegistryInv, NEW a \in Admins, Project(a) PROVE RegistryInv'
<1>1. PICK old \in DeskRows : old = desk[a]
  BY DeskOf
<1>2. /\ old.pc = "projecting" /\ desk' = [desk EXCEPT ![a] = Off] /\ UNCHANGED <<tables, crowded, due>>
      /\ graph' = [cats |-> old.cats, links |-> old.links] /\ unprojected' = FALSE
  BY <1>1 DEF Project, Set
<1>3. UNCHANGED <<versions, edges, mappings, crowded, due>> /\ desk'[a] = Off
  BY <1>2, DeskOf DEF tables
<1>4. Off.pc = "off" /\ Off.target = 0 /\ Off.alone = FALSE /\ Off.locks = {} /\ "off" \notin AtWork /\ "off" \notin Switching
      /\ "projecting" \in AtWork
  BY DEF Off, AtWork, Switching
<1>5. DeskStep(a, Off)
  BY <1>2, <1>3, <1>4, OffIsARow DEF DeskStep
<1>6. Truthful(a)'
  BY <1>3, <1>4 DEF Truthful, Aimed, Approving, Informed
<1>7. DesksInv' /\ RegistryTypes'
  BY <1>2, <1>3, <1>5, <1>6, DeskStepKeeps DEF RegistryInv, RegistryTypes
<1>8. UNCHANGED <<Actives, Served>> /\ \A v : Published(v)' <=> Published(v)
  BY <1>3, SameVersions
<1>9. Projected'
  <2>1. SUFFICES ASSUME ~crowded, NEW cats \in Served
                 PROVE  graph' = [cats |-> cats, links |-> {r \in edges : AliasOf[r] \in cats}]
    BY <1>3, <1>8 DEF Projected
  <2>2. old.alone
    BY <1>1, <1>2, <1>4, <2>1, DeskOf DEF Undisturbed, DeskRows
  <2>3. old.cats \in Served /\ old.links = {r \in edges : AliasOf[r] \in old.cats}
    BY <1>1, <1>2, <2>1, <2>2, DeskOf DEF Informed, ShowsServed
  <2>4. \A v, w \in Actives : v = w
    BY <2>1 DEF OneServed, RegistryInv, TablesInv
  <2>5. cats = old.cats
    BY <2>1, <2>3, <2>4 DEF Served
  <2> QED BY <1>2, <2>3, <2>5
<1>10. OneServed' /\ MappingsHold' /\ NeverBackToBuiltin' /\ (crowded => due = {})'
  BY <1>3, <1>8 DEF RegistryInv, TablesInv, OneServed, MappingsHold, NeverBackToBuiltin
<1>11. \A v \in Versions : ~Published(v)' => versions'[v].cats = {}
  BY <1>3, <1>8 DEF RegistryInv, TablesInv
<1> QED BY <1>7, <1>9, <1>10, <1>11 DEF RegistryInv, TablesInv

LEMMA WriteMappingKeeps == ASSUME RegistryInv, NEW a \in Admins, WriteMapping(a) PROVE RegistryInv'
<1>1. PICK old \in DeskRows : old = desk[a]
  BY DeskOf
<1>2. /\ old.pc = "mapping" /\ desk' = [desk EXCEPT ![a] = Off] /\ UNCHANGED <<versions, edges, graph, toldVars>>
      /\ mappings' = mappings \cup (old.seen \X old.cats)
  BY <1>1 DEF WriteMapping, Set
<1>3. UNCHANGED <<versions, edges, graph, crowded, unprojected, due>> /\ desk'[a] = Off
  BY <1>2, DeskOf DEF toldVars
<1>4. Off.pc = "off" /\ Off.target = 0 /\ Off.alone = FALSE /\ Off.locks = {} /\ "off" \notin AtWork /\ "off" \notin Switching
  BY DEF Off, AtWork, Switching
<1>5. DeskStep(a, Off)
  BY <1>2, <1>3, <1>4, OffIsARow DEF DeskStep
<1>6. Truthful(a)'
  BY <1>3, <1>4 DEF Truthful, Aimed, Approving, Informed
<1>7. DesksInv' /\ RegistryTypes'
  BY <1>3, <1>5, <1>6, DeskStepKeeps DEF RegistryInv, RegistryTypes
<1>8. UNCHANGED <<Actives, Served>> /\ \A v : Published(v)' <=> Published(v)
  BY <1>3, SameVersions
<1>9. MappingsHold'
  <2>1. SUFFICES ASSUME NEW p \in mappings'
                 PROVE  p[1] \in Versions /\ Published(p[1]) /\ p[2] \in versions[p[1]].cats
    BY <1>3, <1>8 DEF MappingsHold
  <2>2. CASE p \in mappings
    BY <2>2 DEF MappingsHold, RegistryInv, TablesInv
  <2>3. CASE p \in old.seen \X old.cats
    <3>1. p[1] \in old.seen /\ p[2] \in old.cats /\ old.seen \subseteq Versions
      BY <2>3 DEF DeskRows
    <3> QED BY <1>1, <1>2, <3>1, DeskOf DEF Aimed
  <2> QED BY <1>2, <2>1, <2>2, <2>3
<1>10. OneServed' /\ Projected' /\ NeverBackToBuiltin' /\ (crowded => due = {})'
  BY <1>3, <1>8 DEF RegistryInv, TablesInv, OneServed, Projected, NeverBackToBuiltin
<1>11. \A v \in Versions : ~Published(v)' => versions'[v].cats = {}
  BY <1>3, <1>8 DEF RegistryInv, TablesInv
<1> QED BY <1>7, <1>9, <1>10, <1>11 DEF RegistryInv, TablesInv

LEMMA PublishDraftKeeps ==
    ASSUME RegistryInv, NEW a \in Admins, PublishDraft(a, Builtin)
    PROVE  RegistryInv'
<1>1. PICK v \in Vacant : versions' = [versions EXCEPT ![v] = [status |-> "draft", cats |-> Builtin]]
  BY DEF PublishDraft
<1>2. UNCHANGED <<edges, mappings, graph, desk, crowded, unprojected, due>>
  BY DEF PublishDraft, toldVars
<1>3. PICK draft : draft = [status |-> "draft", cats |-> Builtin]
  OBVIOUS
<1>4. draft \in VersionRows /\ draft.status = "draft" /\ versions' = [versions EXCEPT ![v] = draft]
  BY <1>1, <1>3 DEF VersionRows, Proposable
<1>5. /\ v \in Versions /\ ~Published(v) /\ v \notin Actives /\ versions[v].status # "archived"
      /\ \A b \in Admins : desk[b].target # v
  BY <1>1 DEF Vacant, Published, Actives
<1>6. /\ versions' \in [Versions -> VersionRows] /\ versions'[v].status = "draft"
      /\ \A w \in Versions \ {v} : versions'[w] = versions[w]
  BY <1>4, <1>5 DEF RegistryInv, RegistryTypes
<1>7. Published(v)' /\ \A w \in Versions \ {v} : Published(w)' <=> Published(w)
  BY <1>6 DEF Published
<1>8. Actives' = Actives
  BY <1>5, <1>6 DEF Actives
<1>9. Served' = Served
  <2>1. \A w \in Actives : versions'[w].cats = versions[w].cats
    BY <1>5, <1>6 DEF Actives
  <2>2. {versions'[w].cats : w \in Actives} = {versions[w].cats : w \in Actives}
    BY <2>1
  <2>3. Served' = IF Actives = {} THEN {Builtin} ELSE {versions'[w].cats : w \in Actives}
    BY <1>8 DEF Served
  <2> QED BY <2>2, <2>3 DEF Served
<1>10. RegistryTypes'
  BY <1>2, <1>6 DEF RegistryInv, RegistryTypes
<1>11. ASSUME NEW b \in Admins PROVE Aimed(b)' /\ Undisturbed(b)' /\ Approving(b)' /\ Informed(b)'
  <2>1. desk[b] \in DeskRows /\ Aimed(b) /\ Undisturbed(b) /\ Approving(b) /\ Informed(b)
    BY DeskOf
  <2>2. desk[b].locks \subseteq Versions /\ desk[b].seen \subseteq Versions
    BY <2>1 DEF DeskRows
  <2>3. Aimed(b)'
    BY <1>2, <1>5, <1>6, <1>7, <2>1, <2>2 DEF Aimed
  <2> QED BY <1>2, <1>8, <1>9, <2>1, <2>3 DEF Undisturbed, Approving, Informed, ShowsServed
<1>12. OneServed' /\ Projected' /\ NeverBackToBuiltin' /\ (crowded => due = {})'
  BY <1>2, <1>5, <1>6, <1>8, <1>9 DEF RegistryInv, TablesInv, OneServed, Projected, NeverBackToBuiltin
<1>13. MappingsHold'
  BY <1>2, <1>5, <1>6, <1>7 DEF RegistryInv, TablesInv, MappingsHold
<1>14. \A w \in Versions : ~Published(w)' => versions'[w].cats = {}
  BY <1>6, <1>7 DEF RegistryInv, TablesInv
<1> QED BY <1>10, <1>11, <1>12, <1>13, <1>14 DEF RegistryInv, TablesInv, DesksInv

\* What a command that opens has to start with.
Opening(d) ==
    /\ d \in DeskRows /\ d.locks = {} /\ d.pc \in {"asking", "refreshing"}
    /\ d.pc = "refreshing" => d.target = 0
    /\ d.pc = "asking" =>
          /\ d.target \in Versions
          /\ Published(d.target) => d.cats = versions[d.target].cats
          /\ ~Published(d.target) => \A b \in Admins : desk[b].target # d.target
          /\ d.job # 0 =>
                d.job \in DOMAIN NewCategory /\ NewCategory[d.job] \in d.cats /\ due \subseteq d.cats

LEMMA OpensKeeps ==
    ASSUME RegistryInv, NEW a \in Admins, NEW d, Opening(d), Opens(a, d),
           UNCHANGED <<versions, mappings, graph>>, edges' \subseteq DOMAIN AliasOf,
           unprojected' = TRUE \/ UNCHANGED <<edges, unprojected>>
    PROVE  RegistryInv'
<1>1. PICK alone \in BOOLEAN : alone <=> \A b \in Admins \ {a} : IdleDesk(b)
  OBVIOUS
<1>2. /\ desk' = [b \in Admins |-> IF b = a THEN [d EXCEPT !.alone = alone]
                                   ELSE [desk[b] EXCEPT !.alone = FALSE]]
      /\ crowded' = (crowded \/ ~alone)
      /\ due' = IF alone THEN due ELSE {}
      /\ desk[a].pc = "off"
  <2>1. alone = \A b \in Admins \ {a} : IdleDesk(b)
    BY <1>1
  <2> QED BY <2>1 DEF Opens, IdleDesk
<1>3. d \in DeskRows
  BY DEF Opening
<1>4. PICK new : new = [d EXCEPT !.alone = alone]
  OBVIOUS
<1>5. /\ new \in DeskRows /\ new.pc = d.pc /\ new.target = d.target /\ new.cats = d.cats
      /\ new.job = d.job /\ new.locks = d.locks /\ new.alone = alone
  BY <1>1, <1>3, <1>4 DEF DeskRows
<1>6. desk'[a] = new
  BY <1>2, <1>4
<1>7. ASSUME NEW b \in Admins \ {a}
      PROVE  /\ desk'[b] \in DeskRows /\ desk'[b].pc = desk[b].pc /\ desk'[b].target = desk[b].target
             /\ desk'[b].cats = desk[b].cats /\ desk'[b].job = desk[b].job /\ desk'[b].seen = desk[b].seen
             /\ desk'[b].locks = desk[b].locks /\ desk'[b].alone = FALSE
  <2>1. PICK old \in DeskRows : old = desk[b]
    BY <1>7, DeskOf
  <2>2. PICK other : other = [old EXCEPT !.alone = FALSE]
    OBVIOUS
  <2>3. desk'[b] = other
    BY <1>2, <1>7, <2>1, <2>2
  <2>4. /\ other \in DeskRows /\ other.pc = old.pc /\ other.target = old.target
        /\ other.cats = old.cats /\ other.job = old.job /\ other.seen = old.seen
        /\ other.locks = old.locks /\ other.alone = FALSE
    BY <2>2 DEF DeskRows
  <2> QED BY <2>1, <2>3, <2>4
<1>8. UNCHANGED <<Actives, Served>> /\ \A v : Published(v)' <=> Published(v)
  BY SameVersions
<1>9. "off" \notin AtWork /\ "mapping" \notin AtWork /\ "asking" \in Switching /\ "refreshing" \notin Switching
      /\ Switching \subseteq AtWork
  BY DEF AtWork, Switching
<1>10. RegistryTypes'
  <2>1. desk' \in [Admins -> DeskRows]
    BY <1>2, <1>5, <1>6, <1>7
  <2>2. versions \in [Versions -> VersionRows] /\ crowded \in BOOLEAN /\ unprojected \in BOOLEAN
    BY DEF RegistryInv, RegistryTypes
  <2> QED BY <1>1, <1>2, <2>1, <2>2 DEF RegistryTypes
<1>11. Aimed(a)' /\ Undisturbed(a)' /\ Approving(a)'
  <2>1. Aimed(a)'
    <3>1. new.pc \in {"asking", "refreshing"} /\ new.locks = {}
      BY <1>5 DEF Opening
    <3>2. ASSUME new.pc \in Switching
          PROVE  /\ new.target \in Versions
                 /\ Published(new.target) => new.cats = versions[new.target].cats
                 /\ ~Published(new.target) => \A b \in Admins : desk[b].target # new.target
      BY <1>5, <1>9, <3>1, <3>2 DEF Opening
    <3> QED BY <1>6, <1>7, <1>8, <3>1, <3>2 DEF Aimed
  <2>2. Undisturbed(a)'
    <3>1. ~alone => crowded'
      BY <1>2
    <3>2. alone => \A b \in Admins \ {a} : desk'[b].pc \in {"off", "mapping"}
      BY <1>1, <1>7 DEF IdleDesk
    <3> QED BY <1>5, <1>6, <3>1, <3>2 DEF Undisturbed
  <2>3. Approving(a)'
    BY <1>5, <1>6, <1>9 DEF Approving, Opening
  <2> QED BY <2>1, <2>2, <2>3
<1>12. Informed(a)'
  BY <1>2, <1>5, <1>6, <1>9 DEF Informed, Opening
<1>13. ASSUME NEW b \in Admins, b # a PROVE Aimed(b)' /\ Undisturbed(b)' /\ Approving(b)' /\ Informed(b)'
  <2>1. Aimed(b) /\ Undisturbed(b) /\ Approving(b)
    BY DeskOf
  <2>2. Aimed(b)'
    <3>1. 0 \notin Versions
      BY TaxonomyAssumption DEF Versions
    <3>2. desk[b].pc \in Switching /\ ~Published(desk[b].target) => new.target # desk[b].target
      <4>1. SUFFICES ASSUME desk[b].pc \in Switching, ~Published(desk[b].target) PROVE new.target # desk[b].target
        OBVIOUS
      <4>2. desk[b].target \in Versions
        BY <2>1, <4>1 DEF Aimed
      <4> QED BY <1>5, <3>1, <4>1, <4>2 DEF Opening
    <3> QED BY <1>5, <1>6, <1>7, <1>8, <1>13, <2>1, <3>2 DEF Aimed
  <2>3. Undisturbed(b)'
    <3>1. desk[b].pc \in AtWork => ~alone
      BY <1>1, <1>9, <1>13 DEF IdleDesk
    <3> QED BY <1>2, <1>7, <1>13, <3>1 DEF Undisturbed
  <2>4. Approving(b)'
    BY <1>7, <1>13, <2>1 DEF Approving
  <2>5. Informed(b)'
    BY <1>7, <1>13 DEF Informed
  <2> QED BY <2>2, <2>3, <2>4, <2>5
<1>14. OneServed' /\ (crowded => due = {})' /\ NeverBackToBuiltin'
  BY <1>2, <1>8 DEF RegistryInv, TablesInv, OneServed, NeverBackToBuiltin
<1>15. Projected'
  BY <1>2, <1>8 DEF RegistryInv, TablesInv, Projected
<1>16. MappingsHold'
  BY <1>8 DEF RegistryInv, TablesInv, MappingsHold
<1>17. \A w \in Versions : ~Published(w)' => versions'[w].cats = {}
  BY <1>8 DEF RegistryInv, TablesInv
<1> QED BY <1>10, <1>11, <1>12, <1>13, <1>14, <1>15, <1>16, <1>17 DEF RegistryInv, TablesInv, DesksInv

LEMMA BeginSwitchKeeps ==
    ASSUME RegistryInv, NEW a \in Admins, NEW v \in Versions,
           NEW cats \in {Builtin} \cup {versions[w].cats : w \in Versions}, BeginSwitch(a, v, cats)
    PROVE  RegistryInv'
<1>1. PICK d : d = [Off EXCEPT !.pc = "asking", !.target = v, !.cats = cats]
  OBVIOUS
<1>2. Opens(a, d) /\ UNCHANGED <<versions, edges, mappings, graph, unprojected>>
  BY <1>1 DEF BeginSwitch, tables
<1>3. cats \subseteq Proposable
  BY DEF RegistryInv, RegistryTypes, VersionRows, Proposable
<1>4. d \in DeskRows
  BY <1>1, <1>3, OffIsARow DEF DeskRows, AtWork, Switching
<1>5. d.pc = "asking" /\ d.target = v /\ d.cats = cats /\ d.job = 0 /\ d.locks = {}
  BY <1>1 DEF Off
<1>6. Published(v) => cats = versions[v].cats
  BY DEF BeginSwitch, Vacant, Published
<1>7. ~Published(v) => \A b \in Admins : desk[b].target # v
  BY DEF BeginSwitch, Vacant, RegistryInv, TablesInv
<1>8. Opening(d)
  BY <1>4, <1>5, <1>6, <1>7 DEF Opening
<1> QED BY <1>2, <1>8, OpensKeeps DEF RegistryInv, RegistryTypes

LEMMA ApproveCategoryKeeps ==
    ASSUME RegistryInv, NEW a \in Admins, NEW r \in DOMAIN NewCategory, ApproveCategory(a, r)
    PROVE  RegistryInv'
<1>1. PICK served \in Served, v \in Vacant :
         Opens(a, [Off EXCEPT !.pc = "asking", !.job = r, !.target = v,
                              !.cats = Proposed(served, NewCategory[r])])
  BY DEF ApproveCategory
<1>2. PICK cats : cats = served \cup {NewCategory[r]}
  OBVIOUS
<1>3. PICK d : d = [Off EXCEPT !.pc = "asking", !.job = r, !.target = v, !.cats = cats]
  OBVIOUS
<1>4. Opens(a, d) /\ UNCHANGED <<versions, edges, mappings, graph, unprojected>>
  BY <1>1, <1>2, <1>3 DEF ApproveCategory, tables, Proposed
<1>5. cats \subseteq Proposable
  BY <1>1, <1>2, ServedHolds DEF RegistryInv, Proposable
<1>6. v \in Versions /\ ~Published(v) /\ \A b \in Admins : desk[b].target # v
  BY <1>1 DEF Vacant, Published
<1>7. d \in DeskRows
  BY <1>3, <1>5, <1>6, OffIsARow DEF DeskRows, AtWork, Switching
<1>8. d.pc = "asking" /\ d.target = v /\ d.cats = cats /\ d.job = r /\ d.locks = {}
  BY <1>3 DEF Off
<1>9. due \subseteq cats
  BY <1>1, <1>2 DEF RegistryInv, RegistryTypes, TablesInv, OneServed
<1>10. Opening(d)
  BY <1>2, <1>6, <1>7, <1>8, <1>9 DEF Opening
<1> QED BY <1>4, <1>10, OpensKeeps DEF RegistryInv, RegistryTypes

LEMMA ApproveAliasKeeps ==
    ASSUME RegistryInv, NEW a \in Admins, NEW r \in DOMAIN AliasOf, ApproveAlias(a, r)
    PROVE  RegistryInv'
<1>1. PICK d : d = [Off EXCEPT !.pc = "refreshing", !.job = r]
  OBVIOUS
<1>2. /\ Opens(a, d) /\ UNCHANGED <<versions, mappings, graph>>
      /\ edges' = edges \cup {r} /\ unprojected' = TRUE
  BY <1>1 DEF ApproveAlias
<1>3. d \in DeskRows
  BY <1>1, OffIsARow DEF DeskRows, AtWork, Switching
<1>4. d.pc = "refreshing" /\ d.target = 0 /\ d.locks = {}
  BY <1>1 DEF Off
<1>5. Opening(d)
  BY <1>3, <1>4 DEF Opening
<1> QED BY <1>2, <1>5, OpensKeeps DEF RegistryInv, RegistryTypes

LEMMA CommitSwitchKeeps == ASSUME RegistryInv, NEW a \in Admins, CommitSwitch(a) PROVE RegistryInv'
<1>1. PICK old \in DeskRows : old = desk[a]
  BY DeskOf
<1>2. PICK t : t = old.target
  OBVIOUS
<1>3. PICK pc : pc = IF old.job = 0 THEN "refreshing" ELSE "marking"
  OBVIOUS
<1>4. PICK new : new = [old EXCEPT !.pc = pc, !.locks = {}]
  OBVIOUS
<1>5. /\ old.pc = "committing" /\ versions' = AfterSwitch(versions, old)
      /\ desk' = [desk EXCEPT ![a] = new]
      /\ crowded' = (crowded /\ ~old.alone) /\ unprojected' = TRUE
      /\ due' = IF old.job = 0 \/ ~old.alone THEN {} ELSE due
      /\ UNCHANGED <<edges, mappings, graph>>
  BY <1>1, <1>3, <1>4 DEF CommitSwitch, Set
<1>6. /\ "committing" \in Switching /\ "committing" \in AtWork /\ pc \in AtWork
      /\ pc \notin Switching /\ pc \in {"refreshing", "marking"}
      /\ "off" \notin AtWork /\ "mapping" \notin AtWork
  BY <1>3 DEF AtWork, Switching
<1>7. /\ new \in DeskRows /\ new.pc = pc /\ new.locks = {} /\ new.target = t /\ new.cats = old.cats
      /\ new.job = old.job /\ new.alone = old.alone
  BY <1>2, <1>4, <1>6 DEF DeskRows
<1>8. desk'[a] = new /\ (\A b \in Admins \ {a} : desk'[b] = desk[b]) /\ desk' \in [Admins -> DeskRows]
  BY <1>5, <1>7, DeskOf
<1>9. /\ t \in Versions /\ (Published(t) => old.cats = versions[t].cats)
      /\ ~Published(t) => \A b \in Admins \ {a} : desk[b].target # t
      /\ \A v \in old.locks : Published(v)
  BY <1>1, <1>2, <1>5, <1>6, DeskOf DEF Aimed
<1>10. old.cats \subseteq Proposable /\ old.locks \subseteq Versions
  BY DEF DeskRows
<1>11. /\ versions' \in [Versions -> VersionRows]
       /\ versions'[t].status = "active" /\ versions'[t].cats = old.cats
       /\ \A v \in Versions \ {t} :
             /\ versions'[v].cats = versions[v].cats
             /\ versions'[v].status = IF v \in old.locks THEN "archived" ELSE versions[v].status
  <2>1. versions' = [v \in Versions |-> IF v = t THEN [status |-> "active", cats |-> old.cats]
                                        ELSE IF v \in old.locks THEN [versions[v] EXCEPT !.status = "archived"]
                                        ELSE versions[v]]
    BY <1>2, <1>5 DEF AfterSwitch
  <2>2. PICK switched : switched = [status |-> "active", cats |-> old.cats]
    OBVIOUS
  <2>3. switched \in VersionRows /\ switched.status = "active" /\ switched.cats = old.cats /\ versions'[t] = switched
    BY <1>9, <1>10, <2>1, <2>2 DEF VersionRows
  <2>4. ASSUME NEW v \in Versions \ {t}
        PROVE  /\ versions'[v] \in VersionRows /\ versions'[v].cats = versions[v].cats
               /\ versions'[v].status = IF v \in old.locks THEN "archived" ELSE versions[v].status
    <3>1. PICK was \in VersionRows : was = versions[v]
      BY DEF RegistryInv, RegistryTypes
    <3>2. PICK is : is = [was EXCEPT !.status = "archived"]
      OBVIOUS
    <3>3. is \in VersionRows /\ is.cats = was.cats /\ is.status = "archived"
      BY <3>2 DEF VersionRows
    <3>4. versions'[v] = IF v \in old.locks THEN is ELSE was
      BY <2>1, <2>4, <3>1, <3>2
    <3> QED BY <3>1, <3>3, <3>4
  <2> QED BY <2>1, <2>3, <2>4
<1>12. Published(t)' /\ \A v \in Versions \ {t} : Published(v)' <=> Published(v)
  BY <1>9, <1>11 DEF Published
<1>13. Actives' = {t} \cup (Actives \ old.locks)
  BY <1>9, <1>11 DEF Actives
<1>14. old.alone => Actives' = {t} /\ Served' = {old.cats}
  <2>1. SUFFICES ASSUME old.alone PROVE Actives' = {t} /\ Served' = {old.cats}
    OBVIOUS
  <2>2. Actives' = {t}
    BY <1>1, <1>5, <1>13, <2>1, DeskOf DEF Informed
  <2>3. Served' = {versions'[v].cats : v \in {t}}
    BY <2>2 DEF Served
  <2> QED BY <1>11, <2>2, <2>3
<1>15. RegistryTypes'
  BY <1>5, <1>8, <1>11 DEF RegistryInv, RegistryTypes
<1>16. crowded \/ old.alone
  BY <1>1, <1>5, <1>6, DeskOf DEF Undisturbed
<1>17. old.job # 0 => old.job \in DOMAIN NewCategory /\ NewCategory[old.job] \in old.cats
  BY <1>1, <1>5, <1>6, DeskOf DEF Approving
<1>18. old.alone /\ old.job # 0 => due \subseteq old.cats
  BY <1>1, <1>5, <1>6, DeskOf DEF Informed
<1>19. Aimed(a)' /\ Approving(a)'
  BY <1>3, <1>6, <1>7, <1>8, <1>17 DEF Aimed, Approving
<1>20. Undisturbed(a)'
  BY <1>1, <1>5, <1>7, <1>8, <1>16, DeskOf DEF Undisturbed, DeskRows
<1>21. Informed(a)'
  BY <1>3, <1>5, <1>6, <1>7, <1>8, <1>14, <1>17 DEF Informed
<1>22. ASSUME NEW b \in Admins, b # a PROVE Aimed(b)' /\ Undisturbed(b)' /\ Approving(b)' /\ Informed(b)'
  <2>1. desk'[b] = desk[b] /\ desk[b] \in DeskRows /\ Aimed(b) /\ Undisturbed(b) /\ Approving(b)
    BY <1>8, <1>22, DeskOf
  <2>2. ~desk[b].alone
    BY <1>1, <1>5, <1>6, <1>22, <2>1 DEF Undisturbed
  <2>3. Undisturbed(b)'
    <3>1. desk[b].pc \in AtWork => ~old.alone
      BY <1>1, <1>6, <1>22, DeskOf DEF Undisturbed
    <3> QED BY <1>5, <2>1, <2>2, <3>1 DEF Undisturbed
  <2>4. \A c \in Admins : desk'[c].target = desk[c].target
    BY <1>1, <1>2, <1>7, <1>8
  <2>5. ASSUME NEW v \in Versions, Published(v) PROVE Published(v)' /\ versions'[v].cats = versions[v].cats
    BY <1>9, <1>11, <1>12, <2>5
  <2>6. desk[b].locks \subseteq Versions /\ desk[b].seen \subseteq Versions
    BY <2>1 DEF DeskRows
  <2>7. (\A v \in desk[b].locks : Published(v)')
        /\ (desk[b].pc = "mapping" =>
               \A v \in desk[b].seen : Published(v)' /\ desk[b].cats \subseteq versions'[v].cats)
    BY <2>1, <2>5, <2>6 DEF Aimed
  <2>8. PICK u : u = desk[b].target
    OBVIOUS
  <2>9. ASSUME desk[b].pc \in Switching
        PROVE  /\ u \in Versions
               /\ Published(u)' => desk[b].cats = versions'[u].cats
               /\ ~Published(u)' => \A c \in Admins \ {b} : desk[c].target # u
    <3>1. /\ u \in Versions /\ (Published(u) => desk[b].cats = versions[u].cats)
          /\ ~Published(u) => \A c \in Admins \ {b} : desk[c].target # u
      BY <2>1, <2>8, <2>9 DEF Aimed
    <3>2. u = t => Published(u)
      BY <1>9, <1>22, <2>8
    <3>3. Published(u)' => Published(u)
      BY <1>12, <3>1, <3>2
    <3>4. (Published(u)' => desk[b].cats = versions'[u].cats)
          /\ (~Published(u)' => \A c \in Admins \ {b} : desk[c].target # u)
      BY <2>5, <3>1, <3>3
    <3> QED BY <3>1, <3>4
  <2>10. Aimed(b)'
    BY <2>1, <2>4, <2>7, <2>8, <2>9 DEF Aimed
  <2> QED BY <2>1, <2>2, <2>3, <2>10 DEF Approving, Informed
<1>23. OneServed'
  <2>1. ~crowded' => old.alone
    BY <1>5, <1>16
  <2>2. old.alone => due' \subseteq old.cats
    BY <1>5, <1>18
  <2> QED BY <1>14, <2>1, <2>2 DEF OneServed
<1>24. Projected' /\ NeverBackToBuiltin' /\ (crowded => due = {})'
  BY <1>5, <1>13 DEF Projected, NeverBackToBuiltin
<1>25. MappingsHold'
  <2>1. ASSUME NEW v \in Versions, Published(v) PROVE Published(v)' /\ versions'[v].cats = versions[v].cats
    BY <1>9, <1>11, <1>12, <2>1
  <2> QED BY <1>5, <2>1 DEF RegistryInv, TablesInv, MappingsHold
<1>26. \A v \in Versions : ~Published(v)' => versions'[v].cats = {}
  BY <1>11, <1>12 DEF RegistryInv, TablesInv
<1> QED BY <1>15, <1>19, <1>20, <1>21, <1>22, <1>23, <1>24, <1>25, <1>26 DEF RegistryInv, TablesInv, DesksInv

LEMMA RegistryStutters == ASSUME RegistryInv, UNCHANGED registryVars PROVE RegistryInv'
<1>1. UNCHANGED <<versions, edges, mappings, graph, desk, crowded, unprojected, due>>
  BY DEF registryVars
<1>2. UNCHANGED <<Actives, Served>> /\ \A v : Published(v)' <=> Published(v)
  BY <1>1, SameVersions
<1>3. RegistryTypes' /\ TablesInv'
  BY <1>1, TablesStay DEF tables, toldVars, RegistryInv, RegistryTypes
<1>4. DesksInv'
  BY <1>1, <1>2 DEF RegistryInv, DesksInv, Aimed, Undisturbed, Approving, Informed, ShowsServed
<1> QED BY <1>3, <1>4 DEF RegistryInv

LEMMA RegistrySteps == ASSUME RegistryInv, [RegistryNext]_registryVars PROVE RegistryInv'
<1>1. CASE UNCHANGED registryVars
  BY <1>1, RegistryStutters
<1>2. CASE RegistryNext
  <2>1. PICK a \in Admins :
        \/ PublishDraft(a, Builtin)
        \/ \E v \in Versions, cats \in {Builtin} \cup {versions[w].cats : w \in Versions} :
              BeginSwitch(a, v, cats)
        \/ AskForActives(a) \/ Archive(a) \/ CommitSwitch(a)
        \/ \E r \in DOMAIN NewCategory : ApproveCategory(a, r)
        \/ MarkApproved(a)
        \/ \E r \in DOMAIN AliasOf : ApproveAlias(a, r)
        \/ \E r \in DOMAIN AliasOf : BeginMapping(a, AliasOf[r])
        \/ WriteMapping(a)
        \/ LoadTaxonomy(a) \/ LoadSemantics(a) \/ Project(a) \/ Fails(a)
    BY <1>2 DEF RegistryNext
  <2>2. CASE PublishDraft(a, Builtin)
    BY <2>2, PublishDraftKeeps
  <2>3. CASE \E v \in Versions, cats \in {Builtin} \cup {versions[w].cats : w \in Versions} :
                BeginSwitch(a, v, cats)
    BY <2>3, BeginSwitchKeeps
  <2>4. CASE AskForActives(a) \/ Archive(a) \/ CommitSwitch(a)
    BY <2>4, AskForActivesKeeps, ArchiveKeeps, CommitSwitchKeeps
  <2>5. CASE \E r \in DOMAIN NewCategory : ApproveCategory(a, r)
    BY <2>5, ApproveCategoryKeeps
  <2>6. CASE \E r \in DOMAIN AliasOf : ApproveAlias(a, r)
    BY <2>6, ApproveAliasKeeps
  <2>7. CASE \E r \in DOMAIN AliasOf : BeginMapping(a, AliasOf[r])
    BY <2>7, BeginMappingKeeps
  <2>8. CASE MarkApproved(a) \/ WriteMapping(a) \/ LoadTaxonomy(a) \/ LoadSemantics(a) \/ Project(a) \/ Fails(a)
    BY <2>8, MarkApprovedKeeps, WriteMappingKeeps, LoadTaxonomyKeeps, LoadSemanticsKeeps, ProjectKeeps, FailsKeeps
  <2> QED BY <2>1, <2>2, <2>3, <2>4, <2>5, <2>6, <2>7, <2>8
<1> QED BY <1>1, <1>2

LEMMA RegistryStarts == ASSUME RegistryInit PROVE RegistryInv
<1>1. /\ versions = [v \in Versions |-> Unpublished] /\ edges = {} /\ mappings = {} /\ due = {}
      /\ graph = [cats |-> Builtin, links |-> {}] /\ desk = [a \in Admins |-> Off]
      /\ crowded = FALSE /\ unprojected = FALSE
  BY DEF RegistryInit
<1>2. Unpublished \in VersionRows /\ Unpublished.status = "none" /\ Unpublished.cats = {}
  BY DEF Unpublished, VersionRows
<1>3. \A v \in Versions : versions[v].status = "none" /\ versions[v].cats = {}
  BY <1>1, <1>2
<1>4. Actives = {} /\ Served = {Builtin}
  BY <1>3 DEF Actives, Served
<1>5. RegistryTypes
  BY <1>1, <1>2, OffIsARow DEF RegistryTypes
<1>6. Off.pc = "off" /\ Off.alone = FALSE /\ Off.locks = {} /\ "off" \notin AtWork /\ "off" \notin Switching
  BY DEF Off, AtWork, Switching
<1>7. DesksInv
  BY <1>1, <1>6 DEF DesksInv, Aimed, Undisturbed, Approving, Informed
<1>8. TablesInv
  <2>1. OneServed
    BY <1>1, <1>4 DEF OneServed
  <2>2. {r \in edges : AliasOf[r] \in Builtin} = {}
    BY <1>1
  <2>3. Projected
    BY <1>1, <1>4, <2>2 DEF Projected
  <2> QED BY <1>1, <1>3, <2>1, <2>3 DEF TablesInv, MappingsHold, NeverBackToBuiltin
<1> QED BY <1>5, <1>7, <1>8 DEF RegistryInv

\* The inductive invariant of the category registry.
THEOREM RegistryInvariant == RegistrySpec => []RegistryInv
<1>1. RegistryInv /\ [RegistryNext]_registryVars => RegistryInv'
  BY RegistrySteps
<1> QED BY <1>1, RegistryStarts, PTL DEF RegistrySpec

\* For any number of administrators, versions and proposals, what is served
\* was activated, an approved category is served until somebody switches by
\* hand or two commands overlap, and the graph shows what is served once the
\* last change is projected (commerce/taxonomy.py).
THEOREM RegistryServes == RegistrySpec => []RegistryServesWhatWasApproved
<1>1. RegistryInv => RegistryServesWhatWasApproved
  <2>1. SUFFICES ASSUME RegistryInv PROVE RegistryServesWhatWasApproved
    OBVIOUS
  <2>2. NeverBackToBuiltin /\ OrderlyProjectionIsCurrent
    BY <2>1 DEF RegistryInv, TablesInv, Projected, OrderlyProjectionIsCurrent
  <2>3. MappingsFitTheirVersion
    BY <2>1 DEF RegistryInv, TablesInv, MappingsHold, MappingsFitTheirVersion
  <2>4. OrderlyVersionsAreServed
    <3>1. SUFFICES ASSUME ~crowded
                   PROVE  Cardinality(Actives) <= 1 /\ \A cats \in Served : due \subseteq cats
      BY DEF OrderlyVersionsAreServed
    <3>2. (\A v, w \in Actives : v = w) /\ \A cats \in Served : due \subseteq cats
      BY <2>1, <3>1 DEF RegistryInv, TablesInv, OneServed
    <3>3. Actives = {} \/ \E v \in Actives : Actives = {v}
      BY <3>2
    <3>4. Cardinality(Actives) <= 1
      <4>1. Cardinality(Actives) \in {0, 1}
        BY <3>3, FS_EmptySet, FS_Singleton, Zenon
      <4> QED BY <4>1, SMT
    <3> QED BY <3>2, <3>4
  <2> QED BY <2>2, <2>3, <2>4 DEF RegistryServesWhatWasApproved
<1> QED BY <1>1, RegistryInvariant, PTL

-----------------------------------------------------------------------------
(* The fleet of replicas. *)

Models == [chain : SUBSET Range(Priority), charged : BOOLEAN]
ModelTables == UNION {[U -> Models] : U \in SUBSET Uses}
ReplicaRows == [stage : Stages, shared : BOOLEAN, mine : Nat, parts : SUBSET Parts,
                models : ModelTables, tasks : SUBSET TaskNames, ready : BOOLEAN]

\* What was built stays fit together: every model a request reaches is charged,
\* the graph comes last and with the models its settings ask for, and ready is
\* who has it on the checkpointer the settings ask for; who stops has ended its
\* tasks before the pools.
Building == {"down", "saver", "schema", "models", "retrieval", "kpi", "rerank", "graphrag", "slots", "wire"}
Guarded == {"kpi", "rerank", "graphrag", "slots", "wire"}
RowHolds(x) ==
    /\ x \in ReplicaRows
    /\ \A u \in DOMAIN x.models : u # "summary" => x.models[u].charged
    /\ x.stage \in Building => "graph" \notin x.parts
    /\ x.stage \in Guarded => "guard" \in x.parts
    /\ "graph" \in x.parts =>
          /\ "guard" \in x.parts /\ {"generation", "intent"} \subseteq DOMAIN x.models
          /\ x.models["generation"].chain = PrimaryChain /\ x.models["intent"].chain = IntentChain
    /\ x.ready => x.stage = "up" /\ "graph" \in x.parts /\ x.shared = setup.shared
    /\ x.stage = "stoptasks" => "worker" \notin x.tasks
    /\ x.stage = "close" => x.tasks = {}

FleetInv ==
    /\ setup \in Setups /\ store \in Nat /\ told \in Nat /\ (setup.shared => store = told)
    /\ faults = {} /\ DOMAIN replica = Replicas
    /\ \A r \in Replicas : RowHolds(replica[r])

\* A table with a model put into it for some uses.
PutInto(new, old, uses, model) ==
    /\ new \in ModelTables /\ DOMAIN new = DOMAIN old \cup uses
    /\ \A u \in DOMAIN old \cup uses : new[u] = IF u \in uses THEN model ELSE old[u]

LEMMA UsingIs ==
    ASSUME NEW old \in ModelTables, NEW uses \in SUBSET Uses, NEW model \in Models
    PROVE  PutInto(Using(old, uses, model), old, uses, model)
<1>1. PICK U \in SUBSET Uses : old \in [U -> Models]
  BY DEF ModelTables
<1> DEFINE new == Using(old, uses, model)
<1>2. DOMAIN old = U /\ U \cup uses \in SUBSET Uses
  BY <1>1
<1>3. new \in [U \cup uses -> Models]
  BY <1>1, <1>2 DEF Using
<1>4. \A u \in DOMAIN old \cup uses : new[u] = IF u \in uses THEN model ELSE old[u]
  BY DEF Using
<1>5. new \in ModelTables
  BY <1>2, <1>3 DEF ModelTables
<1>6. DOMAIN new = DOMAIN old \cup uses
  BY DEF Using
<1> QED BY <1>4, <1>5, <1>6 DEF PutInto

LEMMA NoModelsAre == NoModels \in ModelTables /\ DOMAIN NoModels = {}
<1>1. NoModels \in [{} -> Models] /\ DOMAIN NoModels = {}
  BY DEF NoModels
<1>2. {} \in SUBSET Uses
  OBVIOUS
<1> QED BY <1>1, <1>2 DEF ModelTables

\* Every chain is of providers that have a key.
LEMMA ChainsAre ==
    ASSUME setup \in Setups
    PROVE  /\ PrimaryChain \in SUBSET Range(Priority) /\ LightChain \in SUBSET Range(Priority)
           /\ IntentKeyed => IntentChain \in SUBSET Range(Priority)
           /\ setup.resilient \in BOOLEAN /\ setup.shared \in BOOLEAN
<1>1. setup.keys \subseteq Range(Priority) /\ setup.resilient \in BOOLEAN /\ setup.shared \in BOOLEAN
  BY FleetAssumption
<1>2. \A order : FirstKeyed(order) \subseteq setup.keys
  BY DEF FirstKeyed
<1>3. PrimaryChain \subseteq setup.keys
  BY <1>2 DEF PrimaryChain
<1>4. LightChain \subseteq setup.keys
  BY <1>2, <1>3 DEF LightChain
<1>5. IntentKeyed => IntentChain \subseteq setup.keys
  BY <1>4 DEF IntentKeyed, IntentChain
<1> QED BY <1>1, <1>3, <1>4, <1>5

LEMMA BlankHolds == RowHolds(Blank)
<1>1. Blank \in ReplicaRows
  BY NoModelsAre DEF Blank, ReplicaRows, Stages, Parts, TaskNames
<1> QED BY <1>1, NoModelsAre DEF RowHolds, Blank, Building, Guarded

\* A step of one replica that leaves the world alone.
LEMMA RowsStay ==
    ASSUME FleetInv, setup' = setup, NEW r \in Replicas, NEW x, RowHolds(x), Becomes(r, x)
    PROVE  DOMAIN replica' = Replicas /\ \A q \in Replicas : RowHolds(replica'[q])
<1>1. DOMAIN replica = Replicas /\ \A q \in Replicas : RowHolds(replica[q])
  BY DEF FleetInv
<1>2. replica' = [replica EXCEPT ![r] = x]
  BY DEF Becomes
<1> QED BY <1>1, <1>2

LEMMA FleetStays ==
    ASSUME setup' = setup, setup \in Setups, DOMAIN replica' = Replicas, \A q \in Replicas : RowHolds(replica'[q]),
           store' \in Nat, told' \in Nat, setup.shared => store' = told', faults' = {}
    PROVE  FleetInv'
<1>1. PrimaryChain' = PrimaryChain
  BY DEF PrimaryChain, FirstKeyed
<1>2. IntentChain' = IntentChain
  BY <1>1 DEF IntentChain, LightChain, FirstKeyed
<1>3. \A q \in Replicas : RowHolds(replica[q])'
  <2>1. TAKE q \in Replicas
  <2>2. RowHolds(replica'[q])
    OBVIOUS
  <2> QED BY <1>1, <1>2, <2>2 DEF RowHolds
<1> QED BY <1>3 DEF FleetInv

\* One replica takes a step in a world that does not change.
LEMMA ReplicaMoves ==
    ASSUME FleetInv, NEW r \in Replicas, NEW x, RowHolds(x), Becomes(r, x), World
    PROVE  FleetInv'
<1>1. /\ setup \in Setups /\ store \in Nat /\ told \in Nat /\ (setup.shared => store = told) /\ faults = {}
      /\ setup' = setup /\ store' = store /\ told' = told /\ faults' = faults
  BY DEF FleetInv, World
<1> QED BY <1>1, RowsStay, FleetStays

LEMMA ForgoHolds ==
    ASSUME NEW x, RowHolds(x), x.stage \in Building
    PROVE  RowHolds([x EXCEPT !.stage = "decide", !.parts = {}, !.models = NoModels])
<1> DEFINE y == [x EXCEPT !.stage = "decide", !.parts = {}, !.models = NoModels]
<1>1. x \in ReplicaRows /\ (x.ready => x.stage = "up")
  BY DEF RowHolds
<1>2. ~x.ready
  BY <1>1 DEF Building
<1>3. y \in ReplicaRows /\ y.stage = "decide" /\ y.parts = {} /\ y.models = NoModels /\ y.ready = x.ready
  BY <1>1, NoModelsAre DEF ReplicaRows, Stages
<1> HIDE DEF y
<1>4. RowHolds(y)
  BY <1>2, <1>3, NoModelsAre DEF RowHolds, Building, Guarded
<1> QED BY <1>4 DEF y

\* A row of a replica that is being built goes on to the next stage of it.
LEMMA BuildGoesOn ==
    ASSUME NEW x, RowHolds(x), x.stage \in Building, NEW y \in ReplicaRows, y.stage \in Building \ {"down"},
           \A u \in DOMAIN y.models : u # "summary" => y.models[u].charged,
           "graph" \notin y.parts, y.stage \in Guarded => "guard" \in y.parts, y.ready = x.ready
    PROVE  RowHolds(y)
<1>1. ~x.ready
  BY DEF RowHolds, Building
<1>2. y.stage # "stoptasks" /\ y.stage # "close"
  BY DEF Building
<1> QED BY <1>1, <1>2 DEF RowHolds

LEMMA EquipHolds ==
    ASSUME setup \in Setups, NEW r \in Replicas, RowHolds(replica[r]), replica[r].stage \in Building,
           NEW uses \in SUBSET Uses, NEW model \in Models, model.charged \/ uses = {"summary"},
           NEW next \in Building \ {"down"}, next \in Guarded => "guard" \in replica[r].parts
    PROVE  RowHolds(Equip(r, uses, model, next))
<1> DEFINE x == replica[r]
           table == Using(x.models, uses, model)
           y == [x EXCEPT !.models = table, !.stage = next]
<1>1. x \in ReplicaRows /\ x.models \in ModelTables /\ "graph" \notin x.parts
      /\ \A u \in DOMAIN x.models : u # "summary" => x.models[u].charged
  BY DEF RowHolds, ReplicaRows
<1>2. /\ table \in ModelTables /\ DOMAIN table = DOMAIN x.models \cup uses
      /\ \A u \in DOMAIN x.models \cup uses : table[u] = IF u \in uses THEN model ELSE x.models[u]
  <2>1. PutInto(table, x.models, uses, model)
    BY <1>1, UsingIs
  <2> HIDE DEF table
  <2> QED BY <2>1 DEF PutInto
<1>3. \A u \in DOMAIN table : u # "summary" => table[u].charged
  BY <1>1, <1>2
<1> HIDE DEF table
<1>4. y \in ReplicaRows /\ y.models = table /\ y.stage = next /\ y.parts = x.parts /\ y.ready = x.ready
  BY <1>1, <1>2 DEF ReplicaRows, Building, Stages
<1>5. Equip(r, uses, model, next) = y
  BY DEF Equip, table
<1> HIDE DEF x, y
<1>6. RowHolds(y)
  <2>1. \A u \in DOMAIN y.models : u # "summary" => y.models[u].charged
    BY <1>3, <1>4
  <2>2. RowHolds(x) /\ x.stage \in Building
    BY DEF x
  <2>3. y.stage \in Guarded => "guard" \in y.parts
    BY <1>4 DEF x
  <2>4. "graph" \notin y.parts
    BY <1>1, <1>4
  <2> QED BY <1>4, <2>1, <2>2, <2>3, <2>4, BuildGoesOn
<1> QED BY <1>5, <1>6

LEMMA BuildKeeps ==
    ASSUME FleetInv, NEW r \in Replicas,
           OpenSaver(r) \/ CheckSchema(r) \/ BuildModels(r) \/ BuildRetrieval(r)
           \/ StartKpi(r) \/ BuildReranker(r) \/ BuildGraphRag(r) \/ BuildSlots(r)
    PROVE  FleetInv'
<1> DEFINE x == replica[r]
<1>1. RowHolds(x) /\ setup \in Setups /\ x \in ReplicaRows /\ DOMAIN replica = Replicas
  BY DEF FleetInv, RowHolds
<1>2. World
  BY DEF OpenSaver, CheckSchema, BuildModels, BuildRetrieval, StartKpi, BuildReranker, BuildGraphRag, BuildSlots
<1>3. /\ x.stage \in Building => "graph" \notin x.parts
      /\ x.stage \in Guarded => "guard" \in x.parts
      /\ \A u \in DOMAIN x.models : u # "summary" => x.models[u].charged
  BY <1>1 DEF RowHolds
<1>4. LightChain \in SUBSET Range(Priority) /\ setup.shared \in BOOLEAN
  BY <1>1, ChainsAre
<1>5. Model(LightChain, TRUE) \in Models /\ Model(LightChain, FALSE) \in Models /\ Model(LightChain, TRUE).charged
  BY <1>4 DEF Model, Models
<1>6. ASSUME x.stage \in Building, Forgo(r) PROVE FleetInv'
  BY <1>1, <1>2, <1>6, ForgoHolds, ReplicaMoves DEF Forgo
\* A step that only changes the stage, the checkpointer, parts or tasks.
<1>7. ASSUME x.stage \in Building, NEW next \in Building \ {"down"}, NEW shared \in BOOLEAN,
             NEW parts \in SUBSET {"guard"}, NEW tasks \in SUBSET TaskNames,
             next \in Guarded => "guard" \in x.parts \cup parts
      PROVE  LET y == [x EXCEPT !.shared = shared, !.parts = @ \cup parts, !.tasks = @ \cup tasks, !.stage = next]
             IN  RowHolds(y)
  <2> DEFINE y == [x EXCEPT !.shared = shared, !.parts = @ \cup parts, !.tasks = @ \cup tasks, !.stage = next]
  <2>1. /\ y \in ReplicaRows /\ y.stage = next /\ y.parts = x.parts \cup parts /\ y.models = x.models /\ y.ready = x.ready
    BY <1>1, <1>7 DEF ReplicaRows, Building, Stages, Parts
  <2> HIDE DEF y, x
  <2>2. "graph" \notin y.parts /\ (y.stage \in Guarded => "guard" \in y.parts)
    BY <1>3, <1>7, <2>1
  <2>3. RowHolds(y)
    BY <1>1, <1>3, <1>7, <2>1, <2>2, BuildGoesOn
  <2> QED BY <2>3 DEF y
<1> HIDE DEF x
<1>8. CASE OpenSaver(r)
  <2>1. x.stage = "saver" /\ x.stage \in Building
    BY <1>8 DEF OpenSaver, At, x, Building
  <2>2. PICK reached \in {FALSE, setup.shared} : Becomes(r, [With(r, {}, "schema") EXCEPT !.shared = reached])
    BY <1>8 DEF OpenSaver
  <2>3. reached \in BOOLEAN
    BY <1>4
  <2> DEFINE y == [x EXCEPT !.shared = reached, !.parts = @ \cup {}, !.tasks = @ \cup {}, !.stage = "schema"]
  <2>4. RowHolds(y)
    BY <1>7, <2>1, <2>3 DEF Building, Guarded
  <2>5. [With(r, {}, "schema") EXCEPT !.shared = reached] = y
    BY <1>1 DEF With, x, ReplicaRows
  <2> QED BY <1>2, <2>2, <2>4, <2>5, ReplicaMoves
<1>9. CASE CheckSchema(r)
  <2>1. x.stage = "schema" /\ x.stage \in Building
    BY <1>9 DEF CheckSchema, At, x, Building
  <2> DEFINE y == [x EXCEPT !.shared = x.shared, !.parts = @ \cup {}, !.tasks = @ \cup {}, !.stage = "models"]
  <2>2. x.shared \in BOOLEAN
    BY <1>1 DEF ReplicaRows
  <2>3. RowHolds(y)
    BY <1>7, <2>1, <2>2 DEF Building, Guarded
  <2>4. With(r, {}, "models") = y
    BY <1>1 DEF With, x, ReplicaRows
  <2>5. Becomes(r, With(r, {}, "models")) \/ Forgo(r)
    BY <1>9 DEF CheckSchema
  <2> QED BY <1>2, <1>6, <2>1, <2>3, <2>4, <2>5, ReplicaMoves
<1>10. CASE BuildModels(r)
  <2>1. x.stage = "models" /\ x.stage \in Building
    BY <1>10 DEF BuildModels, At, x, Building
  <2>2. RowHolds(Equip(r, {"summary"}, Model(LightChain, FALSE), "retrieval"))
    <3>1. {"summary"} \in SUBSET Uses /\ "retrieval" \in Building \ {"down"} /\ "retrieval" \notin Guarded
      BY DEF Uses, Building, Guarded
    <3>2. RowHolds(replica[r]) /\ replica[r].stage \in Building
      BY <1>1, <2>1 DEF x
    <3> QED BY <1>1, <1>5, <3>1, <3>2, EquipHolds
  <2>3. Forgo(r) \/ Becomes(r, Equip(r, {"summary"}, Model(LightChain, FALSE), "retrieval"))
    BY <1>10 DEF BuildModels
  <2> QED BY <1>2, <1>6, <2>1, <2>2, <2>3, ReplicaMoves
<1>11. CASE BuildRetrieval(r)
  <2>1. x.stage = "retrieval" /\ x.stage \in Building
    BY <1>11 DEF BuildRetrieval, At, x, Building
  <2>2. PICK connects \in BOOLEAN :
            Becomes(r, [With(r, GuardRegardless(connects), "kpi") EXCEPT
                !.tasks = @ \cup (IF connects THEN {"keywords"} ELSE {})])
    BY <1>11 DEF BuildRetrieval
  <2> DEFINE more == IF connects THEN {"keywords"} ELSE {}
             y == [x EXCEPT !.shared = x.shared, !.parts = @ \cup {"guard"}, !.tasks = @ \cup more, !.stage = "kpi"]
  <2>3. more \in SUBSET TaskNames /\ x.shared \in BOOLEAN
    BY <1>1 DEF TaskNames, ReplicaRows
  <2> HIDE DEF more
  <2>4. RowHolds(y)
    BY <1>7, <2>1, <2>3 DEF Building
  <2>5. [With(r, GuardRegardless(connects), "kpi") EXCEPT !.tasks = @ \cup more] = y
    BY <1>1 DEF With, x, ReplicaRows, GuardRegardless
  <2> QED BY <1>2, <2>2, <2>4, <2>5, ReplicaMoves DEF more
<1>12. CASE StartKpi(r)
  <2>1. x.stage = "kpi" /\ x.stage \in Building /\ x.stage \in Guarded
    BY <1>12 DEF StartKpi, At, x, Building, Guarded
  <2> DEFINE y == [x EXCEPT !.shared = x.shared, !.parts = @ \cup {}, !.tasks = @ \cup {"kpi"}, !.stage = "rerank"]
  <2>2. {"kpi"} \in SUBSET TaskNames /\ x.shared \in BOOLEAN /\ "guard" \in x.parts
    BY <1>1, <1>3, <2>1 DEF TaskNames, ReplicaRows
  <2>3. RowHolds(y)
    BY <1>7, <2>1, <2>2 DEF Building
  <2>4. [replica[r] EXCEPT !.stage = "rerank", !.tasks = @ \cup {"kpi"}] = y
    BY <1>1 DEF x, ReplicaRows
  <2>5. Becomes(r, [replica[r] EXCEPT !.stage = "rerank", !.tasks = @ \cup {"kpi"}])
    BY <1>12 DEF StartKpi
  <2> QED BY <1>2, <2>3, <2>4, <2>5, ReplicaMoves
\* The steps after the guard: equipped, or left out.
<1>13. ASSUME x.stage \in Guarded, NEW next \in Guarded
       PROVE  /\ RowHolds([replica[r] EXCEPT !.stage = next])
              /\ \A uses \in SUBSET Uses : RowHolds(Equip(r, uses, Model(LightChain, TRUE), next))
  <2>1. x.stage \in Building /\ next \in Building \ {"down"} /\ "guard" \in x.parts /\ x.shared \in BOOLEAN
    BY <1>1, <1>3, <1>13 DEF Guarded, Building, ReplicaRows
  <2> DEFINE y == [x EXCEPT !.shared = x.shared, !.parts = @ \cup {}, !.tasks = @ \cup {}, !.stage = next]
  <2>2. RowHolds(y)
    BY <1>7, <2>1
  <2>3. [replica[r] EXCEPT !.stage = next] = y
    BY <1>1 DEF x, ReplicaRows
  <2>4. ASSUME NEW uses \in SUBSET Uses
        PROVE  RowHolds(Equip(r, uses, Model(LightChain, TRUE), next))
    BY <1>1, <1>5, <2>1, EquipHolds DEF x
  <2> QED BY <2>2, <2>3, <2>4
<1>14. CASE BuildReranker(r)
  <2>1. x.stage \in Guarded /\ "graphrag" \in Guarded /\ {"rerank"} \in SUBSET Uses
    BY <1>14 DEF BuildReranker, At, x, Guarded, Uses
  <2>2. \/ Becomes(r, Equip(r, {"rerank"}, Model(LightChain, TRUE), "graphrag"))
        \/ Becomes(r, [replica[r] EXCEPT !.stage = "graphrag"])
    BY <1>14 DEF BuildReranker, PutReranker
  <2> QED BY <1>2, <1>13, <2>1, <2>2, ReplicaMoves
<1>15. CASE BuildGraphRag(r)
  <2>1. x.stage \in Guarded /\ "slots" \in Guarded /\ {"cypher"} \in SUBSET Uses
    BY <1>15 DEF BuildGraphRag, At, x, Guarded, Uses
  <2>2. \/ Becomes(r, Equip(r, {"cypher"}, Model(LightChain, TRUE), "slots"))
        \/ Becomes(r, [replica[r] EXCEPT !.stage = "slots"])
    BY <1>15 DEF BuildGraphRag
  <2> QED BY <1>2, <1>13, <2>1, <2>2, ReplicaMoves
<1>16. CASE BuildSlots(r)
  <2>1. x.stage \in Guarded /\ "wire" \in Guarded /\ {"slots"} \in SUBSET Uses
    BY <1>16 DEF BuildSlots, At, x, Guarded, Uses
  <2>2. \/ Becomes(r, Equip(r, {"slots"}, Model(LightChain, TRUE), "wire"))
        \/ Becomes(r, [replica[r] EXCEPT !.stage = "wire"])
    BY <1>16 DEF BuildSlots
  <2> QED BY <1>2, <1>13, <2>1, <2>2, ReplicaMoves
<1> QED BY <1>8, <1>9, <1>10, <1>11, <1>12, <1>14, <1>15, <1>16

LEMMA WireKeeps ==
    ASSUME FleetInv, NEW r \in Replicas, Wire(r)
    PROVE  FleetInv'
<1> DEFINE x == replica[r]
           main == Model(PrimaryChain, TRUE)
           intent == Model(IntentChain, TRUE)
           answering == Using(x.models, {"generation", "agent"}, main)
           table == Using(answering, {"intent"}, intent)
           y == [x EXCEPT !.stage = "decide", !.parts = @ \cup {"graph"}, !.models = table]
<1>1. /\ RowHolds(x) /\ setup \in Setups /\ x \in ReplicaRows /\ x.models \in ModelTables
      /\ x.stage = "wire" /\ World /\ (Forgo(r) \/ (IntentKeyed /\ Becomes(r, Wired(r))))
  BY DEF FleetInv, RowHolds, ReplicaRows, Wire, At
<1>2. x.stage \in Building /\ x.stage \in Guarded
  BY <1>1 DEF Building, Guarded
<1>3. CASE Forgo(r)
  BY <1>1, <1>2, <1>3, ForgoHolds, ReplicaMoves DEF Forgo
<1>4. CASE IntentKeyed /\ Becomes(r, Wired(r))
  <2>1. Wired(r) = y
    BY DEF Wired
  <2>2. main \in Models /\ intent \in Models /\ main.charged /\ intent.charged
        /\ main.chain = PrimaryChain /\ intent.chain = IntentChain
    BY <1>1, <1>4, ChainsAre DEF Model, Models
  <2>3. {"generation", "agent"} \in SUBSET Uses /\ {"intent"} \in SUBSET Uses
    BY DEF Uses
  <2> HIDE DEF main, intent
  <2>4. /\ answering \in ModelTables /\ DOMAIN answering = DOMAIN x.models \cup {"generation", "agent"}
        /\ \A u \in DOMAIN x.models \cup {"generation", "agent"} :
              answering[u] = IF u \in {"generation", "agent"} THEN main ELSE x.models[u]
    <3>1. PutInto(answering, x.models, {"generation", "agent"}, main)
      BY <1>1, <2>2, <2>3, UsingIs
    <3> HIDE DEF answering
    <3> QED BY <3>1 DEF PutInto
  <2> HIDE DEF answering
  <2>5. /\ table \in ModelTables /\ DOMAIN table = DOMAIN answering \cup {"intent"}
        /\ \A u \in DOMAIN answering \cup {"intent"} : table[u] = IF u \in {"intent"} THEN intent ELSE answering[u]
    <3>1. PutInto(table, answering, {"intent"}, intent)
      BY <2>2, <2>3, <2>4, UsingIs
    <3> HIDE DEF table
    <3> QED BY <3>1 DEF PutInto
  <2> HIDE DEF table
  <2>6. \A u \in DOMAIN table : u # "summary" => table[u].charged
    <3>1. \A u \in DOMAIN x.models : u # "summary" => x.models[u].charged
      BY <1>1 DEF RowHolds
    <3> QED BY <2>2, <2>4, <2>5, <3>1
  <2>7. {"generation", "intent"} \subseteq DOMAIN table /\ table["generation"].chain = PrimaryChain
        /\ table["intent"].chain = IntentChain
    BY <2>2, <2>4, <2>5
  <2>8. "guard" \in x.parts /\ ~x.ready
    BY <1>1, <1>2 DEF RowHolds
  <2>9. /\ y \in ReplicaRows /\ y.models = table /\ y.stage = "decide" /\ y.parts = x.parts \cup {"graph"} /\ y.ready = x.ready
    BY <1>1, <2>5 DEF ReplicaRows, Stages, Parts
  <2> HIDE DEF x, y
  <2>10. RowHolds(y)
    BY <2>6, <2>7, <2>8, <2>9 DEF RowHolds, Building, Guarded
  <2> QED BY <1>1, <1>4, <2>1, <2>10, ReplicaMoves
<1> QED BY <1>1, <1>3, <1>4

LEMMA DecideKeeps ==
    ASSUME FleetInv, NEW r \in Replicas, Decide(r)
    PROVE  FleetInv'
<1> DEFINE x == replica[r]
           fit == FitToServe(r)
           y == [x EXCEPT !.stage = "up", !.ready = fit, !.tasks = @ \cup {"worker"}]
<1>1. RowHolds(x) /\ x \in ReplicaRows /\ x.stage = "decide" /\ World /\ Becomes(r, y)
  BY DEF FleetInv, RowHolds, Decide, At
<1>2. fit \in BOOLEAN /\ (fit => "graph" \in x.parts /\ x.shared = setup.shared)
  BY DEF FitToServe
<1> HIDE DEF fit
<1>3. /\ y \in ReplicaRows /\ y.stage = "up" /\ y.ready = fit /\ y.parts = x.parts /\ y.models = x.models /\ y.shared = x.shared
  BY <1>1, <1>2 DEF ReplicaRows, Stages, TaskNames
<1> HIDE DEF x, y
<1>4. RowHolds(y)
  BY <1>1, <1>2, <1>3 DEF RowHolds, Building, Guarded
<1> QED BY <1>1, <1>4, ReplicaMoves

\* A turn on a ready replica is answered as it should be.
LEMMA NothingIsFaulty ==
    ASSUME FleetInv, NEW r \in Replicas, replica[r].ready
    PROVE  Faulty(r) = {}
<1> DEFINE x == replica[r]
<1>1. /\ RowHolds(x) /\ setup \in Setups /\ (setup.shared => store = told) /\ x.shared = setup.shared
      /\ "graph" \in x.parts /\ "guard" \in x.parts
      /\ x.models["generation"].chain = PrimaryChain /\ x.models["intent"].chain = IntentChain
      /\ \A u \in DOMAIN x.models : u # "summary" => x.models[u].charged
  BY DEF FleetInv, RowHolds
<1>2. setup.shared => Knows(r) = told
  BY <1>1 DEF Knows
<1>3. \A u \in Path(r) : x.models[u].charged
  BY <1>1 DEF Path
<1>4. setup.resilient => Unserved(r) = {}
  <2>1. HAVE setup.resilient
  <2>2. setup.keys \ spent # {} => Serves(PrimaryChain)
    BY <2>1 DEF Serves, PrimaryChain
  <2>3. {"minimax", "glm"} \subseteq setup.keys /\ setup.intent = "light"
        => IntentChain = setup.keys \cap {"minimax", "glm", "spare"}
    BY <2>1 DEF IntentChain, LightChain
  <2>4. /\ {"minimax", "glm"} \subseteq setup.keys /\ setup.intent = "light"
        /\ (setup.keys \cap {"minimax", "glm", "spare"}) \ spent # {}
        => Serves(IntentChain)
    BY <2>3 DEF Serves
  <2> QED BY <1>1, <2>2, <2>4 DEF Unserved
<1> QED BY <1>1, <1>2, <1>3, <1>4 DEF Faulty

LEMMA RoutedTurnKeeps ==
    ASSUME FleetInv, NEW r \in Replicas, Turn(r)
    PROVE  FleetInv'
<1> DEFINE x == replica[r]
           y == [x EXCEPT !.mine = IF @ < MaxTurns THEN @ + 1 ELSE @]
<1>1. /\ RowHolds(x) /\ setup \in Setups /\ x \in ReplicaRows /\ DOMAIN replica = Replicas
      /\ \A q \in Replicas : RowHolds(replica[q])
      /\ store \in Nat /\ told \in Nat /\ (setup.shared => store = told) /\ faults = {}
  BY DEF FleetInv, RowHolds
<1>2. x.ready /\ told < MaxTurns /\ told' = told + 1 /\ faults' = faults \cup Faulty(r) /\ setup' = setup
  BY DEF Turn
<1>3. faults' = {} /\ told' \in Nat
  BY <1>1, <1>2, NothingIsFaulty
<1>4. x.shared = setup.shared /\ x.shared \in BOOLEAN
  BY <1>1, <1>2 DEF RowHolds, ReplicaRows
<1>5. CASE x.shared
  <2>1. store' = (IF store < MaxTurns THEN store + 1 ELSE store) /\ replica' = replica
    BY <1>5 DEF Turn
  <2>2. store' \in Nat /\ (setup.shared => store' = told')
    BY <1>1, <1>2, <1>4, <1>5, <2>1
  <2> QED BY <1>1, <1>2, <1>3, <2>1, <2>2, FleetStays
<1>6. CASE ~x.shared
  <2>1. store' = store /\ Becomes(r, y)
    BY <1>6 DEF Turn
  <2>2. MaxTurns \in Nat /\ x.mine \in Nat
    BY <1>1, FleetAssumption DEF ReplicaRows
  <2>3. /\ y \in ReplicaRows /\ y.stage = x.stage /\ y.ready = x.ready /\ y.parts = x.parts
        /\ y.models = x.models /\ y.shared = x.shared /\ y.tasks = x.tasks
    BY <1>1, <2>2 DEF ReplicaRows
  <2> HIDE DEF x, y
  <2>4. RowHolds(y)
    BY <1>1, <2>3 DEF RowHolds
  <2>5. DOMAIN replica' = Replicas /\ \A q \in Replicas : RowHolds(replica'[q])
    BY <1>2, <2>1, <2>4, RowsStay
  <2> QED BY <1>1, <1>2, <1>3, <1>4, <1>6, <2>1, <2>5, FleetStays
<1> QED BY <1>5, <1>6

LEMMA StoppingKeeps ==
    ASSUME FleetInv, NEW r \in Replicas, Shutdown(r) \/ StopWorker(r) \/ StopTasks(r)
    PROVE  FleetInv'
<1> DEFINE x == replica[r]
<1>1. RowHolds(x) /\ x \in ReplicaRows
  BY DEF FleetInv, RowHolds
<1>2. PICK next \in {"stopworker", "stoptasks", "close"}, ended \in {{}, {"worker"}, Periodic} :
          /\ World /\ Becomes(r, [x EXCEPT !.stage = next, !.tasks = @ \ ended, !.ready = FALSE])
          /\ next = "stoptasks" => ended = {"worker"}
          /\ next = "close" => ended = Periodic /\ x.stage = "stoptasks"
  <2>1. CASE Shutdown(r)
    BY <2>1 DEF Shutdown, Stopping
  <2>2. CASE StopWorker(r)
    BY <2>2 DEF StopWorker, Stopping
  <2>3. CASE StopTasks(r)
    BY <2>3 DEF StopTasks, Stopping, At
  <2> QED BY <2>1, <2>2, <2>3
<1> DEFINE y == [x EXCEPT !.stage = next, !.tasks = @ \ ended, !.ready = FALSE]
<1>3. /\ y \in ReplicaRows /\ y.stage = next /\ y.ready = FALSE /\ y.parts = x.parts /\ y.models = x.models
      /\ y.tasks = x.tasks \ ended
  BY <1>1 DEF ReplicaRows, Stages
<1>4. next = "stoptasks" => "worker" \notin y.tasks
  BY <1>2, <1>3
<1>5. next = "close" => y.tasks = {}
  <2>1. x.tasks \subseteq {"worker", "keywords", "kpi"} /\ (x.stage = "stoptasks" => "worker" \notin x.tasks)
    BY <1>1 DEF RowHolds, ReplicaRows, TaskNames
  <2> QED BY <1>2, <1>3, <2>1 DEF Periodic
<1>6. next \notin Building /\ next \notin Guarded
  BY DEF Building, Guarded
<1>7. Becomes(r, y) /\ World
  BY <1>2
<1> HIDE DEF x, y
<1>8. RowHolds(y)
  BY <1>1, <1>3, <1>4, <1>5, <1>6 DEF RowHolds
<1> QED BY <1>7, <1>8, ReplicaMoves

LEMMA FleetStarts == FleetInit => FleetInv
<1> SUFFICES ASSUME FleetInit PROVE FleetInv
  OBVIOUS
<1>1. /\ setup \in Setups /\ replica = [r \in Replicas |-> Blank] /\ store = 0 /\ told = 0 /\ faults = {}
  BY DEF FleetInit
<1> QED BY <1>1, BlankHolds DEF FleetInv

LEMMA FleetStep == FleetInv /\ [FleetNext]_fleetVars => FleetInv'
<1> SUFFICES ASSUME FleetInv, [FleetNext]_fleetVars PROVE FleetInv'
  OBVIOUS
<1>1. /\ setup \in Setups /\ store \in Nat /\ told \in Nat /\ (setup.shared => store = told) /\ faults = {}
      /\ DOMAIN replica = Replicas /\ \A q \in Replicas : RowHolds(replica[q])
  BY DEF FleetInv
<1>2. ASSUME NEW r \in Replicas, Boot(r)
      PROVE  FleetInv'
  <2> DEFINE y == [Blank EXCEPT !.stage = "saver"]
  <2>1. /\ Becomes(r, y) /\ UNCHANGED <<setup, store, told, faults>>
    BY <1>2 DEF Boot
  <2>2. y \in ReplicaRows /\ y.stage = "saver" /\ y.models = Blank.models /\ y.parts = Blank.parts /\ y.ready = Blank.ready
    BY BlankHolds DEF RowHolds, ReplicaRows, Stages
  <2>3. Blank.stage = "down"
    BY DEF Blank
  <2> HIDE DEF y
  <2>4. RowHolds(y)
    BY <2>2, <2>3, BlankHolds DEF RowHolds, Building, Guarded
  <2>5. DOMAIN replica' = Replicas /\ \A q \in Replicas : RowHolds(replica'[q])
    BY <2>1, <2>4, RowsStay
  <2> QED BY <1>1, <2>1, <2>5, FleetStays
<1>3. ASSUME NEW r \in Replicas, Close(r)
      PROVE  FleetInv'
  <2>1. /\ Becomes(r, Blank) /\ UNCHANGED <<setup, store, told>> /\ replica[r].stage = "close"
        /\ faults' = faults \cup (IF replica[r].tasks # {} THEN {"orphan"} ELSE {})
    BY <1>3 DEF Close, At
  <2>2. replica[r].tasks = {}
    BY <1>1, <2>1 DEF RowHolds
  <2>3. faults' = {}
    BY <1>1, <2>1, <2>2
  <2>4. DOMAIN replica' = Replicas /\ \A q \in Replicas : RowHolds(replica'[q])
    BY <2>1, BlankHolds, RowsStay
  <2> QED BY <1>1, <2>1, <2>3, <2>4, FleetStays
<1>4. ASSUME NEW r \in Replicas, Crash(r)
      PROVE  FleetInv'
  BY <1>4, BlankHolds, ReplicaMoves DEF Crash
<1>5. ASSUME NEW k \in setup.keys, Exhaust(k)
      PROVE  FleetInv'
  <2>1. UNCHANGED <<setup, replica, store, told, faults>>
    BY <1>5 DEF Exhaust
  <2> QED BY <1>1, <2>1, FleetStays
<1>6. CASE UNCHANGED fleetVars
  <2>1. UNCHANGED <<setup, replica, store, told, faults>>
    BY <1>6 DEF fleetVars
  <2> QED BY <1>1, <2>1, FleetStays
<1> QED BY <1>2, <1>3, <1>4, <1>5, <1>6, BuildKeeps, WireKeeps, DecideKeeps, RoutedTurnKeeps, StoppingKeeps DEF FleetNext

\* What a boot built stays fit together through turns, exhausted plans,
\* shutdowns and crashes (main.py lifespan, initialize_chat_service).
THEOREM FleetInvariant == FleetSpec => []FleetInv
<1>1. FleetInit => FleetInv
  BY FleetStarts
<1>2. FleetInv /\ [FleetNext]_fleetVars => FleetInv'
  BY FleetStep
<1> QED BY <1>1, <1>2, PTL DEF FleetSpec

\* A turn routed to a ready replica finds the conversation, the graph, the
\* guard, the budget and a provider; nobody is left running (FleetIsFit).
THEOREM FleetIsFitForTurns == FleetSpec => []FleetIsFit
<1>1. FleetInv => FleetIsFit
  BY DEF FleetInv, FleetIsFit, TurnsAreRemembered, ReadyServes, SafeguardsSurvive, NobodyIsOrphaned
<1> QED BY <1>1, FleetInvariant, PTL
=============================================================================
