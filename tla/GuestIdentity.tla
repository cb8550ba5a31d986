---------------------------- MODULE GuestIdentity ----------------------------
(***************************************************************************)
(* Anonymous visitors (src/app/services/guest_identity.py and              *)
(* src/app/api/v1/guest.py): a browser cookie is the only credential; each *)
(* visitor has one current private conversation, which bootstrap returns   *)
(* or, when it was deleted, replaces.                                      *)
(*                                                                         *)
(* Tabs of one browser bootstrap at once and share the cookie jar.  A row  *)
(* lock serialises them only on databases that have one, so the model      *)
(* leaves it out: reading and writing are two steps, and the conditional   *)
(* update between them carries the argument.                               *)
(***************************************************************************)
EXTENDS Naturals, FiniteSets

CONSTANTS
    Tabs,         \* requests of one browser
    MaxVisitors,  \* bound: visitors created
    MaxSessions,  \* bound: conversations created
    MaxAttempts,  \* attempts of _reuse
    NoSession,
    NoVisitor

ASSUME GuestAssumption ==
    /\ {MaxVisitors, MaxSessions, MaxAttempts} \subseteq Nat \ {0}
    /\ NoSession \notin Nat /\ NoVisitor \notin Nat

VARIABLES
    visitors,   \* visitor -> current session, credential valid, account a live guest
    sessions,   \* session -> the visitor whose account owns it
    deleted,    \* conversations deleted by their owner
    cookie,     \* the browser's cookie jar
    tab         \* per tab: progress of its bootstrap and what it was given

guestVars == <<visitors, sessions, deleted, cookie, tab>>

Created == DOMAIN visitors

GuestTypeOK ==
    /\ Created \subseteq 1..MaxVisitors /\ DOMAIN sessions \subseteq 1..MaxSessions
    /\ \A v \in Created : visitors[v] \in
          [current : (1..MaxSessions) \cup {NoSession}, valid : BOOLEAN, guest : BOOLEAN]
    /\ deleted \subseteq DOMAIN sessions
    /\ cookie \in Created \cup {NoVisitor}
    /\ tab \in [Tabs -> [step : {"idle", "loading", "replacing", "opened", "unavailable"},
                         token : (1..MaxVisitors) \cup {NoVisitor},
                         found : (1..MaxSessions) \cup {NoSession},
                         try : 0..MaxAttempts,
                         session : (1..MaxSessions) \cup {NoSession}]]

Idle == [step |-> "idle", token |-> NoVisitor, found |-> NoSession, try |-> 0,
         session |-> NoSession]

GuestInit ==
    /\ visitors = <<>> /\ sessions = <<>>
    /\ deleted = {}
    /\ cookie = NoVisitor
    /\ tab = [t \in Tabs |-> Idle]

Live(v) == v \in Created /\ visitors[v].valid /\ visitors[v].guest

NewSession == Cardinality(DOMAIN sessions) + 1
NewVisitor == Cardinality(Created) + 1

-----------------------------------------------------------------------------
(* Bootstrap. *)

Begins(t) ==
    /\ tab[t].step \in {"idle", "opened", "unavailable"}
    /\ tab' = [tab EXCEPT ![t] = [Idle EXCEPT !.step = "loading", !.token = cookie]]
    /\ UNCHANGED <<visitors, sessions, deleted, cookie>>

\* No cookie, or one that opens nothing any more: a new account, visitor
\* and conversation in one transaction, and a new cookie for the browser.
Creates(t) ==
    /\ tab[t].step = "loading"
    /\ tab[t].token = NoVisitor \/ ~Live(tab[t].token)
    /\ NewVisitor <= MaxVisitors /\ NewSession <= MaxSessions
    /\ sessions' = [s \in DOMAIN sessions \cup {NewSession} |->
                       IF s = NewSession THEN NewVisitor ELSE sessions[s]]
    /\ visitors' = [v \in Created \cup {NewVisitor} |->
                       IF v = NewVisitor
                       THEN [current |-> NewSession, valid |-> TRUE, guest |-> TRUE]
                       ELSE visitors[v]]
    /\ cookie' = NewVisitor
    /\ tab' = [tab EXCEPT ![t] = [@ EXCEPT !.step = "opened", !.token = NewVisitor,
                                           !.session = NewSession]]
    /\ UNCHANGED deleted

Readable(v) ==
    LET s == visitors[v].current
    IN s # NoSession /\ s \notin deleted /\ sessions[s] = v

\* The current conversation is still there.
Reuses(t) ==
    /\ tab[t].step = "loading"
    /\ tab[t].token # NoVisitor /\ Live(tab[t].token)
    /\ Readable(tab[t].token)
    /\ tab' = [tab EXCEPT ![t] = [@ EXCEPT !.step = "opened",
                                           !.session = visitors[tab[t].token].current]]
    /\ UNCHANGED <<visitors, sessions, deleted, cookie>>

\* It is gone: remember what the row said and try to replace it.
FindsNone(t) ==
    /\ tab[t].step = "loading"
    /\ tab[t].token # NoVisitor /\ Live(tab[t].token)
    /\ ~Readable(tab[t].token)
    /\ tab' = [tab EXCEPT ![t] = [@ EXCEPT !.step = "replacing",
                                           !.found = visitors[tab[t].token].current]]
    /\ UNCHANGED <<visitors, sessions, deleted, cookie>>

\* Mutant: the update compares the credential but not the conversation.
StillAsFoundByToken(t) == Live(tab[t].token)

\* The conditions of the UPDATE.
StillAsFound(t) ==
    /\ Live(tab[t].token)
    /\ visitors[tab[t].token].current = tab[t].found

Replaces(t) ==
    /\ tab[t].step = "replacing"
    /\ StillAsFound(t)
    /\ NewSession <= MaxSessions
    /\ sessions' = [s \in DOMAIN sessions \cup {NewSession} |->
                       IF s = NewSession THEN tab[t].token ELSE sessions[s]]
    /\ visitors' = [visitors EXCEPT ![tab[t].token].current = NewSession]
    /\ tab' = [tab EXCEPT ![t] = [@ EXCEPT !.step = "opened", !.session = NewSession]]
    /\ UNCHANGED <<deleted, cookie>>

\* Somebody else changed the row: the new conversation is rolled back.
LosesRace(t) ==
    /\ tab[t].step = "replacing"
    /\ ~StillAsFound(t)
    /\ tab' = [tab EXCEPT ![t] =
          IF tab[t].try + 1 < MaxAttempts
          THEN [@ EXCEPT !.step = "loading", !.try = tab[t].try + 1]
          ELSE [@ EXCEPT !.step = "unavailable"]]
    /\ UNCHANGED <<visitors, sessions, deleted, cookie>>

-----------------------------------------------------------------------------
(* The world. *)

\* The visitor deletes a conversation: the foreign key is set to null.
Deletes(s) ==
    /\ s \in DOMAIN sessions \ deleted
    /\ deleted' = deleted \cup {s}
    /\ visitors' = [v \in Created |-> IF visitors[v].current = s
                                      THEN [visitors[v] EXCEPT !.current = NoSession]
                                      ELSE visitors[v]]
    /\ UNCHANGED <<sessions, cookie, tab>>

\* The credential expires, or the account is deactivated or registered.
Expires(v) ==
    /\ v \in Created /\ visitors[v].valid
    /\ visitors' = [visitors EXCEPT ![v].valid = FALSE]
    /\ UNCHANGED <<sessions, deleted, cookie, tab>>

StopsBeingGuest(v) ==
    /\ v \in Created /\ visitors[v].guest
    /\ visitors' = [visitors EXCEPT ![v].guest = FALSE]
    /\ UNCHANGED <<sessions, deleted, cookie, tab>>

GuestNext ==
    \/ \E t \in Tabs : Begins(t) \/ Creates(t) \/ Reuses(t) \/ FindsNone(t)
                       \/ Replaces(t) \/ LosesRace(t)
    \/ \E s \in 1..MaxSessions : Deletes(s)
    \/ \E v \in 1..MaxVisitors : Expires(v) \/ StopsBeingGuest(v)

GuestSpec == GuestInit /\ [][GuestNext]_guestVars

-----------------------------------------------------------------------------
(* Properties *)

\* However tabs, deletions and expiries race, a visitor never ends up with
\* two conversations: every conversation that was not deleted is the one
\* its visitor's row points to (guest_identity.py, the conditional update of
\* _reuse and the rollback of the loser).
OneConversationEach == \A s \in DOMAIN sessions \ deleted :
    visitors[sessions[s]].current = s
=============================================================================
