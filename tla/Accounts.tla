------------------------------ MODULE Accounts ------------------------------
(***************************************************************************)
(* Registered accounts and their tokens: services/auth_service.py, the     *)
(* endpoints of api/v1/auth.py, the dependencies of api/deps/__init__.py   *)
(* that turn a bearer token into a user, and the user repository.          *)
(* Registration looks the address up, hashes the password and inserts: the *)
(* unique index on users.email decides between two of them.  The lookup is *)
(* an ILIKE, so an address is a pattern there and a value in the index.    *)
(* Tokens are not stored: what they are worth is decided by their kind,    *)
(* their expiry and the row they name, read again at every request.        *)
(* Guests have rows without an address, which no lookup here returns.      *)
(***************************************************************************)
EXTENDS Naturals, FiniteSets

CONSTANTS
    Addresses,     \* e-mail addresses
    Matches,       \* pairs <<pattern, address>> the ILIKE lookup accepts
    Passwords,     \* passwords, the weak ones included
    Weak,          \* passwords validate_password or bcrypt refuses
    Clients,       \* callers registering
    MaxAccounts,   \* bound: rows
    MaxNow,        \* bound: the clock
    AccessLife,    \* JWT_ACCESS_TOKEN_EXPIRE_MINUTES in ticks
    RefreshLife    \* JWT_REFRESH_TOKEN_EXPIRE_DAYS in ticks

ASSUME AccountsAssumption ==
    /\ Matches \subseteq Addresses \X Addresses
    /\ \A e \in Addresses : <<e, e>> \in Matches
    /\ Weak \subseteq Passwords
    /\ {MaxAccounts, MaxNow} \subseteq Nat /\ {AccessLife, RefreshLife} \subseteq Nat \ {0}

VARIABLES
    users,      \* id -> [email, password, active, admin]
    register,   \* client -> the registration it has under way
    tokens,     \* tokens handed out: [user, kind, exp]
    now,        \* time.time()
    login,      \* id -> when the account was last logged in to (history)
    welcomed,   \* [email, password] a 201 was answered for (history)
    wrong       \* requests that were served and should not have been (history)

accountVars == <<users, register, tokens, now, login, welcomed, wrong>>

Ids == DOMAIN users
NotAsking == [step |-> "none"]
Registrations ==
    {NotAsking} \cup [step : {"look", "insert"}, email : Addresses, password : Passwords \ Weak]
Tokens == [user : 1..MaxAccounts, kind : {"access", "refresh"},
           exp : 0..(MaxNow + AccessLife + RefreshLife)]

AccountsTypeOK ==
    /\ Ids \subseteq 1..MaxAccounts
    /\ \A u \in Ids : users[u] \in [email : Addresses, password : Passwords \ Weak,
                                    active : BOOLEAN, admin : BOOLEAN]
    /\ register \in [Clients -> Registrations] /\ tokens \subseteq Tokens /\ now \in 0..MaxNow
    /\ login \in [Ids -> 0..MaxNow]
    /\ welcomed \subseteq [email : Addresses, password : Passwords]
    /\ wrong \subseteq {"late", "inactive", "kind", "rank"}

AccountsInit ==
    /\ users = [u \in {} |-> {}] /\ login = [u \in {} |-> 0]
    /\ register = [c \in Clients |-> NotAsking]
    /\ tokens = {} /\ now = 0 /\ welcomed = {} /\ wrong = {}

\* UserRepository.get_by_email: several rows make scalar_one_or_none raise.
Found(email) == {u \in Ids : <<email, users[u].email>> \in Matches}

Registering(c, call) == register' = [register EXCEPT ![c] = call]

-----------------------------------------------------------------------------
\* POST /auth/register.

Acceptable(password) == password \notin Weak

\* A weak password is refused at once (422).
Ask(c, email, password) ==
    /\ register[c] = NotAsking /\ Acceptable(password)
    /\ Registering(c, [step |-> "look", email |-> email, password |-> password])
    /\ UNCHANGED <<users, tokens, now, login, welcomed, wrong>>

\* An account that answers to the address is a conflict (409), several are
\* an error (500).
Look(c) ==
    /\ register[c].step = "look"
    /\ Registering(c, IF Found(register[c].email) = {} THEN [register[c] EXCEPT !.step = "insert"]
                ELSE NotAsking)
    /\ UNCHANGED <<users, tokens, now, login, welcomed, wrong>>

\* Mutant: the address is not unique in the table.
NeverTaken(email) == FALSE

Taken(email) == \E u \in Ids : users[u].email = email

\* The insert commits or meets the unique index (500).  After the commit the
\* row is read back; when that fails the caller hears 500 for an account
\* that exists.
Insert(c) ==
    /\ register[c].step = "insert"
    /\ Registering(c, NotAsking)
    /\ LET call == register[c]
           next == Cardinality(Ids) + 1
       IN  IF Taken(call.email) THEN UNCHANGED <<users, login, welcomed>>
           ELSE /\ next <= MaxAccounts
                /\ users' = [u \in 1..next |->
                       IF u = next THEN [email |-> call.email, password |-> call.password,
                                         active |-> TRUE, admin |-> FALSE]
                       ELSE users[u]]
                /\ login' = [u \in 1..next |-> IF u = next THEN 0 ELSE login[u]]
                /\ \/ UNCHANGED welcomed
                   \/ welcomed' = welcomed \cup {[email |-> call.email, password |-> call.password]}
    /\ UNCHANGED <<tokens, now, wrong>>

-----------------------------------------------------------------------------
\* Tokens.

Token(u, kind, life) == [user |-> u, kind |-> kind, exp |-> now + life]
Alive(t) == now < t.exp

\* POST /auth/login: one row for the address, active, with this password.
Opened(email, password) ==
    {u \in Found(email) : /\ Cardinality(Found(email)) = 1
                          /\ users[u].active /\ users[u].password = password}

Login(email, password) ==
    \E u \in Opened(email, password) :
        /\ tokens' = tokens \cup {Token(u, "access", AccessLife), Token(u, "refresh", RefreshLife)}
        /\ login' = [login EXCEPT ![u] = now]
        /\ UNCHANGED <<users, register, now, welcomed, wrong>>

\* Mutant: a refresh renews the refresh token as well.
RenewsBoth(t) == {Token(t.user, "access", AccessLife), Token(t.user, "refresh", RefreshLife)}

Renewed(t) == {Token(t.user, "access", AccessLife)}

\* Mutant: the refresh trusts the token without reading the account.
RefreshUnread(t) == t.kind = "refresh" /\ Alive(t)

MayRefresh(t) == t.kind = "refresh" /\ Alive(t) /\ t.user \in Ids /\ users[t.user].active

\* POST /auth/refresh.
Refresh(t) ==
    /\ MayRefresh(t)
    /\ tokens' = tokens \cup Renewed(t)
    /\ wrong' = wrong \cup (IF users[t.user].active THEN {} ELSE {"inactive"})
    /\ UNCHANGED <<users, register, now, login, welcomed>>

\* Mutant: any token the key has signed opens an endpoint.
AnyKind(t) == Alive(t) /\ t.user \in Ids /\ users[t.user].active

Verified(t) == t.kind = "access" /\ Alive(t)

\* get_current_user: an access token that has not expired, of an active account.
MayEnter(t) == Verified(t) /\ t.user \in Ids /\ users[t.user].active

\* Mutant: every account that may enter is an administrator.
AnyRank(t) == MayEnter(t)

\* require_admin.
MayManage(t) == MayEnter(t) /\ users[t.user].admin

Served(t, rank) ==
    (IF now < login[t.user] + RefreshLife + AccessLife THEN {} ELSE {"late"})
    \cup (IF users[t.user].active THEN {} ELSE {"inactive"})
    \cup (IF t.kind = "access" THEN {} ELSE {"kind"})
    \cup (IF rank => users[t.user].admin THEN {} ELSE {"rank"})

Enter(t) ==
    /\ MayEnter(t)
    /\ wrong' = wrong \cup Served(t, FALSE)
    /\ UNCHANGED <<users, register, tokens, now, login, welcomed>>

Manage(t) ==
    /\ MayManage(t)
    /\ wrong' = wrong \cup Served(t, TRUE)
    /\ UNCHANGED <<users, register, tokens, now, login, welcomed>>

-----------------------------------------------------------------------------
\* Operators change rows in the database; time passes.

Deactivate(u) ==
    /\ users[u].active
    /\ users' = [users EXCEPT ![u].active = FALSE]
    /\ UNCHANGED <<register, tokens, now, login, welcomed, wrong>>

SetAdmin(u, admin) ==
    /\ users[u].admin # admin
    /\ users' = [users EXCEPT ![u].admin = admin]
    /\ UNCHANGED <<register, tokens, now, login, welcomed, wrong>>

\* An expired token is only ever refused.
Tick ==
    /\ now < MaxNow
    /\ now' = now + 1
    /\ tokens' = {t \in tokens : now + 1 < t.exp}
    /\ UNCHANGED <<users, register, login, welcomed, wrong>>

AccountsNext ==
    \/ \E c \in Clients, email \in Addresses, password \in Passwords : Ask(c, email, password)
    \/ \E c \in Clients : Look(c) \/ Insert(c)
    \/ \E email \in Addresses, password \in Passwords : Login(email, password)
    \/ \E t \in tokens : Refresh(t) \/ Enter(t) \/ Manage(t)
    \/ \E u \in Ids : Deactivate(u) \/ \E admin \in BOOLEAN : SetAdmin(u, admin)
    \/ Tick

AccountsSpec == AccountsInit /\ [][AccountsNext]_accountVars

-----------------------------------------------------------------------------
\* Two registrations of one address never both make an account, however
\* their lookups and inserts interleave (auth_service.py register_user,
\* models/database/user.py unique index).
OneAccountPerAddress == \A u, v \in Ids : users[u].email = users[v].email => u = v

\* What a 201 answered stays true: the account is there with the password
\* its caller chose, whatever other registrations of the address did.
WelcomeIsKept ==
    \A a \in welcomed : \E u \in Ids : users[u].email = a.email /\ users[u].password = a.password

\* A token opens what its kind and its owner's row allow at the moment of
\* the request: deactivation and demotion act at once, and a login ends for
\* good one refresh and one access lifetime later (auth_service.py
\* verify_token, refresh_access_token; deps get_current_user, require_admin).
TokensAreWorthTheirRow == wrong = {}

AccountsAreSound == OneAccountPerAddress /\ WelcomeIsKept /\ TokensAreWorthTheirRow

\* user_repository.py 42-54 promises the user of an address: whoever was
\* told 201 can log in with the password given, while the account is active.
AccountsCanBeOpened ==
    \A a \in welcomed :
        (\A u \in Ids : users[u].email = a.email => users[u].active)
            => Opened(a.email, a.password) # {}
=============================================================================
