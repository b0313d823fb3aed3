------------------------------- MODULE Access --------------------------------
(***************************************************************************)
(* Who may see what in the API: sessions and their tokens                  *)
(* (api/v2/routers/session.py, api/v2/dependencies.py), and the routes of  *)
(* a house's data behind verify_data_access (api/v2/shared_queries.py).    *)
(* Users and roles are rows of a database that others edit.                *)
(*                                                                         *)
(* A step is what a request does between two awaits of the database.  A    *)
(* session's UPDATE and COMMIT are one step: the rows stay locked between  *)
(* them.  Time has a unit in which a request is over before it passes, as  *)
(* a session is within a day.                                              *)
(***************************************************************************)
EXTENDS Roles

CONSTANTS
    Clients,    \* browsers: each has one token and makes one request at a time
    Users,
    Nobody,
    RoleRows,   \* the rows user_installation_roles may have
    TokenLife,  \* ACCESS_TOKEN_EXPIRE_MINUTES
    Steps,      \* time steps of the data routes; 0 for the hourly data
    MaxTime     \* bound on the clock

RoleRow == [user : Users, role : {"admin", "owner", "viewer"}, house : Houses \cup {EveryHouse}]

ASSUME AccessAssumption ==
    /\ Nobody \notin Users
    /\ RoleRows \subseteq RoleRow
    /\ TokenLife \in Nat
    /\ Steps \subseteq Nat
    /\ MaxTime \in Nat \ {0}

VARIABLES
    now,
    users,      \* the rows of users
    roles,      \* the rows of user_installation_roles
    token,      \* the token each client has, NoToken when it has none that is good
    session,    \* the session requests
    fetch,      \* the data requests
    earned      \* history: the last times each user was active, and a system admin

vars == <<now, users, roles, token, session, fetch, earned>>

Time == 0..MaxTime

\* last_login, which nothing reads, is left out.
User == [active : BOOLEAN, updated_at : Time]

Token == [user : Users \cup {Nobody}, adm : BOOLEAN, exp : 0..(MaxTime + TokenLife)]

NoToken == [user |-> Nobody, adm |-> FALSE, exp |-> 0]

\* user, updated_at and adm are of the row and the roles as they were read.
Session == [pc : {"over", "user", "read"}, user : Users \cup {Nobody}, updated_at : Time, adm : BOOLEAN]

NoSession == [pc |-> "over", user |-> Nobody, updated_at |-> 0, adm |-> FALSE]

\* end and step: the query's.  owner and at are history: whether the user was an owner
\* or admin of the house when it was checked, and when that was.
Fetch == [pc : {"over", "checked"}, end : Time, step : Steps \cup {0}, owner : BOOLEAN, at : Time]

NoFetch == [pc |-> "over", end |-> 0, step |-> 0, owner |-> FALSE, at |-> 0]

TypeOK ==
    /\ now \in Time
    /\ users \in [Users -> User]
    /\ roles \subseteq RoleRows
    /\ token \in [Clients -> Token]
    /\ session \in [Clients -> Session]
    /\ fetch \in [Clients -> Fetch]
    /\ earned \in [Users -> [active : Time, admin : Time]]

\* A user with a null admin role.
SystemAdmin(u, rows) == \E r \in rows : r.user = u /\ r.role = "admin" /\ r.house = EveryHouse

\* The history, with the tables as they are next.
EarnedNow ==
    earned' = [u \in Users |->
        [active |-> IF users'[u].active THEN now' ELSE earned[u].active,
         admin |-> IF SystemAdmin(u, roles') THEN now' ELSE earned[u].admin]]

Init ==
    /\ now = 1
    /\ users \in [Users -> [active : {TRUE}, updated_at : 0..1]]
    /\ roles \in SUBSET RoleRows
    /\ token = [c \in Clients |-> NoToken]
    /\ session = [c \in Clients |-> NoSession]
    /\ fetch = [c \in Clients |-> NoFetch]
    /\ earned = [u \in Users |-> [active |-> 1, admin |-> IF SystemAdmin(u, roles) THEN 1 ELSE 0]]

-----------------------------------------------------------------------------
\* create_session reads the user.  One who is not active, or a wrong password, is answered
\* 401 and nothing changes.
SessionRead(c, u) ==
    /\ session[c].pc = "over" /\ fetch[c].pc = "over"
    /\ users[u].active
    /\ session' = [session EXCEPT ![c] = [pc |-> "user", user |-> u,
                       updated_at |-> users[u].updated_at, adm |-> FALSE]]
    /\ UNCHANGED <<now, users, roles, token, fetch>>
    /\ EarnedNow

\* A mutation: the roles count whatever house they are for.
AnyAdmin(c) == \E r \in roles : r.user = session[c].user /\ r.role \in {"admin", "owner"}

\* sys_admin_roles.
IsSysAdmin(c) == SystemAdmin(session[c].user, roles)

\* selectinload reads the user's roles in a second statement.
SessionRoles(c) ==
    /\ session[c].pc = "user"
    /\ session' = [session EXCEPT ![c].pc = "read", ![c].adm = IsSysAdmin(c)]
    /\ UNCHANGED <<now, users, roles, token, fetch>>
    /\ EarnedNow

\* The UPDATE has no WHERE.
LoggedIn(c) == [u \in Users |-> [users[u] EXCEPT !.updated_at = session[c].updated_at]]

\* encode_token.
TokenOf(c) == [user |-> session[c].user, adm |-> session[c].adm, exp |-> now + TokenLife]

\* last_login is written and committed, and the token given out.
SessionWrite(c) ==
    /\ session[c].pc = "read"
    /\ users' = LoggedIn(c)
    /\ token' = [token EXCEPT ![c] = TokenOf(c)]
    /\ session' = [session EXCEPT ![c] = NoSession]
    /\ UNCHANGED <<now, roles, fetch>>
    /\ EarnedNow

\* The database fails, and the transaction is rolled back.
SessionFails(c) ==
    /\ session[c].pc # "over"
    /\ session' = [session EXCEPT ![c] = NoSession]
    /\ UNCHANGED <<now, users, roles, token, fetch>>
    /\ EarnedNow

-----------------------------------------------------------------------------
\* The roles of u that count for h.
RolesOn(u, h) == RolesFor({r \in roles : r.user = u}, h)

\* verify_data_access, on a token that has not expired and is not asked whether its user
\* is still active.  No role, or data that is not old and no role of an owner: 404.
FetchCheck(c, h) ==
    /\ session[c].pc = "over" /\ fetch[c].pc = "over"
    /\ token[c] # NoToken
    /\ LET mine == RolesOn(token[c].user, h) IN
       /\ mine # {}
       /\ \E end \in Time, step \in Steps \cup {0} :
             /\ OwnerOrAdmin(mine) \/ OldData(end, now)
             /\ fetch' = [fetch EXCEPT ![c] = [pc |-> "checked", end |-> end, step |-> step,
                                               owner |-> OwnerOrAdmin(mine), at |-> now]]
    /\ UNCHANGED <<now, users, roles, token, session>>
    /\ EarnedNow

\* The newest time the data of a request may reach: the end of its last time step.
Newest(c) == IF fetch[c].end + fetch[c].step < now THEN fetch[c].end + fetch[c].step ELSE now

\* The rows are read and sent, with no other check.
FetchSend(c) ==
    /\ fetch[c].pc = "checked"
    /\ fetch' = [fetch EXCEPT ![c] = NoFetch]
    /\ UNCHANGED <<now, users, roles, token, session>>
    /\ EarnedNow

-----------------------------------------------------------------------------
\* Somebody edits a user's row: active or not.
EditUser(u) ==
    /\ users' = [users EXCEPT ![u].active = ~@, ![u].updated_at = now]
    /\ UNCHANGED <<now, roles, token, session, fetch>>
    /\ EarnedNow

\* Somebody gives or takes a role.
EditRole(r) ==
    /\ roles' = IF r \in roles THEN roles \ {r} ELSE roles \cup {r}
    /\ UNCHANGED <<now, users, token, session, fetch>>
    /\ EarnedNow

\* A mutation: decoding does not look at the expiry.
NeverExpires(c) == token[c]

\* What decode_token makes of a client's token at the next time.
StillGood(c) == IF now + 1 <= token[c].exp THEN token[c] ELSE NoToken

Tick ==
    /\ now < MaxTime
    /\ \A c \in Clients : session[c].pc = "over"
    /\ now' = now + 1
    /\ token' = [c \in Clients |-> StillGood(c)]
    /\ UNCHANGED <<users, roles, session, fetch>>
    /\ EarnedNow

Next ==
    \/ \E c \in Clients :
          \/ \E u \in Users : SessionRead(c, u)
          \/ SessionRoles(c)
          \/ SessionWrite(c)
          \/ SessionFails(c)
          \/ \E h \in Houses : FetchCheck(c, h)
          \/ FetchSend(c)
    \/ \E u \in Users : EditUser(u)
    \/ \E r \in RoleRows : EditRole(r)
    \/ Tick

Spec == Init /\ [][Next]_vars

-----------------------------------------------------------------------------
(* Properties. *)

\* Whoever holds a good admin token was active, and was a system admin, within a token's
\* life: however roles are taken, users deactivated and sessions delayed, the admin routes
\* serve nobody on older grounds (encode_token, parse_user_from_jwt).
AdminTokensEarned ==
    \A c \in Clients : token[c].adm =>
        /\ now <= earned[token[c].user].active + TokenLife
        /\ now <= earned[token[c].user].admin + TokenLife

\* "All others can only view data that is older than 10 days" (verify_data_access): all
\* that is sent to a user who was no owner or admin of the house was older than that when
\* the request came in.  The end that was checked is not the end of what is read:
\* get_readings adds a time step to it, which nothing bounds.
OthersSeeOldData ==
    [][\A c \in Clients :
          fetch[c].pc = "checked" /\ fetch'[c].pc = "over" /\ ~fetch[c].owner =>
              Newest(c) + OpenAge < fetch[c].at]_vars

\* "Update last_login without resetting updated_at": a step that is no edit of a user
\* leaves every user's updated_at as it is.
UpdatedAtKept ==
    [][\A u \in Users : users'[u].active = users[u].active =>
            users'[u].updated_at = users[u].updated_at]_vars
=============================================================================
