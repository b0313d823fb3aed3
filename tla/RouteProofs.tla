----------------------------- MODULE RouteProofs ------------------------------
(***************************************************************************)
(* Proofs about the routes of the two backends: about Access, who is let   *)
(* in and sees what, for any clients, users, houses and rows of roles, any *)
(* life of a token and any age at which data is open; and about RouteReads *)
(* what one read of the database is answered with, for any set of requests *)
(* and tables, any number of houses, senders, zones and channels and any   *)
(* limits.                                                                 *)
(***************************************************************************)
EXTENDS Access, RouteReads, OrderedProofs

-----------------------------------------------------------------------------
(* Sessions, tokens and the data of houses. *)

\* What is remembered of a user is of the past.
EarnedBefore == \A u \in Users : earned[u].active <= now /\ earned[u].admin <= now

\* An admin token has not expired, and expires within a token's life of the last time its
\* user was active and of the last time its user was a system admin.
Held(c) ==
    token[c].adm =>
        /\ token[c].user \in Users
        /\ now <= token[c].exp
        /\ token[c].exp <= earned[token[c].user].active + TokenLife
        /\ token[c].exp <= earned[token[c].user].admin + TokenLife

\* A session's user was active, and was an admin if its roles say so, since the clock
\* last moved.
Current(c) ==
    /\ session[c].pc # "over" =>
          session[c].user \in Users /\ earned[session[c].user].active = now
    /\ session[c].adm =>
          session[c].pc # "over" /\ earned[session[c].user].admin = now

Inv ==
    /\ TypeOK
    /\ EarnedBefore
    /\ \A c \in Clients : Held(c) /\ Current(c)

\* Times and the lives of tokens are numbers.
LEMMA TimeNat == Time \subseteq Nat /\ 0 \in Time /\ TokenLife \in Nat /\ OpenAge \in Nat
BY AccessAssumption, RolesAssumption DEF Time

\* A client starts without a token, a session and a request.
LEMMA NoneTypes ==
    /\ NoToken \in Token /\ NoToken.adm = FALSE
    /\ NoSession \in Session /\ NoSession.pc = "over" /\ NoSession.adm = FALSE
    /\ NoFetch \in Fetch /\ NoFetch.pc = "over"
<1>1. 0 \in Time /\ 0 \in 0..(MaxTime + TokenLife)
  BY TimeNat, AccessAssumption
<1>2. NoToken \in Token /\ NoToken.adm = FALSE
  BY <1>1 DEF NoToken, Token
<1>3. NoSession \in Session /\ NoSession.pc = "over" /\ NoSession.adm = FALSE
  BY <1>1 DEF NoSession, Session
<1>4. NoFetch \in Fetch /\ NoFetch.pc = "over"
  BY <1>1 DEF NoFetch, Fetch
<1> QED BY <1>2, <1>3, <1>4

-----------------------------------------------------------------------------
\* The history only moves on, and up to now for whoever is active or admin next.
LEMMA EarnedFacts ==
    ASSUME TypeOK, EarnedBefore, EarnedNow, now' \in Time, now <= now'
    PROVE  /\ earned' \in [Users -> [active : Time, admin : Time]]
           /\ EarnedBefore'
           /\ \A u \in Users :
                 /\ earned[u].active <= earned'[u].active
                 /\ earned[u].admin <= earned'[u].admin
                 /\ users'[u].active => earned'[u].active = now'
                 /\ SystemAdmin(u, roles') => earned'[u].admin = now'
<1>1. now \in Nat /\ now' \in Nat
  BY TimeNat DEF TypeOK
<1>2. ASSUME NEW u \in Users
      PROVE  /\ earned'[u] \in [active : Time, admin : Time]
             /\ earned'[u].active <= now' /\ earned'[u].admin <= now'
             /\ earned[u].active <= earned'[u].active
             /\ earned[u].admin <= earned'[u].admin
             /\ users'[u].active => earned'[u].active = now'
             /\ SystemAdmin(u, roles') => earned'[u].admin = now'
  <2>1. /\ earned[u].active \in Time /\ earned[u].admin \in Time
        /\ earned[u].active <= now /\ earned[u].admin <= now
    BY DEF TypeOK, EarnedBefore
  <2>2. earned'[u] = [active |-> IF users'[u].active THEN now' ELSE earned[u].active,
                      admin |-> IF SystemAdmin(u, roles') THEN now' ELSE earned[u].admin]
    BY DEF EarnedNow
  <2>3. /\ earned'[u].active = IF users'[u].active THEN now' ELSE earned[u].active
        /\ earned'[u].admin = IF SystemAdmin(u, roles') THEN now' ELSE earned[u].admin
    BY <2>2
  <2>4. earned'[u] \in [active : Time, admin : Time]
    BY <2>1, <2>2
  <2>5. earned[u].active \in Nat /\ earned[u].admin \in Nat
    BY <2>1, TimeNat
  <2>6. CASE users'[u].active
    <3>1. earned'[u].active = now'
      BY <2>3, <2>6
    <3>2. CASE SystemAdmin(u, roles')
      <4>1. earned'[u].admin = now'
        BY <2>3, <3>2
      <4> QED BY <2>1, <2>4, <2>5, <3>1, <4>1, <1>1
    <3>3. CASE ~SystemAdmin(u, roles')
      <4>1. earned'[u].admin = earned[u].admin
        BY <2>3, <3>3
      <4> QED BY <2>1, <2>4, <2>5, <3>1, <3>3, <4>1, <1>1
    <3> QED BY <3>2, <3>3
  <2>7. CASE ~users'[u].active
    <3>1. earned'[u].active = earned[u].active
      BY <2>3, <2>7
    <3>2. CASE SystemAdmin(u, roles')
      <4>1. earned'[u].admin = now'
        BY <2>3, <3>2
      <4> QED BY <2>1, <2>4, <2>5, <2>7, <3>1, <4>1, <1>1
    <3>3. CASE ~SystemAdmin(u, roles')
      <4>1. earned'[u].admin = earned[u].admin
        BY <2>3, <3>3
      <4> QED BY <2>1, <2>4, <2>5, <2>7, <3>1, <3>3, <4>1, <1>1
    <3> QED BY <3>2, <3>3
  <2> QED BY <2>6, <2>7
<1>3. earned' \in [Users -> [active : Time, admin : Time]]
  <2>1. earned' = [u \in Users |->
                     [active |-> IF users'[u].active THEN now' ELSE earned[u].active,
                      admin |-> IF SystemAdmin(u, roles') THEN now' ELSE earned[u].admin]]
    BY DEF EarnedNow
  <2> QED BY <2>1, <1>2
<1> QED BY <1>2, <1>3 DEF EarnedBefore

\* The invariant holds before anyone logs in.
LEMMA InitInv == Init => Inv
<1> SUFFICES ASSUME Init PROVE Inv
  OBVIOUS
<1>1. TypeOK
  <2>1. 0..1 \subseteq Time /\ 1 \in Time
    BY AccessAssumption DEF Time
  <2>2. users \in [Users -> User] /\ now \in Time /\ roles \subseteq RoleRows
    BY <2>1 DEF Init, User
  <2>3. earned \in [Users -> [active : Time, admin : Time]]
    BY <2>1, TimeNat DEF Init
  <2> QED BY <2>2, <2>3, NoneTypes DEF Init, TypeOK
<1>2. EarnedBefore
  BY DEF Init, EarnedBefore
<1>3. \A c \in Clients : Held(c) /\ Current(c)
  BY NoneTypes DEF Init, Held, Current
<1> QED BY <1>1, <1>2, <1>3 DEF Inv

-----------------------------------------------------------------------------
\* What a step within a tick leaves of a client stays right, whatever happens to the rows.
LEMMA LeftAlone ==
    ASSUME Inv, EarnedNow, now' = now, NEW c \in Clients
    PROVE  /\ token'[c] = token[c] => Held(c)'
           /\ session'[c] = session[c] => Current(c)'
<1>1. TypeOK /\ EarnedBefore /\ now \in Time /\ now \in Nat
  BY TimeNat DEF Inv, TypeOK
<1>2. now <= now' /\ now' \in Time
  BY <1>1
<1>3. /\ earned' \in [Users -> [active : Time, admin : Time]]
      /\ EarnedBefore'
      /\ \A u \in Users : /\ earned[u].active <= earned'[u].active
                          /\ earned[u].admin <= earned'[u].admin
  BY <1>1, <1>2, EarnedFacts
<1>4. ASSUME NEW u \in Users
      PROVE  /\ earned[u].active \in Nat /\ earned'[u].active \in Nat
             /\ earned[u].admin \in Nat /\ earned'[u].admin \in Nat
             /\ earned[u].active = now => earned'[u].active = now
             /\ earned[u].admin = now => earned'[u].admin = now
  <2>1. earned[u] \in [active : Time, admin : Time] /\ earned'[u] \in [active : Time, admin : Time]
    BY <1>1, <1>3 DEF TypeOK
  <2>2. /\ earned[u].active \in Nat /\ earned'[u].active \in Nat
        /\ earned[u].admin \in Nat /\ earned'[u].admin \in Nat
    BY <2>1, TimeNat
  <2>3. earned'[u].active <= now /\ earned'[u].admin <= now
    BY <1>3 DEF EarnedBefore
  <2> QED BY <1>1, <1>3, <2>2, <2>3
<1>5. token'[c] = token[c] => Held(c)'
  <2> SUFFICES ASSUME token'[c] = token[c], token[c].adm PROVE Held(c)'
    BY DEF Held
  <2> DEFINE u == token[c].user
  <2>1. u \in Users /\ now <= token[c].exp /\ token[c].exp \in Nat
    BY <1>1, AccessAssumption DEF Inv, Held, TypeOK, Token
  <2>2. token[c].exp <= earned[u].active + TokenLife /\ token[c].exp <= earned[u].admin + TokenLife
    BY DEF Inv, Held
  <2>3. token[c].exp <= earned'[u].active + TokenLife /\ token[c].exp <= earned'[u].admin + TokenLife
    BY <2>1, <2>2, <1>3, <1>4, TimeNat
  <2> QED BY <2>1, <2>3 DEF Held
<1>6. session'[c] = session[c] => Current(c)'
  <2> SUFFICES ASSUME session'[c] = session[c] PROVE Current(c)'
    OBVIOUS
  <2>1. session[c].pc # "over" =>
           session[c].user \in Users /\ earned[session[c].user].active = now
    BY DEF Inv, Current
  <2>2. session[c].adm => session[c].pc # "over" /\ earned[session[c].user].admin = now
    BY DEF Inv, Current
  <2> QED BY <2>1, <2>2, <1>4 DEF Current
<1> QED BY <1>5, <1>6

\* An edit, of either table.
LEMMA RowsEdited ==
    ASSUME Inv, EarnedNow, users' \in [Users -> User], roles' \subseteq RoleRows,
           UNCHANGED <<now, token, session, fetch>>
    PROVE  Inv'
<1>1. TypeOK /\ EarnedBefore /\ now' = now /\ now \in Time /\ now \in Nat
  BY TimeNat DEF Inv, TypeOK
<1>2. now <= now' /\ now' \in Time
  BY <1>1
<1>3. earned' \in [Users -> [active : Time, admin : Time]] /\ EarnedBefore'
  BY <1>1, <1>2, EarnedFacts
<1>4. TypeOK'
  BY <1>1, <1>3 DEF TypeOK
<1>5. \A c \in Clients : (Held(c) /\ Current(c))'
  BY <1>1, LeftAlone
<1> QED BY <1>3, <1>4, <1>5 DEF Inv

\* Editing a user's row keeps it.
LEMMA EditUserInv ==
    ASSUME Inv, NEW u \in Users, EditUser(u)
    PROVE  Inv'
<1>1. TypeOK
  BY DEF Inv
<1>2. users' \in [Users -> User]
  <2>1. users[u] \in User /\ now \in Time
    BY <1>1 DEF TypeOK
  <2>2. [users[u] EXCEPT !.active = ~users[u].active, !.updated_at = now] \in User
    BY <2>1 DEF User
  <2> QED BY <1>1, <2>2 DEF TypeOK, EditUser
<1> QED BY <1>1, <1>2, RowsEdited DEF TypeOK, EditUser

\* So does giving a role, and taking one.
LEMMA EditRoleInv ==
    ASSUME Inv, NEW r \in RoleRows, EditRole(r)
    PROVE  Inv'
<1>1. TypeOK
  BY DEF Inv
<1>2. roles' \subseteq RoleRows
  BY <1>1 DEF TypeOK, EditRole
<1> QED BY <1>1, <1>2, RowsEdited DEF TypeOK, EditRole

\* A step of a client's session or data request, which gives it no token.
LEMMA ClientStep ==
    ASSUME Inv, EarnedNow, NEW c \in Clients, NEW s \in Session, NEW f \in Fetch,
           session' = [session EXCEPT ![c] = s], fetch' = [fetch EXCEPT ![c] = f],
           UNCHANGED <<now, users, roles, token>>, Current(c)'
    PROVE  Inv'
<1>1. TypeOK /\ EarnedBefore /\ now' = now /\ now \in Time /\ now \in Nat
  BY TimeNat DEF Inv, TypeOK
<1>2. now <= now' /\ now' \in Time
  BY <1>1
<1>3. earned' \in [Users -> [active : Time, admin : Time]] /\ EarnedBefore'
  BY <1>1, <1>2, EarnedFacts
<1>4. TypeOK'
  BY <1>1, <1>3 DEF TypeOK
<1>5. \A d \in Clients \ {c} : session'[d] = session[d]
  BY <1>1 DEF TypeOK
<1>6. ASSUME NEW d \in Clients PROVE (Held(d) /\ Current(d))'
  <2>1. Held(d)'
    BY <1>1, LeftAlone
  <2>2. Current(d)'
    BY <1>1, <1>5, LeftAlone
  <2> QED BY <2>1, <2>2
<1> QED BY <1>3, <1>4, <1>6 DEF Inv

-----------------------------------------------------------------------------
\* What the history says of now, after a step within a tick.
LEMMA EarnedByNow ==
    ASSUME Inv, EarnedNow, now' = now, NEW u \in Users
    PROVE  /\ users'[u].active => earned'[u].active = now
           /\ SystemAdmin(u, roles') => earned'[u].admin = now
           /\ earned[u].active = now => earned'[u].active = now
           /\ earned[u].admin = now => earned'[u].admin = now
<1>1. TypeOK /\ EarnedBefore /\ now \in Time /\ now \in Nat
  BY TimeNat DEF Inv, TypeOK
<1>2. now <= now' /\ now' \in Time
  BY <1>1
<1>3. /\ earned' \in [Users -> [active : Time, admin : Time]] /\ EarnedBefore'
      /\ earned[u].active <= earned'[u].active /\ earned[u].admin <= earned'[u].admin
      /\ users'[u].active => earned'[u].active = now'
      /\ SystemAdmin(u, roles') => earned'[u].admin = now'
  BY <1>1, <1>2, EarnedFacts
<1>4. earned'[u].active \in Time /\ earned'[u].admin \in Time
  BY <1>3
<1>5. earned'[u].active \in Nat /\ earned'[u].admin \in Nat
  BY <1>4, TimeNat
<1>6. earned'[u].active <= now /\ earned'[u].admin <= now
  BY <1>3 DEF EarnedBefore
<1> QED BY <1>1, <1>3, <1>5, <1>6

\* So does the first read of get_session, which finds the user active.
LEMMA SessionReadInv ==
    ASSUME Inv, NEW c \in Clients, NEW u \in Users, SessionRead(c, u)
    PROVE  Inv'
<1> DEFINE s == [pc |-> "user", user |-> u, updated_at |-> users[u].updated_at, adm |-> FALSE]
<1>1. /\ TypeOK /\ EarnedNow /\ users[u].active
      /\ session' = [session EXCEPT ![c] = s]
      /\ UNCHANGED <<now, users, roles, token, fetch>>
  BY DEF Inv, SessionRead
<1>2. s \in Session
  <2>1. users[u].updated_at \in Time
    BY <1>1 DEF TypeOK, User
  <2> QED BY <2>1 DEF Session
<1>3. session'[c] = s
  BY <1>1 DEF TypeOK
<1>4. earned'[u].active = now
  BY <1>1, EarnedByNow
<1>5. Current(c)'
  BY <1>1, <1>3, <1>4 DEF Current
<1>6. fetch' = [fetch EXCEPT ![c] = fetch[c]] /\ fetch[c] \in Fetch
  BY <1>1 DEF TypeOK
<1> QED BY <1>1, <1>2, <1>5, <1>6, ClientStep

\* And its second, which finds whether the user is a system admin.
LEMMA SessionRolesInv ==
    ASSUME Inv, NEW c \in Clients, SessionRoles(c)
    PROVE  Inv'
<1> DEFINE u == session[c].user
           s == [session[c] EXCEPT !.pc = "read", !.adm = IsSysAdmin(c)]
<1>1. /\ TypeOK /\ EarnedNow /\ session[c].pc = "user"
      /\ session' = [session EXCEPT ![c].pc = "read", ![c].adm = IsSysAdmin(c)]
      /\ UNCHANGED <<now, users, roles, token, fetch>>
  BY DEF Inv, SessionRoles
<1>2. u \in Users /\ earned[u].active = now
  BY <1>1 DEF Inv, Current
<1>3. IsSysAdmin(c) \in BOOLEAN /\ (IsSysAdmin(c) <=> SystemAdmin(u, roles))
  BY DEF IsSysAdmin, SystemAdmin
<1>4. session[c] \in Session
  BY <1>1 DEF TypeOK
<1>5. /\ s \in Session /\ s.pc = "read" /\ s.user = u
      /\ s.adm = IsSysAdmin(c)
  BY <1>3, <1>4 DEF Session
<1>6. session' = [session EXCEPT ![c] = s] /\ session'[c] = s
  BY <1>1 DEF TypeOK
<1>7. earned'[u].active = now /\ (IsSysAdmin(c) => earned'[u].admin = now)
  BY <1>1, <1>2, <1>3, EarnedByNow
<1>8. Current(c)'
  BY <1>1, <1>2, <1>5, <1>6, <1>7 DEF Current
<1>9. fetch' = [fetch EXCEPT ![c] = fetch[c]] /\ fetch[c] \in Fetch
  BY <1>1 DEF TypeOK
<1> QED BY <1>1, <1>5, <1>6, <1>8, <1>9, ClientStep

\* A session that fails leaves nothing behind.
LEMMA SessionFailsInv ==
    ASSUME Inv, NEW c \in Clients, SessionFails(c)
    PROVE  Inv'
<1>1. /\ TypeOK /\ EarnedNow /\ session' = [session EXCEPT ![c] = NoSession]
      /\ UNCHANGED <<now, users, roles, token, fetch>>
  BY DEF Inv, SessionFails
<1>2. session'[c] = NoSession
  BY <1>1 DEF TypeOK
<1>3. Current(c)'
  BY <1>2, NoneTypes DEF Current
<1>4. fetch' = [fetch EXCEPT ![c] = fetch[c]] /\ fetch[c] \in Fetch
  BY <1>1 DEF TypeOK
<1> QED BY <1>1, <1>3, <1>4, NoneTypes, ClientStep

\* A request's check of the login's roles keeps it (require_data_access).
LEMMA FetchCheckInv ==
    ASSUME Inv, NEW c \in Clients, NEW h \in Houses, FetchCheck(c, h)
    PROVE  Inv'
<1> DEFINE mine == RolesOn(token[c].user, h)
<1>1. /\ TypeOK /\ EarnedNow /\ session[c].pc = "over"
      /\ UNCHANGED <<now, users, roles, token, session>>
  BY DEF Inv, FetchCheck
<1>2. PICK end \in Time, step \in Steps \cup {0} :
         /\ OwnerOrAdmin(mine) \/ OldData(end, now)
         /\ fetch' = [fetch EXCEPT ![c] = [pc |-> "checked", end |-> end, step |-> step,
                                           owner |-> OwnerOrAdmin(mine), at |-> now]]
  BY DEF FetchCheck
<1> DEFINE f == [pc |-> "checked", end |-> end, step |-> step,
                 owner |-> OwnerOrAdmin(mine), at |-> now]
<1>3. OwnerOrAdmin(mine) \in BOOLEAN
  BY DEF OwnerOrAdmin
<1>4. f \in Fetch
  BY <1>1, <1>3 DEF TypeOK, Fetch
<1>5. session' = [session EXCEPT ![c] = session[c]] /\ session[c] \in Session
  BY <1>1 DEF TypeOK
<1>6. Current(c)'
  <2>1. now' = now /\ session'[c] = session[c]
    BY <1>1
  <2> QED BY <1>1, <2>1, LeftAlone
<1> QED BY <1>1, <1>2, <1>4, <1>5, <1>6, ClientStep

\* And so does the answer to it.
LEMMA FetchSendInv ==
    ASSUME Inv, NEW c \in Clients, FetchSend(c)
    PROVE  Inv'
<1>1. /\ TypeOK /\ EarnedNow /\ fetch' = [fetch EXCEPT ![c] = NoFetch]
      /\ UNCHANGED <<now, users, roles, token, session>>
  BY DEF Inv, FetchSend
<1>2. session' = [session EXCEPT ![c] = session[c]] /\ session[c] \in Session
  BY <1>1 DEF TypeOK
<1>3. Current(c)'
  <2>1. now' = now /\ session'[c] = session[c]
    BY <1>1
  <2> QED BY <1>1, <2>1, LeftAlone
<1> QED BY <1>1, <1>2, <1>3, NoneTypes, ClientStep

\* The token rests on what the session read since the clock last moved.
LEMMA SessionWriteInv ==
    ASSUME Inv, NEW c \in Clients, SessionWrite(c)
    PROVE  Inv'
<1> DEFINE u == session[c].user
<1>1. /\ TypeOK /\ EarnedBefore /\ EarnedNow /\ session[c].pc = "read"
      /\ users' = LoggedIn(c) /\ token' = [token EXCEPT ![c] = TokenOf(c)]
      /\ session' = [session EXCEPT ![c] = NoSession]
      /\ UNCHANGED <<now, roles, fetch>>
  BY DEF Inv, SessionWrite
<1>2. now' = now /\ now \in Time /\ now \in Nat /\ now <= now' /\ now' \in Time
  BY <1>1, TimeNat DEF TypeOK
<1>3. u \in Users /\ earned[u].active = now /\ session[c] \in Session
      /\ (session[c].adm => earned[u].admin = now)
  BY <1>1 DEF Inv, Current, TypeOK
<1>4. users' \in [Users -> User]
  <2>1. session[c].updated_at \in Time
    BY <1>3 DEF Session
  <2>2. \A v \in Users : [users[v] EXCEPT !.updated_at = session[c].updated_at] \in User
    BY <1>1, <2>1 DEF TypeOK, User
  <2> QED BY <1>1, <2>2 DEF LoggedIn
<1>5. /\ TokenOf(c) \in Token /\ TokenOf(c).user = u
      /\ TokenOf(c).adm = session[c].adm /\ TokenOf(c).exp = now + TokenLife
  <2>1. now + TokenLife \in 0..(MaxTime + TokenLife)
    BY <1>2, AccessAssumption DEF Time
  <2>2. session[c].adm \in BOOLEAN
    BY <1>3 DEF Session
  <2> QED BY <1>3, <2>1, <2>2 DEF TokenOf, Token
<1>6. earned' \in [Users -> [active : Time, admin : Time]] /\ EarnedBefore'
  BY <1>1, <1>2, EarnedFacts
<1>7. TypeOK'
  BY <1>1, <1>2, <1>4, <1>5, <1>6, NoneTypes DEF TypeOK
<1>8. /\ token'[c] = TokenOf(c) /\ session'[c] = NoSession
      /\ \A d \in Clients \ {c} : token'[d] = token[d] /\ session'[d] = session[d]
  BY <1>1 DEF TypeOK
<1>9. /\ earned'[u].active = now
      /\ session[c].adm => earned'[u].admin = now
  BY <1>1, <1>2, <1>3, EarnedByNow
<1>10. Held(c)'
  <2>1. now <= now + TokenLife
    BY <1>2, TimeNat
  <2>2. /\ token'[c].user = u /\ token'[c].exp = now + TokenLife
        /\ token'[c].adm => earned'[u].admin = now
    BY <1>5, <1>8, <1>9
  <2>3. /\ now' <= now + TokenLife
        /\ now + TokenLife <= earned'[u].active + TokenLife
        /\ token'[c].adm => now + TokenLife <= earned'[u].admin + TokenLife
    BY <1>2, <1>9, <2>1, <2>2, TimeNat
  <2> QED BY <1>3, <2>2, <2>3 DEF Held
<1>11. Current(c)'
  BY <1>8, NoneTypes DEF Current
<1>12. ASSUME NEW d \in Clients PROVE (Held(d) /\ Current(d))'
  <2>1. CASE d # c
    BY <1>1, <1>2, <1>8, <2>1, LeftAlone
  <2>2. CASE d = c
    BY <2>2, <1>10, <1>11
  <2> QED BY <2>1, <2>2
<1> QED BY <1>6, <1>7, <1>12 DEF Inv

\* When the clock moves no session is in progress, and a token that would be too old goes.
LEMMA TickInv ==
    ASSUME Inv, Tick
    PROVE  Inv'
<1>1. /\ TypeOK /\ EarnedBefore /\ EarnedNow /\ now' = now + 1 /\ now < MaxTime
      /\ \A c \in Clients : session[c].pc = "over"
      /\ token' = [c \in Clients |-> StillGood(c)]
      /\ UNCHANGED <<users, roles, session, fetch>>
  BY DEF Inv, Tick
<1>2. now \in Nat /\ now' \in Nat /\ now' \in Time /\ now <= now'
  BY <1>1, AccessAssumption DEF TypeOK, Time
<1>3. /\ earned' \in [Users -> [active : Time, admin : Time]] /\ EarnedBefore'
      /\ \A u \in Users : earned[u].active <= earned'[u].active /\ earned[u].admin <= earned'[u].admin
  BY <1>1, <1>2, EarnedFacts
<1>4. \A c \in Clients :
         \/ token'[c] = NoToken
         \/ token'[c] = token[c] /\ now' <= token[c].exp
  BY <1>1 DEF StillGood
<1>5. TypeOK'
  <2>1. \A c \in Clients : StillGood(c) \in Token
    BY <1>1, NoneTypes DEF TypeOK, StillGood
  <2> QED BY <1>1, <1>2, <1>3, <2>1 DEF TypeOK
<1>6. ASSUME NEW c \in Clients PROVE Held(c)'
  <2>1. CASE token'[c] = NoToken
    BY <2>1, NoneTypes DEF Held
  <2>2. CASE token'[c] = token[c] /\ now' <= token[c].exp
    <3> SUFFICES ASSUME token[c].adm PROVE Held(c)'
      BY <2>2 DEF Held
    <3> DEFINE u == token[c].user
    <3>1. /\ u \in Users /\ token[c].exp <= earned[u].active + TokenLife
          /\ token[c].exp <= earned[u].admin + TokenLife
      BY DEF Inv, Held
    <3>2. token[c].exp \in Nat
      BY <1>1, AccessAssumption DEF TypeOK, Token
    <3>3. /\ earned[u].active \in Time /\ earned'[u].active \in Time
          /\ earned[u].admin \in Time /\ earned'[u].admin \in Time
      BY <1>1, <1>3, <3>1 DEF TypeOK
    <3>4. /\ earned[u].active \in Nat /\ earned'[u].active \in Nat
          /\ earned[u].admin \in Nat /\ earned'[u].admin \in Nat
      BY <3>3, TimeNat
    <3>5. token[c].exp <= earned'[u].active + TokenLife /\ token[c].exp <= earned'[u].admin + TokenLife
      BY <1>3, <3>1, <3>2, <3>4, TimeNat
    <3> QED BY <2>2, <3>1, <3>5 DEF Held
  <2> QED BY <1>4, <2>1, <2>2
<1>7. \A c \in Clients : Current(c)'
  <2> SUFFICES ASSUME NEW c \in Clients PROVE Current(c)'
    OBVIOUS
  <2>1. session'[c] = session[c] /\ session[c].pc = "over" /\ ~session[c].adm
    BY <1>1 DEF Inv, Current
  <2> QED BY <2>1 DEF Current
<1> QED BY <1>3, <1>5, <1>6, <1>7 DEF Inv

\* Every step keeps it.
LEMMA NextInv == Inv /\ [Next]_vars => Inv'
<1> SUFFICES ASSUME Inv, [Next]_vars PROVE Inv'
  OBVIOUS
<1>1. ASSUME NEW c \in Clients, NEW u \in Users, SessionRead(c, u) PROVE Inv'
  BY <1>1, SessionReadInv
<1>2. ASSUME NEW c \in Clients, SessionRoles(c) \/ SessionWrite(c) \/ SessionFails(c) PROVE Inv'
  BY <1>2, SessionRolesInv, SessionWriteInv, SessionFailsInv
<1>3. ASSUME NEW c \in Clients, NEW h \in Houses, FetchCheck(c, h) PROVE Inv'
  BY <1>3, FetchCheckInv
<1>4. ASSUME NEW c \in Clients, FetchSend(c) PROVE Inv'
  BY <1>4, FetchSendInv
<1>5. ASSUME NEW u \in Users, EditUser(u) PROVE Inv'
  BY <1>5, EditUserInv
<1>6. ASSUME NEW r \in RoleRows, EditRole(r) PROVE Inv'
  BY <1>6, EditRoleInv
<1>7. CASE Tick
  BY <1>7, TickInv
<1>8. CASE UNCHANGED vars
  <2>1. TypeOK' /\ EarnedBefore'
    BY <1>8 DEF vars, Inv, TypeOK, EarnedBefore
  <2>2. \A c \in Clients : (Held(c) /\ Current(c))'
    BY <1>8 DEF vars, Inv, Held, Current
  <2> QED BY <2>1, <2>2 DEF Inv
<1> QED BY <1>1, <1>2, <1>3, <1>4, <1>5, <1>6, <1>7, <1>8 DEF Next

\* It holds in every state.
LEMMA AlwaysInv == Spec => []Inv
BY InitInv, NextInv, PTL DEF Spec

-----------------------------------------------------------------------------
\* Every state of the sessions and requests has its types.
THEOREM TypeCorrect == Spec => []TypeOK
<1>1. Inv => TypeOK
  BY DEF Inv
<1> QED BY <1>1, AlwaysInv, PTL

\* However rows are edited between a session's reads or after them, a good admin token is
\* of one who was active, and a system admin, within a token's life (encode_token).
THEOREM AdminTokensAlwaysEarned == Spec => []AdminTokensEarned
<1>1. Inv => AdminTokensEarned
  <2> SUFFICES ASSUME Inv, NEW c \in Clients, token[c].adm
               PROVE  /\ now <= earned[token[c].user].active + TokenLife
                      /\ now <= earned[token[c].user].admin + TokenLife
    BY DEF AdminTokensEarned
  <2> DEFINE u == token[c].user
  <2>1. /\ u \in Users /\ now <= token[c].exp
        /\ token[c].exp <= earned[u].active + TokenLife
        /\ token[c].exp <= earned[u].admin + TokenLife
    BY DEF Inv, Held
  <2>2. earned[u].active \in Time /\ earned[u].admin \in Time /\ now \in Time
    BY <2>1 DEF Inv, TypeOK
  <2>3. token[c].exp \in Nat
    BY AccessAssumption DEF Inv, TypeOK, Token
  <2>4. earned[u].active \in Nat /\ earned[u].admin \in Nat /\ now \in Nat
    BY <2>2, TimeNat
  <2> QED BY <2>1, <2>3, <2>4, TimeNat
<1> QED BY <1>1, AlwaysInv, PTL

-----------------------------------------------------------------------------
(* Requests that one read answers: the inductive invariant. *)

\* What was asked is answered, if at all, by its handler.
Handled ==
    /\ asked.kind = "summaries" => answer \in Answers(asked)
    /\ asked.kind = "electricity" => answer = Electricity(asked)
    /\ asked.kind = "messages" => answer = Messages(asked)
    /\ asked.kind = "forecasts" =>
          answer = IF asked.record THEN BundleRecord(asked) ELSE Forecasts(asked)
    /\ asked.kind = "message list" => answer = MessageList(asked)
    /\ asked.kind = "csv" => answer = Gathered(asked)
    /\ asked.kind = "cell" =>
          IF Cells(asked.readings, asked.line) = {} THEN answer = Without("empty")
          ELSE \E v \in Cells(asked.readings, asked.line) : answer = Data(v)

ReadsInv == asked \in Inputs /\ (answer # Unanswered => Handled)

\* No request is answered by another's handler, or changed.
LEMMA ReadsStep == ReadsInv /\ [ReadsNext]_readsVars => ReadsInv'
<1> SUFFICES ASSUME ReadsInv, [ReadsNext]_readsVars PROVE ReadsInv'
  OBVIOUS
<1>1. CASE UNCHANGED readsVars
  BY <1>1 DEF ReadsInv, readsVars, Handled
<1>2. CASE ReadsNext
  <2>1. asked' = asked /\ asked \in Inputs
    BY <1>2 DEF ReadsNext, ReadsInv
  <2>2. Handled'
    BY <1>2, <2>1 DEF ReadsNext, Handled, AnswerSummaries, AnswerElectricity, AnswerMessages,
                      AnswerForecasts, AnswerMessageList, AnswerCsv, AnswerCell
  <2> QED BY <2>1, <2>2 DEF ReadsInv
<1> QED BY <1>1, <1>2

\* Every answer is that of the request's own handler to what was asked.
THEOREM ReadsAlwaysHandled == ReadsSpec => []ReadsInv
<1>1. ReadsInit => ReadsInv
  BY DEF ReadsInit, ReadsInv
<1> QED BY <1>1, ReadsStep, PTL DEF ReadsSpec

\* What an input of a kind is.
LEMMA InputFacts ==
    ASSUME NEW q \in Inputs
    PROVE  /\ q.kind = "summaries" => IsFleet(q)
           /\ q.kind = "electricity" => IsHourly(q)
           /\ q.kind \in {"messages", "forecasts"} => IsJournal(q.journal) /\ q.start \in Int /\ q.end \in Int
           /\ q.kind = "message list" => IsPersisted(q.journal) /\ q.start \in Int /\ q.end \in Int
           /\ q.kind = "csv" => IsCollection(q)
           /\ q.kind = "cell" => q.line \in Int /\ IsFiniteSet(q.readings) /\ q.readings \subseteq Reading
BY InputsAssumption

-----------------------------------------------------------------------------
(* The cells of the legacy csv. *)

\* Of a finite set of readings that is not empty, one comes last by time and value.
LEMMA LastReading ==
    ASSUME NEW S \in SUBSET Reading, IsFiniteSet(S), S # {}
    PROVE  \E r \in S : \A s \in S : Before(s, r)
<1>0. \A r \in S : r.time \in Int /\ r.value \in Int
  BY DEF Reading
<1> DEFINE f == [r \in S |-> r.time]
           times == {f[r] : r \in S}
<1>1. times \in SUBSET Int /\ IsFiniteSet(times) /\ times # {}
  <2>1. f \in [S -> Int]
    BY <1>0
  <2>2. times # {} /\ times \in SUBSET Int
    BY <2>1
  <2> HIDE DEF f
  <2> QED BY <2>1, <2>2, FiniteImage
<1>2. Max(times) \in times /\ \A t \in times : t <= Max(times)
  <2> HIDE DEF times
  <2> QED BY <1>1, Extremes
<1>3. PICK m \in S : f[m] = Max(times)
  BY <1>2
<1> DEFINE L == {r \in S : r.time = m.time}
           g == [r \in L |-> r.value]
           values == {g[r] : r \in L}
<1>4. values \in SUBSET Int /\ IsFiniteSet(values) /\ values # {}
  <2>1. g \in [L -> Int] /\ m \in L
    BY <1>0
  <2>2. values # {} /\ values \in SUBSET Int
    BY <2>1
  <2>3. IsFiniteSet(L)
    BY FS_Subset
  <2> HIDE DEF g, L
  <2> QED BY <2>1, <2>2, <2>3, FiniteImage
<1>5. Max(values) \in values /\ \A t \in values : t <= Max(values)
  <2> HIDE DEF values
  <2> QED BY <1>4, Extremes
<1>6. PICK r \in L : g[r] = Max(values)
  BY <1>5
<1>7. \A s \in S : s.time <= m.time
  <2>1. \A s \in S : f[s] \in times
    OBVIOUS
  <2> QED BY <1>2, <1>3, <2>1
<1>8. \A s \in L : s.value <= r.value
  <2>1. \A s \in L : g[s] \in values
    OBVIOUS
  <2> HIDE DEF values
  <2> QED BY <1>5, <1>6, <2>1
<1> QED BY <1>0, <1>7, <1>8 DEF Before

\* Away from the hour that is repeated and the one before, the readings up to a line on
\* local clocks are those up to it, and none is out of order.
LEMMA LocalOrder ==
    ASSUME NEW S \in SUBSET Reading, NEW t \in Int,
           \A r \in S : r.time \notin (FallBack - Hour)..(FallBack + Hour - 1)
    PROVE  /\ Monotonic(S)
           /\ \A r \in S : Local(r.time) <= Local(t) <=> r.time <= t
           /\ \A r, s \in S : Local(r.time) <= Local(s.time) <=> r.time <= s.time
<1>1. \A r \in S : r.time \in Int
  BY DEF Reading
<1>2. Hour \in Nat /\ FallBack \in Int
  BY LegacyCsvAssumption
<1>3. \A r \in S : r.time < FallBack - Hour \/ r.time >= FallBack + Hour
  BY <1>1, <1>2
<1> QED BY <1>1, <1>2, <1>3 DEF Monotonic, Local

\* A line has the last reading up to its time, the greatest of several, or nothing
\* (resample_channel).
THEOREM CellsAlwaysLatest == ReadsSpec => []CellsLatest
<1>1. ReadsInv => CellsLatest
  <2> DEFINE S == asked.readings
             t == asked.line
             up == {r \in S : r.time <= t}
  <2> SUFFICES ASSUME ReadsInv, asked.kind = "cell", answer # Unanswered,
                      \A r \in S : r.time \notin (FallBack - Hour)..(FallBack + Hour - 1)
               PROVE  IF up = {} THEN answer.is = "empty"
                      ELSE \E r \in up : answer = Data(r.value)
                              /\ \A s \in up : s.time < r.time \/ (s.time = r.time /\ s.value <= r.value)
    BY DEF CellsLatest
  <2>1. t \in Int /\ IsFiniteSet(S) /\ S \in SUBSET Reading
    BY InputFacts DEF ReadsInv
  <2>2. IF Cells(S, t) = {} THEN answer = Without("empty")
        ELSE \E v \in Cells(S, t) : answer = Data(v)
    BY DEF ReadsInv, Handled
  <2> DEFINE last == {r \in up : \A s \in up : s.time <= r.time}
  <2> HIDE DEF S, t
  <2>3. Cells(S, t) = {r.value : r \in {r \in last : \A s \in last : Before(s, r)}}
    <3>1. LastBack(S, t) = last
      BY <2>1, LocalOrder DEF LastBack, S
    <3>2. Monotonic(S)
      BY <2>1, LocalOrder DEF S
    <3> QED BY <3>1, <3>2 DEF Cells
  <2>4. \A r \in S : r.time \in Int /\ r.value \in Int
    BY <2>1 DEF Reading
  <2>5. CASE up = {}
    BY <2>2, <2>3, <2>5 DEF Without
  <2>6. CASE up # {}
    <3>1. PICK m \in up : \A s \in up : Before(s, m)
      <4>1. IsFiniteSet(up) /\ up \in SUBSET Reading
        BY <2>1, FS_Subset
      <4> HIDE DEF up
      <4> QED BY <2>6, <4>1, LastReading
    <3>2. m \in last /\ \A s \in last : Before(s, m)
      BY <3>1, <2>4 DEF Before
    <3>3. m.value \in Cells(S, t)
      BY <2>3, <3>2
    <3>4. PICK r \in last : (\A s \in last : Before(s, r)) /\ answer = Data(r.value)
      BY <2>2, <2>3, <3>3
    <3>5. \A s \in up : s.time < r.time \/ (s.time = r.time /\ s.value <= r.value)
      <4>1. Before(m, r) /\ \A s \in up : Before(s, m)
        BY <3>1, <3>2, <3>4
      <4> QED BY <2>4, <3>4, <4>1 DEF Before
    <3> QED BY <2>6, <3>4, <3>5
  <2> QED BY <2>5, <2>6
<1> QED BY <1>1, ReadsAlwaysHandled, PTL

-----------------------------------------------------------------------------
(* The houses' summaries. *)

\* A row is of a house, of a role that counts for it, and of a snapshot joined to it if
\* there is one.
LEMMA RowsFacts ==
    ASSUME NEW f
    PROVE  /\ \A row \in Rows(f) :
                 /\ row.house \in Houses /\ row.of \in RolesFor(f.roles, row.house)
                 /\ IF Joined(f, row.house) = {} THEN row.sender = NoSender
                    ELSE row.sender \in Joined(f, row.house)
           /\ \A h \in Houses : \A r \in RolesFor(f.roles, h) :
                 /\ Joined(f, h) = {} =>
                       \E row \in Rows(f) : row.house = h /\ row.of = r /\ row.sender = NoSender
                 /\ \A s \in Joined(f, h) :
                       \E row \in Rows(f) : row.house = h /\ row.of = r /\ row.sender = s
           /\ \A row, other \in Rows(f) :
                 row.house = other.house /\ row.of = other.of /\ row.sender = other.sender => row = other
<1> DEFINE senders(h) == IF Joined(f, h) = {} THEN {NoSender} ELSE Joined(f, h)
           rows(h) == [of : RolesFor(f.roles, h), house : {h}, sender : senders(h)]
<1>1. Rows(f) = UNION {rows(h) : h \in Houses}
  BY DEF Rows
<1>2. \A h \in Houses : \A r \in RolesFor(f.roles, h) : \A s \in senders(h) :
         /\ [of |-> r, house |-> h, sender |-> s] \in Rows(f)
         /\ [of |-> r, house |-> h, sender |-> s].house = h
         /\ [of |-> r, house |-> h, sender |-> s].of = r
         /\ [of |-> r, house |-> h, sender |-> s].sender = s
  BY <1>1
<1>3. \A row \in Rows(f) : \E h \in Houses : row \in rows(h)
  BY <1>1
<1>4. \A row \in Rows(f) :
         /\ row.house \in Houses /\ row.of \in RolesFor(f.roles, row.house)
         /\ row.sender \in senders(row.house)
         /\ row = [of |-> row.of, house |-> row.house, sender |-> row.sender]
  BY <1>3
<1>5. \A row, other \in Rows(f) :
         row.house = other.house /\ row.of = other.of /\ row.sender = other.sender => row = other
  BY <1>4
<1>6. \A h \in Houses : \A r \in RolesFor(f.roles, h) : \A s \in senders(h) :
         \E row \in Rows(f) : row.house = h /\ row.of = r /\ row.sender = s
  <2> TAKE h \in Houses
  <2> TAKE r \in RolesFor(f.roles, h)
  <2> TAKE s \in senders(h)
  <2> DEFINE row == [of |-> r, house |-> h, sender |-> s]
  <2>1. row \in Rows(f) /\ row.house = h /\ row.of = r /\ row.sender = s
    BY <1>2
  <2> HIDE DEF row
  <2> QED BY <2>1
<1>7. \A h \in Houses : \A s : s \in senders(h) <=> IF Joined(f, h) = {} THEN s = NoSender
                                                     ELSE s \in Joined(f, h)
  OBVIOUS
<1> HIDE DEF rows, senders
<1>8. \A row \in Rows(f) : IF Joined(f, row.house) = {} THEN row.sender = NoSender
                           ELSE row.sender \in Joined(f, row.house)
  BY <1>4, <1>7
<1>9. \A h \in Houses : \A r \in RolesFor(f.roles, h) :
         /\ Joined(f, h) = {} =>
               \E row \in Rows(f) : row.house = h /\ row.of = r /\ row.sender = NoSender
         /\ \A s \in Joined(f, h) :
               \E row \in Rows(f) : row.house = h /\ row.of = r /\ row.sender = s
  BY <1>6, <1>7
<1> QED BY <1>4, <1>5, <1>8, <1>9

\* The answer's summaries are those of the rows, with a zone picked for each house.
LEMMA SummariesAnswered ==
    ASSUME ReadsInv, Answered("summaries"), answer # Unanswered
    PROVE  /\ IsFleet(asked)
           /\ \E pick \in [Houses -> UNION {Longest(asked, h) : h \in Houses}] :
                 /\ \A h \in Houses : pick[h] \in Longest(asked, h)
                 /\ answer.of = {Summary(asked, row, pick[row.house]) : row \in Rows(asked)}
<1>1. IsFleet(asked) /\ answer \in Answers(asked)
  BY InputFacts DEF ReadsInv, Handled, Answered
<1>2. answer # Without("error")
  BY DEF Answered, Without
<1> DEFINE Listed(pick) == {Summary(asked, row, pick[row.house]) : row \in Rows(asked)}
<1>3. \E pick \in [Houses -> UNION {Longest(asked, h) : h \in Houses}] :
         (\A h \in Houses : pick[h] \in Longest(asked, h)) /\ answer = Data(Listed(pick))
  BY <1>1, <1>2 DEF Answers
<1>4. \A x : Data(x).of = x
  BY DEF Data
<1> HIDE DEF Listed
<1>5. \E pick \in [Houses -> UNION {Longest(asked, h) : h \in Houses}] :
         (\A h \in Houses : pick[h] \in Longest(asked, h)) /\ answer.of = Listed(pick)
  BY <1>3, <1>4
<1> QED BY <1>1, <1>5 DEF Listed

\* An answer of data is no request that is unanswered.
LEMMA DataAnswered == \A kind : Answered(kind) => answer # Unanswered
BY DEF Answered, Unanswered, Without

\* A house with one role row that counts, and whose alias begins no other's, is there
\* once, with its own newest snapshot (get_summaries).
THEOREM AlwaysOneSummaryEach == ReadsSpec => []OneSummaryEach
<1>1. ReadsInv => OneSummaryEach
  <2> SUFFICES ASSUME ReadsInv, Answered("summaries")
               PROVE  /\ {s.house : s \in answer.of} = Visible
                      /\ \A h \in Visible :
                            /\ Cardinality(RolesFor(asked.roles, h)) = 1
                            /\ \A s \in Starts[h] : OwnerOf[s] = h
                            => \E s \in answer.of :
                                  /\ {r \in answer.of : r.house = h} = {s}
                                  /\ s.snapshot = NoSender
                                        <=> \A m \in Senders : OwnerOf[m] = h => asked.snapshot[m] = None
    BY DEF OneSummaryEach
  <2> DEFINE f == asked
             R(h) == RolesFor(f.roles, h)
  <2>1. PICK pick : answer.of = {Summary(f, row, pick[row.house]) : row \in Rows(f)}
    BY SummariesAnswered, DataAnswered
  <2>2. IsFleet(f)
    BY SummariesAnswered, DataAnswered
  <2> HIDE DEF f
  <2>3. Visible = {h \in Houses : R(h) # {}}
    BY DEF Visible, f
  <2>4. \A row \in Rows(f) : /\ Summary(f, row, pick[row.house]).house = row.house
                             /\ Summary(f, row, pick[row.house]).snapshot = row.sender
    BY DEF Summary
  <2>5. \A s \in answer.of : \E row \in Rows(f) : s = Summary(f, row, pick[row.house])
    BY <2>1
  <2>6. \A row \in Rows(f) : Summary(f, row, pick[row.house]) \in answer.of
    BY <2>1
  <2>7. ASSUME NEW h \in Houses PROVE h \in {s.house : s \in answer.of} <=> R(h) # {}
    <3>1. R(h) # {} => \E row \in Rows(f) : row.house = h
      BY RowsFacts
    <3>2. \A row \in Rows(f) : row.house = h => R(h) # {}
      BY RowsFacts
    <3> QED BY <2>4, <2>5, <2>6, <3>1, <3>2
  <2>8. \A s \in answer.of : s.house \in Houses
    BY <2>4, <2>5, RowsFacts
  <2>9. {s.house : s \in answer.of} = Visible
    BY <2>3, <2>7, <2>8
  <2>10. ASSUME NEW h \in Visible, Cardinality(R(h)) = 1, \A s \in Starts[h] : OwnerOf[s] = h
         PROVE  \E s \in answer.of :
                   /\ {r \in answer.of : r.house = h} = {s}
                   /\ s.snapshot = NoSender
                         <=> \A m \in Senders : OwnerOf[m] = h => f.snapshot[m] = None
    <3>0. h \in Houses /\ Starts[h] \in SUBSET Senders
      BY <2>3, SummariesAssumption
    <3>1. PICK r : R(h) = {r}
      <4>1. IsFiniteSet(R(h))
        BY <2>2, FS_Subset DEF IsFleet, RolesFor
      <4> HIDE DEF R
      <4> QED BY <2>10, <4>1, FS_Singleton
    <3>2. \A s, t \in Joined(f, h) : s = t
      BY <2>10, <3>0, RouteReadsAssumption DEF Joined
    <3>3. PICK row \in Rows(f) : row.house = h /\ row.of = r
      <4>1. r \in R(h)
        BY <3>1
      <4> QED BY <3>0, <4>1, RowsFacts
    <3>4. \A other \in Rows(f) : other.house = h => other = row
      <4> SUFFICES ASSUME NEW other \in Rows(f), other.house = h PROVE other = row
        OBVIOUS
      <4>1. other.of \in R(h) /\ row.of \in R(h)
        BY <3>3, RowsFacts
      <4>2. other.sender = row.sender
        <5>1. CASE Joined(f, h) = {}
          BY <3>3, <5>1, RowsFacts
        <5>2. CASE Joined(f, h) # {}
          BY <3>2, <3>3, <5>2, RowsFacts
        <5> QED BY <5>1, <5>2
      <4> QED BY <3>1, <3>3, <4>1, <4>2, RowsFacts
    <3> DEFINE s == Summary(f, row, pick[row.house])
    <3>5. s \in answer.of /\ s.house = h /\ s.snapshot = row.sender
      BY <2>4, <2>6, <3>3
    <3>6. \A t \in answer.of : t.house = h => t = s
      <4> SUFFICES ASSUME NEW t \in answer.of, t.house = h PROVE t = s
        OBVIOUS
      <4>1. PICK other \in Rows(f) : t = Summary(f, other, pick[other.house])
        BY <2>5
      <4>2. other = row
        BY <2>4, <3>4, <4>1
      <4> QED BY <4>1, <4>2
    <3>7. row.sender = NoSender <=> Joined(f, h) = {}
      <4>1. \A m \in Joined(f, h) : m # NoSender
        BY <3>0, SummariesAssumption DEF Joined
      <4> QED BY <3>3, <4>1, RowsFacts
    <3>8. Joined(f, h) = {} <=> \A m \in Senders : OwnerOf[m] = h => f.snapshot[m] = None
      <4>1. \A m \in Senders : OwnerOf[m] = h <=> m \in Starts[h]
        BY <2>10, <3>0, RouteReadsAssumption
      <4> QED BY <3>0, <4>1 DEF Joined
    <3> HIDE DEF s
    <3> QED BY <3>5, <3>6, <3>7, <3>8
  <2> QED BY <2>9, <2>10 DEF f
<1> QED BY <1>1, ReadsAlwaysHandled, PTL

\* Of a channel read at every time of the day: the call under way, if it began within the
\* day, began after the last time off.
LEMMA SteadyFacts ==
    ASSUME IsFleet(asked), NEW z \in Zones, Steady(z)
    PROVE  LET f == asked IN
           /\ CallBegan(z) # {} <=> Calling(f, z) /\ Offs(f, z) # {}
           /\ CallBegan(z) # {} => CallBegan(z) = {LastOff(f, z) + 1} /\ LastOff(f, z) \in Int
<1> DEFINE f == asked
           read == f.now
           calls == f.calls[z]
           days == (read - Day)..read
<1>1. /\ read \in Nat /\ Day \in Nat /\ DOMAIN calls = days /\ read \in days
      /\ calls \in [days -> {0, 1}]
  <2>1. read \in Nat /\ Day \in Nat /\ DOMAIN calls = days /\ calls \in [DOMAIN calls -> {0, 1}]
    BY SummariesAssumption DEF IsFleet, Steady
  <2> QED BY <2>1
<1>2. CallBegan(z) = {t \in (read - Day + 1)..read : calls[t - 1] = 0 /\ \A u \in t..read : calls[u] = 1}
  BY DEF CallBegan
<1>3. Offs(f, z) = {t \in days : calls[t] = 0}
  BY <1>1 DEF Offs
<1>4. Calling(f, z) <=> calls[read] = 1
  <2> DEFINE times == {t \in DOMAIN calls : t >= read - Day}
  <2>1. times = days
    BY <1>1
  <2>2. \A t \in days : (\A u \in days : u <= t) <=> t = read
    BY <1>1
  <2>3. LatestReading(f, z) = IF times = {} THEN None ELSE CHOOSE t \in times : \A u \in times : u <= t
    BY DEF LatestReading
  <2>4. LatestReading(f, z) = CHOOSE t \in days : \A u \in days : u <= t
    BY <1>1, <2>1, <2>3
  <2>5. LatestReading(f, z) = read
    BY <1>1, <2>2, <2>4
  <2>6. read # None
    BY <1>1 DEF None
  <2> QED BY <2>5, <2>6 DEF Calling
<1> DEFINE off == LastOff(f, z)
<1>5. Offs(f, z) # {} => off \in days /\ calls[off] = 0 /\ \A u \in days : calls[u] = 0 => u <= off
  <2> SUFFICES ASSUME Offs(f, z) # {}
               PROVE  off \in Offs(f, z) /\ \A u \in Offs(f, z) : u <= off
    BY <1>3
  <2> DEFINE first == read - Day
             last == read
             offs == Offs(f, z)
  <2>1. first \in Int /\ last \in Int /\ offs \in SUBSET (first..last)
    BY <1>1, <1>3
  <2>2. IsFiniteSet(Offs(f, z)) /\ Offs(f, z) \in SUBSET Int
    <3> HIDE DEF first, last, offs
    <3>1. IsFiniteSet(offs) /\ offs \in SUBSET Int
      BY <2>1, BoundedFinite
    <3> QED BY <3>1 DEF offs
  <2>3. \E t \in Offs(f, z) : \A u \in Offs(f, z) : u <= t
    BY <2>2, Extremes
  <2> QED BY <2>3 DEF LastOff
<1> HIDE DEF f, read, calls, off
<1>6. ASSUME NEW t \in CallBegan(z)
      PROVE  calls[read] = 1 /\ Offs(f, z) # {} /\ t = off + 1
  <2>1. /\ t \in (read - Day + 1)..read /\ calls[t - 1] = 0 /\ \A u \in t..read : calls[u] = 1
    BY <1>2, <1>6
  <2>2. t \in Int /\ t - 1 \in days /\ read \in t..read
    BY <1>1, <2>1
  <2>3. t - 1 \in Offs(f, z)
    BY <1>3, <2>1, <2>2
  <2>4. off \in days /\ calls[off] = 0 /\ t - 1 <= off
    BY <1>5, <2>1, <2>2, <2>3
  <2>5. ~(off \in t..read)
    BY <2>1, <2>4
  <2> QED BY <1>1, <2>1, <2>2, <2>3, <2>4, <2>5
<1>7. ASSUME calls[read] = 1, Offs(f, z) # {} PROVE off + 1 \in CallBegan(z)
  <2>1. off \in days /\ calls[off] = 0 /\ \A u \in days : calls[u] = 0 => u <= off
    BY <1>5, <1>7
  <2>2. off # read
    BY <1>7, <2>1
  <2>3. off + 1 \in (read - Day + 1)..read /\ (off + 1) - 1 = off
    BY <1>1, <2>1, <2>2
  <2>4. \A u \in (off + 1)..read : u \in days /\ ~(u <= off)
    BY <1>1, <2>1
  <2>5. \A u \in (off + 1)..read : calls[u] = 1
    BY <1>1, <2>1, <2>4
  <2> QED BY <1>2, <2>1, <2>3, <2>5
<1>8. CallBegan(z) # {} <=> Calling(f, z) /\ Offs(f, z) # {}
  BY <1>4, <1>6, <1>7
<1>9. CallBegan(z) # {} => CallBegan(z) = {off + 1}
  BY <1>6, <1>7
<1>10. CallBegan(z) # {} => off \in Int
  BY <1>1, <1>5, <1>6
<1> QED BY <1>8, <1>9, <1>10 DEF f, off

\* A house read steadily shows a zone that has called the longest (heat_calls).
THEOREM AlwaysLongestCallShown == ReadsSpec => []LongestCallShown
<1>1. ReadsInv => LongestCallShown
  <2> DEFINE f == asked
             zones(h) == {z \in Zones : HouseOf[z] = h}
             calling(h) == {z \in zones(h) : CallBegan(z) # {}}
  <2> SUFFICES ASSUME ReadsInv, Answered("summaries"), NEW s \in answer.of,
                      \A z \in zones(s.house) : Steady(z)
               PROVE  IF calling(s.house) = {} THEN s.zone = NoZone
                      ELSE /\ s.zone \in calling(s.house)
                           /\ CallBegan(s.zone) = {s.start + 1}
                           /\ \A z \in calling(s.house) : \A t \in CallBegan(z) : t > s.start
    BY DEF LongestCallShown
  <2> DEFINE C == calling(s.house)
  <2>1. IsFleet(f)
    BY SummariesAnswered, DataAnswered
  <2>2. PICK row \in Rows(f) : \E x \in Longest(f, row.house) : s = Summary(f, row, x)
    <3>1. PICK pick : /\ \A h \in Houses : pick[h] \in Longest(f, h)
                      /\ answer.of = {Summary(f, row, pick[row.house]) : row \in Rows(f)}
      BY SummariesAnswered, DataAnswered
    <3>2. PICK row \in Rows(f) : s = Summary(f, row, pick[row.house])
      BY <3>1
    <3> QED BY <3>1, <3>2, RowsFacts
  <2>3. PICK x \in Longest(f, row.house) : s = Summary(f, row, x)
    BY <2>2
  <2>4. s.house = row.house /\ s.zone = x.zone /\ s.start = x.start
    BY <2>3 DEF Summary
  <2>5. \A z \in zones(s.house) :
           /\ CallBegan(z) # {} <=> Calling(f, z) /\ Offs(f, z) # {}
           /\ CallBegan(z) # {} => CallBegan(z) = {LastOff(f, z) + 1} /\ LastOff(f, z) \in Int
    BY <2>1, SteadyFacts
  <2>6. C = Active(f, s.house)
    BY <2>5 DEF Active
  <2>7. \A z \in C : CallBegan(z) = {LastOff(f, z) + 1} /\ LastOff(f, z) \in Int
    BY <2>5
  <2>8. x \in Longest(f, s.house)
    BY <2>3, <2>4
  <2> HIDE DEF calling, zones, f
  <2>9. CASE C = {}
    <3>1. x = [zone |-> NoZone, start |-> None]
      BY <2>6, <2>8, <2>9 DEF Longest
    <3> QED BY <2>4, <2>9, <3>1
  <2>10. CASE C # {}
    <3>1. x \in {[zone |-> z, start |-> LastOff(f, z)] :
                    z \in {z \in C : \A y \in C : LastOff(f, z) <= LastOff(f, y)}}
      BY <2>6, <2>8, <2>10 DEF Longest
    <3>2. PICK z \in C : /\ \A y \in C : LastOff(f, z) <= LastOff(f, y)
                         /\ x = [zone |-> z, start |-> LastOff(f, z)]
      BY <3>1
    <3>3. s.zone = z /\ s.start = LastOff(f, z)
      BY <2>4, <3>2
    <3>4. \A y \in C : \A t \in CallBegan(y) : t > s.start
      BY <2>7, <3>2, <3>3
    <3> QED BY <2>7, <2>10, <3>3, <3>4
  <2> QED BY <2>9, <2>10
<1> QED BY <1>1, ReadsAlwaysHandled, PTL

-----------------------------------------------------------------------------
(* The hourly electricity. *)

\* What is asked for is old enough for every role by the rule of the routes.
LEMMA OldFacts ==
    ASSUME NEW q, IsHourly(q)
    PROVE  IsOldData(q) <=> q.end + OpenAge < q.now
<1>1. q.end \in Int /\ q.now \in Int /\ OpenAge \in Int
  BY RolesAssumption DEF IsHourly
<1> QED BY <1>1 DEF IsOldData, OldData

\* An hour's sum has each house once whose data may be seen (get_hourly_electricity).
THEOREM ElectricityAlwaysOnce == ReadsSpec => []ElectricityOnce
<1>1. ReadsInv => ElectricityOnce
  <2> DEFINE q == asked
             may == {h \in q.houses :
                       \E r \in q.roles :
                          /\ r.house \in {h, EveryHouse}
                          /\ r.role \notin {"owner", "admin"} => q.end + OpenAge < q.now}
             counted(t) == [h \in may |-> IF t \in DOMAIN q.kwh[h] THEN q.kwh[h][t] ELSE 0]
             kwh(t) == SumOf(counted(t), may)
  <2> SUFFICES ASSUME ReadsInv, Answered("electricity"),
                      \A h \in q.houses : Cardinality(RolesFor(q.roles, h)) <= 1,
                      NEW t \in q.start..q.end
               PROVE  IF t \in DOMAIN answer.of THEN answer.of[t] = kwh(t) ELSE kwh(t) = 0
    BY DEF ElectricityOnce
  <2>1. IsHourly(q) /\ answer.of = [u \in Hours(q) |-> Summed(q, u)]
    <3>1. IsHourly(q) /\ answer = Electricity(q)
      BY InputFacts, DataAnswered DEF ReadsInv, Handled, Answered
    <3>2. answer # Without("error")
      BY DEF Answered, Without
    <3> QED BY <3>1, <3>2 DEF Electricity, Data
  <2>2. \A h \in q.houses : IsFiniteSet(RolesFor(q.roles, h)) /\ RolesJoined(q, h) \in SUBSET RolesFor(q.roles, h)
    BY <2>1, FS_Subset DEF IsHourly, RolesFor, RolesJoined
  <2>3. \A h \in q.houses : h \in may <=> RolesJoined(q, h) # {}
    BY <2>1, OldFacts DEF RolesJoined, RolesFor
  <2>4. ASSUME NEW h \in q.houses
        PROVE  Cardinality(RolesJoined(q, h)) = IF h \in may THEN 1 ELSE 0
    <3> DEFINE R == RolesFor(q.roles, h)
               J == RolesJoined(q, h)
    <3>1. IsFiniteSet(R) /\ J \in SUBSET R /\ Cardinality(R) <= 1
      BY <2>2
    <3>2. h \in may <=> J # {}
      BY <2>3
    <3> HIDE DEF R, J, may
    <3>3. IsFiniteSet(J) /\ Cardinality(J) <= Cardinality(R)
      BY <3>1, FS_Subset
    <3>4. Cardinality(J) \in Nat /\ Cardinality(R) \in Nat /\ (Cardinality(J) = 0 <=> J = {})
      BY <3>1, <3>3, FS_CardinalityType, FS_EmptySet
    <3>5. Cardinality(J) = IF h \in may THEN 1 ELSE 0
      BY <3>1, <3>2, <3>3, <3>4
    <3> QED BY <3>5 DEF J
  <2> DEFINE read == {h \in q.houses : t \in DOMAIN q.kwh[h]}
             joined == [h \in read |-> Cardinality(RolesJoined(q, h)) * q.kwh[h][t]]
             both == read \cap may
             each == [h \in both |-> q.kwh[h][t]]
  <2>5. IsFiniteSet(read) /\ IsFiniteSet(may) /\ IsFiniteSet(q.houses)
    BY <2>1, FS_Subset DEF IsHourly
  <2>6. \A h \in read : q.kwh[h][t] \in Int
    BY <2>1 DEF IsHourly
  <2>7. \A h \in read : joined[h] = (IF h \in may THEN 1 ELSE 0) * q.kwh[h][t]
    BY <2>4
  <2>8. \A h \in read : joined[h] = IF h \in may THEN q.kwh[h][t] ELSE 0
    <3>1. \A n \in Int : 1 * n = n /\ 0 * n = 0
      OBVIOUS
    <3> HIDE DEF joined, may
    <3> QED BY <2>6, <2>7, <3>1
  <2>9. /\ joined \in [read -> Int] /\ counted(t) \in [may -> Int] /\ each \in [both -> Int]
        /\ CarriedBy(each, both, joined, read)
        /\ CarriedBy(each, both, counted(t), may)
    <3>1. joined \in [read -> Int]
      <4>1. \A h \in read : joined[h] \in Int
        <5> HIDE DEF joined, may
        <5> QED BY <2>6, <2>8
      <4> QED BY <4>1
    <3>2. counted(t) \in [may -> Int] /\ each \in [both -> Int]
      BY <2>6
    <3>3. CarriedBy(each, both, joined, read)
      BY <2>8, <3>2 DEF CarriedBy
    <3>4. CarriedBy(each, both, counted(t), may)
      BY <3>2 DEF CarriedBy
    <3> QED BY <3>1, <3>2, <3>3, <3>4
  <2>10. Summed(q, t) = SumOf(joined, read)
    BY DEF Summed
  <2>11. t \in Hours(q) <=> both # {}
    BY <2>3 DEF Hours
  <2>12. SumOf(joined, read) = SumOf(each, both) /\ kwh(t) = SumOf(each, both)
    <3> HIDE DEF joined, counted, each, both, read, may
    <3> QED BY <2>5, <2>9, SumPart
  <2>13. both = {} => SumOf(each, both) = 0
    <3> HIDE DEF each, both
    <3> QED BY <2>9, SumOfNone
  <2> HIDE DEF joined, each, both, read, may, counted
  <2>14. CASE t \in Hours(q)
    BY <2>1, <2>10, <2>12, <2>14
  <2>15. CASE t \notin Hours(q)
    BY <2>1, <2>11, <2>12, <2>13, <2>15
  <2> QED BY <2>14, <2>15
<1> QED BY <1>1, ReadsAlwaysHandled, PTL

-----------------------------------------------------------------------------
(* The journal's pages. *)

\* The first n elements of a list, or all of a shorter one.
LEMMA FirstFacts ==
    ASSUME NEW T, NEW s \in Seq(T), NEW n \in Nat
    PROVE  /\ First(n, s) \in Seq(T)
           /\ Len(First(n, s)) = IF Len(s) < n THEN Len(s) ELSE n
           /\ DOMAIN First(n, s) = 1..Len(First(n, s))
           /\ \A i \in DOMAIN First(n, s) : First(n, s)[i] = s[i]
<1> DEFINE m == IF Len(s) < n THEN Len(s) ELSE n
<1>1. m \in Nat /\ m <= Len(s) /\ Len(s) \in Nat
  OBVIOUS
<1>2. \A i \in 1..m : s[i] \in T
  BY <1>1
<1>3. First(n, s) = [i \in 1..m |-> s[i]]
  <2> HIDE DEF m
  <2>1. SubSeq(s, 1, m) = [i \in 1..m |-> s[i]]
    BY <1>1
  <2> QED BY <2>1 DEF First, m
<1> HIDE DEF m
<1>4. [i \in 1..m |-> s[i]] \in Seq(T) /\ Len([i \in 1..m |-> s[i]]) = m
  BY <1>1, <1>2
<1> QED BY <1>3, <1>4 DEF m

\* What is kept of a journal is in it, in the order of the times.
LEMMA JournalFacts ==
    ASSUME NEW J, IsJournal(J), NEW Good
    PROVE  LET F == Filtered(J, Good) IN
           /\ F \in Seq(Range(J)) /\ Len(F) \in Nat /\ DOMAIN F = 1..Len(F)
           /\ \A i \in 1..Len(F) : F[i] \in Range(J) /\ F[i] \in Good
           /\ \A m \in Range(J) \cap Good : \E i \in 1..Len(F) : F[i] = m
           /\ \A i, j \in 1..Len(F) : i <= j => F[i].time <= F[j].time
<1> DEFINE F == Filtered(J, Good)
           at == Places(J, Good)
<1>1. J \in Seq(Range(J)) /\ DOMAIN J = 1..Len(J)
  BY DEF IsJournal
<1>2. F \in Seq(Range(J)) /\ Keeps(F, at, J, Good)
  BY <1>1, FilteredFacts
<1>3. \A i, j \in 1..Len(J) : i <= j => J[i].time <= J[j].time
  <2>1. \A i \in 1..Len(J) : J[i].time \in Int
    BY <1>1 DEF IsJournal
  <2>2. \A i, j \in 1..Len(J) : i <= j => i < j \/ i = j
    BY <1>1
  <2> QED BY <1>1, <2>1, <2>2 DEF IsJournal
<1> HIDE DEF F, at
<1>4. Len(F) \in Nat /\ DOMAIN F = 1..Len(F) /\ \A i \in 1..Len(F) : F[i] \in Range(J)
  BY <1>2
<1>5. \A i \in 1..Len(F) : F[i] \in Good /\ F[i] = J[at[i]] /\ at[i] \in 1..Len(J)
  BY <1>2 DEF Keeps
<1>6. ASSUME NEW i \in 1..Len(F), NEW j \in 1..Len(F), i <= j PROVE F[i].time <= F[j].time
  <2>1. at[i] <= at[j]
    <3>1. i = j \/ i < j
      BY <1>4, <1>6
    <3>2. i < j => at[i] < at[j]
      BY <1>2 DEF Keeps
    <3> QED BY <1>5, <3>1, <3>2
  <2> QED BY <1>3, <1>5, <2>1
<1>7. ASSUME NEW m \in Range(J), m \in Good PROVE \E i \in 1..Len(F) : F[i] = m
  <2>1. PICK k \in 1..Len(J) : J[k] = m
    BY <1>1 DEF Range
  <2>2. PICK i \in 1..Len(F) : at[i] = k
    BY <1>2, <1>7, <2>1 DEF Keeps
  <2> QED BY <1>5, <2>1, <2>2
<1> QED BY <1>2, <1>4, <1>5, <1>6, <1>7 DEF F

\* A list backwards.
LEMMA ReverseFacts ==
    ASSUME NEW T, NEW s \in Seq(T)
    PROVE  /\ Reverse(s) \in Seq(T) /\ Len(Reverse(s)) = Len(s) /\ DOMAIN Reverse(s) = 1..Len(s)
           /\ \A i \in 1..Len(s) : Reverse(s)[i] = s[(Len(s) - i) + 1] /\ (Len(s) - i) + 1 \in 1..Len(s)
<1> DEFINE n == Len(s)
<1>1. n \in Nat
  OBVIOUS
<1>2. \A i \in 1..n : (n - i) + 1 \in 1..n
  BY <1>1
<1>3. Reverse(s) = [i \in 1..n |-> s[(n - i) + 1]]
  BY DEF Reverse
<1>4. \A i \in 1..n : s[(n - i) + 1] \in T
  BY <1>2
<1> HIDE DEF n
<1>5. Reverse(s) \in Seq(T) /\ Len(Reverse(s)) = n /\ DOMAIN Reverse(s) = 1..n
  BY <1>1, <1>3, <1>4
<1> QED BY <1>2, <1>3, <1>5 DEF n

\* The last n of a list, in its order.
LEMMA LastFacts ==
    ASSUME NEW T, NEW s \in Seq(T), NEW n \in Nat
    PROVE  LET tail == Reverse(First(n, Reverse(s)))
               m == IF Len(s) < n THEN Len(s) ELSE n
           IN /\ Len(tail) = m /\ DOMAIN tail = 1..m
              /\ \A i \in 1..m : tail[i] = s[(Len(s) - m) + i]
<1> DEFINE back == Reverse(s)
           first == First(n, back)
           tail == Reverse(first)
           l == Len(s)
           m == IF l < n THEN l ELSE n
<1>1. l \in Nat /\ m \in Nat /\ m <= l
  OBVIOUS
<1>2. back \in Seq(T) /\ Len(back) = l /\ DOMAIN back = 1..l
  BY ReverseFacts
<1>3. \A i \in 1..l : back[i] = s[(l - i) + 1]
  BY ReverseFacts
<1> HIDE DEF back
<1>4. first \in Seq(T) /\ Len(first) = m /\ DOMAIN first = 1..m /\ \A i \in 1..m : first[i] = back[i]
  BY <1>2, FirstFacts
<1> HIDE DEF first
<1>5. Len(tail) = m /\ DOMAIN tail = 1..m
      /\ \A i \in 1..m : tail[i] = first[(m - i) + 1] /\ (m - i) + 1 \in 1..m
  BY <1>4, ReverseFacts
<1> HIDE DEF tail, l, m
<1>6. ASSUME NEW i \in 1..m PROVE tail[i] = s[(l - m) + i]
  <2>1. tail[i] = first[(m - i) + 1] /\ first[(m - i) + 1] = back[(m - i) + 1]
    BY <1>4, <1>5
  <2>2. (m - i) + 1 \in 1..l /\ (l - ((m - i) + 1)) + 1 = (l - m) + i
    BY <1>1
  <2>3. back[(m - i) + 1] = s[(l - ((m - i) + 1)) + 1]
    BY <1>3, <2>2
  <2> QED BY <2>1, <2>2, <2>3
<1> QED BY <1>5, <1>6 DEF back, first, tail, l, m

\* What a page of messages leaves out is no earlier than its last (get_messages).
LEMMA MessagesPaged ==
    ASSUME ReadsInv, Answered("messages"),
           NEW m \in Asked(asked)
    PROVE  \/ \E i \in DOMAIN answer.of : [answer.of[i] EXCEPT !.version = m.version] = m
           \/ Len(answer.of) = MaxMessages /\ \A i \in DOMAIN answer.of : answer.of[i].time <= m.time
<1> DEFINE q == asked
           J == q.journal
           F == Filtered(J, Asked(q))
           rows == First(MaxMessages, F)
           shown == [i \in DOMAIN rows |->
                       [rows[i] EXCEPT !.version = Decoded(rows[i].type, @, TRUE)]]
<1>1. IsJournal(J) /\ answer = Messages(q)
  BY InputFacts, DataAnswered DEF ReadsInv, Handled, Answered
<1>2. answer.of = shown
  <2>1. answer # Without("error")
    BY DEF Answered, Without
  <2> QED BY <1>1, <2>1 DEF Messages, MessageRows, Data
<1>3. MaxMessages \in Nat
  BY JournalReadsAssumption
<1>4. /\ F \in Seq(Range(J)) /\ Len(F) \in Nat
      /\ \A i \in 1..Len(F) : F[i] \in Range(J)
      /\ \A i, j \in 1..Len(F) : i <= j => F[i].time <= F[j].time
  BY <1>1, JournalFacts
<1>5. PICK k \in 1..Len(F) : F[k] = m
  <2>1. m \in Range(J) \cap Asked(q)
    BY DEF Asked
  <2> QED BY <1>1, <2>1, JournalFacts
<1> DEFINE n == IF Len(F) < MaxMessages THEN Len(F) ELSE MaxMessages
<1> HIDE DEF F
<1>6. Len(rows) = n /\ DOMAIN rows = 1..n /\ \A i \in 1..n : rows[i] = F[i]
  BY <1>3, <1>4, FirstFacts
<1>7. n \in Nat /\ n <= Len(F) /\ (n < Len(F) => n = MaxMessages)
  BY <1>3, <1>4
<1>8. \A r \in Range(J) : r \in [time : Int, type : STRING, version : Int, from : {r.from}]
  BY <1>1 DEF IsJournal, Range
<1> HIDE DEF rows
<1>9. Len(shown) = n /\ DOMAIN shown = 1..n
  BY <1>6, <1>7
<1>10. \A i \in 1..n :
           shown[i].time = F[i].time /\ [shown[i] EXCEPT !.version = F[i].version] = F[i]
  <2> TAKE i \in 1..n
  <2>1. rows[i] = F[i] /\ i \in DOMAIN rows /\ F[i] \in Range(J)
    BY <1>4, <1>6, <1>7
  <2>2. rows[i] \in [time : Int, type : STRING, version : Int, from : {rows[i].from}]
    BY <1>8, <2>1
  <2>3. shown[i] = [rows[i] EXCEPT !.version = Decoded(rows[i].type, @, TRUE)]
    BY <2>1
  <2>4. \A x : /\ [rows[i] EXCEPT !.version = x].time = rows[i].time
               /\ [[rows[i] EXCEPT !.version = x] EXCEPT !.version = rows[i].version] = rows[i]
    BY <2>2
  <2> QED BY <2>1, <2>3, <2>4
<1> HIDE DEF shown, n
<1>11. CASE k <= n
  <2>1. k \in 1..n
    BY <1>4, <1>5, <1>7, <1>11
  <2> QED BY <1>2, <1>5, <1>9, <1>10, <2>1
<1>12. CASE ~(k <= n)
  <2>1. n = MaxMessages
    BY <1>4, <1>5, <1>7, <1>12
  <2>2. \A i \in 1..n : i \in 1..Len(F) /\ i <= k
    BY <1>4, <1>5, <1>7, <1>12
  <2>3. \A i \in 1..n : shown[i].time <= m.time
    BY <1>4, <1>5, <1>10, <2>2
  <2> QED BY <1>2, <1>9, <2>1, <2>3
<1> QED BY <1>11, <1>12

\* A page of emissions is in the order of their times, and what it leaves out is no later
\* than its first (get_forecasts).
LEMMA ForecastsPaged ==
    ASSUME ReadsInv, Answered("forecasts"), asked.record = FALSE
    PROVE  /\ \A i, j \in DOMAIN answer.of : i < j => answer.of[i].time <= answer.of[j].time
           /\ \A m \in Emissions(asked) :
                 \/ m \in Range(answer.of)
                 \/ Len(answer.of) = MaxForecasts /\ \A i \in DOMAIN answer.of : m.time <= answer.of[i].time
<1> DEFINE q == asked
           J == q.journal
           F == Filtered(J, Emissions(q))
           page == Reverse(First(MaxForecasts, Reverse(F)))
           l == Len(F)
           n == IF l < MaxForecasts THEN l ELSE MaxForecasts
<1>1. IsJournal(J) /\ answer = Forecasts(q)
  BY InputFacts, DataAnswered DEF ReadsInv, Handled, Answered
<1>2. answer.of = page
  <2>1. answer # Without("error")
    BY DEF Answered, Without
  <2> QED BY <1>1, <2>1 DEF Forecasts, ForecastRows, Data
<1>3. MaxForecasts \in Nat
  BY JournalReadsAssumption
<1>4. /\ F \in Seq(Range(J)) /\ l \in Nat
      /\ \A i, j \in 1..l : i <= j => F[i].time <= F[j].time
  BY <1>1, JournalFacts
<1>5. \A m \in Emissions(q) : \E k \in 1..l : F[k] = m
  <2>1. \A m \in Emissions(q) : m \in Range(J) \cap Emissions(q)
    BY DEF Emissions
  <2> QED BY <1>1, <2>1, JournalFacts
<1> HIDE DEF F
<1>6. Len(page) = n /\ DOMAIN page = 1..n /\ \A i \in 1..n : page[i] = F[(l - n) + i]
  BY <1>3, <1>4, LastFacts
<1>7. n \in Nat /\ n <= l /\ (n < l => n = MaxForecasts)
  BY <1>3, <1>4
<1> HIDE DEF page, n, l
<1>8. ASSUME NEW i \in 1..n, NEW j \in 1..n, i < j PROVE page[i].time <= page[j].time
  <2>1. (l - n) + i \in 1..l /\ (l - n) + j \in 1..l /\ (l - n) + i <= (l - n) + j
    BY <1>4, <1>7, <1>8
  <2> QED BY <1>4, <1>6, <2>1
<1>9. ASSUME NEW m \in Emissions(q)
      PROVE  \/ m \in Range(page)
             \/ Len(page) = MaxForecasts /\ \A i \in 1..n : m.time <= page[i].time
  <2>1. PICK k \in 1..l : F[k] = m
    BY <1>5
  <2>2. CASE k > l - n
    <3>1. k - (l - n) \in 1..n /\ (l - n) + (k - (l - n)) = k
      BY <1>4, <1>7, <2>1, <2>2
    <3>2. page[k - (l - n)] = m
      BY <1>6, <2>1, <3>1
    <3> QED BY <1>6, <3>1, <3>2 DEF Range
  <2>3. CASE ~(k > l - n)
    <3>1. n = MaxForecasts
      BY <1>4, <1>7, <2>1, <2>3
    <3>2. \A i \in 1..n : (l - n) + i \in 1..l /\ k <= (l - n) + i
      BY <1>4, <1>7, <2>1, <2>3
    <3>3. \A i \in 1..n : m.time <= page[i].time
      BY <1>4, <1>6, <2>1, <3>2
    <3> QED BY <1>6, <3>1, <3>3
  <2> QED BY <2>2, <2>3
<1> QED BY <1>2, <1>6, <1>8, <1>9

\* What a limited answer leaves out lies on one side of it (get_messages, get_forecasts).
THEOREM AlwaysPagesWhole == ReadsSpec => []PagesWhole
<1>1. ReadsInv => PagesWhole
  <2> SUFFICES ASSUME ReadsInv PROVE PagesWhole
    OBVIOUS
  <2>1. ASSUME asked.kind \in {"messages", "forecasts"}
        PROVE  /\ asked.start \in Int /\ asked.end \in Int
               /\ \A m \in Range(asked.journal) : m.time \in Int
    <3>1. IsJournal(asked.journal) /\ asked.start \in Int /\ asked.end \in Int
      BY <2>1, InputFacts DEF ReadsInv
    <3> QED BY <3>1 DEF IsJournal, Range
  <2>2. ASSUME Answered("messages"), NEW m \in Range(asked.journal),
               asked.start <= m.time, m.time <= asked.end,
               m.type \in asked.types, m.type \in AllowedTypes, m.from \in asked.from
        PROVE  m \in Asked(asked)
    BY <2>1, <2>2 DEF Asked, Answered
  <2>3. ASSUME Answered("forecasts"), NEW m \in Range(asked.journal),
               m.type = "gw.weather.forecast", m.from = asked.bundle,
               asked.start <= m.time, m.time <= asked.end
        PROVE  m \in Emissions(asked)
    BY <2>1, <2>3 DEF Emissions, Answered
  <2> QED BY <2>2, <2>3, MessagesPaged, ForecastsPaged DEF PagesWhole
<1> QED BY <1>1, ReadsAlwaysHandled, PTL

-----------------------------------------------------------------------------
(* The channels of the legacy csv. *)

\* The lists that are looped over are those of the reports (get_data).
LEMMA ListsFacts ==
    ASSUME NEW q, IsCollection(q)
    PROVE  /\ ListsOf(q.reports) \in Seq(ReadingList)
           /\ Range(ListsOf(q.reports)) = UNION {Range(report) : report \in Range(q.reports)}
<1> DEFINE R == q.reports
           n == Len(R)
           V == Seq(ReadingList)
           step == [p \in (1..n) \X V |-> p[2] \o R[p[1]]]
           lists(i) == UNION {Range(R[k]) : k \in 1..i}
           Good == {p \in (0..n) \X V : Range(p[2]) = lists(p[1])}
<1>1. R \in Seq(V) /\ n \in Nat /\ DOMAIN R = 1..n
  BY DEF IsCollection
<1>2. \A i \in 1..n : R[i] \in V
  BY <1>1
<1>3. ASSUME NEW s \in V, NEW t \in V PROVE s \o t \in V /\ Range(s \o t) = Range(s) \cup Range(t)
  <2>1. \A u : Range(u) = ToSet(u)
    BY DEF Range, ToSet
  <2> QED BY <2>1, ConcatSet
<1>4. step \in [(1..n) \X V -> V] /\ <<>> \in V
  <2>1. \A p \in (1..n) \X V : p[1] \in 1..n /\ p[2] \in V
    OBVIOUS
  <2>2. \A p \in (1..n) \X V : p[2] \o R[p[1]] \in V
    BY <1>2, <1>3, <2>1
  <2> QED BY <2>2
<1>5. PICK f : Turns(f, n, V, <<>>, step) /\ Looped(n, <<>>, step) = f[n]
  <2> HIDE DEF n, V, step
  <2> QED BY <1>1, <1>4, LoopFacts
<1>6. <<0, <<>>>> \in Good
  <2>1. Range(<<>>) = {} /\ 1..0 = {} /\ 0 \in 0..n
    BY <1>1 DEF Range
  <2>2. lists(0) = {}
    BY <2>1
  <2> QED BY <1>4, <2>1, <2>2
<1>7. ASSUME NEW i \in 1..n, NEW v \in V, <<i - 1, v>> \in Good
      PROVE  <<i, step[<<i, v>>]>> \in Good
  <2>1. Range(v) = lists(i - 1)
    BY <1>7
  <2>2. step[<<i, v>>] = v \o R[i]
    OBVIOUS
  <2>3. v \o R[i] \in V /\ Range(v \o R[i]) = Range(v) \cup Range(R[i])
    BY <1>2, <1>3
  <2>4. lists(i) = lists(i - 1) \cup Range(R[i])
    <3>1. \A k : k \in 1..i <=> k \in 1..(i - 1) \/ k = i
      BY <1>1
    <3> QED BY <3>1
  <2>5. i \in 0..n
    BY <1>1
  <2> HIDE DEF lists, V
  <2> QED BY <2>1, <2>2, <2>3, <2>4, <2>5
<1>8. f[n] \in V /\ <<n, f[n]>> \in Good
  <2>1. n \in 0..n
    BY <1>1
  <2>2. KeptBy(step, n, V, Good)
    BY <1>7 DEF KeptBy
  <2> HIDE DEF n, V, step, Good
  <2> QED BY <1>1, <1>5, <1>6, <2>1, <2>2, LoopKeeps
<1>9. Range(f[n]) = UNION {Range(report) : report \in Range(R)}
  <2>1. Range(f[n]) = lists(n)
    BY <1>8
  <2>2. {Range(R[k]) : k \in 1..n} = {Range(report) : report \in Range(R)}
    <3>1. \A report : report \in Range(R) <=> \E k \in 1..n : report = R[k]
      BY <1>1 DEF Range
    <3> QED BY <3>1
  <2> QED BY <2>1, <2>2
<1>10. ListsOf(R) = f[n]
  BY <1>5 DEF ListsOf
<1> QED BY <1>8, <1>9, <1>10

\* If every Id is declared, no name that was never bound is used, and every channel gets
\* the readings of its good lists.
LEMMA CollectedFacts ==
    ASSUME NEW q, IsCollection(q),
           \A list \in Range(ListsOf(q.reports)) : list.named \/ list.declared
    PROVE  LET all == Range(ListsOf(q.reports)) IN
           /\ Collected(q.reports).unbound = FALSE
           /\ Collected(q.reports).channels =
                [c \in Channels |->
                   UNION {list.readings : list \in {list \in all : list.channel = c /\ ~list.bad}}]
<1> DEFINE L == ListsOf(q.reports)
           n == Len(L)
           V == Collecting
           base == [name |-> NoChannel, unbound |-> FALSE, channels |-> [c \in Channels |-> {}]]
           step == [p \in (1..n) \X V |-> TakeList(p[2], L[p[1]])]
           of(i, c) == UNION {L[k].readings : k \in {k \in 1..i : L[k].channel = c /\ ~L[k].bad}}
           Good == {p \in (0..n) \X V :
                      p[2].unbound = FALSE /\ p[2].channels = [c \in Channels |-> of(p[1], c)]}
<1>1. L \in Seq(ReadingList) /\ n \in Nat /\ DOMAIN L = 1..n
  BY ListsFacts
<1>2. ASSUME NEW i \in 1..n
      PROVE  /\ L[i] \in ReadingList
             /\ L[i].channel \in Channels /\ L[i].channel # NoChannel
             /\ L[i].readings \in SUBSET Reading
             /\ L[i].named \/ L[i].declared
  <2>1. L[i] \in ReadingList /\ L[i] \in Range(L)
    BY <1>1 DEF Range
  <2>2. L[i].channel \in Channels /\ L[i].readings \in SUBSET Reading
    BY <2>1 DEF ReadingList
  <2> QED BY <2>1, <2>2, LegacyCsvAssumption
<1> HIDE DEF L, n
<1>3. ASSUME NEW i \in 1..n, NEW v \in V
      PROVE  /\ TakeList(v, L[i]) \in V
             /\ v.unbound = FALSE =>
                   /\ TakeList(v, L[i]).unbound = FALSE
                   /\ TakeList(v, L[i]).channels =
                         IF L[i].bad THEN v.channels
                         ELSE [v.channels EXCEPT ![L[i].channel] = @ \cup L[i].readings]
  <2> DEFINE c == L[i].channel
             name == NameAfter(v.name, L[i])
             more == [v.channels EXCEPT ![c] = @ \cup L[i].readings]
             taken == [name |-> c, unbound |-> FALSE, channels |-> more]
             skipped == [v EXCEPT !.name = c]
  <2>1. name = c /\ c # NoChannel /\ c \in Channels
    BY <1>2 DEF NameAfter
  <2>2. v = [name |-> v.name, unbound |-> v.unbound, channels |-> v.channels]
        /\ v.channels \in [Channels -> SUBSET Reading] /\ v.unbound \in BOOLEAN
    BY DEF Collecting
  <2>3. TakeList(v, L[i]) = IF v.unbound THEN v ELSE IF L[i].bad THEN skipped ELSE taken
    BY <2>1 DEF TakeList
  <2>4. skipped = [name |-> c, unbound |-> v.unbound, channels |-> v.channels]
    BY <2>2
  <2>5. more \in [Channels -> SUBSET Reading]
    BY <1>2, <2>2
  <2> HIDE DEF name, taken, skipped, c, more
  <2>6. skipped \in V /\ taken \in V
    BY <2>1, <2>2, <2>4, <2>5 DEF Collecting, taken
  <2>7. taken.unbound = FALSE /\ taken.channels = more /\ skipped.unbound = v.unbound
        /\ skipped.channels = v.channels
    BY <2>4 DEF taken
  <2> QED BY <2>3, <2>6, <2>7 DEF more, c
<1>4. step \in [(1..n) \X V -> V] /\ base \in V
  <2>1. \A p \in (1..n) \X V : p[1] \in 1..n /\ p[2] \in V
    OBVIOUS
  <2>2. \A p \in (1..n) \X V : TakeList(p[2], L[p[1]]) \in V
    BY <1>3, <2>1
  <2>3. base \in V
    BY DEF Collecting
  <2> QED BY <2>2, <2>3
<1>5. PICK f : Turns(f, n, V, base, step) /\ Looped(n, base, step) = f[n]
  <2> HIDE DEF V, step, base
  <2> QED BY <1>1, <1>4, LoopFacts
<1>6. <<0, base>> \in Good
  <2>1. 1..0 = {} /\ 0 \in 0..n
    BY <1>1
  <2>2. \A c : of(0, c) = {}
    BY <2>1
  <2>3. base.unbound = FALSE /\ base.channels = [c \in Channels |-> of(0, c)]
    BY <2>2
  <2> HIDE DEF base, of, V
  <2> QED BY <1>4, <2>1, <2>3
<1>7. ASSUME NEW i \in 1..n, NEW v \in V, <<i - 1, v>> \in Good
      PROVE  <<i, step[<<i, v>>]>> \in Good
  <2> DEFINE w == TakeList(v, L[i])
  <2>1. v.unbound = FALSE /\ v.channels = [c \in Channels |-> of(i - 1, c)]
    BY <1>7
  <2>2. step[<<i, v>>] = w /\ w \in V /\ i \in 0..n
    <3>1. <<i, v>> \in (1..n) \X V
      OBVIOUS
    <3>2. step[<<i, v>>] = TakeList(v, L[i])
      BY <3>1
    <3>3. i \in 0..n
      BY <1>1
    <3>4. TakeList(v, L[i]) \in V
      BY <1>3
    <3> HIDE DEF step, V
    <3> QED BY <3>2, <3>3, <3>4
  <2>3. \A k : k \in 1..i <=> k \in 1..(i - 1) \/ k = i
    BY <1>1
  <2>4. \A c : of(i, c) = IF L[i].channel = c /\ ~L[i].bad
                          THEN of(i - 1, c) \cup L[i].readings ELSE of(i - 1, c)
    BY <2>3
  <2>5. w.unbound = FALSE
        /\ w.channels = IF L[i].bad THEN v.channels
                        ELSE [v.channels EXCEPT ![L[i].channel] = @ \cup L[i].readings]
    BY <1>3, <2>1
  <2> HIDE DEF of, w, V
  <2>6. w.channels = [c \in Channels |-> of(i, c)]
    <3>1. CASE L[i].bad
      BY <2>1, <2>4, <2>5, <3>1
    <3>2. CASE ~L[i].bad
      <4>1. \A c \in Channels : [v.channels EXCEPT ![L[i].channel] = @ \cup L[i].readings][c] = of(i, c)
        BY <1>2, <2>1, <2>4, <3>2
      <4>2. DOMAIN v.channels = Channels
        BY <2>1
      <4> QED BY <2>5, <3>2, <4>1, <4>2
    <3> QED BY <3>1, <3>2
  <2> QED BY <2>2, <2>5, <2>6
<1>8. f[n] \in V /\ <<n, f[n]>> \in Good
  <2>1. n \in 0..n
    BY <1>1
  <2>2. KeptBy(step, n, V, Good)
    BY <1>7 DEF KeptBy
  <2> HIDE DEF V, step, Good, base
  <2> QED BY <1>1, <1>5, <1>6, <2>1, <2>2, LoopKeeps
<1>9. f[n].unbound = FALSE /\ f[n].channels = [c \in Channels |-> of(n, c)]
  BY <1>8
<1>10. Collected(q.reports) = f[n]
  BY <1>5 DEF Collected, L, n
<1>11. ASSUME NEW c \in Channels
       PROVE  of(n, c) = UNION {list.readings : list \in {list \in Range(L) : list.channel = c /\ ~list.bad}}
  <2>1. {L[k].readings : k \in {k \in 1..n : L[k].channel = c /\ ~L[k].bad}}
          = {list.readings : list \in {list \in Range(L) : list.channel = c /\ ~list.bad}}
    BY <1>1 DEF Range
  <2> QED BY <2>1
<1> HIDE DEF of
<1> QED BY <1>9, <1>10, <1>11 DEF L

\* The lists of a collection are finitely many, each of finitely many readings.
LEMMA CollectionFacts ==
    ASSUME IsCollection(asked)
    PROVE  IsFiniteSet(Lists) /\ \A list \in Lists :
              IsFiniteSet(list.readings) /\ list.readings \in SUBSET Reading
<1> DEFINE R == asked.reports
<1>1. R \in Seq(Seq(ReadingList)) /\ Lists = UNION {Range(report) : report \in Range(R)}
  BY DEF IsCollection, Lists
<1>2. ASSUME NEW T, NEW s \in Seq(T) PROVE IsFiniteSet(Range(s)) /\ Range(s) \subseteq T
  <2>1. Len(s) \in Nat /\ DOMAIN s = 1..Len(s) /\ s \in [1..Len(s) -> T]
    OBVIOUS
  <2>2. IsFiniteSet(1..Len(s)) /\ Range(s) = {s[i] : i \in 1..Len(s)}
    BY <2>1, FS_Interval DEF Range
  <2>3. IsFiniteSet({s[i] : i \in 1..Len(s)})
    <3> DEFINE D == 1..Len(s)
    <3>1. s \in [D -> T] /\ IsFiniteSet(D)
      BY <2>1, <2>2
    <3> HIDE DEF D
    <3>2. IsFiniteSet({s[i] : i \in D})
      BY <3>1, FiniteImage
    <3> QED BY <3>2 DEF D
  <2> QED BY <2>1, <2>2, <2>3
<1> HIDE DEF R
<1>3. IsFiniteSet(Range(R)) /\ Range(R) \subseteq Seq(ReadingList)
  BY <1>1, <1>2
<1>4. \A report \in Range(R) : IsFiniteSet(Range(report)) /\ Range(report) \subseteq ReadingList
  BY <1>2, <1>3
<1>5. IsFiniteSet({Range(report) : report \in Range(R)})
  <2> DEFINE D == Range(R)
             f == [report \in D |-> Range(report)]
             U == {Range(report) : report \in D}
  <2>1. {f[report] : report \in D} = U
    OBVIOUS
  <2>2. f \in [D -> U] /\ IsFiniteSet(D)
    BY <1>3
  <2> HIDE DEF D, f, U
  <2>3. IsFiniteSet({f[report] : report \in D})
    BY <2>2, FiniteImage
  <2> QED BY <2>1, <2>3 DEF U, D
<1>6. IsFiniteSet(Lists)
  <2> DEFINE U == {Range(report) : report \in Range(R)}
  <2>1. \A T \in U : IsFiniteSet(T)
    BY <1>4
  <2> HIDE DEF U
  <2>2. IsFiniteSet(UNION U)
    BY <1>5, <2>1, FS_UNION DEF U
  <2> QED BY <1>1, <2>2 DEF U
<1>7. \A list \in Lists : \E p \in DOMAIN R : list \in Range(R[p])
  BY <1>1 DEF Range
<1>8. \A list \in Lists : list \in ReadingList
  BY <1>1, <1>4
<1> QED BY <1>6, <1>7, <1>8 DEF IsCollection, ReadingList, R

\* So their readings are finitely many, whichever lists are good.
LEMMA ReadingsFinite ==
    ASSUME IsFiniteSet(Lists), \A list \in Lists :
              IsFiniteSet(list.readings) /\ list.readings \in SUBSET Reading
    PROVE  LET of(c) == UNION {list.readings : list \in {list \in Lists : list.channel = c /\ ~list.bad}}
           IN IsFiniteSet(UNION {of(c) : c \in Channels}) /\ UNION {of(c) : c \in Channels} \in SUBSET Reading
<1> DEFINE of(c) == UNION {list.readings : list \in {list \in Lists : list.channel = c /\ ~list.bad}}
           some == UNION {of(c) : c \in Channels}
           lists == {list.readings : list \in Lists}
           all == UNION lists
<1>1. some \subseteq all /\ all \in SUBSET Reading
  OBVIOUS
<1>2. IsFiniteSet(lists)
  <2> DEFINE f == [list \in Lists |-> list.readings]
  <2>1. f \in [Lists -> SUBSET Reading] /\ {f[list] : list \in Lists} = lists
    OBVIOUS
  <2> HIDE DEF f, lists
  <2>2. IsFiniteSet({f[list] : list \in Lists})
    BY <2>1, FiniteImage
  <2> QED BY <2>1, <2>2
<1>3. IsFiniteSet(all)
  <2>1. \A T \in lists : IsFiniteSet(T)
    OBVIOUS
  <2> HIDE DEF lists
  <2> QED BY <1>2, <2>1, FS_UNION
<1>4. IsFiniteSet(some)
  <2> HIDE DEF some, all
  <2> QED BY <1>1, <1>3, FS_Subset
<1> QED BY <1>1, <1>4

\* If the reports declare every Id, a channel has all the readings of its good lists, and
\* those of the snapshots from the last reading on (get_data).
THEOREM AlwaysChannelsKept == ReadsSpec => []ChannelsKept
<1>1. ReadsInv => ChannelsKept
  <2> DEFINE q == asked
             good(c) == {list \in Lists : list.channel = c /\ ~list.bad}
             of(c) == UNION {list.readings : list \in good(c)}
             times == {r.time : r \in UNION {of(c) : c \in Channels}}
             late(c) == UNION {s.readings[c] : s \in {s \in q.snapshots :
                                                        \A t \in times : s.persisted >= t}}
  <2> SUFFICES ASSUME ReadsInv, q.kind = "csv", answer # Unanswered, AllKnown
               PROVE  IF times = {} THEN answer.is = "no data"
                      ELSE answer.is = "data" /\ \A c \in Channels :
                              answer.of[c] = IF of(c) = {} THEN {} ELSE of(c) \cup late(c)
    BY DEF ChannelsKept
  <2>1. IsCollection(q) /\ answer = Gathered(q)
    BY InputFacts DEF ReadsInv, Handled
  <2>2. Range(ListsOf(q.reports)) = Lists
    BY <2>1, ListsFacts DEF Lists
  <2>3. \A list \in Range(ListsOf(q.reports)) : list.named \/ list.declared
    BY <2>2 DEF AllKnown
  <2> DEFINE C == Collected(q.reports)
  <2>4. C.unbound = FALSE /\ C.channels = [c \in Channels |-> of(c)]
    <3> DEFINE all == Range(ListsOf(q.reports))
               own(c) == UNION {list.readings : list \in {list \in all : list.channel = c /\ ~list.bad}}
    <3>1. C.unbound = FALSE /\ C.channels = [c \in Channels |-> own(c)]
      BY <2>1, <2>3, CollectedFacts
    <3>2. \A c : own(c) = of(c)
      BY <2>2
    <3> HIDE DEF own, of
    <3> QED BY <3>1, <3>2
  <2> HIDE DEF C
  <2>5. \A c \in Channels : C.channels[c] = of(c)
    BY <2>4
  <2>6. Times(C.channels) = times
    BY <2>5 DEF Times
  <2>7. answer = IF times = {} THEN Without("no data")
                 ELSE Data(WithSnapshots(C.channels, q.snapshots))
    BY <2>1, <2>4, <2>6 DEF Gathered, C
  <2>8. IsFiniteSet(times) /\ times \in SUBSET Int
    <3>1. IsFiniteSet(Lists) /\ \A list \in Lists : IsFiniteSet(list.readings) /\ list.readings \in SUBSET Reading
      BY <2>1, CollectionFacts
    <3>2. IsFiniteSet(UNION {of(c) : c \in Channels}) /\ UNION {of(c) : c \in Channels} \in SUBSET Reading
      BY <3>1, ReadingsFinite
    <3> DEFINE all == UNION {of(c) : c \in Channels}
               f == [r \in all |-> r.time]
    <3>3. f \in [all -> Int] /\ IsFiniteSet(all)
      BY <3>2 DEF Reading
    <3>4. times = {f[r] : r \in all}
      OBVIOUS
    <3>5. times \in SUBSET Int
      BY <3>3, <3>4
    <3>6. IsFiniteSet({f[r] : r \in all})
      <4> HIDE DEF f, all
      <4> QED BY <3>3, FiniteImage
    <3> QED BY <3>4, <3>5, <3>6
  <2>9. CASE times = {}
    BY <2>7, <2>9 DEF Without
  <2>10. CASE times # {}
    <3>1. LastTime(times) \in times /\ \A u \in times : u <= LastTime(times)
      <4>1. \E t \in times : \A u \in times : u <= t
        <5> HIDE DEF times
        <5> QED BY <2>8, <2>10, Extremes
      <4> HIDE DEF times
      <4> QED BY <4>1 DEF LastTime
    <3>2. \A s \in q.snapshots : Appended(C.channels, s) <=> \A t \in times : s.persisted >= t
      <4>1. \A s \in q.snapshots : s.persisted \in Int
        BY <2>1 DEF IsCollection
      <4>2. \A s : Appended(C.channels, s) <=> s.persisted >= LastTime(times)
        BY <2>6 DEF Appended
      <4> HIDE DEF times, q
      <4>3. \A t \in times : t \in Int
        BY <2>8
      <4> QED BY <3>1, <4>1, <4>2, <4>3
    <3>3. {s \in q.snapshots : Appended(C.channels, s)} = {s \in q.snapshots : \A t \in times : s.persisted >= t}
      BY <3>2
    <3> HIDE DEF of, times, q
    <3>4. WithSnapshots(C.channels, q.snapshots)
            = [c \in Channels |-> IF of(c) = {} THEN {} ELSE of(c) \cup late(c)]
      BY <2>5, <3>3 DEF WithSnapshots
    <3> HIDE DEF late
    <3> QED BY <2>7, <2>10, <3>4 DEF Data
  <2> QED BY <2>9, <2>10
<1> QED BY <1>1, ReadsAlwaysHandled, PTL

-----------------------------------------------------------------------------
(* The legacy list of messages. *)

\* A level that is known has a rank.
LEMMA LevelFacts == \A level \in Range(Levels) : LevelRank(level) \in 1..6 /\ Levels[LevelRank(level)] = level
<1>1. DOMAIN Levels = 1..6
  BY DEF Levels
<1>2. \A level \in Range(Levels) : \E i \in DOMAIN Levels : Levels[i] = level
  BY DEF Range
<1> QED BY <1>1, <1>2 DEF LevelRank

\* Messages of known levels are in one order by level, time of creation and place.
LEMMA SortOrderStrict ==
    ASSUME NEW T, NEW s \in Seq(T), \A i \in 1..Len(s) : s[i].level \in Range(Levels) /\ s[i].created \in Int
    PROVE  StrictOrder(SortOrder(s), 1..Len(s))
<1> DEFINE P == 1..Len(s)
           rank(i) == LevelRank(s[i].level)
           at(i) == s[i].created
           before(i, j) == \/ rank(i) < rank(j) \/ (rank(i) = rank(j) /\ at(i) < at(j))
                           \/ (rank(i) = rank(j) /\ at(i) = at(j) /\ i < j)
<1>1. \A i \in P : rank(i) \in Int /\ at(i) \in Int /\ i \in Int
  BY LevelFacts
<1>2. \A i, j \in P : <<i, j>> \in SortOrder(s) <=> before(i, j)
  <2> TAKE i, j \in P
  <2>1. <<i, j>> \in SortOrder(s) <=> WorseThan(s[i], s[j]) \/ (~WorseThan(s[j], s[i]) /\ i < j)
    BY DEF SortOrder
  <2>2. /\ WorseThan(s[i], s[j]) <=> rank(i) < rank(j) \/ (rank(i) = rank(j) /\ at(i) < at(j))
        /\ WorseThan(s[j], s[i]) <=> rank(j) < rank(i) \/ (rank(j) = rank(i) /\ at(j) < at(i))
    BY DEF WorseThan
  <2> HIDE DEF rank, at, P
  <2> QED BY <1>1, <2>1, <2>2
<1> HIDE DEF rank, at, P
<1>3. /\ \A i \in P : ~before(i, i)
      /\ \A i, j \in P : i # j => before(i, j) \/ before(j, i)
  BY <1>1
<1>4. \A i, j, k \in P : before(i, j) /\ before(j, k) => before(i, k)
  BY <1>1
<1> HIDE DEF before
<1>5. StrictOrder(SortOrder(s), P)
  BY <1>2, <1>3, <1>4 DEF StrictOrder
<1> QED BY <1>5 DEF P

\* Nothing in s is before what is worse, or as bad and older.
WorstToBest(s) == \A j, k \in 1..Len(s) : j < k => ~WorseThan(s[k], s[j])

\* Nothing in s is before what is of its type and worse, or as bad and older.
WorstToBestByType(s) ==
    \A j, k \in 1..Len(s) : j < k /\ s[j].type = s[k].type => ~WorseThan(s[k], s[j])

\* s has messages of one type.
OnlyOf(s, type) == \A i \in 1..Len(s) : s[i].type = type

\* What is sorted has what was there, and nothing before what is worse, or as bad and older.
LEMMA SortedFactsOf ==
    ASSUME NEW T, NEW s \in Seq(T), \A i \in 1..Len(s) : s[i].level \in Range(Levels) /\ s[i].created \in Int
    PROVE  /\ Sorted(s) \in Seq(T) /\ Len(Sorted(s)) = Len(s)
           /\ \E e : Draws(Sorted(s), e, s, 1..Len(s))
           /\ WorstToBest(Sorted(s))
<1> DEFINE n == Len(s)
           P == 1..n
           e == Arranged(P, SortOrder(s))
           t == Sorted(s)
<1>1. n \in Nat /\ DOMAIN s = P /\ IsFiniteSet(P) /\ Cardinality(P) = n
  <2>1. n \in Nat /\ DOMAIN s = P
    OBVIOUS
  <2>2. IsFiniteSet(1..n) /\ Cardinality(1..n) = IF 1 > n THEN 0 ELSE n - 1 + 1
    <3> HIDE DEF n
    <3> QED BY <2>1, FS_Interval
  <2> QED BY <2>1, <2>2
<1>2. StrictOrder(SortOrder(s), P)
  BY SortOrderStrict
<1> HIDE DEF P
<1>3. /\ e \in [1..n -> P]
      /\ \A k, l \in 1..n : k < l => <<e[k], e[l]>> \in SortOrder(s)
      /\ \A k, l \in 1..n : e[k] = e[l] => k = l
      /\ \A i \in P : \E k \in 1..n : e[k] = i
  <2> DEFINE R == SortOrder(s)
  <2> HIDE DEF R, n
  <2>1. IsFiniteSet(P) /\ StrictOrder(R, P)
    BY <1>1, <1>2 DEF R
  <2>2. /\ Arranged(P, R) \in [1..Cardinality(P) -> P]
        /\ \A k, l \in 1..Cardinality(P) : k < l => <<Arranged(P, R)[k], Arranged(P, R)[l]>> \in R
        /\ \A k, l \in 1..Cardinality(P) : Arranged(P, R)[k] = Arranged(P, R)[l] => k = l
        /\ \A i \in P : \E k \in 1..Cardinality(P) : Arranged(P, R)[k] = i
    BY <2>1, ArrangedFacts
  <2>3. e = Arranged(P, R) /\ R = SortOrder(s) /\ Cardinality(P) = n
    BY <1>1 DEF R
  <2> HIDE DEF e
  <2> QED BY <2>2, <2>3
<1>4. t = [k \in P |-> s[e[k]]]
  BY <1>1 DEF Sorted
<1> HIDE DEF e, t
<1>5. t \in Seq(T) /\ Len(t) = n /\ \A k \in 1..n : t[k] = s[e[k]]
  BY <1>1, <1>3, <1>4 DEF P
<1>6. Draws(t, e, s, P)
  BY <1>3, <1>5 DEF Draws
<1>7. ASSUME NEW j \in P, NEW k \in P, j < k PROVE ~WorseThan(t[k], t[j])
  <2>1. e[j] \in P /\ e[k] \in P /\ <<e[j], e[k]>> \in SortOrder(s) /\ t[j] = s[e[j]] /\ t[k] = s[e[k]]
    BY <1>3, <1>5, <1>7 DEF P
  <2>2. <<e[k], e[j]>> \notin SortOrder(s)
    BY <1>2, <2>1 DEF StrictOrder
  <2>3. WorseThan(s[e[k]], s[e[j]]) => <<e[k], e[j]>> \in SortOrder(s)
    BY <1>1, <2>1 DEF SortOrder
  <2> QED BY <2>1, <2>2, <2>3
<1> QED BY <1>5, <1>6, <1>7 DEF P, t, WorstToBest

\* Where the journal has what is listed of a type.
ListedAt(q, type) ==
    {i \in 1..Len(q.journal) :
        LET m == q.journal[i] IN
        /\ q.start <= m.persisted /\ m.persisted <= q.end
        /\ m.type = type /\ type \in q.types
        /\ q.houses # {} => m.from \in q.houses}

\* What is selected of a type is what the journal has there.
LEMMA OfTypeDrawn ==
    ASSUME NEW q, IsPersisted(q.journal), q.start \in Int, q.end \in Int, NEW type
    PROVE  /\ Selected(q) \in Seq(Range(q.journal))
           /\ OfType(Selected(q), type) \in Seq(Range(q.journal))
           /\ Selected(q) = <<>> => ListedAt(q, type) = {}
           /\ \E b : Draws(OfType(Selected(q), type), b, q.journal, ListedAt(q, type))
<1> DEFINE J == q.journal
           T == Range(J)
           from(m) == q.houses # {} => m.from \in q.houses
           Good == {m \in T : m.persisted \in q.start..q.end /\ m.type \in q.types /\ from(m)}
           S == Selected(q)
           Own == {m \in Range(S) : m.type = type}
           O == OfType(S, type)
           I == {i \in 1..Len(J) : J[i] \in Good}
           P == {k \in 1..Len(S) : S[k] \in Own}
           K == ListedAt(q, type)
           d == Places(J, Good)
           e == Places(S, Own)
<1>1. J \in Seq(T) /\ Len(J) \in Nat /\ DOMAIN J = 1..Len(J)
  BY DEF IsPersisted
<1>2. \A i \in 1..Len(J) : J[i] \in T /\ J[i].persisted \in Int
  <2>1. \A i \in 1..Len(J) : J[i] \in [persisted : Int, created : Int, type : STRING, from : {J[i].from},
                                       level : STRING, capital : BOOLEAN]
    BY <1>1 DEF IsPersisted
  <2> QED BY <1>1, <2>1 DEF Range
<1>3. S = Filtered(J, Good) /\ O = Filtered(S, Own)
  BY DEF Selected, OfType
<1>4. K \in SUBSET I /\ \A i \in I : i \in K <=> J[i].type = type
  BY <1>2 DEF ListedAt
<1> HIDE DEF J, T, Good, S, O, Own
<1>5. S \in Seq(T) /\ Draws(S, d, J, I)
  BY <1>1, <1>3, FilteredFacts, KeptDrawn
<1>6. O \in Seq(T) /\ Draws(O, e, S, P)
  BY <1>3, <1>5, FilteredFacts, KeptDrawn
<1>7. \A p \in 1..Len(S) : p \in P <=> d[p] \in K
  <2>1. \A p \in 1..Len(S) : d[p] \in I /\ S[p] = J[d[p]] /\ S[p] \in Range(S)
    BY <1>5 DEF Draws, Range
  <2> HIDE DEF K, d, I
  <2> QED BY <1>4, <2>1 DEF Own
<1>8. P \in SUBSET (1..Len(S))
  OBVIOUS
<1>9. \E b : Draws(O, b, J, K)
  <2> HIDE DEF I, P, K, d, e
  <2>1. Draws(O, [k \in 1..Len(O) |-> d[e[k]]], J, K)
    BY <1>4, <1>5, <1>6, <1>7, <1>8, DrawnThrough
  <2> QED BY <2>1
<1>10. S = <<>> => K = {}
  <2> SUFFICES ASSUME S = <<>>, NEW i \in K PROVE FALSE
    OBVIOUS
  <2>1. i \in I
    BY <1>4
  <2>2. PICK k \in 1..Len(S) : d[k] = i
    BY <1>5, <2>1 DEF Draws
  <2> QED BY <2>2
<1> QED BY <1>5, <1>6, <1>9, <1>10 DEF J, T, S, O

\* What is listed of a type, sorted, is what the journal has there, if its levels are known.
LEMMA ListedDrawn ==
    ASSUME NEW q, IsPersisted(q.journal), q.start \in Int, q.end \in Int, NEW type,
           \A m \in Range(OfType(Selected(q), type)) : LevelKnown(m)
    PROVE  LET rows == Sorted(OfType(Selected(q), type)) IN
           /\ rows \in Seq(Range(q.journal))
           /\ \E b : Draws(rows, b, q.journal, ListedAt(q, type))
           /\ WorstToBest(rows)
<1> DEFINE J == q.journal
           T == Range(J)
           O == OfType(Selected(q), type)
           K == ListedAt(q, type)
           t == Sorted(O)
           P == 1..Len(O)
<1>1. O \in Seq(T) /\ \E b : Draws(O, b, J, K)
  BY OfTypeDrawn
<1>2. PICK b : Draws(O, b, J, K)
  BY <1>1
<1>3. \A i \in 1..Len(O) : O[i].level \in Range(Levels) /\ O[i].created \in Int
  <2>1. \A i \in 1..Len(O) : O[i] \in Range(O) /\ O[i] \in T
    BY <1>1 DEF Range
  <2>2. \A m \in T : m.created \in Int
    BY DEF IsPersisted, Range
  <2> QED BY <2>1, <2>2 DEF LevelKnown
<1> HIDE DEF O, T, J, K
<1>4. /\ t \in Seq(T) /\ Len(t) = Len(O)
      /\ \E e : Draws(t, e, O, P)
      /\ WorstToBest(t)
  BY <1>1, <1>3, SortedFactsOf
<1>5. PICK e : Draws(t, e, O, P)
  BY <1>4
<1>6. \A p \in 1..Len(O) : p \in P <=> b[p] \in K
  BY <1>2 DEF Draws
<1>7. P \in SUBSET (1..Len(O)) /\ K \in SUBSET K
  OBVIOUS
<1>8. Draws(t, [k \in 1..Len(t) |-> b[e[k]]], J, K)
  <2> HIDE DEF t, P
  <2> QED BY <1>2, <1>5, <1>6, <1>7, DrawnThrough
<1> QED BY <1>4, <1>8 DEF O, T, J, K

\* What a message list's journal has at its places.
LEMMA PersistedFacts ==
    ASSUME NEW J, IsPersisted(J)
    PROVE  /\ J \in Seq(Range(J)) /\ DOMAIN J = 1..Len(J)
           /\ \A i \in 1..Len(J) : J[i] \in Range(J) /\ J[i].created \in Int
<1>1. J \in Seq(Range(J)) /\ DOMAIN J = 1..Len(J)
  BY DEF IsPersisted
<1>2. \A i \in 1..Len(J) : J[i] \in [persisted : Int, created : Int, type : STRING, from : {J[i].from},
                                     level : STRING, capital : BOOLEAN]
  BY <1>1 DEF IsPersisted
<1> QED BY <1>1, <1>2 DEF Range

\* How often s has m at the places D.
Often(s, D, m) == Cardinality({k \in D : s[k] = m})

\* What is drawn has a message as often as the places have it.
LEMMA DrawnEach ==
    ASSUME NEW T, NEW s \in Seq(T), NEW e, NEW J, NEW I, Draws(s, e, J, I), NEW m
    PROVE  Often(s, DOMAIN s, m) = Often(J, I, m)
<1> DEFINE A == {k \in DOMAIN s : s[k] = m}
           B == {i \in I : J[i] = m}
<1>1. A \in SUBSET (1..Len(s)) /\ B \in SUBSET I /\ FromPlaces(A, B, e, Len(s))
  BY DEF FromPlaces, Draws
<1> HIDE DEF A, B
<1>2. Cardinality(A) = Cardinality(B)
  BY <1>1, DrawnCount
<1> QED BY <1>2 DEF A, B, Often

\* And as many messages of a level.
LEMMA DrawnLevel ==
    ASSUME NEW T, NEW s \in Seq(T), NEW e, NEW J, NEW I, Draws(s, e, J, I), NEW level
    PROVE  Counted(s, level) = Cardinality({i \in I : J[i].level = level})
<1> DEFINE A == {k \in DOMAIN s : s[k].level = level}
           B == {i \in I : J[i].level = level}
<1>1. A \in SUBSET (1..Len(s)) /\ B \in SUBSET I /\ FromPlaces(A, B, e, Len(s))
  BY DEF FromPlaces, Draws
<1> HIDE DEF A, B
<1>2. Cardinality(A) = Cardinality(B)
  BY <1>1, DrawnCount
<1> QED BY <1>2 DEF A, B, Counted

\* One of its messages is of no known level if one at the places is.
LEMMA DrawnUnknown ==
    ASSUME NEW T, NEW s \in Seq(T), NEW e, NEW J, NEW I, Draws(s, e, J, I)
    PROVE  (\E m \in Range(s) : ~LevelKnown(m)) <=> \E i \in I : ~LevelKnown(J[i])
<1>1. (\E m \in Range(s) : ~LevelKnown(m)) <=> \E k \in 1..Len(s) : ~LevelKnown(s[k])
  BY DEF Range
<1> QED BY <1>1 DEF Draws

\* What is not worse is of no better rank, and if it is older, of a lower one.
LEMMA NotWorse ==
    ASSUME NEW m, NEW n, ~WorseThan(m, n), m.level \in Range(Levels), n.level \in Range(Levels),
           m.created \in Int, n.created \in Int
    PROVE  /\ ~(LevelRank(m.level) < LevelRank(n.level))
           /\ m.created < n.created => LevelRank(n.level) < LevelRank(m.level)
<1>1. LevelRank(m.level) \in Int /\ LevelRank(n.level) \in Int
  BY LevelFacts
<1> QED BY <1>1 DEF WorseThan

\* What the answer says of the messages at the places I of the journal J.
TellsOf(rows, table, J, I) ==
    /\ \A m \in Range(J) \cup Range(rows) :
          Cardinality({k \in DOMAIN rows : rows[k] = m}) = Cardinality({i \in I : J[i] = m})
    /\ \A j, k \in DOMAIN rows :
          j < k /\ rows[j].type = rows[k].type =>
              /\ ~(LevelRank(rows[k].level) < LevelRank(rows[j].level))
              /\ rows[k].created < rows[j].created =>
                    LevelRank(rows[j].level) < LevelRank(rows[k].level)
    /\ \A level \in Range(Levels) : table[level] = Cardinality({i \in I : J[i].level = level})

\* It is right if it is drawn from there in the order of the levels, and counted.
LEMMA DrawnTells ==
    ASSUME NEW T, NEW s \in Seq(T), NEW e, NEW J, NEW I, Draws(s, e, J, I),
           \A i \in I : LevelKnown(J[i]) /\ J[i].created \in Int,
           WorstToBestByType(s)
    PROVE  TellsOf(s, [level \in Range(Levels) |-> Counted(s, level)], J, I)
<1>1. DOMAIN s = 1..Len(s) /\ \A k \in 1..Len(s) : s[k].level \in Range(Levels) /\ s[k].created \in Int
  BY DEF Draws, LevelKnown
<1>2. ASSUME NEW m
      PROVE  Often(s, DOMAIN s, m) = Often(J, I, m)
  BY DrawnEach
<1>3. \A level \in Range(Levels) : Counted(s, level) = Cardinality({i \in I : J[i].level = level})
  BY DrawnLevel
<1>4. ASSUME NEW j \in DOMAIN s, NEW k \in DOMAIN s, j < k, s[j].type = s[k].type
      PROVE  /\ ~(LevelRank(s[k].level) < LevelRank(s[j].level))
             /\ s[k].created < s[j].created => LevelRank(s[j].level) < LevelRank(s[k].level)
  <2>1. ~WorseThan(s[k], s[j])
    BY <1>1, <1>4 DEF WorstToBestByType
  <2> QED BY <1>1, <2>1, NotWorse
<1> QED BY <1>2, <1>3, <1>4 DEF TellsOf, Often

\* Two sorted lists of different types, one after the other, have nothing of a type before
\* what is worse.
LEMMA TwoPartsSorted ==
    ASSUME NEW T, NEW s \in Seq(T), NEW t \in Seq(T), NEW a, NEW b, a # b,
           OnlyOf(s, a), OnlyOf(t, b), WorstToBest(s), WorstToBest(t)
    PROVE  WorstToBestByType(s \o t)
<1> SUFFICES ASSUME NEW j \in 1..Len(s \o t), NEW k \in 1..Len(s \o t), j < k,
                    (s \o t)[j].type = (s \o t)[k].type
             PROVE  ~WorseThan((s \o t)[k], (s \o t)[j])
  BY DEF WorstToBestByType
<1> DEFINE n == Len(s)
           m == Len(t)
           u == s \o t
<1>1. n \in Nat /\ m \in Nat /\ Len(u) = n + m
      /\ (\A i \in 1..n : u[i] = s[i]) /\ \A i \in 1..m : u[n + i] = t[i]
  BY ConcatProperties
<1> HIDE DEF u, n, m
<1>2. j \in 1..(n + m) /\ k \in 1..(n + m) /\ u[j].type = u[k].type
  BY <1>1 DEF u
<1>3. CASE j \in 1..n /\ k \in 1..n
  <2>1. u[j] = s[j] /\ u[k] = s[k] /\ ~WorseThan(s[k], s[j])
    BY <1>1, <1>3 DEF n, WorstToBest
  <2> QED BY <2>1 DEF u
<1>4. CASE j \in 1..n /\ k \notin 1..n
  <2> DEFINE y == k - n
  <2>1. y \in 1..m /\ n + y = k
    BY <1>1, <1>2, <1>4
  <2> HIDE DEF y
  <2>2. u[j].type = a /\ u[k].type = b
    BY <1>1, <1>4, <2>1 DEF n, m, OnlyOf
  <2> QED BY <1>2, <2>2
<1>5. CASE j \notin 1..n
  <2> DEFINE x == j - n
             y == k - n
  <2>1. x \in 1..m /\ y \in 1..m /\ n + x = j /\ n + y = k /\ x < y
    BY <1>1, <1>2, <1>5
  <2> HIDE DEF x, y
  <2>2. u[j] = t[x] /\ u[k] = t[y] /\ ~WorseThan(t[y], t[x])
    BY <1>1, <2>1 DEF m, WorstToBest
  <2> QED BY <2>2 DEF u
<1> QED BY <1>3, <1>4, <1>5

\* What is listed, if its levels are known, is what the journal has of both types.
LEMMA BothListed ==
    ASSUME NEW q, IsPersisted(q.journal), q.start \in Int, q.end \in Int
    PROVE  LET problem == "gridworks.event.problem"
               A == OfType(Selected(q), problem)
               B == OfType(Selected(q), "glitch")
               rows == Sorted(A) \o Sorted(B)
               placed == ListedAt(q, problem) \cup ListedAt(q, "glitch")
           IN /\ (\E m \in Range(A \o B) : ~LevelKnown(m)) <=> \E i \in placed : ~LevelKnown(q.journal[i])
              /\ Selected(q) = <<>> => placed = {}
              /\ (\A i \in placed : LevelKnown(q.journal[i])) =>
                    /\ rows \in Seq(Range(q.journal)) /\ \E c : Draws(rows, c, q.journal, placed)
                    /\ WorstToBestByType(rows)
<1> DEFINE J == q.journal
           T == Range(J)
           problem == "gridworks.event.problem"
           A == OfType(Selected(q), problem)
           B == OfType(Selected(q), "glitch")
           I == ListedAt(q, problem)
           K == ListedAt(q, "glitch")
           s == Sorted(A)
           t == Sorted(B)
<1>1. /\ A \in Seq(T) /\ B \in Seq(T)
      /\ Selected(q) = <<>> => I = {} /\ K = {}
      /\ \E a : Draws(A, a, J, I)
      /\ \E b : Draws(B, b, J, K)
  BY OfTypeDrawn
<1>2. /\ I \cap K = {}
      /\ \A i \in I : J[i].type = problem
      /\ \A i \in K : J[i].type = "glitch"
  BY DEF ListedAt
<1>3. ASSUME \A m \in Range(A) : LevelKnown(m)
      PROVE  /\ s \in Seq(T) /\ \E a : Draws(s, a, J, I)
             /\ WorstToBest(s)
  BY <1>3, ListedDrawn
<1>4. ASSUME \A m \in Range(B) : LevelKnown(m)
      PROVE  /\ t \in Seq(T) /\ \E b : Draws(t, b, J, K)
             /\ WorstToBest(t)
  BY <1>4, ListedDrawn
<1> HIDE DEF J, T, problem, A, B, I, K, s, t
<1>5. (\E m \in Range(A \o B) : ~LevelKnown(m)) <=> \E i \in I \cup K : ~LevelKnown(J[i])
  <2>1. PICK c : Draws(A \o B, c, J, I \cup K)
    <3>1. PICK a : Draws(A, a, J, I)
      BY <1>1
    <3>2. PICK b : Draws(B, b, J, K)
      BY <1>1
    <3> QED BY <1>1, <1>2, <3>1, <3>2, BothDrawn
  <2>2. A \o B \in Seq(T)
    BY <1>1
  <2> DEFINE u == A \o B
             L == I \cup K
  <2>3. u \in Seq(T) /\ Draws(u, c, J, L)
    BY <2>1, <2>2
  <2> HIDE DEF u, L
  <2>4. (\E m \in Range(u) : ~LevelKnown(m)) <=> \E i \in L : ~LevelKnown(J[i])
    BY <2>3, DrawnUnknown
  <2> QED BY <2>4 DEF u, L
<1>6. ASSUME \A i \in I \cup K : LevelKnown(J[i])
      PROVE  /\ s \o t \in Seq(T) /\ \E c : Draws(s \o t, c, J, I \cup K)
             /\ WorstToBestByType(s \o t)
  <2>1. (\A m \in Range(A) : LevelKnown(m)) /\ \A m \in Range(B) : LevelKnown(m)
    <3>1. PICK a : Draws(A, a, J, I)
      BY <1>1
    <3>2. PICK b : Draws(B, b, J, K)
      BY <1>1
    <3>3. (\E m \in Range(A) : ~LevelKnown(m)) <=> \E i \in I : ~LevelKnown(J[i])
      BY <1>1, <3>1, DrawnUnknown
    <3>4. (\E m \in Range(B) : ~LevelKnown(m)) <=> \E i \in K : ~LevelKnown(J[i])
      BY <1>1, <3>2, DrawnUnknown
    <3> QED BY <1>6, <3>3, <3>4
  <2>2. PICK a : Draws(s, a, J, I)
    BY <1>3, <2>1
  <2>3. PICK b : Draws(t, b, J, K)
    BY <1>4, <2>1
  <2>4. s \in Seq(T) /\ t \in Seq(T)
    BY <1>3, <1>4, <2>1
  <2>5. \E c : Draws(s \o t, c, J, I \cup K)
    BY <1>2, <2>2, <2>3, <2>4, BothDrawn
  <2>6. OnlyOf(s, problem)
    <3>1. \A k \in 1..Len(s) : a[k] \in I /\ s[k] = J[a[k]]
      BY <2>2 DEF Draws
    <3> QED BY <1>2, <3>1 DEF OnlyOf
  <2>7. OnlyOf(t, "glitch")
    <3>1. \A k \in 1..Len(t) : b[k] \in K /\ t[k] = J[b[k]]
      BY <2>3 DEF Draws
    <3> QED BY <1>2, <3>1 DEF OnlyOf
  <2>8. WorstToBestByType(s \o t)
    <3>1. WorstToBest(s) /\ WorstToBest(t) /\ problem # "glitch"
      BY <1>3, <1>4, <2>1 DEF problem
    <3> QED BY <2>4, <2>6, <2>7, <3>1, TwoPartsSorted
  <2> QED BY <2>4, <2>5, <2>8
<1> QED BY <1>1, <1>5, <1>6 DEF J, T, problem, A, B, I, K, s, t

\* The list fails by a message it cannot place, and otherwise has what was asked for once,
\* nothing before what is worse or as bad and older (get_messages of the legacy backend).
THEOREM AlwaysWorstFirst == ReadsSpec => []WorstFirst
<1>1. ReadsInv => WorstFirst
  <2> SUFFICES ASSUME ReadsInv, asked.kind = "message list", answer # Unanswered, answer.is # "refused"
               PROVE  WorstFirst
    BY DEF WorstFirst
  <2> DEFINE q == asked
             J == q.journal
             problem == "gridworks.event.problem"
             A == OfType(Selected(q), problem)
             B == OfType(Selected(q), "glitch")
             listed == Sorted(A) \o Sorted(B)
             placed == ListedAt(q, problem) \cup ListedAt(q, "glitch")
             failing == \E m \in Range(A \o B) : ~LevelKnown(m)
             given == [rows |-> listed, table |-> [level \in Range(Levels) |-> Counted(listed, level)]]
  <2>1. IsPersisted(J) /\ q.start \in Int /\ q.end \in Int /\ answer = MessageList(q)
    BY InputFacts DEF ReadsInv, Handled
  <2>2. /\ DOMAIN J = 1..Len(J) /\ \A i \in 1..Len(J) : J[i].created \in Int
        /\ \A i \in placed : i \in 1..Len(J)
    BY <2>1, PersistedFacts DEF ListedAt
  <2>3. answer = IF SpanRefused(q) THEN Without("refused")
                 ELSE IF Selected(q) = <<>> THEN Without("no data")
                 ELSE IF failing THEN Without("error") ELSE Data(given)
    BY <2>1 DEF MessageList
  <2>4. /\ failing <=> \E i \in placed : ~LevelKnown(J[i])
        /\ Selected(q) = <<>> => placed = {}
        /\ (\A i \in placed : LevelKnown(J[i])) =>
              /\ listed \in Seq(Range(J)) /\ \E c : Draws(listed, c, J, placed)
              /\ WorstToBestByType(listed)
    BY <2>1, BothListed
  <2>5. placed = {i \in DOMAIN J :
                     LET m == J[i] IN
                     /\ q.start <= m.persisted /\ m.persisted <= q.end
                     /\ m.type = problem /\ problem \in q.types
                     /\ q.houses # {} => m.from \in q.houses}
                 \cup {i \in DOMAIN J :
                     LET m == J[i] IN
                     /\ q.start <= m.persisted /\ m.persisted <= q.end
                     /\ m.type = "glitch" /\ "glitch" \in q.types
                     /\ q.houses # {} => m.from \in q.houses}
    BY <2>2 DEF ListedAt
  <2> HIDE DEF failing, listed, given, placed
  <2>6. answer.is = "error" <=> \E i \in placed : ~LevelKnown(J[i])
    <3>1. failing => Selected(q) # <<>>
      BY <2>4
    <3>2. answer.is = "error" <=> failing
      BY <2>3, <3>1 DEF Without, Data
    <3> QED BY <2>4, <3>2
  <2>7. ASSUME answer.is = "data" PROVE TellsOf(answer.of.rows, answer.of.table, J, placed)
    <3>1. answer = Data(given) /\ \A i \in placed : LevelKnown(J[i])
      BY <2>3, <2>6, <2>7 DEF Without
    <3>2. answer.of.rows = listed /\ answer.of.table = [level \in Range(Levels) |-> Counted(listed, level)]
      BY <3>1 DEF Data, given
    <3> DEFINE T == Range(J)
    <3> HIDE DEF q, J, T
    <3>3. /\ listed \in Seq(T) /\ \E c : Draws(listed, c, J, placed)
          /\ WorstToBestByType(listed)
      BY <2>4, <3>1 DEF T
    <3>4. \A i \in placed : LevelKnown(J[i]) /\ J[i].created \in Int
      BY <2>2, <3>1
    <3>5. PICK c : Draws(listed, c, J, placed)
      BY <3>3
    <3>6. TellsOf(listed, [level \in Range(Levels) |-> Counted(listed, level)], J, placed)
      BY <3>3, <3>4, <3>5, DrawnTells
    <3> QED BY <3>2, <3>6
  <2> QED BY <2>5, <2>6, <2>7 DEF WorstFirst, TellsOf
<1> QED BY <1>1, ReadsAlwaysHandled, PTL
=============================================================================
