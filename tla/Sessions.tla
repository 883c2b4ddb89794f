------------------------------- MODULE Sessions -------------------------------
(***************************************************************************)
(* Sessions and the account behind them (features/auth, features/users,    *)
(* internal/http/middleware/auth.go).                                      *)
(*                                                                         *)
(* A login or a refresh grants a pair: an access token (a JWT that carries *)
(* the user's role and lives AccessTTL) and a refresh token, which is      *)
(* stored in the user's row in place of the one before.  A logout clears   *)
(* the refresh token of the row its request names, in PostgreSQL, and then *)
(* blacklists its access token in Redis.  Each of these, and each change   *)
(* of the account, reads the row in one statement and writes it in another.*)
(*                                                                         *)
(* Every statement names one row of users, so one user is modelled.  Time  *)
(* is counted in ticks, long compared with a request: they pass while no   *)
(* request is being served.  Times are kept as ticks left.                 *)
(***************************************************************************)
EXTENDS Naturals

CONSTANTS
    Grants,         \* bound: the pairs of tokens granted in a run
    Roles,          \* rows of roles
    Passwords,      \* password hashes
    Requests,       \* requests served at a time
    AccessTTL,      \* the five minutes an access token lives, in ticks
    None

ASSUME SecretsAssumption ==
    /\ None \notin Grants \cup Passwords
    /\ Grants \cap Passwords = {}
ASSUME AccessTTLAssumption == AccessTTL \in Nat \ {0}

VARIABLES
    user,       \* the row of the user
    grants,     \* the pairs granted
    black,      \* Redis: ticks the key "blacklist:<token>" has left, 0 if absent
    req,        \* the requests being served
    held,       \* history: ticks since the user was active with a role
    gone        \* history: refresh tokens and passwords that were replaced

vars == <<user, grants, black, req, held, gone>>

-----------------------------------------------------------------------------
User == [active : BOOLEAN, role : Roles, password : Passwords,
         refresh : Grants \cup {None}]

\* tok is the access token: the pairs granted for the same claims within one second
\* have one and the same, called after the first of them.  out and own are history:
\* a logout of this pair was answered with success, since Redis last lost its data,
\* or one that named this user was, ever.
Grant == [state : {"unused", "made", "sent"}, role : Roles, tok : Grants,
          left : 0..AccessTTL, out : BOOLEAN, own : BOOLEAN]

\* seen is the row the request read, own that the logout named this user.  wasOut
\* is history: Redis did not have the token though it was logged out.
Request == [pc : {"idle", "save", "answer", "blacklist", "serve", "update", "password"},
            grant : Grants \cup {None}, seen : User \cup {None},
            own : BOOLEAN, wasOut : BOOLEAN]

Idle == [pc |-> "idle", grant |-> None, seen |-> None, own |-> FALSE, wasOut |-> FALSE]

TypeOK ==
    /\ user \in User
    /\ grants \in [Grants -> Grant]
    /\ black \in [Grants -> 0..AccessTTL]
    /\ req \in [Requests -> Request]
    /\ held \in [Roles -> 0..AccessTTL]
    /\ gone \subseteq Grants \cup Passwords

Init ==
    /\ user \in [active : {TRUE}, role : Roles, password : Passwords, refresh : {None}]
    /\ grants = [g \in Grants |-> [state |-> "unused", role |-> user.role, tok |-> g,
                                   left |-> 0, out |-> FALSE, own |-> FALSE]]
    /\ black = [g \in Grants |-> 0]
    /\ req = [r \in Requests |-> Idle]
    /\ held = [role \in Roles |-> IF role = user.role THEN 0 ELSE AccessTTL]
    /\ gone = {}

-----------------------------------------------------------------------------
(* Helpers *)

Set(r, q) == req' = [req EXCEPT ![r] = q]

End(r) == Set(r, Idle)

\* Statement UPDATE users SET ...: the row becomes row.
WriteRow(row) ==
    /\ user' = row
    /\ gone' = gone \cup ({user.refresh, user.password} \ {row.refresh, row.password, None})
    /\ held' = IF row.active THEN [held EXCEPT ![row.role] = 0] ELSE held

-----------------------------------------------------------------------------
(* Requests.  One begins with its first statement, which finds what it     *)
(* needs: those that are refused there change nothing.  A refresh carries  *)
(* the refresh token, a logout and an access the access token, of a pair   *)
(* whose client received it.                                               *)

Sent(g) == grants[g].state = "sent"

\* A later statement or call of Redis fails, or the process dies: the request
\* ends with an error before its next step takes effect.
Fail(r) ==
    /\ req[r].pc # "idle"
    /\ End(r)
    /\ UNCHANGED <<user, grants, black, held, gone>>

-----------------------------------------------------------------------------
(* Login and refresh *)

\* FindUserByEmail; the user is active and the password is his.
FindUserByEmail(r) ==
    /\ req[r].pc = "idle"
    /\ user.active
    /\ Set(r, [Idle EXCEPT !.pc = "save", !.seen = user])
    /\ UNCHANGED <<user, grants, black, held, gone>>

\* Faulty variant of FindUserByRefreshToken: "AND is_active = true" is missing.
FindAnyoneByRefreshToken(r) ==
    /\ req[r].pc = "idle"
    /\ user.refresh # None /\ Sent(user.refresh)
    /\ Set(r, [Idle EXCEPT !.pc = "save", !.seen = user])
    /\ UNCHANGED <<user, grants, black, held, gone>>

\* WHERE refresh_token = $1 AND is_active = true.  The stored token has no end.
FindUserByRefreshToken(r) ==
    /\ req[r].pc = "idle"
    /\ user.refresh # None /\ Sent(user.refresh)
    /\ user.active
    /\ Set(r, [Idle EXCEPT !.pc = "save", !.seen = user])
    /\ UNCHANGED <<user, grants, black, held, gone>>

\* GenerateJWT has nothing but the user, the role and the second in the token: for
\* the new pair g it is a token of its own or that of a pair of the same tick.
GeneratedFor(g, role) ==
    {g} \cup {h \in Grants : /\ grants[h].state # "unused" /\ grants[h].tok = h
                            /\ grants[h].left = AccessTTL /\ grants[h].role = role}

\* The access token is made with the role that was read, GenerateRefreshToken makes
\* the new refresh token, and this replaces whatever the row holds now.
SaveRefreshToken(r) ==
    /\ req[r].pc = "save"
    /\ \E g \in Grants : \E t \in GeneratedFor(g, req[r].seen.role) :
          /\ grants[g].state = "unused"
          /\ grants' = [grants EXCEPT ![g] =
                [state |-> "made", role |-> req[r].seen.role, tok |-> t,
                 left |-> AccessTTL, out |-> FALSE, own |-> FALSE]]
          /\ WriteRow([user EXCEPT !.refresh = g])
          /\ Set(r, [Idle EXCEPT !.pc = "answer", !.grant = g])
    /\ UNCHANGED black

\* The client gets both tokens.
Answer(r) ==
    /\ req[r].pc = "answer"
    /\ grants' = [grants EXCEPT ![req[r].grant].state = "sent"]
    /\ End(r)
    /\ UNCHANGED <<user, black, held, gone>>

-----------------------------------------------------------------------------
(* Logout *)

\* Faulty variant of ClearRefreshToken: the refresh token stays in the row.
ClearNothing(r) ==
    /\ req[r].pc = "idle"
    /\ \E g \in Grants, own \in BOOLEAN :
          Sent(g) /\ Set(r, [Idle EXCEPT !.pc = "blacklist", !.grant = g, !.own = own])
    /\ UNCHANGED <<user, grants, black, held, gone>>

\* Whatever the row holds goes, also when it is the token of another pair.
NoRefreshToken == WriteRow([user EXCEPT !.refresh = None])

\* The row is the one that the header X-User-ID names: this user's or, with another
\* id, somebody else's or none, which the number of rows would tell.
ClearRefreshToken(r) ==
    /\ req[r].pc = "idle"
    /\ \E g \in Grants, own \in BOOLEAN :
          /\ Sent(g)
          /\ IF own THEN NoRefreshToken ELSE UNCHANGED <<user, held, gone>>
          /\ Set(r, [Idle EXCEPT !.pc = "blacklist", !.grant = g, !.own = own])
    /\ UNCHANGED <<grants, black>>

\* The logout of another user's pair names this user.
ClearedByAnother ==
    /\ user.refresh # None
    /\ NoRefreshToken
    /\ UNCHANGED <<grants, black, req>>

\* Faulty variant of TimeRemaining: one tick short.
TimeRemainingShort(g) == IF grants[g].left = 0 THEN 0 ELSE grants[g].left - 1

\* time.Until(exp); a token that expired is not stored.
TimeRemaining(g) == grants[g].left

\* SET with the token's own end as TTL; its reply may be lost, and the logout
\* answers with an error.
AddToBlacklist(r) ==
    /\ req[r].pc = "blacklist"
    /\ black' = [black EXCEPT ![grants[req[r].grant].tok] = TimeRemaining(req[r].grant)]
    /\ \E ok \in BOOLEAN :
          grants' = [grants EXCEPT ![req[r].grant].out = @ \/ ok,
                                   ![req[r].grant].own = @ \/ (ok /\ req[r].own)]
    /\ End(r)
    /\ UNCHANGED <<user, held, gone>>

-----------------------------------------------------------------------------
(* AuthMiddleware *)

\* EXISTS blacklist:<token>.
Blacklisted(g) == black[grants[g].tok] > 0

\* A logout with the access token of g was answered with success.
LoggedOut(g) == \E h \in Grants : grants[h].tok = grants[g].tok /\ grants[h].out

\* ValidateJWT: the signature is ours and the token has not expired.
ValidateToken(g) == grants[g].left > 0

\* The blacklist, then the token.  An error of Redis counts as "not there".
Authenticate(r) ==
    /\ req[r].pc = "idle"
    /\ \E g \in Grants :
          /\ Sent(g)
          /\ ValidateToken(g)
          /\ \/ /\ ~Blacklisted(g)
                /\ Set(r, [Idle EXCEPT !.pc = "serve", !.grant = g, !.wasOut = LoggedOut(g)])
             \/ Set(r, [Idle EXCEPT !.pc = "serve", !.grant = g])
    /\ UNCHANGED <<user, grants, black, held, gone>>

\* The handler behind the check runs and answers.
Serve(r) ==
    /\ req[r].pc = "serve"
    /\ End(r)
    /\ UNCHANGED <<user, grants, black, held, gone>>

-----------------------------------------------------------------------------
(* The account *)

\* Update and ChangePassword, past their own access check, read the row; the
\* current password is right.
FindByID(r) ==
    /\ req[r].pc = "idle"
    /\ \E k \in {"update", "password"} : Set(r, [Idle EXCEPT !.pc = k, !.seen = user])
    /\ UNCHANGED <<user, grants, black, held, gone>>

\* Faulty variant of UpdateUser: the statement writes the whole row.
UpdateWholeUser(r) ==
    /\ req[r].pc = "update"
    /\ \E role \in Roles : WriteRow([req[r].seen EXCEPT !.role = role])
    /\ End(r)
    /\ UNCHANGED <<grants, black>>

\* Service.Update: the profile columns, role_id and is_active get the values
\* read before, but for those the request names; role_id may be one of them.
UpdateUser(r) ==
    /\ req[r].pc = "update"
    /\ \E role \in Roles :
          WriteRow([user EXCEPT !.active = req[r].seen.active, !.role = role])
    /\ End(r)
    /\ UNCHANGED <<grants, black>>

\* Users do not go back to an earlier password.
UpdatePassword(r) ==
    /\ req[r].pc = "password"
    /\ \E p \in Passwords \ gone : WriteRow([user EXCEPT !.password = p])
    /\ End(r)
    /\ UNCHANGED <<grants, black>>

\* Service.Delete, "Desativa usuário": one statement.
Deactivate ==
    /\ user.active
    /\ WriteRow([user EXCEPT !.active = FALSE])
    /\ UNCHANGED <<grants, black, req>>

-----------------------------------------------------------------------------
(* Time and Redis *)

Less(t) == IF t = 0 THEN 0 ELSE t - 1
More(t) == IF t = AccessTTL THEN t ELSE t + 1

Tick ==
    /\ \A r \in Requests : req[r].pc = "idle"
    /\ grants' = [g \in Grants |-> [grants[g] EXCEPT !.left = Less(@)]]
    /\ black' = [g \in Grants |-> Less(black[g])]
    /\ held' = [role \in Roles |->
                   IF user.active /\ user.role = role THEN 0 ELSE More(held[role])]
    /\ UNCHANGED <<user, req, gone>>

\* Redis restarts without its data; no logout before this is remembered.
RedisRestarts ==
    /\ \E g \in Grants : black[g] > 0
    /\ black' = [g \in Grants |-> 0]
    /\ grants' = [g \in Grants |-> [grants[g] EXCEPT !.out = FALSE]]
    /\ UNCHANGED <<user, req, held, gone>>

Step(r) ==
    \/ Fail(r) \/ FindUserByEmail(r) \/ FindUserByRefreshToken(r)
    \/ SaveRefreshToken(r) \/ Answer(r)
    \/ ClearRefreshToken(r) \/ AddToBlacklist(r)
    \/ Authenticate(r) \/ Serve(r)
    \/ FindByID(r) \/ UpdateUser(r) \/ UpdatePassword(r)

Next ==
    \/ \E r \in Requests : Step(r)
    \/ ClearedByAnother \/ Deactivate
    \/ Tick \/ RedisRestarts

Spec == Init /\ [][Next]_vars

-----------------------------------------------------------------------------
(* Properties *)

\* A token that was logged out with success is refused to its end, although
\* the blacklist forgets it, unless Redis did not answer or lost its data
\* (auth/service.go:152-194, middleware/auth.go:45-60).
LoggedOutIsRefused == \A r \in Requests : req[r].pc = "serve" => ~req[r].wasOut

\* A logout that names its own user and is answered with success ends the refresh
\* token of its pair for good, whatever logins, refreshes and updates were under way;
\* and any that is answered with success, whomever it names, has the access token
\* on the blacklist, in the other store, for as long as it would be valid, while
\* Redis keeps its data (auth/service.go:141-194).
LogoutEndsPair ==
    \A g \in Grants :
        /\ grants[g].own => user.refresh # g
        /\ grants[g].out /\ ValidateToken(g) => Blacklisted(g)

\* Whoever is let through with a role was active with this role less than one
\* lifetime of an access token ago: deactivation and demotion, which no token
\* knows of, take effect by then, whatever logins and refreshes they race with.
ClaimsHeldLately ==
    \A r \in Requests : req[r].pc = "serve" =>
        held[grants[req[r].grant].role] < AccessTTL

\* A refresh token that was rotated or logged out, or a password that was
\* changed, is never in the row again: no overlapping login, refresh or profile
\* update, which all write what they computed from an earlier read, revives it.
SecretsNeverReturn == {user.refresh, user.password} \cap gone = {}

\* Service.Logout: "1. Limpar Refresh Token no Banco" (auth/service.go:142).
LogoutClearsToken == \A g \in Grants : grants[g].out => user.refresh # g

\* A deactivated user stays deactivated ("Desativa usuário",
\* users/service.go:156): no operation is there to activate one.
DeactivationSticks == [][~user.active => ~user'.active]_vars
=============================================================================
