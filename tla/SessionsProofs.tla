---------------------------- MODULE SessionsProofs ----------------------------
(***************************************************************************)
(* Proofs about Sessions, for any number of token pairs, roles, passwords, *)
(* requests at a time, and any lifetime of access tokens.                  *)
(***************************************************************************)
EXTENDS Sessions, TLAPS

\* A request that is past its first statement has the pair or the row it needs.
ReqInv ==
    \A r \in Requests :
        /\ req[r].pc \in {"answer", "blacklist", "serve"} => req[r].grant \in Grants
        /\ req[r].pc \in {"save", "update", "password"} => req[r].seen \in User

\* A login or refresh in flight read a role that was in force since the last tick.
SaveInv == \A r \in Requests : req[r].pc = "save" => held[req[r].seen.role] = 0

\* The user's own role is in force while he is active.
HeldInv == user.active => held[user.role] = 0

\* What a token has left and the time since its role was in force add up to at
\* most one lifetime.
AgeInv == \A g \in Grants : held[grants[g].role] + grants[g].left <= AccessTTL

\* An access token that several pairs have was made for the first of them, and lives
\* as long for all.
TokenInv ==
    \A g \in Grants :
        /\ grants[grants[g].tok].left = grants[g].left
        /\ grants[g].tok # g => grants[grants[g].tok].state # "unused"

\* The blacklist remembers a logged-out token at least as long as it lives.
BlackInv == \A g \in Grants : grants[g].out => black[grants[g].tok] >= grants[g].left

ServeInv ==
    \A r \in Requests : req[r].pc = "serve" =>
        ~req[r].wasOut /\ grants[req[r].grant].left > 0

\* A refresh token that is or was in the row is not generated again.
UsedInv ==
    /\ user.refresh \in Grants => grants[user.refresh].state # "unused"
    /\ \A g \in Grants : g \in gone => grants[g].state # "unused"

IInv == /\ TypeOK /\ ReqInv /\ SaveInv /\ HeldInv /\ AgeInv /\ TokenInv /\ BlackInv
        /\ ServeInv /\ UsedInv /\ SecretsNeverReturn

-----------------------------------------------------------------------------
\* A request set to a well-formed q leaves the others as they are.
LEMMA SetFacts ==
    ASSUME TypeOK, NEW r \in Requests, NEW q \in Request, Set(r, q)
    PROVE  /\ req' \in [Requests -> Request]
           /\ req'[r] = q
           /\ \A s \in Requests : s # r => req'[s] = req[s]
  BY DEF TypeOK, Set

LEMMA IdleType == Idle \in Request
  BY DEF Idle, Request

\* Writing a row can only bring the user's roles back in force.
LEMMA WriteRowFacts ==
    ASSUME TypeOK, NEW row \in User, WriteRow(row)
    PROVE  /\ user' = row
           /\ held' \in [Roles -> 0..AccessTTL]
           /\ \A role \in Roles : held'[role] \in {held[role], 0}
           /\ HeldInv'
           /\ gone' \subseteq Grants \cup Passwords
           /\ gone' \subseteq gone \cup {user.refresh, user.password}
           /\ {row.refresh, row.password} \cap gone = {} =>
                 {row.refresh, row.password} \cap gone' = {}
  <1>1. user' = row
    BY DEF WriteRow
  <1>2. held' \in [Roles -> 0..AccessTTL] /\ \A role \in Roles : held'[role] \in {held[role], 0}
    BY AccessTTLAssumption DEF WriteRow, TypeOK, User
  <1>4. HeldInv'
    BY DEF WriteRow, TypeOK, User, HeldInv
  <1>3. /\ gone' \subseteq Grants \cup Passwords
        /\ gone' \subseteq gone \cup {user.refresh, user.password}
        /\ {row.refresh, row.password} \cap gone = {} =>
              {row.refresh, row.password} \cap gone' = {}
    BY DEF WriteRow, TypeOK, User
  <1> QED BY <1>1, <1>2, <1>3, <1>4

\* Roles that come back in force disturb neither of the invariants about age.
LEMMA HeldFacts ==
    ASSUME TypeOK, ReqInv, SaveInv, AgeInv,
           held' \in [Roles -> 0..AccessTTL],
           \A role \in Roles : held'[role] \in {held[role], 0}
    PROVE  /\ \A s \in Requests : req[s].pc = "save" => held'[req[s].seen.role] = 0
           /\ \A g \in Grants : held'[grants[g].role] + grants[g].left <= AccessTTL
  <1>1. ASSUME NEW s \in Requests, req[s].pc = "save" PROVE held'[req[s].seen.role] = 0
    <2>1. req[s].seen.role \in Roles /\ held[req[s].seen.role] = 0
      BY <1>1 DEF ReqInv, SaveInv, User
    <2> QED BY <2>1
  <1>2. ASSUME NEW g \in Grants PROVE held'[grants[g].role] + grants[g].left <= AccessTTL
    <2>1. /\ grants[g].role \in Roles /\ grants[g].left \in 0..AccessTTL
          /\ held[grants[g].role] \in 0..AccessTTL
          /\ held[grants[g].role] + grants[g].left <= AccessTTL
      BY DEF TypeOK, Grant, AgeInv
    <2>2. held'[grants[g].role] \in {held[grants[g].role], 0}
      BY <2>1
    <2> QED BY <2>1, <2>2, AccessTTLAssumption
  <1> QED BY <1>1, <1>2

-----------------------------------------------------------------------------
LEMMA Initially == Init => IInv
  <1> SUFFICES ASSUME Init PROVE IInv
    OBVIOUS
  <1>1. user \in User
    BY DEF Init, User
  <1>2. TypeOK
    BY <1>1, AccessTTLAssumption DEF Init, TypeOK, User, Grant, Request, Idle
  <1>3. ReqInv /\ SaveInv /\ HeldInv /\ ServeInv
    BY <1>1 DEF Init, User, Idle, ReqInv, SaveInv, HeldInv, ServeInv
  <1>4. AgeInv
    <2>1. ASSUME NEW g \in Grants PROVE held[grants[g].role] + grants[g].left <= AccessTTL
      <3>1. grants[g].left = 0 /\ grants[g].role \in Roles
        BY <1>1 DEF Init, User
      <3>2. held[grants[g].role] \in 0..AccessTTL
        BY <1>2, <3>1 DEF TypeOK
      <3> QED BY <3>1, <3>2, AccessTTLAssumption
    <2> QED BY <2>1 DEF AgeInv
  <1>5. BlackInv /\ TokenInv
    BY DEF Init, BlackInv, TokenInv
  <1>6. UsedInv /\ SecretsNeverReturn
    BY SecretsAssumption DEF Init, UsedInv, SecretsNeverReturn
  <1> QED BY <1>2, <1>3, <1>4, <1>5, <1>6 DEF IInv

\* A step of a request that changes neither the row, the tokens nor Redis, and
\* leaves the request in a state that the invariant allows.
LEMMA RequestStep ==
    ASSUME IInv, UNCHANGED <<user, grants, black, held, gone>>,
           NEW r \in Requests, NEW q \in Request, Set(r, q),
           q.pc \in {"answer", "blacklist", "serve"} => q.grant \in Grants,
           q.pc \in {"save", "update", "password"} => q.seen \in User,
           q.pc = "save" => held[q.seen.role] = 0,
           q.pc = "serve" => ~q.wasOut /\ grants[q.grant].left > 0
    PROVE  IInv'
  <1>1. /\ req' \in [Requests -> Request]
        /\ req'[r] = q
        /\ \A s \in Requests : s # r => req'[s] = req[s]
    BY SetFacts DEF IInv
  <1>2. TypeOK'
    BY <1>1 DEF IInv, TypeOK
  <1>3. ReqInv'
    BY <1>1 DEF IInv, ReqInv
  <1>4. SaveInv'
    BY <1>1 DEF IInv, SaveInv
  <1>5. ServeInv'
    BY <1>1 DEF IInv, ServeInv
  <1>6. HeldInv' /\ AgeInv' /\ TokenInv' /\ BlackInv' /\ UsedInv' /\ SecretsNeverReturn'
    BY DEF IInv, HeldInv, AgeInv, TokenInv, BlackInv, UsedInv, SecretsNeverReturn
  <1> QED BY <1>2, <1>3, <1>4, <1>5, <1>6 DEF IInv

\* A statement that writes the row, with no secret that was there before and no
\* refresh token that is not there already, from a request that goes on to q.
LEMMA RowStep ==
    ASSUME IInv, NEW row \in User, WriteRow(row), UNCHANGED <<grants, black>>,
           row.refresh \in {user.refresh, None},
           row.password \in (Passwords \ gone) \cup {user.password},
           req' \in [Requests -> Request],
           \A s \in Requests :
               \/ req'[s] = req[s]
               \/ req'[s].pc = "idle"
               \/ req'[s].pc = "blacklist" /\ req'[s].grant \in Grants
    PROVE  IInv'
  <1>1. /\ user' = row
        /\ held' \in [Roles -> 0..AccessTTL]
        /\ \A role \in Roles : held'[role] \in {held[role], 0}
        /\ HeldInv'
        /\ gone' \subseteq Grants \cup Passwords
        /\ gone' \subseteq gone \cup {user.refresh, user.password}
        /\ {row.refresh, row.password} \cap gone = {} =>
              {row.refresh, row.password} \cap gone' = {}
    BY WriteRowFacts DEF IInv
  <1>2. TypeOK'
    BY <1>1 DEF IInv, TypeOK
  <1>3. ReqInv' /\ ServeInv'
    BY DEF IInv, ReqInv, ServeInv
  <1>4. /\ \A s \in Requests : req[s].pc = "save" => held'[req[s].seen.role] = 0
        /\ \A g \in Grants : held'[grants[g].role] + grants[g].left <= AccessTTL
    BY <1>1, HeldFacts DEF IInv
  <1>5. SaveInv' /\ AgeInv' /\ TokenInv' /\ BlackInv'
    BY <1>4 DEF IInv, SaveInv, AgeInv, TokenInv, BlackInv
  <1>6. SecretsNeverReturn'
    <2>1. None \notin gone
      BY SecretsAssumption DEF IInv, TypeOK
    <2>2. {row.refresh, row.password} \cap gone = {}
      BY <2>1 DEF IInv, SecretsNeverReturn
    <2> QED BY <1>1, <2>2 DEF SecretsNeverReturn
  <1>7. UsedInv'
    <2>1. user.password \notin Grants
      BY SecretsAssumption DEF IInv, TypeOK, User
    <2> QED BY <1>1, <2>1, SecretsAssumption DEF IInv, UsedInv
  <1> QED BY <1>1, <1>2, <1>3, <1>5, <1>6, <1>7 DEF IInv

\* A pair that was just made.
New(role, t) == [state |-> "made", role |-> role, tok |-> t, left |-> AccessTTL,
                 out |-> FALSE, own |-> FALSE]

\* The step that makes a new pair and stores its refresh token.
LEMMA SaveStep ==
    ASSUME IInv, NEW r \in Requests, SaveRefreshToken(r)
    PROVE  IInv'
  <1>0. PICK g \in Grants :
          \E t \in GeneratedFor(g, req[r].seen.role) :
             /\ grants[g].state = "unused"
             /\ grants' = [grants EXCEPT ![g] = New(req[r].seen.role, t)]
             /\ WriteRow([user EXCEPT !.refresh = g])
             /\ Set(r, [Idle EXCEPT !.pc = "answer", !.grant = g])
    BY DEF SaveRefreshToken, New
  <1>1. PICK t \in GeneratedFor(g, req[r].seen.role) :
          /\ grants[g].state = "unused"
          /\ grants' = [grants EXCEPT ![g] = New(req[r].seen.role, t)]
          /\ WriteRow([user EXCEPT !.refresh = g])
          /\ Set(r, [Idle EXCEPT !.pc = "answer", !.grant = g])
    BY <1>0
  <1>t. /\ t \in Grants
        /\ t # g => grants[t].state # "unused" /\ grants[t].left = AccessTTL
    BY <1>0, <1>1 DEF GeneratedFor
  <1>n. PICK new : new = New(req[r].seen.role, t)
    OBVIOUS
  <1>2. req[r].pc = "save" /\ black' = black
    BY DEF SaveRefreshToken
  <1>3. PICK row \in User : row = [user EXCEPT !.refresh = g]
    BY DEF IInv, TypeOK, User
  <1>4. row.refresh = g /\ row.password = user.password
    BY <1>3 DEF IInv, TypeOK, User
  <1>5. /\ user' = row
        /\ held' \in [Roles -> 0..AccessTTL]
        /\ \A role \in Roles : held'[role] \in {held[role], 0}
        /\ HeldInv'
        /\ gone' \subseteq Grants \cup Passwords
        /\ gone' \subseteq gone \cup {user.refresh, user.password}
        /\ {row.refresh, row.password} \cap gone = {} =>
              {row.refresh, row.password} \cap gone' = {}
    BY <1>1, <1>3, WriteRowFacts DEF IInv
  <1>6. PICK q \in Request : q = [Idle EXCEPT !.pc = "answer", !.grant = g]
    BY DEF Idle, Request
  <1>7. q.pc = "answer" /\ q.grant = g
    BY <1>6 DEF Idle
  <1>8. /\ req' \in [Requests -> Request]
        /\ req'[r] = q
        /\ \A s \in Requests : s # r => req'[s] = req[s]
    BY <1>1, <1>6, SetFacts DEF IInv
  <1>9. /\ new \in Grant /\ req[r].seen.role \in Roles /\ held[req[r].seen.role] = 0
        /\ new.role = req[r].seen.role /\ new.tok = t /\ new.left = AccessTTL
        /\ new.state = "made" /\ ~new.out
    BY <1>2, <1>t, <1>n, AccessTTLAssumption DEF IInv, ReqInv, SaveInv, User, Grant, New
  <1>10. /\ grants' \in [Grants -> Grant]
         /\ grants'[g] = new
         /\ \A h \in Grants : h # g => grants'[h] = grants[h]
    BY <1>1, <1>n, <1>9 DEF IInv, TypeOK
  <1>11. TypeOK'
    BY <1>2, <1>5, <1>8, <1>10 DEF IInv, TypeOK
  <1>12. ReqInv'
    BY <1>7, <1>8 DEF IInv, ReqInv
  <1>13. /\ \A s \in Requests : req[s].pc = "save" => held'[req[s].seen.role] = 0
         /\ \A h \in Grants : held'[grants[h].role] + grants[h].left <= AccessTTL
    BY <1>5, HeldFacts DEF IInv
  <1>14. SaveInv'
    BY <1>7, <1>8, <1>13 DEF SaveInv
  <1>15. AgeInv'
    <2>1. held'[new.role] = 0 /\ new.left = AccessTTL
      BY <1>2, <1>9, <1>13
    <2>2. ASSUME NEW h \in Grants
          PROVE held'[grants'[h].role] + grants'[h].left <= AccessTTL
      <3>1. CASE h = g
        BY <3>1, <1>10, <2>1, AccessTTLAssumption
      <3>2. CASE h # g
        BY <3>2, <1>10, <1>13
      <3> QED BY <3>1, <3>2
    <2> QED BY <2>2 DEF AgeInv
  <1>a. TokenInv'
    <2>1. ASSUME NEW h \in Grants, h # g
          PROVE  /\ grants[h].tok \in Grants \ {g} /\ grants'[h] = grants[h]
                 /\ grants'[grants[h].tok] = grants[grants[h].tok]
      BY <1>1, <1>10, <2>1 DEF IInv, TypeOK, Grant, TokenInv
    <2>2. ASSUME NEW h \in Grants, h # g
          PROVE  /\ grants'[grants'[h].tok].left = grants'[h].left
                 /\ grants'[h].tok # h => grants'[grants'[h].tok].state # "unused"
      BY <2>1, <2>2 DEF IInv, TokenInv
    <2>3. /\ grants'[grants'[g].tok].left = grants'[g].left
          /\ grants'[g].tok # g => grants'[grants'[g].tok].state # "unused"
      <3>1. grants'[g].tok = t /\ grants'[g].left = AccessTTL
        BY <1>9, <1>10
      <3>2. CASE t = g
        BY <3>1, <3>2
      <3>3. CASE t # g
        BY <1>t, <1>10, <3>1, <3>3
      <3> QED BY <3>2, <3>3
    <2> QED BY <2>2, <2>3 DEF TokenInv
  <1>16. BlackInv'
    BY <1>2, <1>9, <1>10 DEF IInv, BlackInv
  <1>17. ServeInv'
    <2> SUFFICES ASSUME NEW s \in Requests, req'[s].pc = "serve"
                 PROVE  ~req'[s].wasOut /\ grants'[req'[s].grant].left > 0
      BY DEF ServeInv
    <2>1. s # r /\ req'[s] = req[s]
      BY <1>7, <1>8
    <2>2. ~req[s].wasOut /\ req[s].grant \in Grants /\ grants[req[s].grant].left > 0
      BY <2>1 DEF IInv, ServeInv, ReqInv
    <2> QED BY <2>1, <2>2, <1>9, <1>10, AccessTTLAssumption
  <1>18. g \notin gone /\ user.password \notin Grants
    BY <1>1, SecretsAssumption DEF IInv, UsedInv, TypeOK, User
  <1>19. SecretsNeverReturn'
    BY <1>4, <1>5, <1>18 DEF IInv, SecretsNeverReturn
  <1>20. UsedInv'
    BY <1>4, <1>5, <1>9, <1>10, <1>18 DEF IInv, UsedInv
  <1> QED BY <1>5, <1>11, <1>12, <1>14, <1>15, <1>a, <1>16, <1>17, <1>19, <1>20 DEF IInv

-----------------------------------------------------------------------------
\* The answer of a login or refresh hands the pair over.
LEMMA AnswerStep ==
    ASSUME IInv, NEW r \in Requests, Answer(r)
    PROVE  IInv'
  <1>1. /\ req' \in [Requests -> Request]
        /\ req'[r] = Idle /\ Idle.pc = "idle"
        /\ \A s \in Requests : s # r => req'[s] = req[s]
    BY IdleType, SetFacts DEF IInv, Answer, End, Idle
  <1>2. PICK g \in Grants : g = req[r].grant
    BY DEF Answer, IInv, ReqInv
  <1>3. UNCHANGED <<user, black, held, gone>>
    BY DEF Answer
  <1>4. /\ grants' \in [Grants -> Grant]
        /\ \A h \in Grants : /\ grants'[h].role = grants[h].role
                             /\ grants'[h].left = grants[h].left
                             /\ grants'[h].out = grants[h].out
                             /\ grants'[h].tok = grants[h].tok
                             /\ grants'[h].state \in {grants[h].state, "sent"}
    <2>1. grants' = [grants EXCEPT ![g].state = "sent"]
      BY <1>2 DEF Answer
    <2> QED BY <2>1 DEF IInv, TypeOK, Grant
  <1>5. TypeOK'
    BY <1>1, <1>3, <1>4 DEF IInv, TypeOK
  <1>6. ReqInv' /\ SaveInv' /\ HeldInv'
    BY <1>1, <1>3 DEF IInv, ReqInv, SaveInv, HeldInv
  <1>7. ServeInv'
    BY <1>1, <1>4 DEF IInv, ServeInv, ReqInv
  <1>8. AgeInv'
    BY <1>3, <1>4 DEF IInv, AgeInv
  <1>9. BlackInv' /\ TokenInv'
    <2>1. \A h \in Grants : grants[h].tok \in Grants
      BY DEF IInv, TypeOK, Grant
    <2> QED BY <1>3, <1>4, <2>1 DEF IInv, BlackInv, TokenInv
  <1>10. UsedInv' /\ SecretsNeverReturn'
    BY <1>3, <1>4 DEF IInv, UsedInv, SecretsNeverReturn
  <1> QED BY <1>5, <1>6, <1>7, <1>8, <1>9, <1>10 DEF IInv

With(a, out, own) == [a EXCEPT !.out = out, !.own = own]

LEMMA WithFacts ==
    ASSUME NEW a \in Grant, NEW out \in BOOLEAN, NEW own \in BOOLEAN
    PROVE  /\ With(a, out, own) \in Grant
           /\ With(a, out, own).role = a.role /\ With(a, out, own).left = a.left
           /\ With(a, out, own).state = a.state /\ With(a, out, own).tok = a.tok
           /\ With(a, out, own).own = own
  BY DEF With, Grant

\* What a logout that is over leaves in the history of its pair.
LEMMA LogoutHistory ==
    ASSUME TypeOK, NEW r \in Requests, NEW g \in Grants, g = req[r].grant, AddToBlacklist(r)
    PROVE  \E out, own \in BOOLEAN :
              /\ grants' = [grants EXCEPT ![g] = With(grants[g], out, own)]
              /\ own => grants[g].own \/ req[r].own
  <1>1. PICK ok \in BOOLEAN :
           grants' = [grants EXCEPT ![g].out = @ \/ ok, ![g].own = @ \/ (ok /\ req[r].own)]
    BY DEF AddToBlacklist
  <1>2. PICK out \in BOOLEAN, own \in BOOLEAN :
           out = (grants[g].out \/ ok) /\ own = (grants[g].own \/ (ok /\ req[r].own))
    OBVIOUS
  <1>3. grants' = [grants EXCEPT ![g] = With(grants[g], out, own)]
    BY <1>1, <1>2 DEF TypeOK, Grant, With
  <1> QED BY <1>2, <1>3

\* The blacklist gets the token for just as long as the token has left.
LEMMA BlacklistStep ==
    ASSUME IInv, NEW r \in Requests, AddToBlacklist(r)
    PROVE  IInv'
  <1>1. /\ req' \in [Requests -> Request]
        /\ req'[r] = Idle /\ Idle.pc = "idle"
        /\ \A s \in Requests : s # r => req'[s] = req[s]
    BY IdleType, SetFacts DEF IInv, AddToBlacklist, End, Idle
  <1>2. PICK g \in Grants : g = req[r].grant
    BY DEF AddToBlacklist, IInv, ReqInv
  <1>3. UNCHANGED <<user, held, gone>>
    BY DEF AddToBlacklist
  <1>t. PICK t \in Grants : t = grants[g].tok
    BY DEF IInv, TypeOK, Grant
  <1>4. black' = [black EXCEPT ![t] = grants[g].left]
    BY <1>2, <1>t DEF AddToBlacklist, TimeRemaining
  <1>5. /\ grants' \in [Grants -> Grant]
        /\ \A h \in Grants : /\ grants'[h].role = grants[h].role
                             /\ grants'[h].left = grants[h].left
                             /\ grants'[h].state = grants[h].state
                             /\ grants'[h].tok = grants[h].tok
                             /\ h # g => grants'[h].out = grants[h].out
    <2>1. PICK out \in BOOLEAN, own \in BOOLEAN :
             grants' = [grants EXCEPT ![g] = With(grants[g], out, own)]
      BY <1>2, LogoutHistory DEF IInv
    <2>2. PICK e : e = With(grants[g], out, own)
      OBVIOUS
    <2>3. /\ e \in Grant /\ e.role = grants[g].role /\ e.left = grants[g].left
          /\ e.state = grants[g].state /\ e.tok = grants[g].tok
      BY <2>2, WithFacts DEF IInv, TypeOK
    <2>4. /\ grants' \in [Grants -> Grant] /\ grants'[g] = e
          /\ \A h \in Grants : h # g => grants'[h] = grants[h]
      BY <2>1, <2>2, <2>3 DEF IInv, TypeOK
    <2> QED BY <2>3, <2>4
  <1>6. TypeOK'
    <2>1. black' \in [Grants -> 0..AccessTTL]
      BY <1>4 DEF IInv, TypeOK, Grant
    <2> QED BY <1>1, <1>3, <1>5, <2>1 DEF IInv, TypeOK
  <1>7. ReqInv' /\ SaveInv' /\ HeldInv'
    BY <1>1, <1>3 DEF IInv, ReqInv, SaveInv, HeldInv
  <1>8. ServeInv'
    BY <1>1, <1>5 DEF IInv, ServeInv, ReqInv
  <1>9. AgeInv'
    BY <1>3, <1>5 DEF IInv, AgeInv
  <1>10. BlackInv'
    <2> SUFFICES ASSUME NEW h \in Grants, grants'[h].out
                 PROVE  black'[grants'[h].tok] >= grants'[h].left
      BY DEF BlackInv
    <2>0. /\ grants[h].tok \in Grants /\ grants[h].left \in 0..AccessTTL
          /\ grants'[h].tok = grants[h].tok /\ grants'[h].left = grants[h].left
      BY <1>5 DEF IInv, TypeOK, Grant
    <2>1. CASE grants[h].tok = t
      <3>1. grants[h].left = grants[t].left /\ grants[g].left = grants[t].left
        BY <1>t, <2>1 DEF IInv, TokenInv
      <3>2. black'[t] = grants[g].left
        BY <1>4 DEF IInv, TypeOK
      <3> QED BY <2>0, <2>1, <3>1, <3>2, AccessTTLAssumption
    <2>2. CASE grants[h].tok # t
      <3>1. grants[h].out
        BY <1>5, <1>t, <2>2
      <3>2. black'[grants[h].tok] = black[grants[h].tok]
        BY <1>4, <2>0, <2>2 DEF IInv, TypeOK
      <3> QED BY <2>0, <3>1, <3>2 DEF IInv, BlackInv
    <2> QED BY <2>1, <2>2
  <1>a. TokenInv'
    <2>1. \A h \in Grants : grants[h].tok \in Grants
      BY DEF IInv, TypeOK, Grant
    <2> QED BY <1>5, <2>1 DEF IInv, TokenInv
  <1>11. UsedInv' /\ SecretsNeverReturn'
    BY <1>3, <1>5 DEF IInv, UsedInv, SecretsNeverReturn
  <1> QED BY <1>6, <1>7, <1>8, <1>9, <1>a, <1>10, <1>11 DEF IInv

\* What Less and More do within a lifetime.
LEMMA TickFacts ==
    ASSUME NEW n \in 0..AccessTTL
    PROVE  /\ Less(n) \in 0..AccessTTL /\ More(n) \in 0..AccessTTL
           /\ \A m \in 0..AccessTTL : m >= n => Less(m) >= Less(n)
           /\ \A m \in 0..AccessTTL : n + m <= AccessTTL => More(n) + Less(m) <= AccessTTL
  BY AccessTTLAssumption DEF Less, More

\* A tick: tokens and entries of the blacklist get older together.
LEMMA TickStep ==
    ASSUME IInv, Tick
    PROVE  IInv'
  <1>1. UNCHANGED <<user, req, gone>> /\ \A r \in Requests : req[r].pc = "idle"
    BY DEF Tick
  <1>2. /\ user \in User
        /\ \A g \in Grants : /\ grants[g] \in Grant
                             /\ grants[g].left \in 0..AccessTTL
                             /\ grants[g].role \in Roles
                             /\ black[g] \in 0..AccessTTL
        /\ \A role \in Roles : held[role] \in 0..AccessTTL
    BY DEF IInv, TypeOK, Grant
  <1>3. \A g \in Grants : /\ grants'[g] \in Grant
                          /\ grants'[g].state = grants[g].state
                          /\ grants'[g].role = grants[g].role
                          /\ grants'[g].out = grants[g].out
                          /\ grants'[g].tok = grants[g].tok /\ grants[g].tok \in Grants
                          /\ grants'[g].left = Less(grants[g].left)
    <2> SUFFICES ASSUME NEW g \in Grants
                 PROVE  /\ grants'[g] \in Grant
                        /\ grants'[g].state = grants[g].state
                        /\ grants'[g].role = grants[g].role
                        /\ grants'[g].out = grants[g].out
                        /\ grants'[g].tok = grants[g].tok /\ grants[g].tok \in Grants
                        /\ grants'[g].left = Less(grants[g].left)
      OBVIOUS
    <2>1. PICK n \in 0..AccessTTL : n = Less(grants[g].left)
      BY <1>2, TickFacts
    <2>2. grants'[g] = [grants[g] EXCEPT !.left = n]
      BY <2>1 DEF Tick
    <2> QED BY <1>2, <2>1, <2>2 DEF Grant
  <1>4. grants' = [g \in Grants |-> grants'[g]]
    BY DEF Tick
  <1>5. /\ black' = [g \in Grants |-> Less(black[g])]
        /\ held' = [role \in Roles |->
                       IF user.active /\ user.role = role THEN 0 ELSE More(held[role])]
    BY DEF Tick
  <1>6. TypeOK'
    <2>1. grants' \in [Grants -> Grant]
      BY <1>3, <1>4
    <2>2. black' \in [Grants -> 0..AccessTTL] /\ held' \in [Roles -> 0..AccessTTL]
      <3>1. \A g \in Grants : Less(black[g]) \in 0..AccessTTL
        BY <1>2, TickFacts
      <3>2. \A role \in Roles : More(held[role]) \in 0..AccessTTL
        BY <1>2, TickFacts
      <3>3. 0 \in 0..AccessTTL
        BY AccessTTLAssumption
      <3> QED BY <1>5, <3>1, <3>2, <3>3
    <2> QED BY <1>1, <2>1, <2>2 DEF IInv, TypeOK
  <1>7. ReqInv' /\ SaveInv' /\ HeldInv' /\ ServeInv'
    <2>1. HeldInv'
      BY <1>1, <1>2, <1>5 DEF User, HeldInv
    <2> QED BY <1>1, <2>1 DEF ReqInv, SaveInv, ServeInv
  <1>8. AgeInv'
    <2> SUFFICES ASSUME NEW g \in Grants
                 PROVE  held'[grants'[g].role] + grants'[g].left <= AccessTTL
      BY DEF AgeInv
    <2> DEFINE h == held[grants[g].role]
               l == grants[g].left
    <2>1. h \in 0..AccessTTL /\ l \in 0..AccessTTL /\ h + l <= AccessTTL
      BY <1>2 DEF IInv, AgeInv
    <2>2. More(h) + Less(l) <= AccessTTL /\ Less(l) \in 0..AccessTTL
      BY <2>1, TickFacts
    <2>3. held'[grants[g].role] = 0 \/ held'[grants[g].role] = More(h)
      BY <1>2, <1>5
    <2>4. grants'[g].role = grants[g].role /\ grants'[g].left = Less(l)
      BY <1>3
    <2> HIDE DEF h, l
    <2> QED BY <2>2, <2>3, <2>4, AccessTTLAssumption
  <1>9. BlackInv'
    BY <1>2, <1>3, <1>5, TickFacts DEF IInv, BlackInv
  <1>a. TokenInv'
    BY <1>3 DEF IInv, TokenInv
  <1>10. UsedInv' /\ SecretsNeverReturn'
    BY <1>1, <1>3 DEF IInv, TypeOK, UsedInv, SecretsNeverReturn
  <1> QED BY <1>6, <1>7, <1>8, <1>9, <1>a, <1>10 DEF IInv

\* A restart of Redis forgets the logouts and the blacklist at once.
LEMMA RestartStep ==
    ASSUME IInv, RedisRestarts
    PROVE  IInv'
  <1>1. UNCHANGED <<user, req, held, gone>> /\ black' = [g \in Grants |-> 0]
    BY DEF RedisRestarts
  <1>2. /\ grants' \in [Grants -> Grant]
        /\ \A h \in Grants : /\ grants'[h].role = grants[h].role
                             /\ grants'[h].left = grants[h].left
                             /\ grants'[h].state = grants[h].state
                             /\ grants'[h].tok = grants[h].tok /\ grants[h].tok \in Grants
                             /\ ~grants'[h].out
    <2>1. ASSUME NEW h \in Grants
          PROVE  /\ grants[h] \in Grant
                 /\ grants'[h] = [grants[h] EXCEPT !.out = FALSE]
      BY DEF RedisRestarts, IInv, TypeOK
    <2>2. ASSUME NEW h \in Grants
          PROVE  /\ grants'[h] \in Grant
                 /\ grants'[h].role = grants[h].role
                 /\ grants'[h].left = grants[h].left
                 /\ grants'[h].state = grants[h].state
                 /\ grants'[h].tok = grants[h].tok /\ grants[h].tok \in Grants
                 /\ ~grants'[h].out
      <3>1. PICK a \in Grant : a = grants[h]
        BY <2>1
      <3>2. PICK b : b = [a EXCEPT !.out = FALSE]
        OBVIOUS
      <3>3. b \in Grant
        BY <3>2 DEF Grant
      <3>4. b.role = a.role /\ b.left = a.left /\ b.state = a.state
        BY <3>2 DEF Grant
      <3>5. b.tok = a.tok /\ a.tok \in Grants
        BY <3>2 DEF Grant
      <3>6. ~b.out
        BY <3>2 DEF Grant
      <3>7. b = grants'[h]
        BY <2>1, <3>1, <3>2, Zenon
      <3> QED BY <3>1, <3>3, <3>4, <3>5, <3>6, <3>7, Zenon
    <2>3. grants' = [h \in Grants |-> grants'[h]]
      BY DEF RedisRestarts
    <2>4. grants' \in [Grants -> Grant]
      BY <2>2, <2>3
    <2> QED BY <2>2, <2>4
  <1>3. TypeOK'
    BY <1>1, <1>2, AccessTTLAssumption DEF IInv, TypeOK
  <1>4. ReqInv' /\ SaveInv' /\ HeldInv'
    BY <1>1 DEF IInv, ReqInv, SaveInv, HeldInv
  <1>5. ServeInv'
    BY <1>1, <1>2 DEF IInv, ServeInv, ReqInv
  <1>6. AgeInv' /\ BlackInv' /\ TokenInv'
    BY <1>1, <1>2 DEF IInv, AgeInv, BlackInv, TokenInv
  <1>7. UsedInv' /\ SecretsNeverReturn'
    BY <1>1, <1>2 DEF IInv, UsedInv, SecretsNeverReturn
  <1> QED BY <1>3, <1>4, <1>5, <1>6, <1>7 DEF IInv


-----------------------------------------------------------------------------
\* What a request looks like when it has read the row ...
LEMMA SeenType ==
    ASSUME NEW u \in User
    PROVE  /\ [Idle EXCEPT !.pc = "save", !.seen = u] \in Request
           /\ [Idle EXCEPT !.pc = "update", !.seen = u] \in Request
           /\ [Idle EXCEPT !.pc = "password", !.seen = u] \in Request
  BY DEF Idle, Request

LEMMA SeenFields ==
    ASSUME NEW k, NEW u
    PROVE  /\ [Idle EXCEPT !.pc = k, !.seen = u].pc = k
           /\ [Idle EXCEPT !.pc = k, !.seen = u].seen = u
  BY DEF Idle

\* ... or has a pair of tokens ...
LEMMA GrantType ==
    ASSUME NEW g \in Grants
    PROVE  [Idle EXCEPT !.pc = "serve", !.grant = g] \in Request
  BY DEF Idle, Request

LEMMA LogoutType ==
    ASSUME NEW g \in Grants, NEW own \in BOOLEAN
    PROVE  [Idle EXCEPT !.pc = "blacklist", !.grant = g, !.own = own] \in Request
  BY DEF Idle, Request

LEMMA LogoutFields ==
    ASSUME NEW g, NEW own
    PROVE  /\ [Idle EXCEPT !.pc = "blacklist", !.grant = g, !.own = own].pc = "blacklist"
           /\ [Idle EXCEPT !.pc = "blacklist", !.grant = g, !.own = own].grant = g
           /\ [Idle EXCEPT !.pc = "blacklist", !.grant = g, !.own = own].own = own
  BY DEF Idle

\* ... that Redis does not have.
LEMMA UnlistedType ==
    ASSUME NEW g \in Grants, NEW w \in BOOLEAN
    PROVE  [Idle EXCEPT !.pc = "serve", !.grant = g, !.wasOut = w] \in Request
  BY DEF Idle, Request

LEMMA UnlistedFields ==
    ASSUME NEW k, NEW g, NEW w
    PROVE  /\ [Idle EXCEPT !.pc = k, !.grant = g, !.wasOut = w].pc = k
           /\ [Idle EXCEPT !.pc = k, !.grant = g, !.wasOut = w].grant = g
           /\ [Idle EXCEPT !.pc = k, !.grant = g, !.wasOut = w].wasOut = w
  BY DEF Idle

\* What each statement makes of the row.
LEMMA NewRefresh ==
    ASSUME user \in User, NEW g \in Grants \cup {None}
    PROVE  /\ [user EXCEPT !.refresh = g] \in User
           /\ [user EXCEPT !.refresh = g].refresh = g
           /\ [user EXCEPT !.refresh = g].password = user.password
  BY DEF User

LEMMA NewPassword ==
    ASSUME user \in User, NEW p \in Passwords
    PROVE  /\ [user EXCEPT !.password = p] \in User
           /\ [user EXCEPT !.password = p].password = p
           /\ [user EXCEPT !.password = p].refresh = user.refresh
  BY DEF User

LEMMA NewActive ==
    ASSUME user \in User, NEW b \in BOOLEAN
    PROVE  /\ [user EXCEPT !.active = b] \in User
           /\ [user EXCEPT !.active = b].refresh = user.refresh
           /\ [user EXCEPT !.active = b].password = user.password
  BY DEF User

LEMMA NewProfile ==
    ASSUME user \in User, NEW b \in BOOLEAN, NEW role \in Roles
    PROVE  /\ [user EXCEPT !.active = b, !.role = role] \in User
           /\ [user EXCEPT !.active = b, !.role = role].refresh = user.refresh
           /\ [user EXCEPT !.active = b, !.role = role].password = user.password
  BY DEF User

LEMMA Inductive == IInv /\ [Next]_vars => IInv'
  <1> SUFFICES ASSUME IInv, [Next]_vars PROVE IInv'
    OBVIOUS
  <1>id. Idle \in Request /\ Idle.pc = "idle" /\ ~Idle.wasOut
    BY IdleType DEF Idle
  <1>user. user \in User
    BY DEF IInv, TypeOK
  <1>1. ASSUME NEW r \in Requests, Fail(r) \/ Serve(r) PROVE IInv'
    <2>1. UNCHANGED <<user, grants, black, held, gone>> /\ Set(r, Idle)
      BY <1>1 DEF Fail, Serve, End
    <2> QED BY <2>1, <1>id, RequestStep
  <1>2. ASSUME NEW r \in Requests, FindUserByEmail(r) \/ FindUserByRefreshToken(r)
        PROVE IInv'
    <2>1. PICK q \in Request : q = [Idle EXCEPT !.pc = "save", !.seen = user]
      BY <1>user, SeenType
    <2>2. UNCHANGED <<user, grants, black, held, gone>> /\ Set(r, q) /\ user.active
      BY <1>2, <2>1 DEF FindUserByEmail, FindUserByRefreshToken
    <2>3. held[user.role] = 0
      BY <2>2 DEF IInv, HeldInv
    <2>4. q.pc = "save" /\ q.seen = user
      BY <2>1, SeenFields
    <2> QED BY <1>user, <2>2, <2>3, <2>4, RequestStep
  <1>3. ASSUME NEW r \in Requests, Authenticate(r) PROVE IInv'
    <2>1. PICK g \in Grants :
            /\ ValidateToken(g)
            /\ \/ /\ ~Blacklisted(g)
                  /\ Set(r, [Idle EXCEPT !.pc = "serve", !.grant = g,
                                         !.wasOut = LoggedOut(g)])
               \/ Set(r, [Idle EXCEPT !.pc = "serve", !.grant = g])
      BY <1>3 DEF Authenticate
    <2>2. UNCHANGED <<user, grants, black, held, gone>>
      BY <1>3 DEF Authenticate
    <2>3. /\ grants[g].left > 0 /\ grants[g].left \in Nat
          /\ grants[g].tok \in Grants /\ black[grants[g].tok] \in Nat
      BY <2>1, AccessTTLAssumption DEF ValidateToken, IInv, TypeOK, Grant
    <2>4. CASE Set(r, [Idle EXCEPT !.pc = "serve", !.grant = g])
      <3>1. PICK q \in Request : q = [Idle EXCEPT !.pc = "serve", !.grant = g]
        BY GrantType
      <3>2. q.pc = "serve" /\ q.grant = g /\ ~q.wasOut
        BY <3>1 DEF Idle
      <3> QED BY <2>2, <2>3, <2>4, <3>1, <3>2, RequestStep
    <2>5. CASE /\ ~Blacklisted(g)
               /\ Set(r, [Idle EXCEPT !.pc = "serve", !.grant = g,
                                      !.wasOut = LoggedOut(g)])
      <3>1. PICK w \in BOOLEAN : w = LoggedOut(g)
        BY DEF LoggedOut
      <3>2. ~w
        <4>1. ~(black[grants[g].tok] > 0)
          BY <2>5 DEF Blacklisted
        <4>2. ASSUME NEW h \in Grants, grants[h].tok = grants[g].tok, grants[h].out PROVE FALSE
          <5>1. black[grants[g].tok] >= grants[h].left
            BY <4>2 DEF IInv, BlackInv
          <5>2. grants[h].left = grants[g].left
            BY <4>2 DEF IInv, TokenInv
          <5> QED BY <2>3, <4>1, <5>1, <5>2
        <4> QED BY <3>1, <4>2 DEF LoggedOut
      <3>3. PICK q \in Request :
              q = [Idle EXCEPT !.pc = "serve", !.grant = g, !.wasOut = w]
        BY UnlistedType
      <3>4. q.pc = "serve" /\ q.grant = g /\ ~q.wasOut
        BY <3>2, <3>3, UnlistedFields
      <3>5. Set(r, q)
        BY <2>5, <3>1, <3>3
      <3> QED BY <2>2, <2>3, <3>4, <3>5, RequestStep
    <2> QED BY <2>1, <2>4, <2>5
  <1>4. ASSUME NEW r \in Requests, FindByID(r) PROVE IInv'
    <2>1. PICK k \in {"update", "password"} :
            Set(r, [Idle EXCEPT !.pc = k, !.seen = user])
      BY <1>4 DEF FindByID
    <2>2. PICK q \in Request : q = [Idle EXCEPT !.pc = k, !.seen = user]
      BY <1>user, SeenType
    <2>3. UNCHANGED <<user, grants, black, held, gone>> /\ Set(r, q)
      BY <1>4, <2>1, <2>2 DEF FindByID
    <2>4. q.pc \in {"update", "password"} /\ q.seen = user
      BY <2>2, SeenFields
    <2> QED BY <1>user, <2>3, <2>4, RequestStep
  <1>5. ASSUME NEW r \in Requests, SaveRefreshToken(r) PROVE IInv'
    BY <1>5, SaveStep
  <1>6. ASSUME NEW r \in Requests, Answer(r) PROVE IInv'
    BY <1>6, AnswerStep
  <1>7. ASSUME NEW r \in Requests, ClearRefreshToken(r) PROVE IInv'
    <2>1. PICK row \in User : row = [user EXCEPT !.refresh = None]
      BY <1>user, NewRefresh
    <2>2. PICK g \in Grants, own \in BOOLEAN :
             /\ IF own THEN NoRefreshToken ELSE UNCHANGED <<user, held, gone>>
             /\ Set(r, [Idle EXCEPT !.pc = "blacklist", !.grant = g, !.own = own])
      BY <1>7 DEF ClearRefreshToken
    <2>3. PICK q \in Request : q = [Idle EXCEPT !.pc = "blacklist", !.grant = g, !.own = own]
      BY LogoutType
    <2>4. q.pc = "blacklist" /\ q.grant = g
      BY <2>3, LogoutFields
    <2>5. UNCHANGED <<grants, black>> /\ Set(r, q)
      BY <1>7, <2>2, <2>3 DEF ClearRefreshToken
    <2>6. CASE ~own
      <3>1. UNCHANGED <<user, grants, black, held, gone>>
        BY <2>2, <2>5, <2>6
      <3> QED BY <2>4, <2>5, <3>1, RequestStep
    <2>7. CASE own
      <3>1. WriteRow(row)
        BY <2>1, <2>2, <2>7 DEF NoRefreshToken
      <3>2. /\ req' \in [Requests -> Request]
            /\ req'[r] = q
            /\ \A s \in Requests : s # r => req'[s] = req[s]
        BY <2>5, SetFacts DEF IInv
      <3>3. \A s \in Requests :
                \/ req'[s] = req[s]
                \/ req'[s].pc = "blacklist" /\ req'[s].grant \in Grants
        BY <2>4, <3>2
      <3>4. row.refresh = None /\ row.password = user.password
        BY <1>user, <2>1, NewRefresh
      <3> QED BY <2>5, <3>1, <3>2, <3>3, <3>4, RowStep
    <2> QED BY <2>6, <2>7
  <1>8. ASSUME NEW r \in Requests, AddToBlacklist(r) PROVE IInv'
    BY <1>8, BlacklistStep
  <1>9. ASSUME NEW r \in Requests, UpdateUser(r) PROVE IInv'
    <2>1. PICK role \in Roles :
            WriteRow([user EXCEPT !.active = req[r].seen.active, !.role = role])
      BY <1>9 DEF UpdateUser
    <2>2. PICK b \in BOOLEAN : b = req[r].seen.active
      BY <1>9 DEF UpdateUser, IInv, ReqInv, User
    <2>3. PICK row \in User :
            row = [user EXCEPT !.active = b, !.role = role]
      BY <1>user, NewProfile
    <2>4. Set(r, Idle) /\ UNCHANGED <<grants, black>>
      BY <1>9 DEF UpdateUser, End
    <2>5. /\ req' \in [Requests -> Request]
          /\ \A s \in Requests : req'[s] = req[s] \/ req'[s].pc = "idle"
      BY <1>id, <2>4, SetFacts DEF IInv
    <2>6. row.refresh = user.refresh /\ row.password = user.password
      BY <1>user, <2>3, NewProfile
    <2> QED BY <2>1, <2>2, <2>3, <2>4, <2>5, <2>6, RowStep
  <1>10. ASSUME NEW r \in Requests, UpdatePassword(r) PROVE IInv'
    <2>1. PICK p \in Passwords \ gone : WriteRow([user EXCEPT !.password = p])
      BY <1>10 DEF UpdatePassword
    <2>2. PICK row \in User : row = [user EXCEPT !.password = p]
      BY <1>user, <2>1, NewPassword
    <2>3. Set(r, Idle) /\ UNCHANGED <<grants, black>>
      BY <1>10 DEF UpdatePassword, End
    <2>4. /\ req' \in [Requests -> Request]
          /\ \A s \in Requests : req'[s] = req[s] \/ req'[s].pc = "idle"
      BY <1>id, <2>3, SetFacts DEF IInv
    <2>5. row.refresh = user.refresh /\ row.password = p
      BY <1>user, <2>2, NewPassword
    <2> QED BY <2>1, <2>2, <2>3, <2>4, <2>5, RowStep
  <1>11. ASSUME Deactivate PROVE IInv'
    <2>1. PICK row \in User : row = [user EXCEPT !.active = FALSE]
      BY <1>user, NewActive
    <2>2. WriteRow(row) /\ UNCHANGED <<grants, black, req>>
      BY <1>11, <2>1 DEF Deactivate
    <2>3. req' \in [Requests -> Request]
      BY <2>2 DEF IInv, TypeOK
    <2>4. row.refresh = user.refresh /\ row.password = user.password
      BY <1>user, <2>1, NewActive
    <2> QED BY <2>2, <2>3, <2>4, RowStep
  <1>a. ASSUME ClearedByAnother PROVE IInv'
    <2>1. PICK row \in User : row = [user EXCEPT !.refresh = None]
      BY <1>user, NewRefresh
    <2>2. WriteRow(row) /\ UNCHANGED <<grants, black, req>>
      BY <1>a, <2>1 DEF ClearedByAnother, NoRefreshToken
    <2>3. req' \in [Requests -> Request]
      BY <2>2 DEF IInv, TypeOK
    <2>4. row.refresh = None /\ row.password = user.password
      BY <1>user, <2>1, NewRefresh
    <2> QED BY <2>2, <2>3, <2>4, RowStep
  <1>12. CASE Tick
    BY <1>12, TickStep
  <1>13. CASE RedisRestarts
    BY <1>13, RestartStep
  <1>14. CASE UNCHANGED vars
    BY <1>14 DEF vars, IInv, TypeOK, ReqInv, SaveInv, HeldInv, AgeInv, TokenInv, BlackInv,
                 ServeInv, UsedInv, SecretsNeverReturn
  <1> QED
    BY <1>1, <1>2, <1>3, <1>4, <1>5, <1>6, <1>7, <1>8, <1>9, <1>10, <1>11, <1>a,
       <1>12, <1>13, <1>14 DEF Next, Step

LEMMA Invariant == Spec => []IInv
  BY Initially, Inductive, PTL DEF Spec

-----------------------------------------------------------------------------
\* The accounts, the tokens, the blacklist and the requests keep their types.
THEOREM TypeCorrect == Spec => []TypeOK
  <1>1. IInv => TypeOK
    BY DEF IInv
  <1> QED BY Invariant, <1>1, PTL

\* A token that was logged out is refused as long as Redis answers and keeps its
\* data: the entry of the blacklist never goes before the token ends.
THEOREM LogoutHolds == Spec => []LoggedOutIsRefused
  <1>1. IInv => LoggedOutIsRefused
    BY DEF IInv, ServeInv, LoggedOutIsRefused
  <1> QED BY Invariant, <1>1, PTL

\* A role or an activation that was taken away is used for less than one lifetime
\* of an access token.
THEOREM ClaimsBounded == Spec => []ClaimsHeldLately
  <1>1. IInv => ClaimsHeldLately
    <2> SUFFICES ASSUME IInv, NEW r \in Requests, req[r].pc = "serve"
                 PROVE  held[grants[req[r].grant].role] < AccessTTL
      BY DEF ClaimsHeldLately
    <2>1. PICK g \in Grants : g = req[r].grant /\ grants[g].left > 0
      BY DEF IInv, ReqInv, ServeInv
    <2>2. /\ grants[g].left \in Nat /\ held[grants[g].role] \in Nat
          /\ held[grants[g].role] + grants[g].left <= AccessTTL
      BY AccessTTLAssumption DEF IInv, TypeOK, AgeInv, Grant
    <2> QED BY <2>1, <2>2, AccessTTLAssumption
  <1> QED BY Invariant, <1>1, PTL

\* No step revives a refresh token or a password that left the row.
THEOREM SecretsStayGone == Spec => []SecretsNeverReturn
  <1>1. IInv => SecretsNeverReturn
    BY DEF IInv
  <1> QED BY Invariant, <1>1, PTL

-----------------------------------------------------------------------------
(* What a logout ends *)

\* A request that waits to log out or to answer, as before or in its new state.
Waits(s) ==
    /\ req'[s].pc = "blacklist" /\ req'[s].own => req'[s] = req[s] \/ req'[s].grant \in gone'
    /\ req'[s].pc = "answer" => req'[s] = req[s] \/ grants'[req'[s].grant].state # "unused"

\* A refresh token that was made is in the row or was replaced for good; a pair
\* whose logout cleared this user's row is not in it, before the logout answers and
\* after.
PairInv ==
    /\ \A g \in Grants : grants[g].state # "unused" => g = user.refresh \/ g \in gone
    /\ \A g \in Grants : grants[g].own => g \in gone
    /\ \A r \in Requests :
          /\ req[r].pc = "blacklist" /\ req[r].own => req[r].grant \in gone
          /\ req[r].pc = "answer" => grants[req[r].grant].state # "unused"

\* Nothing leaves gone, and what leaves the row goes there.
LEMMA PairFrame ==
    ASSUME IInv, PairInv,
           gone \subseteq gone', user.refresh \in gone' \cup {user'.refresh, None},
           \A g \in Grants : /\ grants'[g].state # "unused" =>
                                  grants[g].state # "unused" \/ g = user'.refresh
                             /\ grants[g].state # "unused" => grants'[g].state # "unused"
                             /\ grants'[g].own => grants[g].own \/ g \in gone',
           \A s \in Requests : Waits(s)
    PROVE  PairInv'
  <1>1. \A g \in Grants : grants'[g].state # "unused" => g = user'.refresh \/ g \in gone'
    BY SecretsAssumption DEF PairInv
  <1>2. \A g \in Grants : grants'[g].own => g \in gone'
    BY DEF PairInv
  <1>3. ASSUME NEW s \in Requests
        PROVE  /\ req'[s].pc = "blacklist" /\ req'[s].own => req'[s].grant \in gone'
               /\ req'[s].pc = "answer" => grants'[req'[s].grant].state # "unused"
    <2>1. req[s].pc = "answer" => req[s].grant \in Grants
      BY DEF IInv, ReqInv
    <2> QED BY <2>1 DEF PairInv, Waits
  <1> QED BY <1>1, <1>2, <1>3 DEF PairInv

\* A statement that writes the row keeps what it replaces among what is gone.
LEMMA RowKeepsPairs ==
    ASSUME IInv, PairInv, NEW row \in User, WriteRow(row), UNCHANGED grants,
           \A s \in Requests : Waits(s)
    PROVE  PairInv'
  <1>1. gone \subseteq gone' /\ user' = row
    BY DEF WriteRow
  <1>2. row.password \notin Grants /\ user.refresh \in Grants \cup {None}
    BY SecretsAssumption DEF IInv, TypeOK, User
  <1>3. user.refresh \in gone' \cup {user'.refresh, None}
    BY <1>1, <1>2 DEF WriteRow
  <1> QED BY <1>1, <1>3, PairFrame

\* A step sets one request to a state in which it does neither.
LEMMA OthersWait ==
    ASSUME IInv, NEW r \in Requests, NEW q \in Request, q.pc \notin {"blacklist", "answer"},
           Set(r, q)
    PROVE  \A s \in Requests : Waits(s)
  BY SetFacts DEF IInv, Waits

LEMMA PairStep ==
    ASSUME IInv, PairInv, [Next]_vars
    PROVE  PairInv'
  <1>id. Idle \in Request /\ Idle.pc = "idle"
    BY IdleType DEF Idle
  <1>user. user \in User
    BY DEF IInv, TypeOK
  <1>1. ASSUME UNCHANGED <<user, grants, gone>>, \A s \in Requests : Waits(s)
        PROVE  PairInv'
    BY <1>1, PairFrame
  <1>2. ASSUME NEW r \in Requests, Fail(r) \/ Serve(r) PROVE PairInv'
    BY <1>1, <1>2, <1>id, OthersWait DEF Fail, Serve, End
  <1>3. ASSUME NEW r \in Requests,
               \/ FindUserByEmail(r) \/ FindUserByRefreshToken(r)
               \/ FindByID(r)
        PROVE  PairInv'
    <2>1. PICK k \in {"save", "update", "password"} : Set(r, [Idle EXCEPT !.pc = k, !.seen = user])
      BY <1>3 DEF FindUserByEmail, FindUserByRefreshToken, FindByID
    <2>2. PICK q \in Request : q = [Idle EXCEPT !.pc = k, !.seen = user]
      BY <1>user, SeenType
    <2>3. Set(r, q) /\ q.pc \notin {"blacklist", "answer"}
      BY <2>1, <2>2, SeenFields
    <2>4. UNCHANGED <<user, grants, gone>>
      BY <1>3 DEF FindUserByEmail, FindUserByRefreshToken, FindByID
    <2> QED BY <1>1, <2>3, <2>4, OthersWait
  <1>4. ASSUME NEW r \in Requests, Authenticate(r) PROVE PairInv'
    <2>1. PICK g \in Grants :
            \/ Set(r, [Idle EXCEPT !.pc = "serve", !.grant = g, !.wasOut = LoggedOut(g)])
            \/ Set(r, [Idle EXCEPT !.pc = "serve", !.grant = g])
      BY <1>4 DEF Authenticate
    <2>2. PICK q \in Request : Set(r, q) /\ q.pc = "serve"
      <3>1. CASE Set(r, [Idle EXCEPT !.pc = "serve", !.grant = g, !.wasOut = LoggedOut(g)])
        <4>1. PICK w \in BOOLEAN : w = LoggedOut(g)
          BY DEF LoggedOut
        <4>2. PICK q \in Request : q = [Idle EXCEPT !.pc = "serve", !.grant = g, !.wasOut = w]
          BY UnlistedType
        <4>3. Set(r, q)
          BY <3>1, <4>1, <4>2
        <4>4. q.pc = "serve"
          BY <4>2, UnlistedFields
        <4> QED BY <4>3, <4>4
      <3>2. CASE Set(r, [Idle EXCEPT !.pc = "serve", !.grant = g])
        <4>1. PICK q \in Request : q = [Idle EXCEPT !.pc = "serve", !.grant = g]
          BY GrantType
        <4>2. q.pc = "serve"
          BY <4>1 DEF Idle
        <4> QED BY <3>2, <4>1, <4>2
      <3> QED BY <2>1, <3>1, <3>2
    <2>3. UNCHANGED <<user, grants, gone>>
      BY <1>4 DEF Authenticate
    <2> QED BY <1>1, <2>2, <2>3, OthersWait
  <1>5. ASSUME NEW r \in Requests, SaveRefreshToken(r) PROVE PairInv'
    <2>0. PICK g \in Grants :
            \E t \in GeneratedFor(g, req[r].seen.role) :
               /\ grants' = [grants EXCEPT ![g] = New(req[r].seen.role, t)]
               /\ WriteRow([user EXCEPT !.refresh = g])
               /\ Set(r, [Idle EXCEPT !.pc = "answer", !.grant = g])
      BY <1>5 DEF SaveRefreshToken, New
    <2>1. PICK t \in GeneratedFor(g, req[r].seen.role) :
            /\ grants' = [grants EXCEPT ![g] = New(req[r].seen.role, t)]
            /\ WriteRow([user EXCEPT !.refresh = g])
            /\ Set(r, [Idle EXCEPT !.pc = "answer", !.grant = g])
      BY <2>0
    <2>2. PICK q \in Request : q = [Idle EXCEPT !.pc = "answer", !.grant = g]
      BY DEF Idle, Request
    <2>4. \A h \in Grants : h # g => grants'[h] = grants[h]
      BY <2>1 DEF IInv, TypeOK
    <2>5. ~grants'[g].own /\ grants'[g].state = "made"
      BY <2>1 DEF IInv, TypeOK, New
    <2>3. \A s \in Requests : Waits(s)
      <3>1. q.pc = "answer" /\ q.grant = g
        BY <2>2 DEF Idle
      <3> QED BY <2>1, <2>2, <2>5, <3>1, SetFacts DEF IInv, Waits
    <2>6. PICK row \in User : row = [user EXCEPT !.refresh = g] /\ row.refresh = g
      BY <1>user, NewRefresh
    <2>7. user' = row /\ gone \subseteq gone'
      BY <2>1, <2>6 DEF WriteRow
    <2>8. user.refresh \in gone' \cup {user'.refresh, None}
      <3>1. row.password \notin Grants /\ user.refresh \in Grants \cup {None}
        BY SecretsAssumption DEF IInv, TypeOK, User
      <3> QED BY <2>1, <2>6, <2>7, <3>1 DEF WriteRow
    <2> QED BY <2>3, <2>4, <2>5, <2>6, <2>7, <2>8, PairFrame
  <1>6. ASSUME NEW r \in Requests, Answer(r) PROVE PairInv'
    <2>1. PICK g \in Grants : g = req[r].grant
      BY <1>6 DEF Answer, IInv, ReqInv
    <2>2. grants' = [grants EXCEPT ![g].state = "sent"]
      BY <1>6, <2>1 DEF Answer
    <2>3. \A h \in Grants : grants'[h].own = grants[h].own
      BY <2>2 DEF IInv, TypeOK, Grant
    <2>6. grants[g].state # "unused"
      BY <1>6, <2>1 DEF Answer, PairInv
    <2>4. \A h \in Grants : grants'[h].state # "unused" <=> grants[h].state # "unused"
      BY <2>2, <2>6 DEF IInv, TypeOK, Grant
    <2>5. \A s \in Requests : Waits(s)
      BY <1>6, <1>id, OthersWait DEF Answer, End
    <2> QED BY <1>6, <2>3, <2>4, <2>5, PairFrame DEF Answer
  <1>7. ASSUME NEW r \in Requests, ClearRefreshToken(r) PROVE PairInv'
    <2>1. PICK row \in User : /\ row = [user EXCEPT !.refresh = None]
                              /\ row.refresh = None /\ row.password = user.password
      BY <1>user, NewRefresh
    <2>2. PICK g \in Grants, own \in BOOLEAN :
             /\ Sent(g)
             /\ IF own THEN NoRefreshToken ELSE UNCHANGED <<user, held, gone>>
             /\ Set(r, [Idle EXCEPT !.pc = "blacklist", !.grant = g, !.own = own])
      BY <1>7 DEF ClearRefreshToken
    <2>a. PICK q \in Request :
             q = [Idle EXCEPT !.pc = "blacklist", !.grant = g, !.own = own]
      BY LogoutType
    <2>3. q.pc = "blacklist" /\ q.grant = g /\ q.own = own
      BY <2>a, LogoutFields
    <2>4. UNCHANGED grants /\ Set(r, q)
      BY <1>7, <2>2, <2>a DEF ClearRefreshToken
    <2>5. CASE own
      <3>1. WriteRow(row)
        BY <2>1, <2>2, <2>5 DEF NoRefreshToken
      <3>2. g \in gone'
        <4>1. g = user.refresh \/ g \in gone
          BY <2>2 DEF Sent, PairInv
        <4>2. g # row.password /\ g # None
          BY SecretsAssumption DEF User
        <4> QED BY <2>1, <3>1, <4>1, <4>2 DEF WriteRow
      <3>3. \A s \in Requests : Waits(s)
        BY <2>3, <2>4, <3>2, SetFacts DEF IInv, Waits
      <3> QED BY <2>4, <3>1, <3>3, RowKeepsPairs
    <2>6. CASE ~own
      <3>1. \A s \in Requests : Waits(s)
        BY <2>3, <2>4, <2>6, SetFacts DEF IInv, Waits
      <3> QED BY <1>1, <2>2, <2>4, <2>6, <3>1
    <2> QED BY <2>5, <2>6
  <1>8. ASSUME NEW r \in Requests, AddToBlacklist(r) PROVE PairInv'
    <2>1. PICK g \in Grants : g = req[r].grant /\ (req[r].own => g \in gone)
      BY <1>8 DEF AddToBlacklist, IInv, ReqInv, PairInv
    <2>2. PICK out \in BOOLEAN, own \in BOOLEAN :
             /\ grants' = [grants EXCEPT ![g] = With(grants[g], out, own)]
             /\ own => grants[g].own \/ req[r].own
      <3>1. TypeOK
        BY DEF IInv
      <3> QED BY <1>8, <2>1, <3>1, LogoutHistory
    <2>a. PICK e : e = With(grants[g], out, own)
      OBVIOUS
    <2>b. e.state = grants[g].state /\ e.own = own
      BY <2>a, WithFacts DEF IInv, TypeOK
    <2>c. grants'[g] = e /\ \A h \in Grants : h # g => grants'[h] = grants[h]
      BY <2>2, <2>a DEF IInv, TypeOK
    <2>3. \A h \in Grants : grants'[h].state = grants[h].state
      BY <2>b, <2>c
    <2>4. \A h \in Grants : grants'[h].own => grants[h].own \/ h \in gone
      <3>1. grants'[g].own = own
        BY <2>b, <2>c
      <3>2. \A h \in Grants : h # g => grants'[h].own = grants[h].own
        BY <2>c
      <3> QED BY <2>1, <2>2, <3>1, <3>2
    <2>5. \A s \in Requests : Waits(s)
      BY <1>8, <1>id, OthersWait DEF AddToBlacklist, End
    <2>6. UNCHANGED <<user, gone>>
      BY <1>8 DEF AddToBlacklist
    <2> QED BY <2>3, <2>4, <2>5, <2>6, PairFrame
  <1>9. ASSUME NEW r \in Requests, UpdateUser(r) \/ UpdatePassword(r) PROVE PairInv'
    <2>1. PICK row \in User : WriteRow(row)
      <3>1. CASE UpdateUser(r)
        <4>1. req[r].seen.active \in BOOLEAN
          BY <3>1 DEF UpdateUser, IInv, ReqInv, User
        <4> QED BY <3>1, <4>1, <1>user, NewProfile DEF UpdateUser
      <3>2. CASE UpdatePassword(r)
        BY <3>2, <1>user, NewPassword DEF UpdatePassword
      <3> QED BY <1>9, <3>1, <3>2
    <2>2. \A s \in Requests : Waits(s)
      BY <1>9, <1>id, OthersWait DEF UpdateUser, UpdatePassword, End
    <2> QED BY <1>9, <2>1, <2>2, RowKeepsPairs DEF UpdateUser, UpdatePassword
  <1>10. ASSUME Deactivate PROVE PairInv'
    <2>1. PICK row \in User : WriteRow(row)
      BY <1>10, <1>user, NewActive DEF Deactivate
    <2>2. UNCHANGED <<grants, req>>
      BY <1>10 DEF Deactivate
    <2> QED BY <2>1, <2>2, RowKeepsPairs DEF Waits
  <1>a. ASSUME ClearedByAnother PROVE PairInv'
    <2>1. PICK row \in User : WriteRow(row)
      BY <1>a, <1>user, NewRefresh DEF ClearedByAnother, NoRefreshToken
    <2>2. UNCHANGED <<grants, req>>
      BY <1>a DEF ClearedByAnother
    <2> QED BY <2>1, <2>2, RowKeepsPairs DEF Waits
  <1>11. CASE Tick \/ RedisRestarts
    <2>1. UNCHANGED <<user, req, gone>>
      BY <1>11 DEF Tick, RedisRestarts
    <2>2. CASE Tick
      <3>1. \A g \in Grants : grants'[g] = [grants[g] EXCEPT !.left = Less(@)]
        BY <2>2 DEF Tick
      <3>2. ASSUME NEW g \in Grants
            PROVE  grants'[g].state = grants[g].state /\ grants'[g].own = grants[g].own
        <4>1. PICK n : n = Less(grants[g].left)
          OBVIOUS
        <4>2. grants'[g] = [grants[g] EXCEPT !.left = n]
          BY <3>1, <4>1
        <4>3. grants[g] \in Grant
          BY DEF IInv, TypeOK
        <4> QED BY <4>2, <4>3 DEF Grant
      <3> QED BY <2>1, <3>2, PairFrame DEF Waits
    <2>3. CASE RedisRestarts
      <3>1. \A g \in Grants : grants'[g] = [grants[g] EXCEPT !.out = FALSE]
        BY <2>3 DEF RedisRestarts
      <3>2. ASSUME NEW g \in Grants
            PROVE  grants'[g].state = grants[g].state /\ grants'[g].own = grants[g].own
        <4>1. grants[g] \in Grant
          BY DEF IInv, TypeOK
        <4> QED BY <3>1, <4>1 DEF Grant
      <3> QED BY <2>1, <3>2, PairFrame DEF Waits
    <2> QED BY <1>11, <2>2, <2>3
  <1>12. CASE UNCHANGED vars
    BY <1>1, <1>12 DEF vars, Waits
  <1> QED BY <1>2, <1>3, <1>4, <1>5, <1>6, <1>7, <1>8, <1>9, <1>10, <1>a, <1>11, <1>12
          DEF Next, Step

\* A logout that named its own user and succeeded has ended the refresh token of its
\* pair for good; any that succeeded, whomever it named, has the access token on the
\* blacklist to its end, while Redis keeps its data (auth/service.go Logout,
\* auth/repository.go:106-111).
THEOREM LogoutIsComplete == Spec => []LogoutEndsPair
  <1>1. Init => PairInv
    <2>1. Init => /\ \A g \in Grants : grants[g].state = "unused" /\ ~grants[g].own
                  /\ \A r \in Requests : req[r].pc = "idle"
      BY DEF Init, Idle
    <2> QED BY <2>1 DEF PairInv
  <1>2. Spec => []PairInv
    BY <1>1, PairStep, Invariant, PTL DEF Spec
  <1>3. IInv /\ PairInv => LogoutEndsPair
    <2>1. ASSUME IInv, PairInv, NEW g \in Grants, grants[g].own PROVE user.refresh # g
      <3>1. g \in gone /\ user.refresh \notin gone
        BY <2>1 DEF IInv, PairInv, SecretsNeverReturn
      <3> QED BY <3>1
    <2>2. ASSUME IInv, NEW g \in Grants, grants[g].out, ValidateToken(g) PROVE Blacklisted(g)
      <3>1. /\ grants[g].tok \in Grants /\ grants[g].left \in Nat
            /\ black[grants[g].tok] \in Nat /\ black[grants[g].tok] >= grants[g].left
        BY <2>2, AccessTTLAssumption DEF IInv, TypeOK, Grant, BlackInv
      <3> QED BY <2>2, <3>1 DEF ValidateToken, Blacklisted
    <2> QED BY <2>1, <2>2 DEF LogoutEndsPair
  <1> QED BY <1>2, <1>3, Invariant, PTL
=============================================================================
