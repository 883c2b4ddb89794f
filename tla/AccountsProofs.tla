---------------------------- MODULE AccountsProofs ----------------------------
(***************************************************************************)
(* Proofs about Accounts for any number of ids, emails, images and         *)
(* requests at a time: types, and the three invariants that TLC checks on  *)
(* two accounts.                                                           *)
(***************************************************************************)
EXTENDS Accounts, TLAPS

Uploads == {"encode", "check", "url"}

\* What a request has found or written so far is still there.
Grounded(q) ==
    /\ q.pc = "insert" => q.email \in Emails
    /\ q.pc = "find" => /\ q.id \in Ids /\ q.email \in Emails /\ Exists(q.id)
                        /\ q.moved \/ users[q.id].email = q.email
    /\ q.pc = "answer" => q.got = q.id \/ q.moved
    /\ q.pc = "write" => q.id \in Ids /\ q.row \in User /\ Exists(q.id)
    /\ q.pc \in Uploads => q.id \in Ids /\ q.image \in Images /\ file[q.id] # None
    /\ q.pc = "url" => Exists(q.id)
    /\ q.pc \in {"check", "url"} /\ q.alone => file[q.id] = q.image

\* Nobody writes the file of an upload that is alone, or one that is complete.
Undisturbed ==
    \A s \in Requests : req[s].pc = "encode" =>
        /\ last[req[s].id] = None
        /\ \A r \in Requests \ {s} :
              req[r].pc \in Uploads /\ req[r].id = req[s].id => ~req[r].alone

\* What UNIQUE (email) keeps true of the table: FindCreated finds at most one
\* row with an email.
EmailsUnique ==
    \A i, j \in Ids : Exists(i) /\ Exists(j) /\ users[i].email = users[j].email => i = j

IInv == /\ TypeOK /\ EmailsUnique /\ UrlHasFile /\ AvatarStays
        /\ \A r \in Requests : Grounded(req[r])
        /\ Undisturbed

-----------------------------------------------------------------------------
(* Records *)

\* A request set to a well-formed q leaves the others as they are.
LEMMA SetFacts ==
    ASSUME TypeOK, NEW r \in Requests, NEW q \in Request, req' = [req EXCEPT ![r] = q]
    PROVE  /\ req' \in [Requests -> Request]
           /\ req'[r] = q
           /\ \A s \in Requests \ {r} : req'[s] = req[s]
  BY DEF TypeOK

LEMMA IdleFacts == Idle \in Request /\ Idle.pc = "idle"
  BY DEF Idle, Request

\* The fields of a row.
LEMMA RowFacts ==
    ASSUME NEW u \in User
    PROVE  u.email \in Emails /\ u.active \in BOOLEAN /\ u.avatar \in BOOLEAN
  BY DEF User

-----------------------------------------------------------------------------
(* The steps that change one request only *)

\* The request becomes q, which opens no file.
LEMMA SetStep ==
    ASSUME IInv, NEW r \in Requests, NEW q \in Request, req' = [req EXCEPT ![r] = q],
           UNCHANGED <<users, file, last>>, Grounded(q), q.pc # "encode",
           q.pc \in {"check", "url"} =>
              req[r].pc \in Uploads /\ q.id = req[r].id /\ q.alone = req[r].alone
    PROVE  IInv'
  <1>1. /\ req' \in [Requests -> Request] /\ req'[r] = q
        /\ \A s \in Requests \ {r} : req'[s] = req[s]
    BY SetFacts DEF IInv
  <1>2. TypeOK'
    BY <1>1 DEF IInv, TypeOK
  <1>3. EmailsUnique' /\ UrlHasFile' /\ AvatarStays'
    BY DEF IInv, EmailsUnique, UrlHasFile, AvatarStays, Exists
  <1>4. \A s \in Requests : Grounded(req[s])'
    <2>1. ASSUME NEW c, Grounded(c) PROVE Grounded(c)'
      BY <2>1 DEF Grounded, Exists
    <2> QED BY <1>1, <2>1 DEF IInv, Grounded, Exists
  <1>5. Undisturbed'
    BY <1>1 DEF IInv, Undisturbed, Uploads
  <1> QED BY <1>2, <1>3, <1>4, <1>5 DEF IInv

LEMMA EndStep ==
    ASSUME IInv, NEW r \in Requests, End(r), UNCHANGED <<users, file, last>>
    PROVE  IInv'
  <1>1. Grounded(Idle)
    BY IdleFacts DEF Grounded, Uploads
  <1> QED BY <1>1, IdleFacts, SetStep DEF End, Set, Uploads

-----------------------------------------------------------------------------
(* What stays true of a request *)

\* A request p that becomes q keeps what it found, if the rows and files do.
LEMMA StaysGrounded ==
    ASSUME NEW p, NEW q, Grounded(p),
           q.pc = p.pc, q.id = p.id, q.email = p.email, q.image = p.image, q.row = p.row,
           q.got = p.got, p.moved => q.moved,
           p.id \in Ids /\ Exists(p.id) => Exists(p.id)',
           p.pc = "find" => q.moved \/ users'[p.id].email = p.email,
           p.pc \in Uploads => file'[p.id] # None,
           p.pc \in {"check", "url"} /\ q.alone => file'[p.id] = p.image
    PROVE  Grounded(q)'
  <1>1. p.pc = "find" => Exists(p.id)'
    BY DEF Grounded
  <1>2. p.pc = "write" => p.id \in Ids /\ p.row \in User /\ Exists(p.id)'
    BY DEF Grounded
  <1>3. p.pc \in Uploads => p.id \in Ids /\ p.image \in Images
    BY DEF Grounded
  <1>4. p.pc = "url" => Exists(p.id)'
    BY <1>3 DEF Grounded, Uploads
  <1>5. /\ p.pc = "insert" => p.email \in Emails
        /\ p.pc = "find" => p.id \in Ids /\ p.email \in Emails
        /\ p.pc = "answer" => q.got = q.id \/ q.moved
    BY DEF Grounded
  <1>6. \/ p.pc \in Uploads \/ p.pc \notin Uploads
    OBVIOUS
  <1> QED BY <1>1, <1>2, <1>3, <1>4, <1>5 DEF Grounded, Exists, Uploads

-----------------------------------------------------------------------------
(* The steps that change a row *)

\* Row i may become u, and do so.
NewRow(i, u) ==
    /\ users' = [users EXCEPT ![i] = u]
    /\ \A j \in Ids \ {i} : Exists(j) => users[j].email # u.email
    /\ Exists(i) /\ users[i].avatar => u.avatar
    /\ u.avatar => file[i] # None

\* The requests other than r change in what they say of the past only.
OthersStay(r, i, u) ==
    \A s \in Requests \ {r} :
       /\ req'[s].pc = req[s].pc /\ req'[s].id = req[s].id
       /\ req'[s].email = req[s].email /\ req'[s].image = req[s].image
       /\ req'[s].row = req[s].row /\ req'[s].got = req[s].got
       /\ req'[s].alone = req[s].alone
       /\ req[s].moved => req'[s].moved
       /\ req[s].pc = "find" /\ req[s].id = i => req'[s].moved \/ u.email = req[s].email

\* Request r has no file open afterwards.
OwnAfter(r, i, u) ==
    r \in Requests =>
       /\ req'[r].pc \in {"idle", "find"}
       /\ req'[r].pc = "find" =>
             req'[r].id = i /\ req'[r].email \in Emails /\ req'[r].email = u.email

\* The last upload changes by the end of r, if at all.
LastAfter(r, i, u) ==
    \/ UNCHANGED last
    \/ /\ r \in Requests /\ req[r].pc = "url" /\ req[r].alone /\ req[r].id = i /\ u.avatar
       /\ last' = [last EXCEPT ![i] = req[r].image]

LEMMA RowStep ==
    ASSUME IInv, NEW r, NEW i \in Ids, NEW u \in User, UNCHANGED file,
           req' \in [Requests -> Request],
           NewRow(i, u), OwnAfter(r, i, u), OthersStay(r, i, u), LastAfter(r, i, u)
    PROVE  IInv'
  <1>a. u # None /\ u.email \in Emails
    BY NoneIsNoRow, RowFacts
  <1>b. /\ users'[i] = u /\ Exists(i)'
        /\ \A j \in Ids \ {i} : users'[j] = users[j] /\ (Exists(j)' <=> Exists(j))
    BY <1>a DEF IInv, TypeOK, Exists, NewRow
  <1>c. \A j \in Ids : Exists(j) => Exists(j)'
    BY <1>b
  <1>1. users' \in [Ids -> User \cup {None}]
    BY DEF IInv, TypeOK, NewRow
  <1>2. last' \in [Ids -> Images \cup {None}]
    BY DEF IInv, TypeOK, Grounded, Uploads, LastAfter
  <1>3. TypeOK'
    BY <1>1, <1>2 DEF IInv, TypeOK
  <1>4. EmailsUnique'
    BY <1>b DEF IInv, EmailsUnique, NewRow
  <1>5. UrlHasFile'
    BY <1>b DEF IInv, UrlHasFile, NewRow
  <1>6. AvatarStays'
    <2>1. CASE UNCHANGED last
      BY <1>b, <2>1 DEF IInv, AvatarStays, NewRow
    <2>2. CASE /\ r \in Requests /\ req[r].pc = "url" /\ req[r].alone /\ req[r].id = i /\ u.avatar
               /\ last' = [last EXCEPT ![i] = req[r].image]
      <3>1. file[i] = req[r].image
        BY <2>2 DEF IInv, Grounded
      <3>2. last'[i] = req[r].image /\ \A j \in Ids \ {i} : last'[j] = last[j]
        BY <2>2 DEF IInv, TypeOK
      <3> QED BY <1>b, <2>2, <3>1, <3>2 DEF IInv, AvatarStays
    <2> QED BY <2>1, <2>2 DEF LastAfter
  <1>7. ASSUME NEW s \in Requests PROVE Grounded(req[s])'
    <2>1. CASE s = r
      BY <1>b, <2>1 DEF Grounded, Uploads, OwnAfter
    <2>2. CASE s # r
      <3>0. PICK p, q : p = req[s] /\ q = req'[s]
        OBVIOUS
      <3>1. Grounded(p)
        BY <3>0 DEF IInv
      <3>2. /\ q.pc = p.pc /\ q.id = p.id
            /\ q.email = p.email /\ q.image = p.image
            /\ q.row = p.row /\ q.got = p.got
            /\ q.alone = p.alone
            /\ p.moved => q.moved
            /\ p.pc = "find" /\ p.id = i => q.moved \/ u.email = p.email
        BY <2>2, <3>0 DEF OthersStay
      <3>3. p.id \in Ids /\ Exists(p.id) => Exists(p.id)'
        BY <1>c
      <3>4. p.pc = "find" => q.moved \/ users'[p.id].email = p.email
        <4>1. CASE p.id = i
          BY <1>b, <3>2, <4>1
        <4>2. CASE p.id # i
          BY <1>b, <3>1, <3>2, <4>2 DEF Grounded
        <4> QED BY <4>1, <4>2
      <3>5. /\ p.pc \in Uploads => file'[p.id] # None
            /\ p.pc \in {"check", "url"} /\ q.alone => file'[p.id] = p.image
        BY <3>1, <3>2 DEF Grounded
      <3>6. Grounded(q)'
        BY <3>1, <3>2, <3>3, <3>4, <3>5, StaysGrounded
      <3> QED BY <3>0, <3>6
    <2> QED BY <2>1, <2>2
  <1>8. Undisturbed'
    <2>1. ASSUME NEW s \in Requests, req'[s].pc = "encode" PROVE last'[req'[s].id] = None
      <3>1. s # r /\ req[s].pc = "encode" /\ req'[s].id = req[s].id
        BY <2>1 DEF OwnAfter, OthersStay
      <3>2. last[req[s].id] = None
        BY <3>1 DEF IInv, Undisturbed
      <3>3. CASE UNCHANGED last
        BY <3>1, <3>2, <3>3
      <3>4. CASE /\ r \in Requests /\ req[r].pc = "url" /\ req[r].alone /\ req[r].id = i
                 /\ last' = [last EXCEPT ![i] = req[r].image]
        <4>1. req[s].id # i
          BY <3>1, <3>4 DEF IInv, Undisturbed, Uploads
        <4> QED BY <3>1, <3>2, <3>4, <4>1 DEF IInv, TypeOK, Grounded, Uploads
      <3> QED BY <3>3, <3>4 DEF LastAfter
    <2>2. ASSUME NEW s \in Requests, req'[s].pc = "encode", NEW q \in Requests \ {s},
                 req'[q].pc \in Uploads, req'[q].id = req'[s].id
          PROVE  ~req'[q].alone
      BY <2>2 DEF IInv, Undisturbed, Uploads, OwnAfter, OthersStay
    <2> QED BY <2>1, <2>2 DEF Undisturbed
  <1> QED BY <1>3, <1>4, <1>5, <1>6, <1>7, <1>8 DEF IInv

-----------------------------------------------------------------------------
(* The steps that write a file *)

\* Request r opens the file or completes it, with c in it.
WritesOwn(r, i, c) ==
    /\ req'[r].pc \in {"encode", "check"} /\ req'[r].id = i /\ req'[r].image \in Images
    /\ req'[r].pc = "check" /\ req'[r].alone => c = req'[r].image
    /\ req'[r].pc = "check" =>
          req[r].pc = "encode" /\ req[r].id = i /\ req'[r].alone = req[r].alone

\* The others change in that they are not alone any more.
OthersKeep(r, i) ==
    \A s \in Requests \ {r} :
       /\ req'[s].pc = req[s].pc /\ req'[s].id = req[s].id
       /\ req'[s].email = req[s].email /\ req'[s].image = req[s].image
       /\ req'[s].row = req[s].row /\ req'[s].got = req[s].got
       /\ req'[s].moved = req[s].moved
       /\ req'[s].alone => req[s].alone
       /\ req[s].pc \in Uploads /\ req[s].id = i => ~req'[s].alone
       /\ req'[r].pc = "encode" /\ req'[r].alone => ~(req[s].pc = "encode" /\ req[s].id = i)

\* The last upload to i is not remembered.
LastForgotten(i) ==
    /\ last' \in [Ids -> Images \cup {None}]
    /\ last'[i] = None
    /\ \A j \in Ids \ {i} : last'[j] = last[j]

\* The file of i gets c, with nobody else writing it if r is alone.
LEMMA FileStep ==
    ASSUME IInv, NEW r \in Requests, NEW i \in Ids, NEW c \in Images \cup {"broken"},
           file' = [file EXCEPT ![i] = c], UNCHANGED users,
           req' \in [Requests -> Request],
           WritesOwn(r, i, c), OthersKeep(r, i), LastForgotten(i)
    PROVE  IInv'
  <1>a. c # None
    BY NoneAssumption
  <1>b. file'[i] = c /\ \A j \in Ids \ {i} : file'[j] = file[j]
    BY DEF IInv, TypeOK
  <1>1. TypeOK'
    <2>1. file' \in [Ids -> Images \cup {None, "broken"}]
      BY DEF IInv, TypeOK
    <2> QED BY <2>1 DEF IInv, TypeOK, LastForgotten
  <1>2. EmailsUnique' /\ UrlHasFile'
    BY <1>a, <1>b DEF IInv, EmailsUnique, UrlHasFile, Exists
  <1>3. AvatarStays'
    BY <1>b DEF IInv, AvatarStays, Exists, LastForgotten
  <1>4. ASSUME NEW s \in Requests PROVE Grounded(req[s])'
    <2>1. CASE s = r
      BY <1>a, <1>b, <2>1 DEF Grounded, Uploads, WritesOwn
    <2>2. CASE s # r
      <3>0. PICK p, q : p = req[s] /\ q = req'[s]
        OBVIOUS
      <3>1. Grounded(p)
        BY <3>0 DEF IInv
      <3>2. /\ q.pc = p.pc /\ q.id = p.id
            /\ q.email = p.email /\ q.image = p.image
            /\ q.row = p.row /\ q.got = p.got
            /\ q.moved = p.moved
            /\ q.alone => p.alone
            /\ p.pc \in Uploads /\ p.id = i => ~q.alone
        BY <2>2, <3>0 DEF OthersKeep
      <3>3. Exists(p.id) => Exists(p.id)'
        BY DEF Exists
      <3>4. p.pc = "find" => q.moved \/ users'[p.id].email = p.email
        BY <3>1, <3>2 DEF Grounded
      <3>5. p.pc \in Uploads => file'[p.id] # None
        BY <1>a, <1>b, <3>1 DEF Grounded
      <3>6. p.pc \in {"check", "url"} /\ q.alone => file'[p.id] = p.image
        BY <1>b, <3>1, <3>2 DEF Grounded, Uploads
      <3>7. Grounded(q)'
        BY <3>1, <3>2, <3>3, <3>4, <3>5, <3>6, StaysGrounded
      <3> QED BY <3>0, <3>7
    <2> QED BY <2>1, <2>2
  <1>5. ASSUME NEW s \in Requests, req'[s].pc = "encode"
        PROVE  /\ last'[req'[s].id] = None
               /\ \A q \in Requests \ {s} :
                     req'[q].pc \in Uploads /\ req'[q].id = req'[s].id => ~req'[q].alone
    <2>1. CASE s = r
      BY <1>5, <2>1 DEF Uploads, WritesOwn, OthersKeep, LastForgotten
    <2>2. CASE s # r
      <3>1. req[s].pc = "encode" /\ req[s].id \in Ids /\ req'[s].id = req[s].id
        BY <1>5, <2>2 DEF IInv, Grounded, Uploads, OthersKeep
      <3>2. last'[req'[s].id] = None
        BY <3>1 DEF IInv, Undisturbed, LastForgotten
      <3>3. req'[r].id = req'[s].id => ~req'[r].alone
        BY <2>2, <3>1 DEF IInv, Undisturbed, Uploads, WritesOwn, OthersKeep, LastForgotten
      <3>4. ASSUME NEW q \in Requests \ {r, s}, req'[q].pc \in Uploads, req'[q].id = req'[s].id
            PROVE  ~req'[q].alone
        BY <2>2, <3>1, <3>4 DEF IInv, Undisturbed, OthersKeep
      <3> QED BY <3>2, <3>3, <3>4
    <2> QED BY <2>1, <2>2
  <1>6. Undisturbed'
    BY <1>5 DEF Undisturbed
  <1> QED BY <1>1, <1>2, <1>3, <1>4, <1>6 DEF IInv

-----------------------------------------------------------------------------
(* The actions *)

LEMMA EmailExistsStep == ASSUME IInv, NEW r \in Requests, EmailExists(r) PROVE IInv'
  <1>1. PICK e \in Emails : Set(r, [Idle EXCEPT !.pc = "insert", !.email = e])
    BY DEF EmailExists
  <1>2. PICK q \in Request : q = [Idle EXCEPT !.pc = "insert", !.email = e]
    BY DEF Idle, Request
  <1>3. q.pc = "insert" /\ q.email = e
    BY <1>2 DEF Idle
  <1>4. Grounded(q)
    BY <1>3 DEF Grounded, Uploads
  <1> QED BY <1>1, <1>2, <1>3, <1>4, SetStep DEF EmailExists, Set

LEMMA InsertStep == ASSUME IInv, NEW r \in Requests, InsertUser(r) PROVE IInv'
  <1>1. PICK i \in Ids :
          /\ ~Exists(i) /\ ~Taken(req[r].email, i)
          /\ users' = [users EXCEPT ![i] =
                [email |-> req[r].email, active |-> TRUE, avatar |-> FALSE]]
          /\ Set(r, [req[r] EXCEPT !.pc = "find", !.id = i])
    BY DEF InsertUser
  <1>2. req[r].email \in Emails /\ req[r] \in Request
    BY DEF IInv, Grounded, InsertUser, TypeOK
  <1>3. PICK u \in User : u = [email |-> req[r].email, active |-> TRUE, avatar |-> FALSE]
    BY <1>2 DEF User
  <1>4. u.email = req[r].email /\ ~u.avatar
    BY <1>3
  <1>5. PICK q \in Request : q = [req[r] EXCEPT !.pc = "find", !.id = i]
    BY <1>2 DEF Request
  <1>6. q.pc = "find" /\ q.id = i /\ q.email = req[r].email
    BY <1>2, <1>5 DEF Request
  <1>7. req' = [req EXCEPT ![r] = q]
    BY <1>1, <1>5 DEF Set
  <1>8. /\ req' \in [Requests -> Request] /\ req'[r] = q
        /\ \A s \in Requests \ {r} : req'[s] = req[s]
    BY <1>7, SetFacts DEF IInv
  <1>9. \A j \in Ids \ {i} : Exists(j) => users[j].email # u.email
    BY <1>1, <1>4 DEF Taken, WithEmail
  <1>10. \A s \in Requests \ {r} : ~(req[s].pc = "find" /\ req[s].id = i)
    BY <1>1 DEF IInv, Grounded
  <1>11. UNCHANGED file /\ UNCHANGED last
    BY DEF InsertUser
  <1>12. users' = [users EXCEPT ![i] = u]
    BY <1>1, <1>3
  <1>13. req'[r].pc \in {"idle", "find"} /\ req'[r].id = i /\ req'[r].email = u.email
    BY <1>4, <1>6, <1>8
  <1>14. ~Exists(i) /\ ~u.avatar
    BY <1>1, <1>4
  <1>15. NewRow(i, u)
    BY <1>9, <1>12, <1>14 DEF NewRow
  <1>16. OwnAfter(r, i, u)
    BY <1>2, <1>4, <1>13 DEF OwnAfter
  <1>17. OthersStay(r, i, u)
    BY <1>8, <1>10 DEF OthersStay
  <1> QED BY <1>8, <1>11, <1>15, <1>16, <1>17, RowStep DEF LastAfter

LEMMA FindCreatedStep == ASSUME IInv, NEW r \in Requests, FindCreated(r) PROVE IInv'
  <1>1. CASE WithEmail(req[r].email) = {}
    BY <1>1, EndStep DEF FindCreated
  <1>2. CASE WithEmail(req[r].email) # {}
    <2>1. PICK i \in WithEmail(req[r].email) :
             Set(r, [req[r] EXCEPT !.pc = "answer", !.got = i])
      BY <1>2 DEF FindCreated
    <2>2. req[r] \in Request /\ i \in Ids
      BY <2>1 DEF IInv, TypeOK, WithEmail
    <2>3. PICK q \in Request : q = [req[r] EXCEPT !.pc = "answer", !.got = i]
      BY <2>2 DEF Request
    <2>4. q.pc = "answer" /\ q.got = i /\ q.id = req[r].id /\ q.moved = req[r].moved
      BY <2>2, <2>3 DEF Request
    <2>5. i = req[r].id \/ req[r].moved
      BY <2>1 DEF IInv, Grounded, FindCreated, EmailsUnique, WithEmail
    <2>6. Grounded(q)
      BY <2>4, <2>5 DEF Grounded, Uploads
    <2> QED BY <2>1, <2>3, <2>4, <2>6, SetStep DEF FindCreated, Set
  <1> QED BY <1>1, <1>2

LEMMA FindUserStep == ASSUME IInv, NEW r \in Requests, FindUser(r) PROVE IInv'
  <1>1. PICK i \in Ids : Exists(i) /\ \E e \in Emails \cup {users[i].email} :
           Set(r, [Idle EXCEPT !.pc = "write", !.id = i, !.row = [users[i] EXCEPT !.email = e]])
    BY DEF FindUser
  <1>2. users[i] \in User
    BY <1>1 DEF IInv, TypeOK, Exists
  <1>3. PICK e \in Emails :
           Set(r, [Idle EXCEPT !.pc = "write", !.id = i, !.row = [users[i] EXCEPT !.email = e]])
    BY <1>1, <1>2, RowFacts
  <1>4. PICK u \in User : u = [users[i] EXCEPT !.email = e]
    BY <1>2 DEF User
  <1>5. PICK q \in Request : q = [Idle EXCEPT !.pc = "write", !.id = i, !.row = u]
    BY DEF Idle, Request
  <1>6. q.pc = "write" /\ q.id = i /\ q.row = u
    BY <1>5 DEF Idle
  <1>7. Grounded(q)
    BY <1>1, <1>6 DEF Grounded, Uploads
  <1> QED BY <1>3, <1>4, <1>5, <1>6, <1>7, SetStep DEF FindUser, Set

\* Marking the creates whose account got another email changes nothing else.
LEMMA MovedType ==
    ASSUME TypeOK, NEW i, NEW e
    PROVE  Moved(i, e) \in [Requests -> Request]
  <1>1. ASSUME NEW s \in Requests, NEW b \in BOOLEAN
        PROVE  [req[s] EXCEPT !.moved = b] \in Request
    BY DEF TypeOK, Request
  <1>2. ASSUME NEW s \in Requests
        PROVE  (req[s].moved \/ (req[s].pc = "find" /\ req[s].id = i /\ req[s].email # e)) \in BOOLEAN
    OBVIOUS
  <1> QED BY <1>1, <1>2 DEF Moved

LEMMA MovedFields ==
    ASSUME TypeOK, NEW i, NEW e, NEW s \in Requests
    PROVE  /\ Moved(i, e)[s].pc = req[s].pc /\ Moved(i, e)[s].id = req[s].id
           /\ Moved(i, e)[s].email = req[s].email /\ Moved(i, e)[s].image = req[s].image
           /\ Moved(i, e)[s].row = req[s].row /\ Moved(i, e)[s].got = req[s].got
           /\ Moved(i, e)[s].alone = req[s].alone
           /\ req[s].moved => Moved(i, e)[s].moved
           /\ req[s].pc = "find" /\ req[s].id = i /\ req[s].email # e => Moved(i, e)[s].moved
  BY DEF Moved, TypeOK, Request

LEMMA UpdateStep == ASSUME IInv, NEW r \in Requests, UpdateUser(r) PROVE IInv'
  <1> DEFINE p == req[r]
  <1>1. /\ ~Taken(p.row.email, p.id)
        /\ users' = [users EXCEPT ![p.id] = [p.row EXCEPT !.avatar = users[p.id].avatar]]
        /\ req' = [Moved(p.id, p.row.email) EXCEPT ![r] = Idle]
        /\ UNCHANGED file /\ UNCHANGED last
    BY DEF UpdateUser
  <1>2. PICK i \in Ids : i = p.id /\ Exists(i) /\ p.row \in User /\ users[i] \in User
    BY DEF IInv, Grounded, UpdateUser, TypeOK, Exists
  <1>3. PICK u \in User : u = [p.row EXCEPT !.avatar = users[i].avatar]
    BY <1>2 DEF User
  <1>4. u.email = p.row.email /\ u.avatar = users[i].avatar
    BY <1>2, <1>3 DEF User
  <1>5. users' = [users EXCEPT ![i] = u]
    BY <1>1, <1>2, <1>3
  <1>6. PICK e : e = p.row.email
    OBVIOUS
  <1>7. /\ req' \in [Requests -> Request] /\ req'[r] = Idle
        /\ \A s \in Requests \ {r} : req'[s] = Moved(i, e)[s]
    <2>1. req' = [Moved(i, e) EXCEPT ![r] = Idle]
      BY <1>1, <1>2, <1>6
    <2>2. Moved(i, e) \in [Requests -> Request]
      BY MovedType DEF IInv
    <2> QED BY <2>1, <2>2, IdleFacts
  <1>8. \A s \in Requests \ {r} :
           /\ req'[s].pc = req[s].pc /\ req'[s].id = req[s].id
           /\ req'[s].email = req[s].email /\ req'[s].image = req[s].image
           /\ req'[s].row = req[s].row /\ req'[s].got = req[s].got
           /\ req'[s].alone = req[s].alone
           /\ req[s].moved => req'[s].moved
           /\ req[s].pc = "find" /\ req[s].id = i => req'[s].moved \/ u.email = req[s].email
    <2>1. ASSUME NEW s \in Requests \ {r}
          PROVE  /\ req'[s].pc = req[s].pc /\ req'[s].id = req[s].id
                 /\ req'[s].email = req[s].email /\ req'[s].image = req[s].image
                 /\ req'[s].row = req[s].row /\ req'[s].got = req[s].got
                 /\ req'[s].alone = req[s].alone
                 /\ req[s].moved => req'[s].moved
                 /\ req[s].pc = "find" /\ req[s].id = i /\ req[s].email # e => req'[s].moved
      BY <1>7, MovedFields DEF IInv
    <2> QED BY <1>4, <1>6, <2>1
  <1>9. \A j \in Ids \ {i} : Exists(j) => users[j].email # u.email
    BY <1>1, <1>2, <1>4 DEF Taken, WithEmail
  <1>10. u.avatar => file[i] # None
    BY <1>2, <1>4 DEF IInv, UrlHasFile
  <1>11. req'[r].pc = "idle"
    BY <1>7, IdleFacts
  <1>12. Exists(i) /\ users[i].avatar => u.avatar
    BY <1>4
  <1>13. NewRow(i, u)
    BY <1>5, <1>9, <1>10, <1>12 DEF NewRow
  <1>14. OwnAfter(r, i, u)
    BY <1>11 DEF OwnAfter
  <1>15. OthersStay(r, i, u)
    BY <1>8 DEF OthersStay
  <1> QED BY <1>1, <1>7, <1>13, <1>14, <1>15, RowStep DEF LastAfter

LEMMA DeleteUserStep == ASSUME IInv, DeleteUser PROVE IInv'
  <1>1. PICK i \in Ids : Exists(i) /\ users' = [users EXCEPT ![i].active = FALSE]
    BY DEF DeleteUser
  <1>2. users[i] \in User
    BY <1>1 DEF IInv, TypeOK, Exists
  <1>3. PICK u \in User : u = [users[i] EXCEPT !.active = FALSE]
    BY <1>2 DEF User
  <1>4. u.email = users[i].email /\ u.avatar = users[i].avatar
    BY <1>2, <1>3 DEF User
  <1>5. users' = [users EXCEPT ![i] = u]
    BY <1>1, <1>3
  <1>6. PICK r : r \notin Requests
    BY NoSetContainsEverything
  <1>7. UNCHANGED file /\ UNCHANGED req /\ UNCHANGED last
    BY DEF DeleteUser
  <1>8. req' \in [Requests -> Request] /\ \A s \in Requests \ {r} : req'[s] = req[s]
    BY <1>7 DEF IInv, TypeOK
  <1>9. \A j \in Ids \ {i} : Exists(j) => users[j].email # u.email
    BY <1>1, <1>4 DEF IInv, EmailsUnique
  <1>10. \A s \in Requests : req[s].pc = "find" /\ req[s].id = i =>
            req[s].moved \/ u.email = req[s].email
    BY <1>4 DEF IInv, Grounded
  <1>11. u.avatar => file[i] # None
    BY <1>1, <1>4 DEF IInv, UrlHasFile
  <1>12. Exists(i) /\ users[i].avatar => u.avatar
    BY <1>4
  <1>13. NewRow(i, u)
    BY <1>5, <1>9, <1>11, <1>12 DEF NewRow
  <1>14. OwnAfter(r, i, u)
    BY <1>6 DEF OwnAfter
  <1>15. OthersStay(r, i, u)
    BY <1>8, <1>10 DEF OthersStay
  <1> QED BY <1>7, <1>8, <1>13, <1>14, <1>15, RowStep DEF LastAfter

LEMMA UpdateAvatarStep == ASSUME IInv, NEW r \in Requests, UpdateAvatar(r) PROVE IInv'
  <1>1. PICK i \in Ids : i = req[r].id /\ Exists(i) /\ file[i] # None /\ users[i] \in User
    BY DEF IInv, Grounded, UpdateAvatar, TypeOK, Exists, Uploads
  <1>2. /\ users' = [users EXCEPT ![i].avatar = TRUE]
        /\ last' = [last EXCEPT ![i] = IF req[r].alone THEN req[r].image ELSE last[i]]
        /\ req' = [req EXCEPT ![r] = Idle] /\ UNCHANGED file /\ req[r].pc = "url"
    BY <1>1 DEF UpdateAvatar, End, Set
  <1>3. PICK u \in User : u = [users[i] EXCEPT !.avatar = TRUE]
    BY <1>1 DEF User
  <1>4. u.email = users[i].email /\ u.avatar
    BY <1>1, <1>3 DEF User
  <1>5. users' = [users EXCEPT ![i] = u]
    BY <1>2, <1>3
  <1>6. /\ req' \in [Requests -> Request] /\ req'[r] = Idle
        /\ \A s \in Requests \ {r} : req'[s] = req[s]
    BY <1>2, SetFacts, IdleFacts DEF IInv
  <1>7. req'[r].pc = "idle"
    BY <1>6, IdleFacts
  <1>8. \A j \in Ids \ {i} : Exists(j) => users[j].email # u.email
    BY <1>1, <1>4 DEF IInv, EmailsUnique
  <1>9. \A s \in Requests : req[s].pc = "find" /\ req[s].id = i =>
            req[s].moved \/ u.email = req[s].email
    BY <1>4 DEF IInv, Grounded
  <1>10. \/ UNCHANGED last
         \/ /\ r \in Requests /\ req[r].pc = "url" /\ req[r].alone /\ req[r].id = i /\ u.avatar
            /\ last' = [last EXCEPT ![i] = req[r].image]
    <2>1. CASE req[r].alone
      BY <1>1, <1>2, <1>4, <2>1
    <2>2. CASE ~req[r].alone
      BY <1>2, <2>2 DEF IInv, TypeOK
    <2> QED BY <2>1, <2>2
  <1>11. NewRow(i, u)
    BY <1>1, <1>4, <1>5, <1>8 DEF NewRow
  <1>12. OwnAfter(r, i, u)
    BY <1>7 DEF OwnAfter
  <1>13. OthersStay(r, i, u)
    BY <1>6, <1>9 DEF OthersStay
  <1>14. LastAfter(r, i, u)
    BY <1>10 DEF LastAfter
  <1> QED BY <1>2, <1>6, <1>11, <1>12, <1>13, <1>14, RowStep

\* r begins an upload of m to file i.
Opened(r, i, m) == [s \in Requests |->
    IF s = r
    THEN [Idle EXCEPT !.pc = "encode", !.id = i, !.image = m,
            !.alone = \A q \in Uploading(i) : req[q].pc # "encode"]
    ELSE [req[s] EXCEPT !.alone = @ /\ s \notin Uploading(i)]]

LEMMA OpenedFacts ==
    ASSUME TypeOK, NEW r \in Requests, NEW i \in Ids, NEW m \in Images
    PROVE  /\ Opened(r, i, m) \in [Requests -> Request]
           /\ Opened(r, i, m)[r].pc = "encode" /\ Opened(r, i, m)[r].id = i
           /\ Opened(r, i, m)[r].image = m
           /\ Opened(r, i, m)[r].alone => \A q \in Uploading(i) : req[q].pc # "encode"
           /\ \A s \in Requests \ {r} :
                 Opened(r, i, m)[s] = [req[s] EXCEPT !.alone = @ /\ s \notin Uploading(i)]
  <1>1. ASSUME NEW b \in BOOLEAN
        PROVE  [Idle EXCEPT !.pc = "encode", !.id = i, !.image = m, !.alone = b] \in Request
    BY DEF Idle, Request
  <1>2. ASSUME NEW s \in Requests, NEW b \in BOOLEAN
        PROVE  [req[s] EXCEPT !.alone = b] \in Request
    BY DEF TypeOK, Request
  <1>3. /\ (\A q \in Uploading(i) : req[q].pc # "encode") \in BOOLEAN
        /\ \A s \in Requests : (req[s].alone /\ s \notin Uploading(i)) \in BOOLEAN
    OBVIOUS
  <1>4. Opened(r, i, m) \in [Requests -> Request]
    BY <1>1, <1>2, <1>3 DEF Opened
  <1>5. /\ Opened(r, i, m)[r].pc = "encode" /\ Opened(r, i, m)[r].id = i
        /\ Opened(r, i, m)[r].image = m
        /\ Opened(r, i, m)[r].alone => \A q \in Uploading(i) : req[q].pc # "encode"
    BY DEF Opened, Idle
  <1>6. \A s \in Requests \ {r} :
           Opened(r, i, m)[s] = [req[s] EXCEPT !.alone = @ /\ s \notin Uploading(i)]
    BY DEF Opened
  <1> QED BY <1>4, <1>5, <1>6

LEMMA OpenFileStep == ASSUME IInv, NEW r \in Requests, OpenFile(r) PROVE IInv'
  <1>1. PICK i \in Ids, m \in Images :
          /\ file' = [file EXCEPT ![i] = "broken"]
          /\ last' = [last EXCEPT ![i] = None]
          /\ req' = Opened(r, i, m)
    BY DEF OpenFile, Opened
  <1>2. /\ req' \in [Requests -> Request]
        /\ req'[r].pc = "encode" /\ req'[r].id = i /\ req'[r].image = m
        /\ req'[r].alone => \A q \in Uploading(i) : req[q].pc # "encode"
        /\ \A s \in Requests \ {r} :
              req'[s] = [req[s] EXCEPT !.alone = @ /\ s \notin Uploading(i)]
    BY <1>1, OpenedFacts DEF IInv
  <1>3. ASSUME NEW s \in Requests \ {r}
        PROVE  /\ req'[s].pc = req[s].pc /\ req'[s].id = req[s].id
               /\ req'[s].email = req[s].email /\ req'[s].image = req[s].image
               /\ req'[s].row = req[s].row /\ req'[s].got = req[s].got
               /\ req'[s].moved = req[s].moved
               /\ req'[s].alone => req[s].alone /\ s \notin Uploading(i)
    BY <1>2 DEF IInv, TypeOK, Request
  <1>4. OthersKeep(r, i)
    <2>1. ASSUME NEW s \in Requests \ {r}, req[s].pc \in Uploads, req[s].id = i
          PROVE  s \in Uploading(i)
      BY <2>1 DEF Uploading, Uploads
    <2>2. ASSUME NEW s \in Requests \ {r}, req'[r].alone
          PROVE  ~(req[s].pc = "encode" /\ req[s].id = i)
      BY <1>2, <2>1, <2>2 DEF Uploads
    <2> QED BY <1>3, <2>1, <2>2 DEF OthersKeep
  <1>5. WritesOwn(r, i, "broken")
    BY <1>2 DEF WritesOwn
  <1>6. LastForgotten(i)
    BY <1>1 DEF IInv, TypeOK, LastForgotten
  <1>7. UNCHANGED users
    BY DEF OpenFile
  <1> QED BY <1>1, <1>2, <1>4, <1>5, <1>6, <1>7, FileStep

LEMMA EncodeStep == ASSUME IInv, NEW r \in Requests, Encode(r) PROVE IInv'
  <1>1. /\ req[r].pc = "encode" /\ req[r] \in Request
        /\ req[r].id \in Ids /\ req[r].image \in Images
    BY DEF IInv, Grounded, Encode, TypeOK, Uploads
  <1>2. PICK i \in Ids : i = req[r].id
    BY <1>1
  <1>3. PICK c \in {req[r].image} \cup (IF req[r].alone THEN {} ELSE {"broken"}) :
           file' = [file EXCEPT ![i] = c]
    BY <1>2 DEF Encode
  <1>4. c \in Images \cup {"broken"} /\ (req[r].alone => c = req[r].image)
    BY <1>1, <1>3
  <1>5. PICK q \in Request : q = [req[r] EXCEPT !.pc = "check"]
    BY <1>1 DEF Request
  <1>6. q.pc = "check" /\ q.id = i /\ q.image = req[r].image /\ q.alone = req[r].alone
    BY <1>1, <1>2, <1>5 DEF Request
  <1>7. /\ req' \in [Requests -> Request] /\ req'[r] = q
        /\ \A s \in Requests \ {r} : req'[s] = req[s]
    BY <1>5, SetFacts DEF IInv, Encode, Set
  <1>8. \A s \in Requests \ {r} : req[s].pc \in Uploads /\ req[s].id = i => ~req[s].alone
    BY <1>1, <1>2 DEF IInv, Undisturbed
  <1>9. OthersKeep(r, i)
    BY <1>6, <1>7, <1>8 DEF OthersKeep
  <1>10. WritesOwn(r, i, c)
    BY <1>1, <1>2, <1>4, <1>6, <1>7 DEF WritesOwn
  <1>11. LastForgotten(i)
    BY <1>1, <1>2 DEF IInv, TypeOK, Undisturbed, LastForgotten, Encode
  <1>12. UNCHANGED users
    BY DEF Encode
  <1> QED BY <1>3, <1>4, <1>7, <1>9, <1>10, <1>11, <1>12, FileStep

LEMMA CheckUserStep == ASSUME IInv, NEW r \in Requests, CheckUser(r) PROVE IInv'
  <1>1. CASE ~Exists(req[r].id)
    BY <1>1, EndStep DEF CheckUser
  <1>2. CASE Exists(req[r].id)
    <2>1. req[r].pc = "check" /\ req[r] \in Request /\ Grounded(req[r])
      BY DEF IInv, TypeOK, CheckUser
    <2>2. PICK q \in Request : q = [req[r] EXCEPT !.pc = "url"]
      BY <2>1 DEF Request
    <2>3. q.pc = "url" /\ q.id = req[r].id /\ q.image = req[r].image /\ q.alone = req[r].alone
      BY <2>1, <2>2 DEF Request
    <2>4. Grounded(q)
      BY <1>2, <2>1, <2>3 DEF Grounded, Uploads
    <2> QED BY <1>2, <2>1, <2>2, <2>3, <2>4, SetStep DEF CheckUser, Set, Uploads
  <1> QED BY <1>1, <1>2

-----------------------------------------------------------------------------
(* The invariant *)

LEMMA Initially == Init => IInv
  <1> SUFFICES ASSUME Init PROVE IInv
    OBVIOUS
  <1>1. TypeOK
    BY IdleFacts DEF Init, TypeOK
  <1>2. /\ \A i \in Ids : ~Exists(i) /\ last[i] = None
        /\ \A r \in Requests : req[r].pc = "idle"
    BY IdleFacts DEF Init, Exists
  <1>3. EmailsUnique /\ UrlHasFile /\ AvatarStays
    BY <1>2 DEF EmailsUnique, UrlHasFile, AvatarStays
  <1>4. (\A r \in Requests : Grounded(req[r])) /\ Undisturbed
    BY <1>2 DEF Grounded, Undisturbed, Uploads
  <1> QED BY <1>1, <1>3, <1>4 DEF IInv

LEMMA Inductive == IInv /\ [Next]_vars => IInv'
  <1> SUFFICES ASSUME IInv, [Next]_vars PROVE IInv'
    OBVIOUS
  <1>1. CASE UNCHANGED vars
    BY <1>1 DEF vars, IInv, TypeOK, EmailsUnique, UrlHasFile, AvatarStays, Grounded,
                Undisturbed, Exists
  <1>2. CASE DeleteUser
    BY <1>2, DeleteUserStep
  <1>3. ASSUME NEW r \in Requests,
               \/ EmailExists(r) \/ InsertUser(r) \/ FindCreated(r) \/ AnswerCreated(r)
               \/ FindUser(r) \/ UpdateUser(r)
               \/ OpenFile(r) \/ Encode(r) \/ EncodeFails(r) \/ CheckUser(r)
               \/ UpdateAvatar(r) \/ Fail(r)
        PROVE  IInv'
    <2>1. CASE AnswerCreated(r) \/ EncodeFails(r) \/ Fail(r)
      BY <2>1, EndStep DEF AnswerCreated, EncodeFails, Fail
    <2> QED BY <1>3, <2>1, EmailExistsStep, InsertStep, FindCreatedStep, FindUserStep,
               UpdateStep, OpenFileStep, EncodeStep, CheckUserStep, UpdateAvatarStep
  <1> QED BY <1>1, <1>2, <1>3 DEF Next

LEMMA Invariant == Spec => []IInv
  BY Initially, Inductive, PTL DEF Spec

-----------------------------------------------------------------------------
(* Theorems *)

\* Rows, files and requests have their types: Accounts only ever stores rows
\* with emails of its own.
THEOREM TypeCorrect == Spec => []TypeOK
  <1>1. IInv => TypeOK
    BY DEF IInv
  <1> QED BY <1>1, Invariant, PTL

\* A create answers with its own account or one whose email was changed since
\* (users/service.go:59-69).
THEOREM CreateAnswersOwn == Spec => []AnswersOwnRow
  <1>1. IInv => AnswersOwnRow
    BY DEF IInv, Grounded, AnswersOwnRow
  <1> QED BY <1>1, Invariant, PTL

\* No row points to an avatar that is not there (uploader.go:35-66).
THEOREM NoDanglingUrl == Spec => []UrlHasFile
  <1>1. IInv => UrlHasFile
    BY DEF IInv
  <1> QED BY <1>1, Invariant, PTL

\* An upload that ran alone and succeeded stays (users/repository.go:108).
THEOREM AvatarHolds == Spec => []AvatarStays
  <1>1. IInv => AvatarStays
    BY DEF IInv
  <1> QED BY <1>1, Invariant, PTL
=============================================================================
