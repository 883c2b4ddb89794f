------------------------------- MODULE Accounts -------------------------------
(***************************************************************************)
(* The accounts as rows of the table users and their avatars as files      *)
(* (features/users, pkg/uploader).  Module Sessions follows one row   *)
(* through logins and passwords; here several rows compete for emails and  *)
(* several requests for a file.                                            *)
(*                                                                         *)
(* A new account is a query for the email, an insert, and a query by email *)
(* for the row to answer with.  A change of the profile reads the row and  *)
(* writes most of its columns back later.  An avatar is a file whose name  *)
(* is the user's id, truncated and then written in place, and a column set *)
(* when it is complete.  Each of these is a statement or a system call of  *)
(* its own, and any of them may fail.                                      *)
(***************************************************************************)
EXTENDS Naturals

CONSTANTS
    Ids,        \* the snowflake ids that can be generated
    Emails,
    Images,
    Requests,   \* requests served at a time
    None

ASSUME NoneAssumption ==
    /\ None \notin Ids /\ None \notin Emails /\ None \notin Images
    /\ "broken" \notin Images \cup {None}

VARIABLES
    users,      \* the rows of users: None for an id without one
    file,       \* <id>.jpg: None, the image in it, or "broken"
    req,        \* the requests being served
    last        \* history: the image of the last upload that ran alone and
                \* was answered with success, None when another began since

vars == <<users, file, req, last>>

-----------------------------------------------------------------------------
\* The columns that the requests compete for; avatar says that avatar_url is
\* set, always to the same URL.
User == [email : Emails, active : BOOLEAN, avatar : BOOLEAN]

ASSUME NoneIsNoRow == None \notin User

\* What a request is about, and the row it will write.  got is the id of the
\* row a create answers with.  moved is history: the email of the account it
\* created was changed.  alone is history: no other upload for the id overlaps.
Request == [pc : {"idle", "insert", "find", "answer", "write", "encode", "check", "url"},
            id : Ids \cup {None}, email : Emails \cup {None}, image : Images \cup {None},
            row : User \cup {None}, got : Ids \cup {None}, moved : BOOLEAN, alone : BOOLEAN]

Idle == [pc |-> "idle", id |-> None, email |-> None, image |-> None,
         row |-> None, got |-> None, moved |-> FALSE, alone |-> TRUE]

TypeOK ==
    /\ users \in [Ids -> User \cup {None}]
    /\ file \in [Ids -> Images \cup {None, "broken"}]
    /\ req \in [Requests -> Request]
    /\ last \in [Ids -> Images \cup {None}]

Init ==
    /\ users = [i \in Ids |-> None]
    /\ file = [i \in Ids |-> None]
    /\ req = [r \in Requests |-> Idle]
    /\ last = [i \in Ids |-> None]

-----------------------------------------------------------------------------
(* Helpers *)

Set(r, q) == req' = [req EXCEPT ![r] = q]

End(r) == Set(r, Idle)

Exists(i) == users[i] # None

\* The rows with an email, deactivated ones included.
WithEmail(e) == {i \in Ids : Exists(i) /\ users[i].email = e}

\* Faulty variant of Taken: the column is not unique.
NeverTaken(e, i) == FALSE

\* UNIQUE (email): another row than that of i has it.
Taken(e, i) == WithEmail(e) \ {i} # {}

-----------------------------------------------------------------------------
(* POST /users *)

EmailExists(r) ==
    /\ req[r].pc = "idle"
    /\ \E e \in Emails :
          /\ WithEmail(e) = {}
          /\ Set(r, [Idle EXCEPT !.pc = "insert", !.email = e])
    /\ UNCHANGED <<users, file, last>>

InsertUser(r) ==
    /\ req[r].pc = "insert"
    /\ \E i \in Ids :
          /\ ~Exists(i) /\ ~Taken(req[r].email, i)
          /\ users' = [users EXCEPT ![i] =
                [email |-> req[r].email, active |-> TRUE, avatar |-> FALSE]]
          /\ Set(r, [req[r] EXCEPT !.pc = "find", !.id = i])
    /\ UNCHANGED <<file, last>>

\* FindByEmail after the insert.  Without a row a field of the nil pointer is
\* set and the request dies; otherwise the row with the email is the answer.
FindCreated(r) ==
    /\ req[r].pc = "find"
    /\ IF WithEmail(req[r].email) = {} THEN End(r)
       ELSE \E i \in WithEmail(req[r].email) :
               Set(r, [req[r] EXCEPT !.pc = "answer", !.got = i])
    /\ UNCHANGED <<users, file, last>>

AnswerCreated(r) ==
    /\ req[r].pc = "answer"
    /\ End(r)
    /\ UNCHANGED <<users, file, last>>

-----------------------------------------------------------------------------
(* PUT and DELETE /users/{id} *)

\* FindByID; an email that is sent replaces the one read.
FindUser(r) ==
    /\ req[r].pc = "idle"
    /\ \E i \in Ids :
          /\ Exists(i)
          /\ \E e \in Emails \cup {users[i].email} :
                Set(r, [Idle EXCEPT !.pc = "write", !.id = i,
                                    !.row = [users[i] EXCEPT !.email = e]])
    /\ UNCHANGED <<users, file, last>>

\* The requests, after the email of account i became e.
Moved(i, e) == [s \in Requests |->
    [req[s] EXCEPT !.moved = @ \/ (req[s].pc = "find" /\ req[s].id = i /\ req[s].email # e)]]

\* Faulty variant of UpdateUser: avatar_url is among the columns.
UpdateUserWhole(r) ==
    /\ req[r].pc = "write"
    /\ ~Taken(req[r].row.email, req[r].id)
    /\ users' = [users EXCEPT ![req[r].id] = req[r].row]
    /\ req' = [Moved(req[r].id, req[r].row.email) EXCEPT ![r] = Idle]
    /\ UNCHANGED <<file, last>>

\* UPDATE users SET email, ..., is_active: all the profile as it was read.
UpdateUser(r) ==
    /\ req[r].pc = "write"
    /\ ~Taken(req[r].row.email, req[r].id)
    /\ users' = [users EXCEPT ![req[r].id] = [req[r].row EXCEPT !.avatar = users[req[r].id].avatar]]
    /\ req' = [Moved(req[r].id, req[r].row.email) EXCEPT ![r] = Idle]
    /\ UNCHANGED <<file, last>>

DeleteUser ==
    /\ \E i \in Ids : Exists(i) /\ users' = [users EXCEPT ![i].active = FALSE]
    /\ UNCHANGED <<file, req, last>>

-----------------------------------------------------------------------------
(* POST /users/{id}/avatar *)

Uploading(i) == {s \in Requests : req[s].pc \in {"encode", "check", "url"} /\ req[s].id = i}

\* The image decodes and os.Create truncates the file.  Whether there is such a
\* user is looked at later.
OpenFile(r) ==
    /\ req[r].pc = "idle"
    /\ \E i \in Ids, m \in Images :
          /\ file' = [file EXCEPT ![i] = "broken"]
          /\ last' = [last EXCEPT ![i] = None]
          /\ req' = [s \in Requests |->
                IF s = r
                THEN [Idle EXCEPT !.pc = "encode", !.id = i, !.image = m,
                        !.alone = \A q \in Uploading(i) : req[q].pc # "encode"]
                ELSE [req[s] EXCEPT !.alone = @ /\ s \notin Uploading(i)]]
    /\ UNCHANGED users

\* jpeg.Encode wrote the file; with two writers the bytes may be of both.
Encode(r) ==
    /\ req[r].pc = "encode"
    /\ \E c \in {req[r].image} \cup (IF req[r].alone THEN {} ELSE {"broken"}) :
          file' = [file EXCEPT ![req[r].id] = c]
    /\ Set(r, [req[r] EXCEPT !.pc = "check"])
    /\ UNCHANGED <<users, last>>

\* Faulty variant of EncodeFails: the incomplete file is removed.
EncodeFailsRemoves(r) ==
    /\ req[r].pc = "encode"
    /\ file' = [file EXCEPT ![req[r].id] = None]
    /\ End(r)
    /\ UNCHANGED <<users, last>>

\* The disk is full: what was written stays.
EncodeFails(r) ==
    /\ req[r].pc = "encode"
    /\ End(r)
    /\ UNCHANGED <<users, file, last>>

\* Service.UpdateAvatar: FindByID, then the column.
CheckUser(r) ==
    /\ req[r].pc = "check"
    /\ IF Exists(req[r].id) THEN Set(r, [req[r] EXCEPT !.pc = "url"]) ELSE End(r)
    /\ UNCHANGED <<users, file, last>>

UpdateAvatar(r) ==
    /\ req[r].pc = "url"
    /\ users' = [users EXCEPT ![req[r].id].avatar = TRUE]
    /\ last' = [last EXCEPT ![req[r].id] = IF req[r].alone THEN req[r].image ELSE @]
    /\ End(r)
    /\ UNCHANGED file

-----------------------------------------------------------------------------
\* A statement fails or is refused, or the process dies.
Fail(r) ==
    /\ req[r].pc \notin {"idle", "encode"}
    /\ End(r)
    /\ UNCHANGED <<users, file, last>>

Next ==
    \/ \E r \in Requests :
          \/ EmailExists(r) \/ InsertUser(r) \/ FindCreated(r) \/ AnswerCreated(r)
          \/ FindUser(r) \/ UpdateUser(r)
          \/ OpenFile(r) \/ Encode(r) \/ EncodeFails(r) \/ CheckUser(r) \/ UpdateAvatar(r)
          \/ Fail(r)
    \/ DeleteUser

Spec == Init /\ [][Next]_vars

-----------------------------------------------------------------------------
(* Properties *)

\* The answer to a create is the account it created, though it is sought by
\* email, unless that account's email was changed in between
\* (users/service.go:59-69).
AnswersOwnRow ==
    \A r \in Requests : req[r].pc = "answer" => req[r].got = req[r].id \/ req[r].moved

\* A row with an avatar_url has a file, whatever failed between the two
\* (uploader.go:35-66, handler.go:167-175).
UrlHasFile == \A i \in Ids : Exists(i) /\ users[i].avatar => file[i] # None

\* An upload that ran alone and was answered with success stays until the next
\* one begins: the file is the image and the row keeps its URL, though updates
\* of the profile write back what they read before (users/repository.go:108).
AvatarStays ==
    \A i \in Ids : last[i] # None =>
        Exists(i) /\ users[i].avatar /\ file[i] = last[i]
=============================================================================
