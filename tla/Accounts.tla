------------------------------ MODULE Accounts ------------------------------
(* Users, their identities, sessions and SSH keys: the logins, the logout and *)
(* the profile handlers, over PostgreSQL.                                     *)
(*                                                                            *)
(* A table is the set of its rows.  A transaction is READ COMMITTED: it keeps *)
(* the rows it has inserted and deleted until it commits, and an UPDATE is    *)
(* both.  A statement waits while another transaction holds a row or a unique *)
(* value it needs; PostgreSQL breaks a circle of waiting transactions.        *)
(* Each slot serves one request, and names the user, session and key that the *)
(* request may create: their ids and tokens are fresh.                        *)
EXTENDS FiniteSets

CONSTANTS
  Requests,     \* the requests
  Inputs,       \* what they may ask, see Ops
  InitialRows,  \* what the tables hold at first
  Password,     \* Password[u]: the password of u, or NoPassword
  AllowRegistration,
  NoOne         \* no user, no input

Ops == {"local", "oidc", "logout", "edit", "addKey", "removeKey"}
LoginOps == {"local", "oidc"}

ASSUME AccountsAssumption ==
  /\ \A q \in Inputs : q.op \in Ops
  /\ NoOne \notin Inputs
  /\ AllowRegistration \in BOOLEAN

VARIABLES
  db,        \* the rows that are committed
  ins, del,  \* the rows each open transaction has inserted and deleted
  pc, req,   \* the next statement of each request, and what it asks
  who,       \* the user it acts for
  granted    \* not in the code: the rows of all sessions there ever were

vars == <<db, ins, del, pc, req, who, granted>>

UserRow(u, name, email) == [table |-> "users", id |-> u, name |-> name, email |-> email]
IdentityRow(u, sub) == [table |-> "identities", user |-> u, subject |-> sub]
SessionRow(u, t) == [table |-> "sessions", user |-> u, token |-> t]
KeyRow(u, id, print) == [table |-> "keys", user |-> u, id |-> id, fingerprint |-> print]

Of(table) == {x \in db : x.table = table}

\* Two rows that a unique constraint keeps from being in a table together.
Clash(x, y) ==
  /\ x.table = y.table
  /\ CASE x.table = "users" -> x.name = y.name \/ x.email = y.email
       [] x.table = "identities" -> x.subject = y.subject
       [] x.table = "sessions" -> x.token = y.token
       [] x.table = "keys" -> x.fingerprint = y.fingerprint

Tables == {"users", "identities", "sessions", "keys"}

\* At first the tables obey their constraints, no id or token of a request is
\* taken, and the users are such as the code creates: an identity is inserted
\* together with its user and never removed, so a user has at most one
\* (handleCallback); who has none has been given a password.
ASSUME InitialRowsAssumption ==
  /\ \A x \in InitialRows : x.table \in Tables
  /\ \A x, y \in InitialRows : Clash(x, y) => x = y
  /\ \A x \in InitialRows : x.table # "users" =>
       \E y \in InitialRows : y.table = "users" /\ y.id = x.user
  /\ \A x \in InitialRows :
       /\ x.table = "users" => x.id \notin Requests
       /\ x.table = "sessions" => x.token \notin Requests
  /\ \A x, y \in InitialRows :
       x.table = "identities" /\ y.table = "identities" /\ x.user = y.user => x = y
  /\ \A x \in InitialRows : x.table = "users" /\ Password[x.id] = "" =>
       \E y \in InitialRows : y.table = "identities" /\ y.user = x.id

Init ==
  /\ db = InitialRows
  /\ ins = [r \in Requests |-> {}]
  /\ del = [r \in Requests |-> {}]
  /\ pc = [r \in Requests |-> "new"]
  /\ req = [r \in Requests |-> NoOne]
  /\ who = [r \in Requests |-> NoOne]
  /\ granted = {x \in InitialRows : x.table = "sessions"}

-----------------------------------------------------------------------------
(* Transactions *)

\* The row that the next statement of r inserts, if it inserts one.
Username(claims) == IF claims.name # "" THEN claims.name ELSE claims.subject
CreateUserRow(r) == UserRow(r, Username(req[r]), req[r].email)
CreateOidcIdentityRow(r) == IdentityRow(who[r], req[r].subject)

\* Mutant: the user that has just been created is not taken over.
SessionOfFoundUserRow(r) == SessionRow(IF who[r] = r THEN NoOne ELSE who[r], r)

CreateUserSessionRow(r) == SessionRow(who[r], r)
UpdateUserInfoRow(r) == UserRow(who[r], req[r].name, req[r].email)
AddSSHKeyRow(r) == KeyRow(who[r], r, req[r].fingerprint)

NewRows(r) ==
  CASE pc[r] = "createUser" -> {CreateUserRow(r)}
    [] pc[r] = "createIdentity" -> {CreateOidcIdentityRow(r)}
    [] pc[r] = "createSession" -> {CreateUserSessionRow(r)}
    [] pc[r] = "writeUser" -> {UpdateUserInfoRow(r)}
    [] pc[r] = "addKey" -> {AddSSHKeyRow(r)}
    [] OTHER -> {}

\* Mutant: any user's key of that id.
DeleteAnySSHKeyRows(r) == {x \in Of("keys") : x.id = req[r].id}

DeleteUserScopedSSHKeyRows(r) ==
  {x \in Of("keys") : x.id = req[r].id /\ x.user = who[r]}

DeleteUserSessionRows(r) == {x \in Of("sessions") : x.token = req[r].cookie /\ who[r] # NoOne}

\* The rows that it deletes, or locks to update them.
OldRows(r) ==
  CASE pc[r] = "lockUser" -> {x \in Of("users") : x.id = who[r]}
    [] pc[r] = "removeKey" -> DeleteUserScopedSSHKeyRows(r)
    [] pc[r] = "deleteSession" -> DeleteUserSessionRows(r)
    [] OTHER -> {}

\* A row with a foreign key locks the user it refers to against updates of its
\* unique columns; one that leaves them as they are locks out other updates only.
Refers(x, y) == y.table = "users" /\ x.table # "users" /\ x.user = y.id
Keeps(r, x) == req[r].op = "edit" /\ x = UpdateUserInfoRow(r)

\* Mutant: no statement waits for rows that are not committed.
NoBlockers(r) == {}

\* The transactions the next statement of r has to wait for.
Blockers(r) ==
  {q \in Requests \ {r} :
     \/ \E x \in NewRows(r), y \in ins[q] \cup del[q] : Clash(x, y)
     \/ \E x \in NewRows(r), y \in del[q] : Refers(x, y) /\ ~Keeps(q, y)
     \/ \E x \in OldRows(r) :
          x \in del[q] \/ \E y \in ins[q] : Refers(y, x) /\ ~Keeps(r, x)}

\* What a unique constraint finds when nothing is left to wait for.
Violates(r) ==
  \E x \in NewRows(r), y \in (db \ del[r]) \cup ins[r] : Clash(x, y)

Goto(r, state) == pc' = [pc EXCEPT ![r] = state]

\* Mutant: the transaction stays open.
EndWithoutRollback(r) == Goto(r, "done") /\ UNCHANGED <<ins, del, req, who>>

\* The handler returns, and rolls back what is not committed.
End(r) ==
  /\ Goto(r, "done")
  /\ ins' = [ins EXCEPT ![r] = {}]
  /\ del' = [del EXCEPT ![r] = {}]
  /\ UNCHANGED <<req, who>>

\* An INSERT, or the second half of an UPDATE.
Insert(r, next) ==
  /\ Blockers(r) = {}
  /\ IF Violates(r)
       THEN End(r)
       ELSE /\ ins' = [ins EXCEPT ![r] = @ \cup NewRows(r)]
            /\ Goto(r, next)
            /\ UNCHANGED <<del, req, who>>
  /\ UNCHANGED <<db, granted>>

\* A DELETE, or the first half of an UPDATE.
Delete(r, next) ==
  /\ Blockers(r) = {}
  /\ del' = [del EXCEPT ![r] = @ \cup OldRows(r)]
  /\ Goto(r, next)
  /\ UNCHANGED <<db, ins, req, who, granted>>

Commit(r) ==
  /\ pc[r] = "commit"
  /\ db' = (db \ del[r]) \cup ins[r]
  /\ granted' = granted \cup {x \in ins[r] : x.table = "sessions"}
  /\ End(r)

\* A statement fails, the client goes away, or COMMIT is not applied.
Abort(r) ==
  /\ pc[r] \notin {"new", "done"}
  /\ End(r)
  /\ UNCHANGED <<db, granted>>

\* PostgreSQL ends one of the transactions that wait for each other.
BreakDeadlock(r) ==
  /\ Blockers(r) # {}
  /\ \E D \in SUBSET Requests : r \in D /\ \A d \in D : Blockers(d) \cap D # {}
  /\ End(r)
  /\ UNCHANGED <<db, granted>>

-----------------------------------------------------------------------------
(* Requests that carry the cookie of a session *)

GetSessionDataByTokenHash(t) == {x.user : x \in {y \in Of("sessions") : y.token = t}}

\* UserMiddleware, then RequireLogin, but for the logout.
Arrive(r, q) ==
  /\ pc[r] = "new" /\ q.op \notin LoginOps
  /\ req' = [req EXCEPT ![r] = q]
  /\ LET found == GetSessionDataByTokenHash(q.cookie) IN
       /\ who' = [who EXCEPT ![r] = IF found = {} THEN NoOne ELSE CHOOSE u \in found : TRUE]
       /\ Goto(r, IF found = {} /\ q.op # "logout"
                    THEN "done"
                    ELSE CASE q.op = "logout" -> "deleteSession"
                           [] q.op = "edit" -> "lockUser"
                           [] q.op = "addKey" -> "addKey"
                           [] q.op = "removeKey" -> "removeKey")
  /\ UNCHANGED <<db, ins, del, granted>>

Logout(r) == pc[r] = "deleteSession" /\ Delete(r, "commit")

\* UpdateUserInfo locks the row of the user, then writes it.
EditUserProfile(r) == pc[r] = "lockUser" /\ Delete(r, "writeUser")
WriteUserProfile(r) == pc[r] = "writeUser" /\ Insert(r, "commit")

AddSSHKey(r) == pc[r] = "addKey" /\ Insert(r, "commit")
RemoveSSHKey(r) == pc[r] = "removeKey" /\ Delete(r, "commit")

-----------------------------------------------------------------------------
(* Logins *)

GetUserByUsername(name) == {x.id : x \in {y \in Of("users") : y.name = name}}

\* Mutant: the subject is looked for among the usernames.
GetUserBySubjectName(sub) == {x.id : x \in {y \in Of("users") : y.name = sub}}

GetUserByOidc(sub) == {x.user : x \in {y \in Of("identities") : y.subject = sub}}

VerifyPassword(u, password) == Password[u] # "" /\ Password[u] = password

\* GetUserByUsername, and the password is verified.
LocalLogin(r, q) ==
  /\ pc[r] = "new" /\ q.op = "local"
  /\ req' = [req EXCEPT ![r] = q]
  /\ LET found == {u \in GetUserByUsername(q.name) : VerifyPassword(u, q.password)} IN
       IF found = {}
         THEN Goto(r, "done") /\ UNCHANGED who
         ELSE Goto(r, "createSession") /\ who' = [who EXCEPT ![r] = CHOOSE u \in found : TRUE]
  /\ UNCHANGED <<db, ins, del, granted>>

\* The provider has answered with claims; an answer without id_token gives
\* empty ones.  GetUserByOidc finds their user, or there is none yet.
HandleCallback(r, q) ==
  /\ pc[r] = "new" /\ q.op = "oidc"
  /\ req' = [req EXCEPT ![r] = q]
  /\ LET found == GetUserByOidc(q.subject) IN
       CASE found # {} -> /\ Goto(r, "createSession")
                          /\ who' = [who EXCEPT ![r] = CHOOSE u \in found : TRUE]
         [] found = {} /\ AllowRegistration -> /\ Goto(r, "createUser")
                                               /\ who' = [who EXCEPT ![r] = r]
         [] OTHER -> Goto(r, "done") /\ UNCHANGED who
  /\ UNCHANGED <<db, ins, del, granted>>

\* Mutant: the user is committed before the identity.
CommitUserFirst(r) ==
  /\ pc[r] = "createUser" /\ Blockers(r) = {} /\ ~Violates(r)
  /\ db' = db \cup NewRows(r)
  /\ Goto(r, "createIdentity")
  /\ UNCHANGED <<ins, del, req, who, granted>>

CreateUser(r) == pc[r] = "createUser" /\ Insert(r, "createIdentity")
CreateOidcIdentity(r) == pc[r] = "createIdentity" /\ Insert(r, "createSession")
CreateUserSession(r) == pc[r] = "createSession" /\ Insert(r, "commit")

-----------------------------------------------------------------------------

Work(r) ==
  \/ Logout(r) \/ EditUserProfile(r) \/ WriteUserProfile(r)
  \/ AddSSHKey(r) \/ RemoveSSHKey(r)
  \/ CreateUser(r) \/ CreateOidcIdentity(r) \/ CreateUserSession(r)
  \/ Commit(r) \/ BreakDeadlock(r)

Ended == \A r \in Requests : pc[r] = "done"

Next ==
  \/ \E r \in Requests :
       \/ \E q \in Inputs : Arrive(r, q) \/ LocalLogin(r, q) \/ HandleCallback(r, q)
       \/ Work(r) \/ Abort(r)
  \/ Ended /\ UNCHANGED vars

Spec == Init /\ [][Next]_vars

\* Handlers go on, and PostgreSQL looks for deadlocks (deadlock_timeout).
FairSpec == Spec /\ \A r \in Requests : WF_vars(Work(r))

-----------------------------------------------------------------------------
(* Properties *)

UserIds == {x.id : x \in Of("users")}

\* The rows refer to users there are, and the requests to users there were or
\* that they are about to create.
TypeOK ==
  /\ \A x \in db : x.table # "users" => x.user \in UserIds
  /\ \A r \in Requests : who[r] \in UserIds \cup {r, NoOne}
  /\ \A r \in Requests : req[r] \in Inputs \cup {NoOne}

\* A username, an e-mail address, an identity and a key each have one user,
\* however logins, renames and new keys race (INSERT and UPDATE of users.sql).
OneOwner == \A x, y \in db : Clash(x, y) => x = y

\* A session that a login has made is of the user of the identity, or of the
\* user who has the password, also when two first logins of one identity race
\* or the user is renamed meanwhile (serveLocalLogin, handleCallback).
SessionIsOfCaller ==
  \A r \in Requests, s \in granted : s.token = r =>
    IF req[r].op = "local"
      THEN Password[s.user] = req[r].password
      ELSE \A x \in Of("identities") : x.subject = req[r].subject <=> x.user = s.user

\* A user always has a password or an identity: a first login that loses its
\* race leaves no account behind that nobody can enter and that keeps its name
\* and address from the next try (handleCallback).
EveryUserCanLogIn ==
  \A u \in UserIds : Password[u] # "" \/ \E x \in Of("identities") : x.user = u

\* Profiles and keys change only by requests with a session of their user,
\* which may meanwhile have been logged out.
OnlyOwnerChanges ==
  [][\A x \in (db \ db') \cup (db' \ db) :
       x.table = "keys" \/ (x.table = "users" /\ x.id \in UserIds) =>
         \E r \in Requests, s \in granted :
           /\ pc[r] = "commit" /\ pc'[r] = "done"
           /\ req[r].op \notin LoginOps /\ s.token = req[r].cookie
           /\ s.user = IF x.table = "keys" THEN x.user ELSE x.id]_vars

\* Every request ends: transactions that wait for each other, such as two
\* users who take each other's names, do not wait for ever.
RequestEnds == \A r \in Requests : pc[r] # "new" ~> pc[r] = "done"
=============================================================================
