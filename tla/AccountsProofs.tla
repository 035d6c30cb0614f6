--------------------------- MODULE AccountsProofs ---------------------------
(* Theorems about Accounts, for any requests, inputs and first rows that obey *)
(* the constraints of the tables, with any schedule of the statements.       *)
EXTENDS Accounts, TLAPS

-----------------------------------------------------------------------------
(* The inductive invariant *)

\* Transactions write rows of the tables.
Typed ==
  /\ \A x \in db : x.table \in Tables
  /\ \A r \in Requests : \A x \in ins[r] : x.table \in Tables
  /\ ins = [r \in Requests |-> ins[r]]
  /\ del = [r \in Requests |-> del[r]]
  /\ pc = [r \in Requests |-> pc[r]]
  /\ req = [r \in Requests |-> req[r]]
  /\ who = [r \in Requests |-> who[r]]

\* What the waiting for uncommitted rows achieves: the rows of two open
\* transactions never clash, nor do those of one with what it leaves in the
\* tables.
Apart ==
  /\ \A q, r \in Requests : q # r => \A x \in ins[q], y \in ins[r] : ~Clash(x, y)
  /\ \A r \in Requests : \A x \in ins[r], y \in db \ del[r] : ~Clash(x, y)
  /\ \A r \in Requests : \A x, y \in ins[r] : Clash(x, y) => x = y
  /\ OneOwner

\* The rows a request has written are those of its operation and user.
Wrote(r) == \A x \in ins[r] :
  \/ req[r].op = "oidc" /\ who[r] = r /\ x \in {CreateUserRow(r), CreateOidcIdentityRow(r)}
  \/ req[r].op \in LoginOps /\ x = CreateUserSessionRow(r)
  \/ req[r].op = "edit" /\ x = UpdateUserInfoRow(r)
  \/ req[r].op = "addKey" /\ x = AddSSHKeyRow(r)

Deleted(r) == \A x \in del[r] :
  \/ req[r].op = "edit" /\ x.table = "users" /\ x.id = who[r]
  \/ req[r].op = "removeKey" /\ x.table = "keys" /\ x.user = who[r]
  \/ req[r].op = "logout" /\ x.table = "sessions"

\* The statements of each operation, in order.
Ordered(r) ==
  /\ pc[r] = "new" => req[r] = NoOne
  /\ pc[r] # "new" => req[r] \in Inputs
  /\ pc[r] \in {"new", "done"} => ins[r] = {} /\ del[r] = {}
  /\ pc[r] = "createUser" => req[r].op = "oidc" /\ who[r] = r /\ del[r] = {}
  /\ pc[r] = "createIdentity" =>
       req[r].op = "oidc" /\ who[r] = r /\ del[r] = {} /\ CreateUserRow(r) \in ins[r]
  /\ pc[r] = "createSession" => req[r].op \in LoginOps /\ del[r] = {}
  /\ pc[r] = "lockUser" => req[r].op = "edit" /\ del[r] = {}
  /\ pc[r] = "writeUser" => req[r].op = "edit"
  /\ pc[r] = "addKey" => req[r].op = "addKey" /\ del[r] = {}
  /\ pc[r] = "removeKey" => req[r].op = "removeKey"
  /\ pc[r] = "deleteSession" => req[r].op = "logout"
  /\ pc[r] = "commit" /\ req[r].op = "edit" /\ del[r] # {} => UpdateUserInfoRow(r) \in ins[r]

Identities == Of("identities")

\* A login acts for the user who has the password or the identity, or for a
\* user it creates together with the identity.
NewUser(r) == req[r].op = "oidc" /\ who[r] = r
Knows(r) ==
  pc[r] \notin {"new", "done"} =>
    /\ req[r].op = "local" => Password[who[r]] = req[r].password /\ who[r] \in UserIds
    /\ req[r].op = "oidc" =>
         \/ who[r] = r
         \/ \E x \in Identities : x.subject = req[r].subject /\ x.user = who[r]
    /\ NewUser(r) /\ pc[r] \in {"createSession", "commit"} =>
         CreateUserRow(r) \in ins[r] /\ CreateOidcIdentityRow(r) \in ins[r]

\* A request with a cookie acts for the user of a session.
Carries(r) ==
  pc[r] \notin {"new", "done"} /\ req[r].op \notin LoginOps \cup {"logout"} =>
    /\ who[r] \in UserIds
    /\ \E s \in granted : s.token = req[r].cookie /\ s.user = who[r]

\* The users, identities and sessions that a request creates are there only
\* once it is done.
Later ==
  /\ \A x \in Of("users") : x.id \in Requests => pc[x.id] = "done"
  /\ \A s \in granted : s.token \in Requests => pc[s.token] = "done"

OneIdentity == \A x, y \in Identities : x.user = y.user => x = y

\* The session of a login is of the user who has the password or the identity.
Granted == \A s \in granted : s.token \in Requests =>
  IF req[s.token].op = "local"
    THEN Password[s.user] = req[s.token].password
    ELSE \E x \in Identities : x.subject = req[s.token].subject /\ x.user = s.user

Requesting(r) == Wrote(r) /\ Deleted(r) /\ Ordered(r) /\ Knows(r) /\ Carries(r)

Stored == /\ TypeOK /\ Of("sessions") \subseteq granted
          /\ Later /\ OneIdentity /\ Granted /\ EveryUserCanLogIn

IInv == Typed /\ Apart /\ Stored /\ \A r \in Requests : Requesting(r)

-----------------------------------------------------------------------------
(* Steps of one request that leave the tables alone *)

\* Whether two rows clash does not depend on their order.
LEMMA ClashSymmetric ==
  ASSUME NEW x, NEW y, x.table \in Tables, Clash(x, y)
  PROVE  Clash(y, x)
BY DEF Clash, Tables

\* Only the request of a step moves.
Moves(r) ==
  /\ pc[r] # "done" /\ pc' = [pc EXCEPT ![r] = pc'[r]]
  /\ req' = [req EXCEPT ![r] = req'[r]]
  /\ who' = [who EXCEPT ![r] = who'[r]]
  /\ ins' = [ins EXCEPT ![r] = ins'[r]]
  /\ del' = [del EXCEPT ![r] = del'[r]]

\* What the tables hold stays true.
LEMMA StoredStays ==
  ASSUME IInv, NEW r \in Requests, Moves(r), UNCHANGED <<db, granted>>,
         who'[r] \in UserIds \cup {r, NoOne}, req'[r] \in Inputs \cup {NoOne}
  PROVE  Stored'
<1> USE DEF IInv, Stored, Typed, Moves
<1>1. Of("users")' = Of("users") /\ Identities' = Identities /\ UserIds' = UserIds /\ Of("sessions")' = Of("sessions")
  BY DEF Of, Identities, UserIds
<1>2. TypeOK'
  BY <1>1 DEF TypeOK
<1>3. \A q \in Requests : pc[q] = "done" => pc'[q] = "done" /\ req'[q] = req[q]
  OBVIOUS
<1>4. Later'
  BY <1>1, <1>3 DEF Later
<1>5. Granted'
  BY <1>1, <1>3 DEF Granted, Later
<1>6. OneIdentity' /\ EveryUserCanLogIn'
  BY <1>1 DEF OneIdentity, EveryUserCanLogIn, Identities, Of
<1> QED BY <1>1, <1>2, <1>4, <1>5, <1>6

\* The other requests stay as they are.
LEMMA OthersStay ==
  ASSUME IInv, NEW r \in Requests, Moves(r), UNCHANGED <<db, granted>>,
         NEW q \in Requests \ {r}
  PROVE  Requesting(q)'
<1> USE DEF IInv, Typed, Moves
<1>1. pc'[q] = pc[q] /\ req'[q] = req[q] /\ who'[q] = who[q] /\ ins'[q] = ins[q] /\ del'[q] = del[q]
  OBVIOUS
<1>2. Identities' = Identities /\ UserIds' = UserIds
  BY DEF Of, Identities, UserIds
<1>3. /\ CreateUserRow(q)' = CreateUserRow(q) /\ CreateOidcIdentityRow(q)' = CreateOidcIdentityRow(q)
      /\ CreateUserSessionRow(q)' = CreateUserSessionRow(q)
      /\ UpdateUserInfoRow(q)' = UpdateUserInfoRow(q) /\ AddSSHKeyRow(q)' = AddSSHKeyRow(q)
  BY <1>1 DEF CreateUserRow, CreateOidcIdentityRow, CreateUserSessionRow, UpdateUserInfoRow, AddSSHKeyRow, Username
<1>4. Wrote(q)'
  BY <1>1, <1>3 DEF Requesting, Wrote
<1>5. Deleted(q)'
  BY <1>1 DEF Requesting, Deleted
<1>6. Ordered(q)'
  BY <1>1, <1>3 DEF Requesting, Ordered
<1>7. Knows(q)'
  BY <1>1, <1>2, <1>3 DEF Requesting, Knows, NewUser
<1>8. Carries(q)'
  BY <1>1, <1>2 DEF Requesting, Carries
<1> QED BY <1>4, <1>5, <1>6, <1>7, <1>8 DEF Requesting

\* Nothing clashes after a step that only takes rows away from what a request
\* has written, or adds to what it has deleted.
LEMMA ApartStays ==
  ASSUME IInv, NEW r \in Requests, Moves(r), UNCHANGED db,
         \/ ins'[r] = {}
         \/ ins'[r] = ins[r] /\ del[r] \subseteq del'[r]
  PROVE  Apart' /\ Typed'
<1> USE DEF IInv, Typed, Moves
<1>1. Typed'
  OBVIOUS
<1>2. \A q \in Requests : ins'[q] \subseteq ins[q] /\ (del[q] \subseteq del'[q] \/ ins'[q] = {})
  OBVIOUS
<1>3. OneOwner'
  BY DEF Apart, OneOwner
<1>4. \A p, q \in Requests : p # q => \A x \in ins'[p], y \in ins'[q] : ~Clash(x, y)
  BY <1>2 DEF Apart
<1>5. \A q \in Requests : \A x \in ins'[q], y \in db' \ del'[q] : ~Clash(x, y)
  BY <1>2 DEF Apart
<1>6. \A q \in Requests : \A x, y \in ins'[q] : Clash(x, y) => x = y
  BY <1>2 DEF Apart
<1> QED BY <1>1, <1>3, <1>4, <1>5, <1>6 DEF Apart

\* The end of a request that is not committed.
LEMMA EndStep ==
  ASSUME IInv, NEW r \in Requests, pc[r] \notin {"new", "done"}, End(r), UNCHANGED <<db, granted>>
  PROVE  IInv'
<1> USE DEF IInv, Typed
<1>1. Moves(r) /\ ins'[r] = {} /\ del'[r] = {} /\ pc'[r] = "done" /\ who'[r] = who[r] /\ req'[r] = req[r]
  BY DEF Moves, End, Goto
<1>2. who'[r] \in UserIds \cup {r, NoOne} /\ req'[r] \in Inputs \cup {NoOne}
  BY <1>1 DEF Stored, TypeOK
<1>3. Stored'
  BY <1>1, <1>2, StoredStays
<1>4. Apart' /\ Typed'
  BY <1>1, ApartStays
<1>5. Requesting(r)'
  BY <1>1 DEF Requesting, Wrote, Deleted, Ordered, Knows, Carries
<1> QED BY <1>1, <1>3, <1>4, <1>5, OthersStay

-----------------------------------------------------------------------------
(* Statements *)

\* A row that nothing clashes with keeps the transactions apart.
LEMMA InsertApart ==
  ASSUME IInv, NEW r \in Requests, Moves(r), UNCHANGED <<db, del>>,
         NEW n, NewRows(r) = {n}, n.table \in Tables,
         Blockers(r) = {}, ~Violates(r), ins'[r] = ins[r] \cup {n}
  PROVE  Apart' /\ Typed'
<1> USE DEF IInv, Typed, Moves
<1>1. Typed'
  OBVIOUS
<1>2. \A q \in Requests \ {r} : \A y \in ins[q] : ~Clash(n, y) /\ ~Clash(y, n)
  BY ClashSymmetric DEF Blockers
<1>3. /\ \A y \in (db \ del[r]) \cup ins[r] : ~Clash(n, y)
      /\ \A y \in ins[r] : ~Clash(y, n)
  BY ClashSymmetric DEF Violates
<1>4. \A q \in Requests \ {r} : ins'[q] = ins[q]
  OBVIOUS
<1>5. \A p, q \in Requests : p # q => \A x \in ins'[p], y \in ins'[q] : ~Clash(x, y)
  BY <1>2, <1>4 DEF Apart
<1>6. \A q \in Requests : \A x \in ins'[q], y \in db' \ del'[q] : ~Clash(x, y)
  BY <1>3, <1>4 DEF Apart
<1>7. \A q \in Requests : \A x, y \in ins'[q] : Clash(x, y) => x = y
  BY <1>3, <1>4 DEF Apart
<1>8. OneOwner'
  BY DEF Apart, OneOwner
<1> QED BY <1>1, <1>5, <1>6, <1>7, <1>8 DEF Apart

\* An INSERT of one row, as long as it fits the request.
LEMMA InsertStep ==
  ASSUME IInv, NEW r \in Requests, NEW next, Insert(r, next),
         pc[r] \notin {"new", "done"},
         NEW n, NewRows(r) = {n}, n.table \in Tables,
         Moves(r) /\ ins'[r] = ins[r] \cup {n} /\ pc'[r] = next
           /\ UNCHANGED <<db, granted, del, req, who>> => Requesting(r)'
  PROVE  IInv'
<1>1. CASE Violates(r)
  BY <1>1, EndStep DEF Insert
<1>2. CASE ~Violates(r)
  <2>1. /\ Moves(r) /\ ins'[r] = ins[r] \cup {n} /\ pc'[r] = next
        /\ UNCHANGED <<db, granted, del, req, who>> /\ Blockers(r) = {}
    BY <1>2 DEF Insert, Goto, Moves, IInv, Typed
  <2>2. who'[r] \in UserIds \cup {r, NoOne} /\ req'[r] \in Inputs \cup {NoOne}
    BY <2>1 DEF IInv, Stored, TypeOK
  <2>3. Apart' /\ Typed'
    BY <1>2, <2>1, InsertApart
  <2>4. Stored'
    BY <2>1, <2>2, StoredStays
  <2> QED BY <2>1, <2>3, <2>4, OthersStay DEF IInv
<1> QED BY <1>1, <1>2

\* Reaching a statement without writing.
LEMMA StepStays ==
  ASSUME IInv, NEW r \in Requests, Moves(r), UNCHANGED <<db, granted>>,
         ins'[r] = ins[r], del[r] \subseteq del'[r],
         who'[r] \in UserIds \cup {r, NoOne}, req'[r] \in Inputs \cup {NoOne},
         Requesting(r)'
  PROVE  IInv'
BY StoredStays, ApartStays, OthersStay DEF IInv

\* What the functions of the rows depend on.
LEMMA SameRows ==
  ASSUME NEW r, req'[r] = req[r], who'[r] = who[r]
  PROVE  /\ CreateUserRow(r)' = CreateUserRow(r) /\ CreateOidcIdentityRow(r)' = CreateOidcIdentityRow(r)
         /\ CreateUserSessionRow(r)' = CreateUserSessionRow(r)
         /\ UpdateUserInfoRow(r)' = UpdateUserInfoRow(r) /\ AddSSHKeyRow(r)' = AddSSHKeyRow(r)
BY DEF CreateUserRow, CreateOidcIdentityRow, CreateUserSessionRow, UpdateUserInfoRow, AddSSHKeyRow, Username

\* The first login of an identity inserts its user.
LEMMA CreateUserStep ==
  ASSUME IInv, NEW r \in Requests, CreateUser(r)
  PROVE  IInv'
<1> USE DEF CreateUser
<1>1. NewRows(r) = {CreateUserRow(r)} /\ CreateUserRow(r).table \in Tables
  BY DEF NewRows, CreateUserRow, UserRow, Tables
<1>2. ASSUME Moves(r), ins'[r] = ins[r] \cup {CreateUserRow(r)}, pc'[r] = "createIdentity",
             UNCHANGED <<db, granted, del, req, who>>
      PROVE  Requesting(r)'
  <2>1. req[r].op = "oidc" /\ who[r] = r /\ req[r] \in Inputs /\ del[r] = {}
    BY DEF IInv, Requesting, Ordered
  <2>2. Wrote(r)' /\ Deleted(r)' /\ Ordered(r)'
    BY <1>2, <2>1, SameRows DEF IInv, Requesting, Wrote, Deleted, Ordered
  <2>3. Knows(r)' /\ Carries(r)'
    BY <1>2, <2>1 DEF Knows, Carries, NewUser, LoginOps
  <2> QED BY <2>2, <2>3 DEF Requesting
<1> QED BY <1>1, <1>2, InsertStep

\* Then the identity, in the same transaction.
LEMMA CreateOidcIdentityStep ==
  ASSUME IInv, NEW r \in Requests, CreateOidcIdentity(r)
  PROVE  IInv'
<1> USE DEF CreateOidcIdentity
<1>1. NewRows(r) = {CreateOidcIdentityRow(r)} /\ CreateOidcIdentityRow(r).table \in Tables
  BY DEF NewRows, CreateOidcIdentityRow, IdentityRow, Tables
<1>2. ASSUME Moves(r), ins'[r] = ins[r] \cup {CreateOidcIdentityRow(r)}, pc'[r] = "createSession",
             UNCHANGED <<db, granted, del, req, who>>
      PROVE  Requesting(r)'
  <2>1. /\ req[r].op = "oidc" /\ who[r] = r /\ req[r] \in Inputs /\ del[r] = {}
        /\ CreateUserRow(r) \in ins[r]
    BY DEF IInv, Requesting, Ordered
  <2>2. Wrote(r)' /\ Deleted(r)' /\ Ordered(r)'
    BY <1>2, <2>1, SameRows DEF IInv, Requesting, Wrote, Deleted, Ordered, LoginOps
  <2>3. Knows(r)' /\ Carries(r)'
    BY <1>2, <2>1, SameRows DEF Knows, Carries, NewUser, LoginOps
  <2> QED BY <2>2, <2>3 DEF Requesting
<1> QED BY <1>1, <1>2, InsertStep

\* Each login ends with a session of its user.
LEMMA CreateUserSessionStep ==
  ASSUME IInv, NEW r \in Requests, CreateUserSession(r)
  PROVE  IInv'
<1> USE DEF CreateUserSession
<1>1. NewRows(r) = {CreateUserSessionRow(r)} /\ CreateUserSessionRow(r).table \in Tables
  BY DEF NewRows, CreateUserSessionRow, SessionRow, Tables
<1>2. ASSUME Moves(r), ins'[r] = ins[r] \cup {CreateUserSessionRow(r)}, pc'[r] = "commit",
             UNCHANGED <<db, granted, del, req, who>>
      PROVE  Requesting(r)'
  <2>1. req[r].op \in LoginOps /\ req[r] \in Inputs /\ del[r] = {}
    BY DEF IInv, Requesting, Ordered
  <2>2. Wrote(r)' /\ Deleted(r)' /\ Ordered(r)'
    BY <1>2, <2>1, SameRows DEF IInv, Requesting, Wrote, Deleted, Ordered, LoginOps
  <2>3. Identities' = Identities /\ UserIds' = UserIds
    BY <1>2 DEF Of, Identities, UserIds
  <2>4. Knows(r)'
    BY <1>2, <2>1, <2>3, SameRows DEF IInv, Requesting, Knows, NewUser
  <2>5. Carries(r)'
    BY <1>2, <2>1 DEF Carries
  <2> QED BY <2>2, <2>4, <2>5 DEF Requesting
<1> QED BY <1>1, <1>2, InsertStep

\* The second half of an UPDATE writes the row that was locked.
LEMMA WriteUserProfileStep ==
  ASSUME IInv, NEW r \in Requests, WriteUserProfile(r)
  PROVE  IInv'
<1> USE DEF WriteUserProfile
<1>1. NewRows(r) = {UpdateUserInfoRow(r)} /\ UpdateUserInfoRow(r).table \in Tables
  BY DEF NewRows, UpdateUserInfoRow, UserRow, Tables
<1>2. ASSUME Moves(r), ins'[r] = ins[r] \cup {UpdateUserInfoRow(r)}, pc'[r] = "commit",
             UNCHANGED <<db, granted, del, req, who>>
      PROVE  Requesting(r)'
  <2>1. req[r].op = "edit" /\ req[r] \in Inputs
    BY DEF IInv, Requesting, Ordered
  <2>2. Wrote(r)' /\ Deleted(r)' /\ Ordered(r)'
    BY <1>2, <2>1, SameRows DEF IInv, Requesting, Wrote, Deleted, Ordered, LoginOps
  <2>3. UserIds' = UserIds
    BY <1>2 DEF Of, UserIds
  <2>4. Knows(r)'
    BY <1>2, <2>1 DEF Knows, NewUser
  <2>5. Carries(r)'
    BY <1>2, <2>1, <2>3 DEF IInv, Requesting, Carries
  <2> QED BY <2>2, <2>4, <2>5 DEF Requesting
<1> QED BY <1>1, <1>2, InsertStep

\* A key is inserted for the user of the session.
LEMMA AddSSHKeyStep ==
  ASSUME IInv, NEW r \in Requests, AddSSHKey(r)
  PROVE  IInv'
<1> USE DEF AddSSHKey
<1>1. NewRows(r) = {AddSSHKeyRow(r)} /\ AddSSHKeyRow(r).table \in Tables
  BY DEF NewRows, AddSSHKeyRow, KeyRow, Tables
<1>2. ASSUME Moves(r), ins'[r] = ins[r] \cup {AddSSHKeyRow(r)}, pc'[r] = "commit",
             UNCHANGED <<db, granted, del, req, who>>
      PROVE  Requesting(r)'
  <2>1. req[r].op = "addKey" /\ req[r] \in Inputs
    BY DEF IInv, Requesting, Ordered
  <2>2. Wrote(r)' /\ Deleted(r)' /\ Ordered(r)'
    BY <1>2, <2>1, SameRows DEF IInv, Requesting, Wrote, Deleted, Ordered, LoginOps
  <2>3. UserIds' = UserIds
    BY <1>2 DEF Of, UserIds
  <2>4. Knows(r)'
    BY <1>2, <2>1 DEF Knows, NewUser
  <2>5. Carries(r)'
    BY <1>2, <2>1, <2>3 DEF IInv, Requesting, Carries
  <2> QED BY <2>2, <2>4, <2>5 DEF Requesting
<1> QED BY <1>1, <1>2, InsertStep

\* A DELETE, as long as the rows fit the request.
LEMMA DeleteStep ==
  ASSUME IInv, NEW r \in Requests, NEW next, Delete(r, next),
         pc[r] \notin {"new", "done"},
         pc[r] # "new" /\ req'[r] = req[r] /\ who'[r] = who[r] /\ ins'[r] = ins[r]
           /\ del'[r] = del[r] \cup OldRows(r) /\ pc'[r] = next
           /\ UNCHANGED <<db, granted>> => Requesting(r)'
  PROVE  IInv'
<1>1. /\ Moves(r) /\ ins'[r] = ins[r] /\ del'[r] = del[r] \cup OldRows(r) /\ pc'[r] = next
      /\ UNCHANGED <<db, granted, req, who>>
  BY DEF Delete, Goto, Moves, IInv, Typed
<1>2. who'[r] \in UserIds \cup {r, NoOne} /\ req'[r] \in Inputs \cup {NoOne}
  BY <1>1 DEF IInv, Stored, TypeOK
<1> QED BY <1>1, <1>2, StepStays

\* A logout deletes sessions only.
LEMMA LogoutStep ==
  ASSUME IInv, NEW r \in Requests, Logout(r)
  PROVE  IInv'
<1> USE DEF Logout
<1>1. ASSUME req'[r] = req[r], who'[r] = who[r], ins'[r] = ins[r],
             del'[r] = del[r] \cup OldRows(r), pc'[r] = "commit", UNCHANGED <<db, granted>>
      PROVE  Requesting(r)'
  <2>1. req[r].op = "logout" /\ req[r] \in Inputs
    BY DEF IInv, Requesting, Ordered
  <2>2. \A x \in OldRows(r) : x.table = "sessions"
    BY DEF OldRows, DeleteUserSessionRows, Of
  <2>3. Wrote(r)' /\ Deleted(r)' /\ Ordered(r)'
    BY <1>1, <2>1, <2>2, SameRows DEF IInv, Requesting, Wrote, Deleted, Ordered
  <2>4. Knows(r)' /\ Carries(r)'
    BY <1>1, <2>1 DEF Knows, Carries, NewUser
  <2> QED BY <2>3, <2>4 DEF Requesting
<1> QED BY <1>1, DeleteStep

\* The first half of an UPDATE locks the row of the user.
LEMMA EditUserProfileStep ==
  ASSUME IInv, NEW r \in Requests, EditUserProfile(r)
  PROVE  IInv'
<1> USE DEF EditUserProfile
<1>1. ASSUME req'[r] = req[r], who'[r] = who[r], ins'[r] = ins[r],
             del'[r] = del[r] \cup OldRows(r), pc'[r] = "writeUser", UNCHANGED <<db, granted>>
      PROVE  Requesting(r)'
  <2>1. req[r].op = "edit" /\ req[r] \in Inputs
    BY DEF IInv, Requesting, Ordered
  <2>2. \A x \in OldRows(r) : x.table = "users" /\ x.id = who[r]
    BY DEF OldRows, Of
  <2>3. Wrote(r)' /\ Deleted(r)' /\ Ordered(r)'
    BY <1>1, <2>1, <2>2, SameRows DEF IInv, Requesting, Wrote, Deleted, Ordered
  <2>4. Knows(r)'
    BY <1>1, <2>1 DEF Knows, NewUser
  <2>5. UserIds' = UserIds
    BY <1>1 DEF Of, UserIds
  <2>6. Carries(r)'
    BY <1>1, <2>1, <2>5 DEF IInv, Requesting, Carries
  <2> QED BY <2>3, <2>4, <2>6 DEF Requesting
<1> QED BY <1>1, DeleteStep

\* Only keys of the user of the session are deleted.
LEMMA RemoveSSHKeyStep ==
  ASSUME IInv, NEW r \in Requests, RemoveSSHKey(r)
  PROVE  IInv'
<1> USE DEF RemoveSSHKey
<1>1. ASSUME req'[r] = req[r], who'[r] = who[r], ins'[r] = ins[r],
             del'[r] = del[r] \cup OldRows(r), pc'[r] = "commit", UNCHANGED <<db, granted>>
      PROVE  Requesting(r)'
  <2>1. req[r].op = "removeKey" /\ req[r] \in Inputs
    BY DEF IInv, Requesting, Ordered
  <2>2. \A x \in OldRows(r) : x.table = "keys" /\ x.user = who[r]
    BY DEF OldRows, DeleteUserScopedSSHKeyRows, Of
  <2>3. Wrote(r)' /\ Deleted(r)' /\ Ordered(r)'
    BY <1>1, <2>1, <2>2, SameRows DEF IInv, Requesting, Wrote, Deleted, Ordered
  <2>4. Knows(r)'
    BY <1>1, <2>1 DEF Knows, NewUser
  <2>5. UserIds' = UserIds
    BY <1>1 DEF Of, UserIds
  <2>6. Carries(r)'
    BY <1>1, <2>1, <2>5 DEF IInv, Requesting, Carries
  <2> QED BY <2>3, <2>4, <2>6 DEF Requesting
<1> QED BY <1>1, DeleteStep

-----------------------------------------------------------------------------
(* The first step of a request *)

\* Nothing is written yet.
LEMMA BeginStep ==
  ASSUME IInv, NEW r \in Requests, pc[r] = "new", Moves(r),
         UNCHANGED <<db, ins, del, granted>>,
         req'[r] \in Inputs, who'[r] \in UserIds \cup {r, NoOne}, Ordered(r)', Knows(r)', Carries(r)'
  PROVE  IInv'
<1>1. ins[r] = {} /\ del[r] = {}
  BY DEF IInv, Requesting, Ordered
<1>2. Wrote(r)' /\ Deleted(r)'
  BY <1>1 DEF Wrote, Deleted
<1> QED BY <1>1, <1>2, StepStays DEF Requesting

\* A request with a cookie acts for the user of a session, or for nobody.
LEMMA ArriveStep ==
  ASSUME IInv, NEW r \in Requests, NEW q \in Inputs, Arrive(r, q)
  PROVE  IInv'
<1> DEFINE found == GetSessionDataByTokenHash(q.cookie)
<1>1. /\ Moves(r) /\ pc[r] = "new" /\ q.op \notin LoginOps /\ req'[r] = q
      /\ UNCHANGED <<db, ins, del, granted>>
      /\ who'[r] = IF found = {} THEN NoOne ELSE CHOOSE u \in found : TRUE
      /\ pc'[r] = IF found = {} /\ q.op # "logout"
                    THEN "done"
                    ELSE CASE q.op = "logout" -> "deleteSession"
                           [] q.op = "edit" -> "lockUser"
                           [] q.op = "addKey" -> "addKey"
                           [] q.op = "removeKey" -> "removeKey"
  <2> DEFINE next == IF found = {} /\ q.op # "logout"
                       THEN "done"
                       ELSE CASE q.op = "logout" -> "deleteSession"
                              [] q.op = "edit" -> "lockUser"
                              [] q.op = "addKey" -> "addKey"
                              [] q.op = "removeKey" -> "removeKey"
             user == IF found = {} THEN NoOne ELSE CHOOSE u \in found : TRUE
  <2>1. /\ pc[r] = "new" /\ q.op \notin LoginOps /\ req' = [req EXCEPT ![r] = q]
        /\ UNCHANGED <<db, ins, del, granted>>
        /\ who' = [who EXCEPT ![r] = user] /\ pc' = [pc EXCEPT ![r] = next]
    BY DEF Arrive, Goto
  <2> HIDE DEF next, user
  <2>2. /\ Moves(r) /\ pc[r] = "new" /\ q.op \notin LoginOps /\ req'[r] = q
        /\ UNCHANGED <<db, ins, del, granted>>
        /\ who'[r] = user /\ pc'[r] = next
    BY <2>1 DEF Moves, IInv, Typed
  <2> QED BY <2>2 DEF next, user
<1>2. q.op \in {"logout", "edit", "addKey", "removeKey"}
  BY <1>1, AccountsAssumption DEF Ops, LoginOps
<1>3. UserIds' = UserIds
  BY <1>1 DEF Of, UserIds
<1>4. found # {} => who'[r] \in found
  BY <1>1
<1>5. \A u \in found : u \in UserIds /\ \E s \in granted : s.token = q.cookie /\ s.user = u
  BY DEF GetSessionDataByTokenHash, IInv, Stored, TypeOK, Of
<1>6. ins[r] = {} /\ del[r] = {}
  BY <1>1 DEF IInv, Requesting, Ordered
<1> HIDE DEF found
<1>7. Ordered(r)'
  BY <1>1, <1>2, <1>6 DEF Ordered
<1>8. Knows(r)'
  BY <1>1, <1>2 DEF Knows, NewUser
<1>9. pc'[r] # "done" /\ q.op # "logout" => found # {}
  BY <1>1
<1>10. Carries(r)'
  BY <1>1, <1>3, <1>4, <1>5, <1>9 DEF Carries, LoginOps
<1>11. who'[r] \in UserIds \cup {r, NoOne}
  BY <1>1, <1>4, <1>5
<1> QED BY <1>1, <1>7, <1>8, <1>10, <1>11, BeginStep

\* A local login goes on for the user who has the password.
LEMMA LocalLoginStep ==
  ASSUME IInv, NEW r \in Requests, NEW q \in Inputs, LocalLogin(r, q)
  PROVE  IInv'
<1> DEFINE found == {u \in GetUserByUsername(q.name) : VerifyPassword(u, q.password)}
<1>1. /\ Moves(r) /\ pc[r] = "new" /\ q.op = "local" /\ req'[r] = q
      /\ UNCHANGED <<db, ins, del, granted>>
      /\ IF found = {} THEN pc'[r] = "done" /\ who'[r] = who[r]
                       ELSE pc'[r] = "createSession" /\ who'[r] = CHOOSE u \in found : TRUE
  BY DEF LocalLogin, Goto, Moves, IInv, Typed
<1>2. UserIds' = UserIds
  BY <1>1 DEF Of, UserIds
<1>3. found # {} => who'[r] \in found
  BY <1>1
<1>4. \A u \in found : u \in UserIds /\ Password[u] = q.password
  BY DEF GetUserByUsername, VerifyPassword, UserIds, Of
<1>5. ins[r] = {} /\ del[r] = {}
  BY <1>1 DEF IInv, Requesting, Ordered
<1> HIDE DEF found
<1>6. Ordered(r)'
  BY <1>1, <1>5 DEF Ordered, LoginOps
<1>7. Knows(r)'
  BY <1>1, <1>2, <1>3, <1>4 DEF Knows, NewUser
<1>8. Carries(r)'
  BY <1>1 DEF Carries, LoginOps
<1>9. who'[r] \in UserIds \cup {r, NoOne}
  BY <1>1, <1>3, <1>4 DEF IInv, Stored, TypeOK
<1> QED BY <1>1, <1>6, <1>7, <1>8, <1>9, BeginStep

\* An OIDC login goes on for the user of the identity, or a new one.
LEMMA HandleCallbackStep ==
  ASSUME IInv, NEW r \in Requests, NEW q \in Inputs, HandleCallback(r, q)
  PROVE  IInv'
<1> DEFINE found == GetUserByOidc(q.subject)
<1>1. /\ Moves(r) /\ pc[r] = "new" /\ q.op = "oidc" /\ req'[r] = q
      /\ UNCHANGED <<db, ins, del, granted>>
      /\ \/ found # {} /\ pc'[r] = "createSession" /\ who'[r] = CHOOSE u \in found : TRUE
         \/ pc'[r] = "createUser" /\ who'[r] = r
         \/ pc'[r] = "done" /\ who'[r] = who[r]
  BY DEF HandleCallback, Goto, Moves, IInv, Typed
<1>2. Identities' = Identities
  BY <1>1 DEF Of, Identities
<1>3. pc'[r] = "createSession" => who'[r] \in found
  BY <1>1
<1>4. \A u \in found : /\ u \in UserIds /\ u # r
                       /\ \E x \in Identities : x.subject = q.subject /\ x.user = u
  BY <1>1 DEF GetUserByOidc, Identities, IInv, Stored, TypeOK, Later, Of, UserIds
<1>5. ins[r] = {} /\ del[r] = {}
  BY <1>1 DEF IInv, Requesting, Ordered
<1> HIDE DEF found
<1>6. Ordered(r)'
  BY <1>1, <1>5 DEF Ordered, LoginOps
<1>7. Knows(r)'
  BY <1>1, <1>2, <1>3, <1>4 DEF Knows, NewUser
<1>8. Carries(r)'
  BY <1>1 DEF Carries, LoginOps
<1>9. who'[r] \in UserIds \cup {r, NoOne}
  BY <1>1, <1>3, <1>4 DEF IInv, Stored, TypeOK
<1> QED BY <1>1, <1>6, <1>7, <1>8, <1>9, BeginStep

-----------------------------------------------------------------------------
(* COMMIT *)

\* What a request commits.
LEMMA CommittedRows ==
  ASSUME IInv, NEW r \in Requests, pc[r] = "commit"
  PROVE  /\ \A x \in ins[r] :
              /\ x.table = "users" =>
                   \/ NewUser(r) /\ x.id = r
                   \/ req[r].op = "edit" /\ x.id = who[r] /\ who[r] \in UserIds
              /\ x.table = "identities" =>
                   NewUser(r) /\ x.user = r /\ x.subject = req[r].subject
              /\ x.table = "sessions" => req[r].op \in LoginOps /\ x.token = r /\ x.user = who[r]
              /\ x.table = "keys" => req[r].op = "addKey" /\ x.user = who[r]
         /\ NewUser(r) =>
              /\ \E x \in ins[r] : x.table = "users" /\ x.id = r
              /\ \E x \in ins[r] : /\ x.table = "identities" /\ x.user = r
                                   /\ x.subject = req[r].subject
         /\ who[r] \in UserIds \/ NewUser(r) \/ req[r].op = "logout"
<1> USE DEF IInv, Requesting
<1>0. req[r].op \in Ops
  BY AccountsAssumption DEF Ordered
<1>1. req[r].op \notin LoginOps \cup {"logout"} => who[r] \in UserIds
  BY DEF Carries
<1>2. \A x \in Identities : x.user \in UserIds
  BY DEF Stored, TypeOK, Identities, Of
<1>3. req[r].op \in LoginOps => who[r] \in UserIds \/ NewUser(r)
  BY <1>2 DEF Knows, LoginOps, NewUser
<1>4. NewUser(r) => CreateUserRow(r) \in ins[r] /\ CreateOidcIdentityRow(r) \in ins[r]
  BY DEF Knows
<1> USE DEF CreateUserRow, CreateOidcIdentityRow, CreateUserSessionRow, UpdateUserInfoRow, AddSSHKeyRow,
            UserRow, IdentityRow, SessionRow, KeyRow
<1>5. NewUser(r) =>
        /\ \E x \in ins[r] : x.table = "users" /\ x.id = r
        /\ \E x \in ins[r] : x.table = "identities" /\ x.user = r /\ x.subject = req[r].subject
  BY <1>4 DEF NewUser
<1>6. ASSUME NEW x \in ins[r]
      PROVE  /\ x.table = "users" =>
                   \/ NewUser(r) /\ x.id = r
                   \/ req[r].op = "edit" /\ x.id = who[r] /\ who[r] \in UserIds
             /\ x.table = "identities" =>
                   NewUser(r) /\ x.user = r /\ x.subject = req[r].subject
             /\ x.table = "sessions" => req[r].op \in LoginOps /\ x.token = r /\ x.user = who[r]
             /\ x.table = "keys" => req[r].op = "addKey" /\ x.user = who[r]
  <2>1. CASE req[r].op = "oidc" /\ who[r] = r /\ x = CreateUserRow(r)
    BY <2>1 DEF NewUser
  <2>2. CASE req[r].op = "oidc" /\ who[r] = r /\ x = CreateOidcIdentityRow(r)
    BY <2>2 DEF NewUser
  <2>3. CASE req[r].op \in LoginOps /\ x = CreateUserSessionRow(r)
    BY <2>3
  <2>4. CASE req[r].op = "edit" /\ x = UpdateUserInfoRow(r)
    BY <2>4, <1>1 DEF LoginOps
  <2>5. CASE req[r].op = "addKey" /\ x = AddSSHKeyRow(r)
    BY <2>5
  <2> QED BY <2>1, <2>2, <2>3, <2>4, <2>5 DEF Wrote
<1> QED BY <1>0, <1>1, <1>3, <1>5, <1>6 DEF Ops, LoginOps

\* What it removes: no identity, and a user only to write the same user again.
LEMMA RemovedRows ==
  ASSUME IInv, NEW r \in Requests, pc[r] = "commit", NEW x \in del[r]
  PROVE  /\ x.table # "identities"
         /\ x.table = "users" => /\ req[r].op = "edit" /\ x.id = who[r]
                                 /\ \E y \in ins[r] : y.table = "users" /\ y.id = x.id
         /\ x.table = "keys" => req[r].op = "removeKey" /\ x.user = who[r]
<1> USE DEF IInv, Requesting
<1>1. CASE req[r].op = "edit" /\ x.table = "users" /\ x.id = who[r]
  <2>1. UpdateUserInfoRow(r) \in ins[r]
    BY <1>1 DEF Ordered
  <2> QED BY <1>1, <2>1 DEF UpdateUserInfoRow, UserRow
<1>2. CASE req[r].op = "removeKey" /\ x.table = "keys" /\ x.user = who[r]
  BY <1>2
<1>3. CASE req[r].op = "logout" /\ x.table = "sessions"
  BY <1>3
<1> QED BY <1>1, <1>2, <1>3 DEF Deleted

\* COMMIT makes the rows of one request visible, all at once.
LEMMA CommitStep ==
  ASSUME IInv, NEW r \in Requests, Commit(r)
  PROVE  IInv'
<1>1. /\ db' = (db \ del[r]) \cup ins[r] /\ pc[r] = "commit"
      /\ granted' = granted \cup {x \in ins[r] : x.table = "sessions"}
      /\ req' = req /\ who' = who
      /\ pc' = [pc EXCEPT ![r] = "done"]
      /\ ins' = [ins EXCEPT ![r] = {}] /\ del' = [del EXCEPT ![r] = {}]
  BY DEF Commit, End, Goto
<1>2. /\ pc'[r] = "done" /\ ins'[r] = {} /\ del'[r] = {}
      /\ \A q \in Requests \ {r} : pc'[q] = pc[q] /\ ins'[q] = ins[q] /\ del'[q] = del[q]
  BY <1>1 DEF IInv, Typed
<1>3. Typed'
  BY <1>1 DEF IInv, Typed
<1>4. Apart'
  <2>1. \A p, q \in Requests : p # q => \A x \in ins'[p], y \in ins'[q] : ~Clash(x, y)
    BY <1>2 DEF IInv, Apart
  <2>2. \A q \in Requests : \A x \in ins'[q], y \in db' \ del'[q] : ~Clash(x, y)
    BY <1>1, <1>2 DEF IInv, Apart
  <2>3. \A q \in Requests : \A x, y \in ins'[q] : Clash(x, y) => x = y
    BY <1>2 DEF IInv, Apart
  <2>4. ASSUME NEW x \in db', NEW y \in db', Clash(x, y) PROVE x = y
    <3>1. x.table \in Tables
      BY <1>1 DEF IInv, Typed
    <3>2. Clash(y, x)
      BY <2>4, <3>1, ClashSymmetric
    <3> QED BY <1>1, <2>4, <3>2 DEF IInv, Apart, OneOwner
  <2> QED BY <2>1, <2>2, <2>3, <2>4 DEF Apart, OneOwner
<1>5. \A x \in db : x.table = "identities" => x \in db'
  BY <1>1, RemovedRows
<1>6. UserIds \subseteq UserIds'
  BY <1>1, RemovedRows DEF UserIds, Of
<1>7. Identities \subseteq Identities' /\ granted \subseteq granted'
  BY <1>1, <1>5 DEF Identities, Of
<1>8. ASSUME NEW q \in Requests PROVE Requesting(q)'
  <2>1. CASE q = r
    <3>1. req[r] \in Inputs
      BY <1>1 DEF IInv, Requesting, Ordered
    <3> QED BY <1>1, <1>2, <2>1, <3>1 DEF Requesting, Wrote, Deleted, Ordered, Knows, Carries
  <2>2. CASE q # r
    <3>1. pc'[q] = pc[q] /\ ins'[q] = ins[q] /\ del'[q] = del[q] /\ req'[q] = req[q] /\ who'[q] = who[q]
      BY <1>1, <1>2, <2>2
    <3>2. Wrote(q)' /\ Deleted(q)' /\ Ordered(q)'
      BY <3>1, SameRows DEF IInv, Requesting, Wrote, Deleted, Ordered
    <3>3. Knows(q)'
      BY <1>6, <1>7, <3>1, SameRows DEF IInv, Requesting, Knows, NewUser
    <3>4. Carries(q)'
      BY <1>6, <1>7, <3>1 DEF IInv, Requesting, Carries
    <3> QED BY <3>2, <3>3, <3>4 DEF Requesting
  <2> QED BY <2>1, <2>2
<1>9. NewUser(r) => r \in UserIds'
  BY <1>1, CommittedRows DEF UserIds, Of
<1>10. TypeOK'
  <2>1. \A x \in db' : x.table # "users" => x.user \in UserIds'
    <3>1. ASSUME NEW x \in ins[r], x.table # "users" PROVE x.user \in UserIds'
      <4>1. x.table \in {"identities", "sessions", "keys"}
        BY <3>1 DEF IInv, Typed, Tables
      <4> QED BY <1>1, <1>6, <1>9, <3>1, <4>1, CommittedRows DEF NewUser, LoginOps
    <3> QED BY <1>1, <1>6, <3>1 DEF IInv, Stored, TypeOK
  <2> QED BY <1>1, <1>6, <2>1 DEF IInv, Stored, TypeOK
<1>11. (Of("sessions") \subseteq granted)'
  BY <1>1 DEF IInv, Stored, Of
<1>12. Later'
  <2>1. ASSUME NEW x \in db', x.table = "users", x.id \in Requests PROVE pc'[x.id] = "done"
    <3>1. CASE x.id = r
      BY <1>2, <3>1
    <3>2. CASE x.id # r
      <4>1. x.id \in UserIds
        BY <1>1, <2>1, <3>2, CommittedRows DEF UserIds, Of
      <4> QED BY <1>2, <2>1, <3>2, <4>1 DEF IInv, Stored, Later, UserIds
    <3> QED BY <3>1, <3>2
  <2>2. ASSUME NEW s \in granted', s.token \in Requests PROVE pc'[s.token] = "done"
    BY <1>1, <1>2, <2>2, CommittedRows DEF IInv, Stored, Later
  <2> QED BY <2>1, <2>2 DEF Later, Of
<1>13. OneIdentity'
  <2>1. NewUser(r) => \A x \in Identities : x.user # r
    BY <1>1 DEF IInv, Stored, TypeOK, Later, Identities, Of, UserIds
  <2>2. ASSUME NEW x \in Identities', NEW y \in Identities', x.user = y.user PROVE x = y
    <3>1. x \in Identities \/ (x \in ins[r] /\ x.table = "identities")
      BY <1>1 DEF Identities, Of
    <3>2. y \in Identities \/ (y \in ins[r] /\ y.table = "identities")
      BY <1>1 DEF Identities, Of
    <3>3. CASE x \in ins[r] /\ y \in ins[r] /\ x.table = "identities" /\ y.table = "identities"
      <4>1. x.subject = y.subject
        BY <1>1, <3>3, CommittedRows
      <4>2. Clash(x, y)
        BY <3>3, <4>1 DEF Clash
      <4> QED BY <3>3, <4>2 DEF IInv, Apart
    <3> QED BY <1>1, <2>1, <2>2, <3>1, <3>2, <3>3, CommittedRows DEF IInv, Stored, OneIdentity
  <2> QED BY <2>2 DEF OneIdentity
<1>14. Granted'
  <2> SUFFICES ASSUME NEW s \in granted', s.token \in Requests
               PROVE  IF req[s.token].op = "local"
                        THEN Password[s.user] = req[s.token].password
                        ELSE \E x \in Identities' : x.subject = req[s.token].subject /\ x.user = s.user
    BY <1>1 DEF Granted
  <2>1. CASE s \in granted
    BY <1>7, <2>1 DEF IInv, Stored, Granted
  <2>2. CASE s \notin granted
    <3>1. s.token = r /\ s.user = who[r] /\ req[r].op \in LoginOps
      BY <1>1, <2>2, CommittedRows
    <3>2. CASE req[r].op = "local"
      BY <1>1, <3>1, <3>2 DEF IInv, Requesting, Knows
    <3>3. CASE req[r].op = "oidc" /\ NewUser(r)
      <4>1. PICK x \in ins[r] : x.table = "identities" /\ x.user = r /\ x.subject = req[r].subject
        BY <1>1, <3>3, CommittedRows
      <4> QED BY <1>1, <3>1, <3>3, <4>1 DEF NewUser, Identities, Of
    <3>4. CASE req[r].op = "oidc" /\ ~NewUser(r)
      BY <1>1, <1>7, <3>1, <3>4 DEF IInv, Requesting, Knows, NewUser
    <3> QED BY <3>1, <3>2, <3>3, <3>4 DEF LoginOps
  <2> QED BY <2>1, <2>2
<1>15. EveryUserCanLogIn'
  <2> SUFFICES ASSUME NEW u \in UserIds', Password[u] = ""
               PROVE  \E x \in Identities' : x.user = u
    BY DEF EveryUserCanLogIn, Identities
  <2>1. CASE u \in UserIds
    BY <1>7, <2>1 DEF IInv, Stored, EveryUserCanLogIn, Identities
  <2>2. CASE u \notin UserIds
    <3>1. PICK y \in db' : y.table = "users" /\ y.id = u
      BY DEF UserIds, Of
    <3>2. y \in ins[r]
      BY <1>1, <2>2, <3>1 DEF UserIds, Of
    <3>3. NewUser(r) /\ u = r
      BY <1>1, <2>2, <3>1, <3>2, CommittedRows
    <3>4. PICK x \in ins[r] :
            x.table = "identities" /\ x.user = r /\ x.subject = req[r].subject
      BY <1>1, <3>3, CommittedRows
    <3> QED BY <1>1, <3>3, <3>4 DEF Identities, Of
  <2> QED BY <2>1, <2>2
<1> QED BY <1>3, <1>4, <1>8, <1>10, <1>11, <1>12, <1>13, <1>14, <1>15 DEF IInv, Stored

-----------------------------------------------------------------------------
(* The invariant *)

\* The first rows satisfy the invariant.
LEMMA InvInit == Init => IInv
<1> SUFFICES ASSUME Init PROVE IInv
  OBVIOUS
<1> USE DEF Init
<1>1. Typed
  BY InitialRowsAssumption DEF Typed
<1>2. Apart
  BY InitialRowsAssumption DEF Apart, OneOwner
<1>3. UserIds = {x.id : x \in {y \in InitialRows : y.table = "users"}}
  BY DEF UserIds, Of
<1>4. TypeOK
  BY <1>3, InitialRowsAssumption DEF TypeOK
<1>5. Of("sessions") \subseteq granted
  BY DEF Of
<1>6. Later /\ Granted
  BY InitialRowsAssumption DEF Later, Granted, Of
<1>7. OneIdentity
  BY InitialRowsAssumption DEF OneIdentity, Identities, Of
<1>8. EveryUserCanLogIn
  <2>1. ASSUME NEW u \in UserIds, Password[u] = "" PROVE \E x \in Of("identities") : x.user = u
    <3>1. PICK y \in InitialRows : y.table = "users" /\ y.id = u
      BY <1>3
    <3> QED BY <2>1, <3>1, InitialRowsAssumption DEF Of
  <2> QED BY <2>1 DEF EveryUserCanLogIn
<1>9. ASSUME NEW r \in Requests PROVE Requesting(r)
  BY DEF Requesting, Wrote, Deleted, Ordered, Knows, Carries
<1> QED BY <1>1, <1>2, <1>4, <1>5, <1>6, <1>7, <1>8, <1>9 DEF IInv, Stored

\* Every step keeps the invariant.
LEMMA InvStep == IInv /\ [Next]_vars => IInv'
<1> SUFFICES ASSUME IInv, [Next]_vars PROVE IInv'
  OBVIOUS
<1>1. ASSUME NEW r \in Requests, NEW q \in Inputs,
             Arrive(r, q) \/ LocalLogin(r, q) \/ HandleCallback(r, q)
      PROVE  IInv'
  BY <1>1, ArriveStep, LocalLoginStep, HandleCallbackStep
<1>2. ASSUME NEW r \in Requests, Work(r) PROVE IInv'
  <2>1. CASE BreakDeadlock(r)
    <3>1. pc[r] \notin {"new", "done"}
      BY <2>1 DEF BreakDeadlock, Blockers, NewRows, OldRows
    <3> QED BY <2>1, <3>1, EndStep DEF BreakDeadlock
  <2> QED BY <1>2, <2>1, LogoutStep, EditUserProfileStep, WriteUserProfileStep,
             AddSSHKeyStep, RemoveSSHKeyStep, CreateUserStep, CreateOidcIdentityStep,
             CreateUserSessionStep, CommitStep DEF Work
<1>3. ASSUME NEW r \in Requests, Abort(r) PROVE IInv'
  BY <1>3, EndStep DEF Abort
<1>4. CASE UNCHANGED vars
  <2>1. Typed' /\ Apart'
    BY <1>4 DEF vars, IInv, Typed, Apart, OneOwner
  <2>2. Stored'
    BY <1>4 DEF vars, IInv, Stored, TypeOK, UserIds, Of, Later, OneIdentity, Identities, Granted, EveryUserCanLogIn
  <2>3. ASSUME NEW r \in Requests PROVE Requesting(r)'
    <3>1. Wrote(r)' /\ Deleted(r)' /\ Ordered(r)'
      BY <1>4, SameRows DEF vars, IInv, Requesting, Wrote, Deleted, Ordered
    <3>2. Knows(r)' /\ Carries(r)'
      BY <1>4, SameRows DEF vars, IInv, Requesting, Knows, Carries, NewUser, Identities, UserIds, Of
    <3> QED BY <3>1, <3>2 DEF Requesting
  <2> QED BY <2>1, <2>2, <2>3 DEF IInv
<1> QED BY <1>1, <1>2, <1>3, <1>4 DEF Next

\* The invariant holds in every reachable state.
THEOREM Invariant == Spec => []IInv
BY InvInit, InvStep, PTL DEF Spec

-----------------------------------------------------------------------------
(* The properties *)

\* Sessions, identities and keys are of users there are, and requests act for
\* users there were or that they create.
THEOREM TypeCorrect == Spec => []TypeOK
<1>1. IInv => TypeOK
  BY DEF IInv, Stored
<1> QED BY <1>1, Invariant, PTL

\* However logins, renames and new keys race: a username, an e-mail address, an
\* identity and a key have one user each.
THEOREM OwnerCorrect == Spec => []OneOwner
<1>1. IInv => OneOwner
  BY DEF IInv, Apart
<1> QED BY <1>1, Invariant, PTL

\* Every session that a login has made is of the user who has the password or
\* the identity, also when two first logins of one identity race.
THEOREM CallerCorrect == Spec => []SessionIsOfCaller
<1>1. IInv => SessionIsOfCaller
  <2> SUFFICES ASSUME IInv, NEW r \in Requests, NEW s \in granted, s.token = r,
                      ~(req[r].op = "local"), NEW x \in Identities
               PROVE  x.subject = req[r].subject <=> x.user = s.user
    BY DEF IInv, Stored, Granted, SessionIsOfCaller, Identities
  <2>1. PICK y \in Identities : y.subject = req[r].subject /\ y.user = s.user
    BY DEF IInv, Stored, Granted
  <2>2. x.subject = y.subject => x = y
    BY DEF IInv, Apart, OneOwner, Clash, Identities, Of
  <2>3. x.user = y.user => x = y
    BY DEF IInv, Stored, OneIdentity
  <2> QED BY <2>1, <2>2, <2>3
<1> QED BY <1>1, Invariant, PTL

\* No first login leaves a user behind who has neither password nor identity.
THEOREM LogInCorrect == Spec => []EveryUserCanLogIn
<1>1. IInv => EveryUserCanLogIn
  BY DEF IInv, Stored
<1> QED BY <1>1, Invariant, PTL

\* Profiles and keys change only by the COMMIT of a request that came with a
\* session of their user.
THEOREM OwnerChanges == Spec => OnlyOwnerChanges
<1> DEFINE A == \A x \in (db \ db') \cup (db' \ db) :
       x.table = "keys" \/ (x.table = "users" /\ x.id \in UserIds) =>
         \E r \in Requests, s \in granted :
           /\ pc[r] = "commit" /\ pc'[r] = "done"
           /\ req[r].op \notin LoginOps /\ s.token = req[r].cookie
           /\ s.user = IF x.table = "keys" THEN x.user ELSE x.id
<1>1. IInv /\ [Next]_vars => [A]_vars
  <2> SUFFICES ASSUME IInv, Next PROVE A
    OBVIOUS
  <2>1. ASSUME NEW r \in Requests, Commit(r) PROVE A
    <3> SUFFICES ASSUME NEW x \in del[r] \cup ins[r],
                        x.table = "keys" \/ (x.table = "users" /\ x.id \in UserIds)
                 PROVE  /\ pc[r] = "commit" /\ pc'[r] = "done" /\ req[r].op \notin LoginOps
                        /\ \E s \in granted : s.token = req[r].cookie
                             /\ s.user = IF x.table = "keys" THEN x.user ELSE x.id
      BY <2>1 DEF Commit
    <3>1. pc[r] = "commit" /\ pc'[r] = "done"
      BY <2>1 DEF Commit, End, Goto, IInv, Typed
    <3>2. NewUser(r) => r \notin UserIds
      BY <3>1 DEF IInv, Stored, Later, UserIds
    <3>3. /\ req[r].op \in {"edit", "addKey", "removeKey"}
          /\ who[r] = IF x.table = "keys" THEN x.user ELSE x.id
      BY <3>1, <3>2, CommittedRows, RemovedRows
    <3> QED BY <3>1, <3>3 DEF IInv, Requesting, Carries, LoginOps
  <2>2. ASSUME UNCHANGED db PROVE A
    BY <2>2
  <2>3. UNCHANGED db \/ \E r \in Requests : Commit(r)
    BY DEF Next, Work, Arrive, LocalLogin, HandleCallback, Abort, Logout, EditUserProfile,
           WriteUserProfile, AddSSHKey, RemoveSSHKey, CreateUser, CreateOidcIdentity, CreateUserSession,
           BreakDeadlock, Insert, Delete, vars
  <2> QED BY <2>1, <2>2, <2>3
<1> QED BY <1>1, Invariant, PTL DEF Spec, OnlyOwnerChanges
=============================================================================
