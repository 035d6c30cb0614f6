----------------------------- MODULE MCAccounts -----------------------------
(* Values for the constants of Accounts. *)
EXTENDS Accounts, TLC

CONSTANTS alice, bob, r1, r2, r3

\* Two users with a session, one of them with a key and a password, and a
\* key of the other.
MCInitialRows ==
  {UserRow(alice, "a", "a@"), UserRow(bob, "b", "b@"),
   IdentityRow(bob, "sub_b"),
   SessionRow(alice, "cookie_a"), SessionRow(bob, "cookie_b"),
   KeyRow(alice, "key_a", "print_a")}

MCPassword == [u \in {alice, bob} \cup Requests |-> IF u = alice THEN "secret" ELSE ""]

\* Users who take each other's name, or a name that is free.
Edits ==
  {[op |-> "edit", cookie |-> "cookie_a", name |-> "b", email |-> "a@"],
   [op |-> "edit", cookie |-> "cookie_b", name |-> "a", email |-> "b@"],
   [op |-> "edit", cookie |-> "cookie_a", name |-> "a", email |-> "a@"],
   [op |-> "edit", cookie |-> "cookie_a", name |-> "n", email |-> "a@"]}

\* One identity whose provider reports other names from one login to the next.
Logins ==
  {[op |-> "local", name |-> "a", password |-> "secret"],
   [op |-> "oidc", subject |-> "n", name |-> "", email |-> "n@"],
   [op |-> "oidc", subject |-> "n", name |-> "m", email |-> "n@"],
   [op |-> "oidc", subject |-> "n", name |-> "m", email |-> "m@"]}
  \cup {[op |-> "oidc", subject |-> "sub_b", name |-> "b", email |-> "b@"]}

Keys ==
  {[op |-> "addKey", cookie |-> c, fingerprint |-> "print_n"] : c \in {"cookie_a", "cookie_b"}}
  \cup {[op |-> "removeKey", cookie |-> c, id |-> "key_a"] : c \in {"cookie_a", "cookie_b"}}

MCInputs ==
  Edits \cup Logins \cup Keys \cup {[op |-> "logout", cookie |-> "cookie_a"]}
=============================================================================
