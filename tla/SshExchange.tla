----------------------------- MODULE SshExchange -----------------------------
(* AuthService.ExchangeSSHKey, the client's loop over the keys of its agent,  *)
(* and the tokens that come of it.                                            *)
(*                                                                            *)
(* A stream has three actors: the client, the server's goroutine that talks   *)
(* to it, and the handler, which only waits for the goroutine's result or for *)
(* its time to run out.  Between two messages the goroutine asks the database,*)
(* where keys come and go.  When the handler has returned, the stream is      *)
(* over: a Receive fails and a Send panics, which ends the process.           *)
EXTENDS Integers, Sequences

CONSTANTS
  Clients,
  Keys,             \* fingerprints
  Users,
  InitialOwners,    \* what users__ssh_keys may hold at first
  AgentKeys,        \* the sequences of keys that agents have
  SecurityKeys,     \* keys whose signatures need more than format and blob
  MaxKeyOfferings,  \* MAX_KEY_OFFERINGS
  ServerLife,       \* how long the server takes a token: 15 minutes
  ClientLife,       \* TOKEN_EXPIRATION: 10 minutes
  Delay,            \* bound on the time a message with a token is under way
  MaxClock,         \* bound on the clock
  MaxChanges,       \* bound on the changes of the table of keys
  NoUser, Nothing,
  Refusal, Nonce    \* what the server answers to an offering

ASSUME ExchangeAssumption ==
  /\ AgentKeys \subseteq Seq(Keys)
  /\ InitialOwners \subseteq [Keys -> Users \cup {NoUser}]
  /\ SecurityKeys \subseteq Keys
  /\ MaxKeyOfferings \in Nat \ {0}
  /\ ServerLife \in Nat /\ ClientLife \in Nat /\ Delay \in Nat /\ MaxClock \in Nat /\ MaxChanges \in Nat
  /\ ClientLife + 2 * Delay < ServerLife
  /\ NoUser \notin Users
  /\ Refusal \notin {Nothing, Nonce}
  /\ [user : Users, key : Keys, expires : 0..MaxClock + ServerLife]
       \cap {Nothing, Refusal, Nonce} = {}

VARIABLES
  agent,            \* the keys in the agent of each client
  owner,            \* users__ssh_keys: the user of each fingerprint, or NoUser
  changes,          \* not in the code: how often owner has changed
  clock,
  up,               \* the process of the server runs
  client, index,    \* where each client is, and the key it is at
  token, renewal,   \* Authenticator: its token, and .expiration
  used,             \* the token of the call under way, and when it was sent
  toServer, toClient,          \* the message under way, or Nothing
  goroutine, offered, found,   \* the goroutine, its loop, and the row it found
  result,           \* the channel finished
  handler,
  owners            \* not in the code: who has owned each key during the stream

table == <<agent, owner, changes>>
serverVars == <<goroutine, offered, found, result, handler>>
clientVars == <<client, index, token, renewal, used>>
vars == <<table, clock, up, clientVars, toServer, toClient, serverVars, owners>>

ClientStates == {"idle", "offer", "await", "sign", "awaitToken", "call", "noKeys", "failed"}
Exchanging == {"offer", "await", "sign", "awaitToken"}
Sending == {"reject", "approve", "log", "token"}
GoroutineStates == {"receive", "lookup", "receiveSignature", "verify", "ended"} \cup Sending

Init ==
  /\ agent \in [Clients -> AgentKeys]
  /\ owner \in InitialOwners
  /\ changes = 0
  /\ clock = 0
  /\ up = TRUE
  /\ client = [c \in Clients |-> "idle"]
  /\ index = [c \in Clients |-> 1]
  /\ token = [c \in Clients |-> Nothing]
  /\ renewal = [c \in Clients |-> -1]
  /\ used = [c \in Clients |-> Nothing]
  /\ toServer = [c \in Clients |-> Nothing]
  /\ toClient = [c \in Clients |-> Nothing]
  /\ goroutine = [c \in Clients |-> "ended"]
  /\ offered = [c \in Clients |-> 0]
  /\ found = [c \in Clients |-> Nothing]
  /\ result = [c \in Clients |-> Nothing]
  /\ handler = [c \in Clients |-> "returned"]
  /\ owners = [c \in Clients |-> [k \in Keys |-> {}]]

Over(c) == handler[c] = "returned"

-----------------------------------------------------------------------------
(* The client *)

Become(c, state) == client' = [client EXCEPT ![c] = state]

Key(c) == agent[c][index[c]]
TokenOf(u, k) == [user |-> u, key |-> k, expires |-> clock + ServerLife]

\* Mutant: .expiration is the end of the token's own life.
RenewAtExpiry(c) == token[c] = Nothing \/ renewal[c] + ServerLife - ClientLife < clock

MustRenew(c) == renewal[c] < clock

\* Authenticate has no token that is fresh enough: AuthenticateSSH.
StartExchange(c) ==
  /\ client[c] = "idle" /\ MustRenew(c)
  /\ up /\ Over(c) /\ goroutine[c] = "ended" /\ agent[c] # <<>>
  /\ Become(c, "offer")
  /\ index' = [index EXCEPT ![c] = 1]
  /\ toServer' = [toServer EXCEPT ![c] = Nothing]
  /\ toClient' = [toClient EXCEPT ![c] = Nothing]
  /\ goroutine' = [goroutine EXCEPT ![c] = "receive"]
  /\ offered' = [offered EXCEPT ![c] = 0]
  /\ found' = [found EXCEPT ![c] = Nothing]
  /\ result' = [result EXCEPT ![c] = Nothing]
  /\ handler' = [handler EXCEPT ![c] = "waits"]
  /\ owners' = [owners EXCEPT ![c] = [k \in Keys |-> {owner[k]}]]
  /\ UNCHANGED <<table, clock, up, token, renewal, used>>

\* The agent has no keys: the loop over them is empty, and nothing is sent.
HasNoKeys(c) ==
  /\ client[c] = "idle" /\ MustRenew(c) /\ agent[c] = <<>>
  /\ Become(c, "noKeys")
  /\ UNCHANGED <<table, clock, up, index, token, renewal, used, toServer, toClient, serverVars, owners>>

Send(c, m, state) ==
  /\ toServer' = [toServer EXCEPT ![c] = m]
  /\ Become(c, state)
  /\ UNCHANGED <<table, clock, up, index, token, renewal, used, toClient, serverVars, owners>>

Offer(c) == client[c] = "offer" /\ Send(c, [fingerprint |-> Key(c)], "await")
Sign(c) == client[c] = "sign" /\ Send(c, [signedBy |-> Key(c)], "awaitToken")

Rejected(c) ==
  /\ client[c] = "await" /\ toClient[c] = Refusal
  /\ toClient' = [toClient EXCEPT ![c] = Nothing]
  /\ index' = [index EXCEPT ![c] = @ + 1]
  /\ Become(c, IF index[c] = Len(agent[c]) THEN "noKeys" ELSE "offer")
  /\ UNCHANGED <<table, clock, up, token, renewal, used, toServer, serverVars, owners>>

Approved(c) ==
  /\ client[c] = "await" /\ toClient[c] = Nonce
  /\ toClient' = [toClient EXCEPT ![c] = Nothing]
  /\ Become(c, "sign")
  /\ UNCHANGED <<table, clock, up, index, token, renewal, used, toServer, serverVars, owners>>

IsToken(m) == m \notin {Nothing, Refusal, Nonce}

ReceiveToken(c) ==
  /\ client[c] = "awaitToken" /\ IsToken(toClient[c])
  /\ token' = [token EXCEPT ![c] = toClient[c]]
  /\ renewal' = [renewal EXCEPT ![c] = clock + ClientLife]
  /\ used' = [used EXCEPT ![c] = [token |-> toClient[c], sent |-> clock]]
  /\ toClient' = [toClient EXCEPT ![c] = Nothing]
  /\ index' = [index EXCEPT ![c] = 1]
  /\ owners' = [owners EXCEPT ![c] = [k \in Keys |-> {}]]
  /\ Become(c, "call")
  /\ UNCHANGED <<table, clock, up, toServer, serverVars>>

\* The agent, a Send or a Receive fails: the stream is over, or was cut.
Fail(c) ==
  /\ client[c] \in Exchanging
  /\ Become(c, "failed")
  /\ toClient' = [toClient EXCEPT ![c] = Nothing]
  /\ UNCHANGED <<table, clock, up, index, token, renewal, used, toServer, serverVars, owners>>

MustFail(c) ==
  /\ client[c] \in {"await", "awaitToken"} /\ Over(c) /\ toClient[c] = Nothing
  /\ Fail(c)

\* WrapUnary and WrapStreamingClient, with the token that Authenticate kept.
CallWithToken(c) ==
  /\ client[c] = "idle" /\ ~MustRenew(c)
  /\ used' = [used EXCEPT ![c] = [token |-> token[c], sent |-> clock]]
  /\ Become(c, "call")
  /\ UNCHANGED <<table, clock, up, index, token, renewal, toServer, toClient, serverVars, owners>>

\* VerifyToken, by AuthenticateJwt, takes the call or refuses it.
Accepted(c) == clock < used[c].token.expires

CallEnds(c) ==
  /\ client[c] = "call"
  /\ used' = [used EXCEPT ![c] = Nothing]
  /\ Become(c, "idle")
  /\ UNCHANGED <<table, clock, up, index, token, renewal, toServer, toClient, serverVars, owners>>

\* The command has ended with an error; another one starts with no token.
NewCommand(c) ==
  /\ client[c] \in {"noKeys", "failed"}
  /\ Become(c, "idle")
  /\ index' = [index EXCEPT ![c] = 1]
  /\ token' = [token EXCEPT ![c] = Nothing]
  /\ renewal' = [renewal EXCEPT ![c] = -1]
  /\ UNCHANGED <<table, clock, up, used, toServer, toClient, serverVars, owners>>

-----------------------------------------------------------------------------
(* The goroutine of the server *)

Continue(c, state) ==
  goroutine' = [goroutine EXCEPT ![c] = state]

\* finished <- err, and return; or return alone.
Finish(c, res) ==
  /\ Continue(c, "ended")
  /\ result' = [result EXCEPT ![c] = res]
  /\ offered' = [offered EXCEPT ![c] = 0]
  /\ found' = [found EXCEPT ![c] = Nothing]
  /\ UNCHANGED handler

Receive(c, state) ==
  /\ goroutine[c] = state /\ toServer[c] # Nothing /\ up
  /\ toServer' = [toServer EXCEPT ![c] = Nothing]
  /\ UNCHANGED <<table, clock, up, clientVars, toClient, owners>>

\* The loop has its limit of offerings; a message that is not an offering is
\* a protocol violation.
ReceiveOffering(c) ==
  /\ Receive(c, "receive")
  /\ IF "fingerprint" \in DOMAIN toServer[c]
       THEN /\ Continue(c, "lookup")
            /\ offered' = [offered EXCEPT ![c] = @ + 1]
            /\ found' = [found EXCEPT ![c] = [user |-> NoUser, key |-> toServer[c].fingerprint]]
            /\ UNCHANGED <<result, handler>>
       ELSE Finish(c, "error")

GetUserBySshKey(k) == owner[k]

\* Mutant: any error of the query counts as a key without a user.
LookUpMayFail(c) ==
  /\ goroutine[c] = "lookup" /\ up
  /\ \E u \in {GetUserBySshKey(found[c].key), NoUser} :
       /\ found' = [found EXCEPT ![c].user = u]
       /\ Continue(c, IF u = NoUser THEN "reject" ELSE "approve")
  /\ UNCHANGED <<table, clock, up, clientVars, toServer, toClient, offered, result, handler, owners>>

LookUp(c) ==
  /\ goroutine[c] = "lookup" /\ up
  /\ LET u == GetUserBySshKey(found[c].key) IN
       /\ found' = [found EXCEPT ![c].user = u]
       /\ Continue(c, IF u = NoUser THEN "reject" ELSE "approve")
  /\ UNCHANGED <<table, clock, up, clientVars, toServer, toClient, offered, result, handler, owners>>

\* The signature is over the nonce of this stream; the key is the row's.
ReceiveSignature(c) ==
  /\ Receive(c, "receiveSignature")
  /\ IF /\ "signedBy" \in DOMAIN toServer[c]
        /\ toServer[c].signedBy = found[c].key
        /\ found[c].key \notin SecurityKeys
       THEN Continue(c, "log") /\ UNCHANGED <<offered, found, result, handler>>
       ELSE Finish(c, "error")

\* LogSSHAuthentication updates no row if the key is gone.
LogAuthentication(c) ==
  /\ goroutine[c] = "log" /\ up
  /\ Continue(c, "token")
  /\ UNCHANGED <<table, clock, up, clientVars, toServer, toClient, offered, found, result, handler, owners>>

Answer(c, m) ==
  /\ up /\ ~Over(c)
  /\ toClient' = [toClient EXCEPT ![c] = m]
  /\ UNCHANGED <<table, clock, up, clientVars, toServer, owners>>

\* Mutant: the loop has no limit.
RejectForever(c) ==
  /\ goroutine[c] = "reject" /\ Answer(c, Refusal)
  /\ Continue(c, "receive")
  /\ UNCHANGED <<offered, found, result, handler>>

Reject(c) ==
  /\ goroutine[c] = "reject" /\ Answer(c, Refusal)
  /\ IF offered[c] = MaxKeyOfferings
       THEN Finish(c, Nothing)
       ELSE Continue(c, "receive") /\ UNCHANGED <<offered, found, result, handler>>

Approve(c) ==
  /\ goroutine[c] = "approve" /\ Answer(c, Nonce)
  /\ Continue(c, "receiveSignature")
  /\ UNCHANGED <<offered, found, result, handler>>

\* Mutant: the user is looked up again.
SendTokenOfOwnerNow(c) ==
  /\ goroutine[c] = "token" /\ Answer(c, TokenOf(GetUserBySshKey(found[c].key), found[c].key))
  /\ Finish(c, "ok")

SendToken(c) ==
  /\ goroutine[c] = "token" /\ Answer(c, TokenOf(found[c].user, found[c].key))
  /\ Finish(c, "ok")

\* A Receive, a Send or the database fails.  Some errors leave no result.
GoroutineFails(c) ==
  /\ goroutine[c] # "ended" /\ up
  /\ \E res \in {"error"} \cup (IF goroutine[c] \in {"receiveSignature", "reject", "approve"}
                                  THEN {Nothing} ELSE {}) : Finish(c, res)
  /\ UNCHANGED <<table, clock, up, clientVars, toServer, toClient, owners>>

\* The stream is over, so Receive fails; and so does the database, whose
\* context is done.
GoroutineMustFail(c) ==
  /\ Over(c) /\ goroutine[c] \notin {"reject", "approve", "token"}
  /\ GoroutineFails(c)

\* Everything ends with the process, and every client sees its stream cut.
GoDown ==
  /\ up' = FALSE
  /\ goroutine' = [c \in Clients |-> "ended"]
  /\ handler' = [c \in Clients |-> "returned"]
  /\ result' = [c \in Clients |-> Nothing]
  /\ offered' = [c \in Clients |-> 0]
  /\ found' = [c \in Clients |-> Nothing]
  /\ UNCHANGED <<table, clock, clientVars, toServer, toClient, owners>>

\* http2: "Write called after Handler finished".
Panic(c) ==
  /\ up /\ Over(c) /\ goroutine[c] \in {"reject", "approve", "token"}
  /\ GoDown

-----------------------------------------------------------------------------
(* The handler, and everything else *)

Return(c) ==
  /\ ~Over(c)
  /\ handler' = [handler EXCEPT ![c] = "returned"]
  /\ UNCHANGED <<table, clock, up, clientVars, toServer, toClient, goroutine, offered, found, result, owners>>

HandlerReturns(c) == result[c] # Nothing /\ Return(c)

\* The 15 seconds are over, or the client has gone away.
HandlerTimesOut(c) == Return(c)

Crash == up /\ GoDown

Restart ==
  /\ ~up
  /\ up' = TRUE
  /\ UNCHANGED <<table, clock, clientVars, toServer, toClient, serverVars, owners>>

\* AddSSHKey and DeleteUserScopedSSHKey.
ChangeKey(k) ==
  /\ changes < MaxChanges /\ UNCHANGED agent
  /\ changes' = changes + 1
  /\ \E u \in Users \cup {NoUser} :
       /\ (owner[k] = NoUser) # (u = NoUser)
       /\ owner' = [owner EXCEPT ![k] = u]
       /\ owners' = [c \in Clients |-> IF client[c] \in Exchanging \/ goroutine[c] # "ended"
                        THEN [owners[c] EXCEPT ![k] = @ \cup {u}] ELSE owners[c]]
  /\ UNCHANGED <<clock, up, clientVars, toServer, toClient, serverVars>>

\* Time passes, but no message with a token is under way for more than Delay.
Tick ==
  /\ clock < MaxClock
  /\ clock' = clock + 1
  /\ \A c \in Clients :
       /\ IsToken(toClient[c]) => clock' <= toClient[c].expires - ServerLife + Delay
       /\ client[c] = "call" => clock' <= used[c].sent + Delay
  /\ UNCHANGED <<table, up, clientVars, toServer, toClient, serverVars, owners>>

-----------------------------------------------------------------------------

ClientStep(c) ==
  \/ Offer(c) \/ Sign(c) \/ Rejected(c) \/ Approved(c) \/ ReceiveToken(c) \/ MustFail(c)

GoroutineStep(c) ==
  \/ ReceiveOffering(c) \/ LookUp(c) \/ ReceiveSignature(c) \/ LogAuthentication(c)
  \/ Reject(c) \/ Approve(c) \/ SendToken(c) \/ GoroutineMustFail(c) \/ Panic(c)

Next ==
  \/ \E c \in Clients :
       \/ ClientStep(c) \/ GoroutineStep(c)
       \/ StartExchange(c) \/ HasNoKeys(c) \/ Fail(c) \/ CallWithToken(c) \/ CallEnds(c) \/ NewCommand(c)
       \/ GoroutineFails(c) \/ HandlerReturns(c) \/ HandlerTimesOut(c)
  \/ Crash \/ Restart \/ Tick
  \/ \E k \in Keys : ChangeKey(k)

Spec == Init /\ [][Next]_vars

\* The client and the server run on, and timers expire.
FairSpec ==
  /\ Spec
  /\ \A c \in Clients :
       WF_vars(ClientStep(c)) /\ WF_vars(GoroutineStep(c)) /\ WF_vars(HandlerTimesOut(c))

-----------------------------------------------------------------------------
(* Properties *)

Tokens == [user : Users, key : Keys, expires : 0..(MaxClock + ServerLife)]

TypeOK ==
  /\ agent \in [Clients -> AgentKeys]
  /\ owner \in [Keys -> Users \cup {NoUser}]
  /\ clock \in 0..MaxClock /\ up \in BOOLEAN
  /\ client \in [Clients -> ClientStates]
  /\ index \in [Clients -> Nat \ {0}]
  /\ \A c \in Clients : client[c] \in Exchanging => index[c] \in 1..Len(agent[c])
  /\ token \in [Clients -> Tokens \cup {Nothing}]
  /\ renewal \in [Clients -> Int]
  /\ toClient \in [Clients -> Tokens \cup {Nothing, Refusal, Nonce}]
  /\ goroutine \in [Clients -> GoroutineStates]
  /\ offered \in [Clients -> 0..MaxKeyOfferings]
  /\ result \in [Clients -> {Nothing, "ok", "error"}]
  /\ handler \in [Clients -> {"waits", "returned"}]

\* A token is for a user who has owned its key during the exchange, although
\* the key may be removed, or added by another user, between the lookup, the
\* signature and the token (ExchangeSSHKey).
TokenIsOfKeyOwner ==
  \A c \in Clients : IsToken(toClient[c]) =>
    toClient[c].user \in owners[c][toClient[c].key] \ {NoUser}

\* AuthenticateJwt never finds a token expired that the Authenticator took to
\* be fresh: 10 minutes of the client end before 15 minutes of the server,
\* whatever the delays of the token's answer and of the call.
FreshTokenIsAccepted == \A c \in Clients : client[c] = "call" => Accepted(c)

\* A client that hears of no accepted key has offered each of its keys, and
\* each had no owner when it was looked up (AuthenticateSSH).
NoKeysIsTrue ==
  \A c \in Clients : client[c] = "noKeys" =>
    Len(agent[c]) <= MaxKeyOfferings /\ \A i \in 1..Len(agent[c]) : NoUser \in owners[c][agent[c][i]]

\* An exchange ends for client, goroutine and handler, also when every key was
\* refused, a result is missing, the client has more keys than it may offer,
\* or the process ends.
ExchangeEnds ==
  \A c \in Clients :
    client[c] = "offer" ~> Over(c) /\ goroutine[c] = "ended" /\ client[c] \notin Exchanging
=============================================================================
