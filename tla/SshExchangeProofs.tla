-------------------------- MODULE SshExchangeProofs --------------------------
(* Theorems about SshExchange, for any clients, keys and users, any limit of  *)
(* offerings, and lives of tokens that leave room for the delays of messages. *)
EXTENDS SshExchange, TLAPS

USE ExchangeAssumption

------------------------------------------------------------------------------
(* Types *)

\* The messages to the server, the rows that a lookup finds, a call under way.
Messages == [fingerprint : Keys] \cup [signedBy : Keys]
Rows == [user : Users \cup {NoUser}, key : Keys]
Calls == [token : Tokens, sent : Nat]

\* Where the goroutine has found the user of an offered key.
Found == {"approve", "receiveSignature", "log", "token"}

\* What a client that renews its token later has, and what the goroutine has
\* while it works.
ActorTypes(c) ==
  /\ renewal[c] >= 0 => token[c] \in Tokens
  /\ goroutine[c] \notin {"receive", "ended"} => found[c] \in Rows
  /\ goroutine[c] \in Found => found[c].user \in Users
  /\ goroutine[c] = "receive" => offered[c] < MaxKeyOfferings

\* TypeOK, and the types of what TypeOK does not mention.
TypeInv ==
  /\ TypeOK
  /\ toServer \in [Clients -> {Nothing} \cup Messages]
  /\ found \in [Clients -> {Nothing} \cup Rows]
  /\ used \in [Clients -> {Nothing} \cup Calls]
  /\ owners \in [Clients -> [Keys -> SUBSET (Users \cup {NoUser})]]
  /\ \A c \in Clients : ActorTypes(c)

\* At first nothing is under way.
LEMMA TypeInit == Init => TypeInv
  <1> SUFFICES ASSUME Init PROVE TypeInv
    OBVIOUS
  <1>1. /\ owner \in [Keys -> Users \cup {NoUser}] /\ agent \in [Clients -> AgentKeys]
        /\ clock \in 0..MaxClock /\ up \in BOOLEAN
        /\ client \in [Clients -> ClientStates] /\ goroutine \in [Clients -> GoroutineStates]
        /\ handler \in [Clients -> {"waits", "returned"}]
    BY DEF Init, ClientStates, GoroutineStates
  <1>2. /\ index \in [Clients -> Nat \ {0}] /\ renewal \in [Clients -> Int]
        /\ offered \in [Clients -> 0..MaxKeyOfferings]
    BY DEF Init
  <1>3. /\ token \in [Clients -> Tokens \cup {Nothing}] /\ result \in [Clients -> {Nothing, "ok", "error"}]
        /\ toClient \in [Clients -> Tokens \cup {Nothing, Refusal, Nonce}]
        /\ toServer \in [Clients -> {Nothing} \cup Messages]
        /\ found \in [Clients -> {Nothing} \cup Rows]
        /\ used \in [Clients -> {Nothing} \cup Calls]
    BY DEF Init
  <1>4. owners \in [Clients -> [Keys -> SUBSET (Users \cup {NoUser})]]
    BY DEF Init
  <1>5. \A c \in Clients : ActorTypes(c) /\ (client[c] \in Exchanging => index[c] \in 1..Len(agent[c]))
    <2> SUFFICES ASSUME NEW c \in Clients
                 PROVE  ActorTypes(c) /\ (client[c] \in Exchanging => index[c] \in 1..Len(agent[c]))
      OBVIOUS
    <2>1. renewal[c] = -1 /\ goroutine[c] = "ended" /\ client[c] = "idle"
      BY DEF Init
    <2> QED BY <2>1 DEF ActorTypes, Found, Exchanging
  <1> QED BY <1>1, <1>2, <1>3, <1>4, <1>5 DEF TypeInv, TypeOK

\* What the goroutine leaves behind has its types.
LEMMA FinishTypes ==
  ASSUME TypeInv, NEW c \in Clients, NEW res \in {Nothing, "ok", "error"}, Finish(c, res)
  PROVE  /\ goroutine' \in [Clients -> GoroutineStates]
         /\ offered' \in [Clients -> 0..MaxKeyOfferings]
         /\ found' \in [Clients -> {Nothing} \cup Rows]
         /\ result' \in [Clients -> {Nothing, "ok", "error"}]
         /\ handler' = handler
         /\ UNCHANGED <<token, renewal>> => \A d \in Clients : ActorTypes(d)'
  <1>1. /\ goroutine' = [goroutine EXCEPT ![c] = "ended"] /\ handler' = handler
        /\ offered' = [offered EXCEPT ![c] = 0]
        /\ found' = [found EXCEPT ![c] = Nothing]
        /\ result' = [result EXCEPT ![c] = res]
    BY DEF Finish, Continue
  <1>2. "ended" \in GoroutineStates
    BY DEF GoroutineStates
  <1>3. /\ goroutine' \in [Clients -> GoroutineStates]
        /\ offered' \in [Clients -> 0..MaxKeyOfferings]
        /\ found' \in [Clients -> {Nothing} \cup Rows]
        /\ result' \in [Clients -> {Nothing, "ok", "error"}]
    BY <1>1, <1>2 DEF TypeInv, TypeOK
  <1>4. ASSUME UNCHANGED <<token, renewal>>, NEW d \in Clients PROVE ActorTypes(d)'
    <2>1. ActorTypes(d)
      BY DEF TypeInv
    <2> QED BY <1>1, <1>4, <2>1 DEF ActorTypes, Found, TypeInv, TypeOK
  <1> QED BY <1>1, <1>3, <1>4

\* What a crash leaves behind has its types.
LEMMA TypeGoDown == ASSUME TypeInv, GoDown PROVE TypeInv'
  <1>1. /\ up' = FALSE /\ UNCHANGED <<table, clock, clientVars, toServer, toClient, owners>>
        /\ \A c \in Clients : goroutine'[c] = "ended"
    BY DEF GoDown
  <1>2. /\ goroutine' \in [Clients -> GoroutineStates] /\ handler' \in [Clients -> {"waits", "returned"}]
        /\ result' \in [Clients -> {Nothing, "ok", "error"}]
        /\ offered' \in [Clients -> 0..MaxKeyOfferings]
        /\ found' \in [Clients -> {Nothing} \cup Rows]
    BY DEF GoDown, GoroutineStates
  <1>3. \A c \in Clients : ActorTypes(c)'
    BY <1>1 DEF ActorTypes, Found, TypeInv, clientVars
  <1> QED BY <1>1, <1>2, <1>3 DEF TypeInv, TypeOK, table, clientVars

\* An offering that is received is one key more, within the limit.
LEMMA TypeReceiveOffering == ASSUME TypeInv, NEW c \in Clients, ReceiveOffering(c) PROVE TypeInv'
  <1>1. /\ goroutine[c] = "receive" /\ toServer[c] \in Messages
        /\ toServer' = [toServer EXCEPT ![c] = Nothing]
        /\ UNCHANGED <<table, clock, up, clientVars, toClient, owners>>
    BY DEF ReceiveOffering, Receive, TypeInv
  <1>2. CASE "fingerprint" \in DOMAIN toServer[c]
    <2>1. toServer[c].fingerprint \in Keys
      BY <1>1, <1>2 DEF Messages
    <2>2. [user |-> NoUser, key |-> toServer[c].fingerprint] \in Rows
      BY <2>1 DEF Rows
    <2>3. /\ goroutine' = [goroutine EXCEPT ![c] = "lookup"]
          /\ offered' = [offered EXCEPT ![c] = @ + 1] /\ offered[c] < MaxKeyOfferings
          /\ found' = [found EXCEPT ![c] = [user |-> NoUser, key |-> toServer[c].fingerprint]]
          /\ UNCHANGED <<result, handler>>
      BY <1>1, <1>2 DEF ReceiveOffering, Continue, TypeInv, ActorTypes
    <2>4. /\ goroutine' \in [Clients -> GoroutineStates]
          /\ offered' \in [Clients -> 0..MaxKeyOfferings]
          /\ found' \in [Clients -> {Nothing} \cup Rows]
      BY <2>2, <2>3 DEF TypeInv, TypeOK, GoroutineStates
    <2>5. ASSUME NEW d \in Clients PROVE ActorTypes(d)'
      <3>1. ActorTypes(d)
        BY DEF TypeInv
      <3>2. CASE d = c
        BY <1>1, <2>2, <2>3, <3>1, <3>2 DEF TypeInv, TypeOK, ActorTypes, clientVars, Found
      <3>3. CASE d # c
        BY <1>1, <2>3, <3>1, <3>3 DEF TypeInv, TypeOK, ActorTypes, clientVars, Found
      <3> QED BY <3>2, <3>3
    <2> QED BY <1>1, <2>3, <2>4, <2>5 DEF TypeInv, TypeOK, table, clientVars
  <1>3. CASE "fingerprint" \notin DOMAIN toServer[c]
    <2>1. Finish(c, "error")
      BY <1>3 DEF ReceiveOffering
    <2> QED BY <1>1, <2>1, FinishTypes DEF TypeInv, TypeOK, table, clientVars
  <1> QED BY <1>2, <1>3

\* A lookup finds a user before it approves.
LEMMA TypeLookUp == ASSUME TypeInv, NEW c \in Clients, LookUp(c) PROVE TypeInv'
  <1> DEFINE u == owner[found[c].key]
  <1>1. /\ goroutine[c] = "lookup" /\ found' = [found EXCEPT ![c].user = u]
        /\ goroutine' = [goroutine EXCEPT ![c] = IF u = NoUser THEN "reject" ELSE "approve"]
        /\ UNCHANGED <<table, clock, up, clientVars, toServer, toClient, offered, result, handler, owners>>
    BY DEF LookUp, GetUserBySshKey, Continue
  <1>2. found[c] \in Rows /\ u \in Users \cup {NoUser}
    BY <1>1 DEF TypeInv, TypeOK, ActorTypes, Rows, Found
  <1>3. [found[c] EXCEPT !.user = u] \in Rows /\ [found[c] EXCEPT !.user = u].user = u
    BY <1>2 DEF Rows
  <1>4. found' = [found EXCEPT ![c] = [found[c] EXCEPT !.user = u]]
    BY <1>1
  <1> HIDE DEF u
  <1>5. goroutine' \in [Clients -> GoroutineStates] /\ found' \in [Clients -> {Nothing} \cup Rows]
    <2>1. found' \in [Clients -> {Nothing} \cup Rows]
      BY <1>3, <1>4 DEF TypeInv
    <2>2. goroutine \in [Clients -> GoroutineStates] /\ {"reject", "approve"} \subseteq GoroutineStates
      BY DEF TypeInv, TypeOK, GoroutineStates, Sending
    <2> QED BY <1>1, <2>1, <2>2
  <1>6. ASSUME NEW d \in Clients PROVE ActorTypes(d)'
    <2>1. ActorTypes(d)
      BY DEF TypeInv
    <2>2. CASE d = c
      <3>1. goroutine'[d] = (IF u = NoUser THEN "reject" ELSE "approve") /\ found'[d] \in Rows /\ found'[d].user = u
        BY <1>1, <1>3, <1>4, <2>2 DEF TypeInv, TypeOK
      <3> QED BY <1>1, <1>2, <2>1, <3>1 DEF ActorTypes, Found, clientVars
    <2>3. CASE d # c
      BY <1>1, <1>4, <2>1, <2>3 DEF TypeInv, TypeOK, ActorTypes, clientVars, Found
    <2> QED BY <2>2, <2>3
  <1> QED BY <1>1, <1>5, <1>6 DEF TypeInv, TypeOK, table, clientVars

\* A signature is taken or ends the stream.
LEMMA TypeReceiveSignature == ASSUME TypeInv, NEW c \in Clients, ReceiveSignature(c) PROVE TypeInv'
  <1>1. /\ goroutine[c] = "receiveSignature"
        /\ toServer' = [toServer EXCEPT ![c] = Nothing]
        /\ UNCHANGED <<table, clock, up, clientVars, toClient, owners>>
    BY DEF ReceiveSignature, Receive
  <1>2. CASE Continue(c, "log") /\ UNCHANGED <<offered, found, result, handler>>
    BY <1>1, <1>2 DEF Continue, TypeInv, TypeOK, ActorTypes, table, clientVars, GoroutineStates, Sending, Found
  <1>3. CASE Finish(c, "error")
    BY <1>1, <1>3, FinishTypes DEF TypeInv, TypeOK, table, clientVars
  <1> QED BY <1>2, <1>3 DEF ReceiveSignature

\* A refusal ends the stream at the limit.
LEMMA TypeReject == ASSUME TypeInv, NEW c \in Clients, Reject(c) PROVE TypeInv'
  <1>1. /\ goroutine[c] = "reject" /\ toClient' = [toClient EXCEPT ![c] = Refusal]
        /\ UNCHANGED <<table, clock, up, clientVars, toServer, owners>>
    BY DEF Reject, Answer
  <1>2. CASE offered[c] = MaxKeyOfferings
    <2>1. Finish(c, Nothing)
      BY <1>2 DEF Reject
    <2> QED BY <1>1, <2>1, FinishTypes DEF TypeInv, TypeOK, table, clientVars
  <1>3. CASE offered[c] # MaxKeyOfferings
    <2>1. Continue(c, "receive") /\ UNCHANGED <<offered, found, result, handler>>
      BY <1>3 DEF Reject
    <2> QED BY <1>1, <1>3, <2>1 DEF Continue, TypeInv, TypeOK, ActorTypes, table, clientVars, GoroutineStates, Found
  <1> QED BY <1>2, <1>3

\* What the goroutine sends at last is a token.
LEMMA TokenType ==
  ASSUME TypeInv, NEW c \in Clients, goroutine[c] = "token"
  PROVE  TokenOf(found[c].user, found[c].key) \in Tokens
  <1>1. found[c].user \in Users /\ found[c].key \in Keys
    BY DEF TypeInv, ActorTypes, Found, Rows
  <1>2. clock \in 0..MaxClock
    BY DEF TypeInv, TypeOK
  <1>3. clock + ServerLife \in 0..(MaxClock + ServerLife)
    BY <1>2
  <1> QED BY <1>1, <1>3 DEF TokenOf, Tokens

\* A token has its type.
LEMMA TypeSendToken == ASSUME TypeInv, NEW c \in Clients, SendToken(c) PROVE TypeInv'
  <1>1. /\ goroutine[c] = "token" /\ Finish(c, "ok")
        /\ toClient' = [toClient EXCEPT ![c] = TokenOf(found[c].user, found[c].key)]
        /\ UNCHANGED <<table, clock, up, clientVars, toServer, owners>>
    BY DEF SendToken, Answer
  <1>3. TokenOf(found[c].user, found[c].key) \in Tokens
    BY <1>1, TokenType
  <1> QED BY <1>1, <1>3, FinishTypes DEF TypeInv, TypeOK, table, clientVars

\* Every step keeps the types.
LEMMA TypeStep == TypeInv /\ [Next]_vars => TypeInv'
  <1> SUFFICES ASSUME TypeInv, [Next]_vars PROVE TypeInv'
    OBVIOUS
  <1> USE DEF TypeInv, TypeOK, ActorTypes, table, serverVars, clientVars, ClientStates,
       GoroutineStates, Sending, Exchanging, Found
  <1>1. ASSUME NEW c \in Clients, ReceiveOffering(c) PROVE TypeInv'
    BY <1>1, TypeReceiveOffering
  <1>2. ASSUME NEW c \in Clients, LookUp(c) PROVE TypeInv'
    BY <1>2, TypeLookUp
  <1>3. ASSUME NEW c \in Clients, ReceiveSignature(c) PROVE TypeInv'
    BY <1>3, TypeReceiveSignature
  <1>4. ASSUME NEW c \in Clients, Reject(c) PROVE TypeInv'
    BY <1>4, TypeReject
  <1>5. ASSUME NEW c \in Clients, SendToken(c) PROVE TypeInv'
    BY <1>5, TypeSendToken
  <1>6. ASSUME NEW c \in Clients, Offer(c) PROVE TypeInv'
    BY <1>6 DEF Offer, Send, Become, Key, Messages
  <1>7. ASSUME NEW c \in Clients, Sign(c) PROVE TypeInv'
    BY <1>7 DEF Sign, Send, Become, Key, Messages
  <1>8. ASSUME NEW c \in Clients, Rejected(c) PROVE TypeInv'
    BY <1>8 DEF Rejected, Become
  <1>9. ASSUME NEW c \in Clients, Approved(c) PROVE TypeInv'
    BY <1>9 DEF Approved, Become
  <1>10. ASSUME NEW c \in Clients, ReceiveToken(c) PROVE TypeInv'
    BY <1>10 DEF ReceiveToken, Become, Calls, IsToken
  <1>11. ASSUME NEW c \in Clients, LogAuthentication(c) PROVE TypeInv'
    BY <1>11 DEF LogAuthentication, Continue
  <1>12. ASSUME NEW c \in Clients, Approve(c) PROVE TypeInv'
    BY <1>12 DEF Approve, Answer, Continue
  <1>13. ASSUME NEW c \in Clients, StartExchange(c) PROVE TypeInv'
    BY <1>13 DEF StartExchange, Become
  <1>13a. ASSUME NEW c \in Clients, HasNoKeys(c) PROVE TypeInv'
    BY <1>13a DEF HasNoKeys, Become
  <1>14. ASSUME NEW c \in Clients, Fail(c) PROVE TypeInv'
    BY <1>14 DEF Fail, Become
  <1>15. ASSUME NEW c \in Clients, CallWithToken(c) PROVE TypeInv'
    BY <1>15 DEF CallWithToken, Become, MustRenew, Calls
  <1>16. ASSUME NEW c \in Clients, CallEnds(c) PROVE TypeInv'
    BY <1>16 DEF CallEnds, Become
  <1>17. ASSUME NEW c \in Clients, NewCommand(c) PROVE TypeInv'
    BY <1>17 DEF NewCommand, Become
  <1>18. ASSUME NEW c \in Clients, GoroutineFails(c) PROVE TypeInv'
    BY <1>18 DEF GoroutineFails, Finish, Continue
  <1>19. ASSUME NEW c \in Clients, Return(c) PROVE TypeInv'
    BY <1>19 DEF Return
  <1>20. ASSUME GoDown PROVE TypeInv'
    BY <1>20, TypeGoDown
  <1>21. ASSUME Restart PROVE TypeInv'
    BY <1>21 DEF Restart
  <1>22. ASSUME Tick PROVE TypeInv'
    BY <1>22 DEF Tick
  <1>23. ASSUME NEW k \in Keys, ChangeKey(k) PROVE TypeInv'
    BY <1>23 DEF ChangeKey
  <1>24. CASE UNCHANGED vars
    BY <1>24 DEF vars
  <1>25. ASSUME NEW c \in Clients, ClientStep(c) PROVE TypeInv'
    BY <1>6, <1>7, <1>8, <1>9, <1>10, <1>14, <1>25 DEF ClientStep, MustFail
  <1>26. ASSUME NEW c \in Clients, GoroutineStep(c) PROVE TypeInv'
    BY <1>1, <1>2, <1>3, <1>11, <1>4, <1>12, <1>5, <1>18, <1>20, <1>26
       DEF GoroutineStep, GoroutineMustFail, Panic
  <1> QED BY <1>13, <1>13a, <1>14, <1>15, <1>16, <1>17, <1>18, <1>19, <1>20, <1>21, <1>22, <1>23,
            <1>24, <1>25, <1>26 DEF Next, HandlerReturns, HandlerTimesOut, Crash

\* The state of clients, streams and tokens has its types.
THEOREM TypeCorrect == Spec => []TypeOK
  <1>1. TypeInv => TypeOK
    BY DEF TypeInv
  <1> QED BY TypeInit, TypeStep, <1>1, PTL DEF Spec

------------------------------------------------------------------------------
(* Whose tokens these are *)

\* Who owns a key is among those who have owned it during the stream; so is the
\* user whom the goroutine has found, and the one a token is for.
Owned(c) ==
  /\ client[c] \in Exchanging \/ goroutine[c] # "ended" =>
       \A k \in Keys : owner[k] \in owners[c][k]
  /\ goroutine[c] \in Found => found[c].user \in owners[c][found[c].key]
  /\ IsToken(toClient[c]) =>
       goroutine[c] = "ended" /\ toClient[c].user \in owners[c][toClient[c].key] \ {NoUser}

OwnerInv == TypeInv /\ \A c \in Clients : Owned(c)

\* At first no stream has begun.
LEMMA OwnerInit == Init => OwnerInv
  BY TypeInit DEF Init, OwnerInv, Owned, Found, Exchanging, IsToken

\* A goroutine that ends has found nothing.
LEMMA FinishOwned ==
  ASSUME OwnerInv, NEW c \in Clients, NEW res, Finish(c, res),
         UNCHANGED <<owner, owners, client, toClient>>
  PROVE  \A d \in Clients : Owned(d)'
  <1>1. goroutine' = [goroutine EXCEPT ![c] = "ended"] /\ found' = [found EXCEPT ![c] = Nothing]
    BY DEF Finish, Continue
  <1>2. ASSUME NEW d \in Clients PROVE Owned(d)'
    <2>1. Owned(d)
      BY DEF OwnerInv
    <2> QED BY <1>1, <2>1 DEF Owned, Found, IsToken, OwnerInv, TypeInv, TypeOK
  <1> QED BY <1>2

\* The goroutine goes on with nothing found, and there is no token.
LEMMA GoOnOwned ==
  ASSUME OwnerInv, NEW c \in Clients, NEW state \in GoroutineStates, goroutine[c] # "ended",
         Continue(c, state), state \notin Found \/ (goroutine[c] \in Found /\ found' = found),
         \A d \in Clients : d # c => found'[d] = found[d] /\ toClient'[d] = toClient[d],
         ~IsToken(toClient'[c]),
         UNCHANGED <<owner, owners, client>>
  PROVE  \A d \in Clients : Owned(d)'
  <1>1. goroutine' = [goroutine EXCEPT ![c] = state]
    BY DEF Continue
  <1>2. ASSUME NEW d \in Clients PROVE Owned(d)'
    <2>1. Owned(d)
      BY DEF OwnerInv
    <2>2. CASE d = c
      BY <1>1, <2>1, <2>2 DEF Owned, OwnerInv, TypeInv, TypeOK
    <2>3. CASE d # c
      BY <1>1, <2>1, <2>3 DEF Owned, IsToken, OwnerInv, TypeInv, TypeOK
    <2> QED BY <2>2, <2>3
  <1> QED BY <1>2

\* An offering that is received.
LEMMA OwnedReceiveOffering ==
  ASSUME OwnerInv, NEW c \in Clients, ReceiveOffering(c) PROVE \A d \in Clients : Owned(d)'
  <1>1. goroutine[c] = "receive" /\ UNCHANGED <<owner, owners, client, toClient>>
    BY DEF ReceiveOffering, Receive, table, clientVars
  <1>2. CASE "fingerprint" \in DOMAIN toServer[c]
    <2>1. /\ Continue(c, "lookup")
          /\ found' = [found EXCEPT ![c] = [user |-> NoUser, key |-> toServer[c].fingerprint]]
      BY <1>2 DEF ReceiveOffering
    <2>2. ~IsToken(toClient'[c])
      BY <1>1 DEF OwnerInv, Owned, IsToken
    <2> QED BY <1>1, <2>1, <2>2, GoOnOwned
         DEF OwnerInv, TypeInv, TypeOK, GoroutineStates, Found
  <1>3. CASE "fingerprint" \notin DOMAIN toServer[c]
    BY <1>1, <1>3, FinishOwned DEF ReceiveOffering
  <1> QED BY <1>2, <1>3

\* A signature that is received.
LEMMA OwnedReceiveSignature ==
  ASSUME OwnerInv, NEW c \in Clients, ReceiveSignature(c) PROVE \A d \in Clients : Owned(d)'
  <1>1. goroutine[c] = "receiveSignature" /\ UNCHANGED <<owner, owners, client, toClient>>
    BY DEF ReceiveSignature, Receive, table, clientVars
  <1>2. CASE Continue(c, "log") /\ UNCHANGED <<offered, found, result, handler>>
    <2>1. ~IsToken(toClient'[c])
      BY <1>1 DEF OwnerInv, Owned, IsToken
    <2> QED BY <1>1, <1>2, <2>1, GoOnOwned DEF GoroutineStates, Sending, Found
  <1>3. CASE Finish(c, "error")
    BY <1>1, <1>3, FinishOwned
  <1> QED BY <1>2, <1>3 DEF ReceiveSignature

\* A refusal.
LEMMA OwnedReject ==
  ASSUME OwnerInv, NEW c \in Clients, Reject(c) PROVE \A d \in Clients : Owned(d)'
  <1>1. /\ goroutine[c] = "reject" /\ toClient' = [toClient EXCEPT ![c] = Refusal]
        /\ UNCHANGED <<owner, owners, client>>
    BY DEF Reject, Answer, table, clientVars
  <1>2. toClient'[c] = Refusal /\ \A d \in Clients : d # c => toClient'[d] = toClient[d]
    BY <1>1 DEF OwnerInv, TypeInv, TypeOK
  <1>3. /\ goroutine' = [goroutine EXCEPT ![c] = goroutine'[c]]
        /\ goroutine'[c] \in {"ended", "receive"}
        /\ \A d \in Clients : d # c => found'[d] = found[d]
    BY DEF Reject, Finish, Continue, OwnerInv, TypeInv, TypeOK
  <1>4. ASSUME NEW d \in Clients PROVE Owned(d)'
    <2>1. Owned(d)
      BY DEF OwnerInv
    <2>2. CASE d = c
      BY <1>1, <1>2, <1>3, <2>1, <2>2 DEF Owned, IsToken, Found
    <2>3. CASE d # c
      BY <1>1, <1>2, <1>3, <2>1, <2>3 DEF Owned, IsToken, OwnerInv, TypeInv, TypeOK
    <2> QED BY <2>2, <2>3
  <1> QED BY <1>4

\* Every step keeps what is known of owners.
LEMMA OwnerStep == OwnerInv /\ [Next]_vars => OwnerInv'
  <1> SUFFICES ASSUME OwnerInv, [Next]_vars, NEW d \in Clients PROVE Owned(d)'
    BY TypeStep DEF OwnerInv
  <1> USE DEF TypeInv, TypeOK, ActorTypes, table, serverVars, clientVars, Exchanging,
       IsToken, Found, Owned
  <1>0. /\ TypeInv /\ Owned(d)
        /\ TypeInv'
    BY TypeStep DEF OwnerInv
  <1>1. ASSUME NEW c \in Clients, ReceiveOffering(c) PROVE Owned(d)'
    BY <1>1, OwnedReceiveOffering
  <1>2. ASSUME NEW c \in Clients, LookUp(c) PROVE Owned(d)'
    BY <1>0, <1>2 DEF LookUp, GetUserBySshKey, Continue, Rows
  <1>3. ASSUME NEW c \in Clients, ReceiveSignature(c) PROVE Owned(d)'
    BY <1>3, OwnedReceiveSignature
  <1>4. ASSUME NEW c \in Clients, Reject(c) PROVE Owned(d)'
    BY <1>4, OwnedReject
  <1>5. ASSUME NEW c \in Clients, SendToken(c) PROVE Owned(d)'
    BY <1>0, <1>5 DEF SendToken, Answer, Finish, Continue, TokenOf, Rows
  <1>6. ASSUME NEW c \in Clients, Offer(c) PROVE Owned(d)'
    BY <1>0, <1>6 DEF Offer, Send, Become
  <1>7. ASSUME NEW c \in Clients, Sign(c) PROVE Owned(d)'
    BY <1>0, <1>7 DEF Sign, Send, Become
  <1>8. ASSUME NEW c \in Clients, Rejected(c) PROVE Owned(d)'
    BY <1>0, <1>8 DEF Rejected, Become
  <1>9. ASSUME NEW c \in Clients, Approved(c) PROVE Owned(d)'
    BY <1>0, <1>9 DEF Approved, Become
  <1>10. ASSUME NEW c \in Clients, ReceiveToken(c) PROVE Owned(d)'
    BY <1>0, <1>10 DEF ReceiveToken, Become, Calls
  <1>11. ASSUME NEW c \in Clients, LogAuthentication(c) PROVE Owned(d)'
    BY <1>0, <1>11 DEF LogAuthentication, Continue
  <1>12. ASSUME NEW c \in Clients, Approve(c) PROVE Owned(d)'
    BY <1>0, <1>12 DEF Approve, Answer, Continue
  <1>13. ASSUME NEW c \in Clients, StartExchange(c) PROVE Owned(d)'
    BY <1>0, <1>13 DEF StartExchange, Become
  <1>13a. ASSUME NEW c \in Clients, HasNoKeys(c) PROVE Owned(d)'
    BY <1>0, <1>13a DEF HasNoKeys, Become
  <1>14. ASSUME NEW c \in Clients, Fail(c) PROVE Owned(d)'
    BY <1>0, <1>14 DEF Fail, Become
  <1>15. ASSUME NEW c \in Clients, CallWithToken(c) PROVE Owned(d)'
    BY <1>0, <1>15 DEF CallWithToken, Become, MustRenew, Calls
  <1>16. ASSUME NEW c \in Clients, CallEnds(c) PROVE Owned(d)'
    BY <1>0, <1>16 DEF CallEnds, Become
  <1>17. ASSUME NEW c \in Clients, NewCommand(c) PROVE Owned(d)'
    BY <1>0, <1>17 DEF NewCommand, Become
  <1>18. ASSUME NEW c \in Clients, GoroutineFails(c) PROVE Owned(d)'
    BY <1>0, <1>18 DEF GoroutineFails, Finish, Continue
  <1>19. ASSUME NEW c \in Clients, Return(c) PROVE Owned(d)'
    BY <1>0, <1>19 DEF Return
  <1>20. ASSUME GoDown PROVE Owned(d)'
    BY <1>0, <1>20 DEF GoDown
  <1>21. ASSUME Restart PROVE Owned(d)'
    BY <1>0, <1>21 DEF Restart
  <1>22. ASSUME Tick PROVE Owned(d)'
    BY <1>0, <1>22 DEF Tick
  <1>23. ASSUME NEW k \in Keys, ChangeKey(k) PROVE Owned(d)'
    BY <1>0, <1>23 DEF ChangeKey
  <1>24. CASE UNCHANGED vars
    BY <1>0, <1>24 DEF vars
  <1>25. ASSUME NEW c \in Clients, ClientStep(c) PROVE Owned(d)'
    BY <1>6, <1>7, <1>8, <1>9, <1>10, <1>14, <1>25 DEF ClientStep, MustFail
  <1>26. ASSUME NEW c \in Clients, GoroutineStep(c) PROVE Owned(d)'
    BY <1>1, <1>2, <1>3, <1>11, <1>4, <1>12, <1>5, <1>18, <1>20, <1>26
       DEF GoroutineStep, GoroutineMustFail, Panic
  <1> QED BY <1>13, <1>13a, <1>14, <1>15, <1>16, <1>17, <1>18, <1>19, <1>20, <1>21, <1>22, <1>23,
            <1>24, <1>25, <1>26 DEF Next, HandlerReturns, HandlerTimesOut, Crash

\* Whenever keys come and go: a token is for a user who has owned its key while
\* the stream was open.
THEOREM OwnerCorrect == Spec => []TokenIsOfKeyOwner
  <1>1. OwnerInv => TokenIsOfKeyOwner
    BY DEF OwnerInv, Owned, TokenIsOfKeyOwner
  <1> QED BY OwnerInit, OwnerStep, <1>1, PTL DEF Spec

------------------------------------------------------------------------------
(* How old tokens are *)

\* How long ago the token that is received, kept or used was made.
Fresh(c) ==
  /\ IsToken(toClient[c]) => clock + ServerLife <= toClient[c].expires + Delay
  /\ renewal[c] >= 0 =>
       renewal[c] + ServerLife <= token[c].expires + Delay + ClientLife
  /\ client[c] = "call" =>
       /\ used[c] \in Calls
       /\ clock <= used[c].sent + Delay
       /\ used[c].sent + ServerLife <= used[c].token.expires + Delay + ClientLife

FreshInv == TypeInv /\ \A c \in Clients : Fresh(c)

\* At first no stream has begun.
LEMMA FreshInit == Init => FreshInv
  BY TypeInit DEF Init, FreshInv, Fresh, IsToken

\* Every step keeps what is known of ages.
LEMMA FreshStep == FreshInv /\ [Next]_vars => FreshInv'
  <1> SUFFICES ASSUME FreshInv, [Next]_vars, NEW d \in Clients PROVE Fresh(d)'
    BY TypeStep DEF FreshInv
  <1> USE DEF TypeInv, TypeOK, ActorTypes, table, serverVars, clientVars, Exchanging,
       IsToken, Tokens, Calls, Fresh
  <1>0. /\ TypeInv /\ Fresh(d)
        /\ TypeInv'
    BY TypeStep DEF FreshInv
  <1>1. ASSUME NEW c \in Clients, ReceiveOffering(c) PROVE Fresh(d)'
    BY <1>0, <1>1 DEF ReceiveOffering, Receive, Continue, Finish, Rows
  <1>2. ASSUME NEW c \in Clients, LookUp(c) PROVE Fresh(d)'
    BY <1>0, <1>2 DEF LookUp, GetUserBySshKey, Continue, Rows
  <1>3. ASSUME NEW c \in Clients, ReceiveSignature(c) PROVE Fresh(d)'
    BY <1>0, <1>3 DEF ReceiveSignature, Receive, Continue, Finish
  <1>4. ASSUME NEW c \in Clients, Reject(c) PROVE Fresh(d)'
    BY <1>0, <1>4 DEF Reject, Answer, Continue, Finish
  <1>5. ASSUME NEW c \in Clients, SendToken(c) PROVE Fresh(d)'
    BY <1>0, <1>5 DEF SendToken, Answer, Finish, Continue, TokenOf, Rows
  <1>6. ASSUME NEW c \in Clients, Offer(c) PROVE Fresh(d)'
    BY <1>0, <1>6 DEF Offer, Send, Become
  <1>7. ASSUME NEW c \in Clients, Sign(c) PROVE Fresh(d)'
    BY <1>0, <1>7 DEF Sign, Send, Become
  <1>8. ASSUME NEW c \in Clients, Rejected(c) PROVE Fresh(d)'
    BY <1>0, <1>8 DEF Rejected, Become
  <1>9. ASSUME NEW c \in Clients, Approved(c) PROVE Fresh(d)'
    BY <1>0, <1>9 DEF Approved, Become
  <1>10. ASSUME NEW c \in Clients, ReceiveToken(c) PROVE Fresh(d)'
    BY <1>0, <1>10 DEF ReceiveToken, Become
  <1>11. ASSUME NEW c \in Clients, LogAuthentication(c) PROVE Fresh(d)'
    BY <1>0, <1>11 DEF LogAuthentication, Continue
  <1>12. ASSUME NEW c \in Clients, Approve(c) PROVE Fresh(d)'
    BY <1>0, <1>12 DEF Approve, Answer, Continue
  <1>13. ASSUME NEW c \in Clients, StartExchange(c) PROVE Fresh(d)'
    BY <1>0, <1>13 DEF StartExchange, Become
  <1>13a. ASSUME NEW c \in Clients, HasNoKeys(c) PROVE Fresh(d)'
    BY <1>0, <1>13a DEF HasNoKeys, Become
  <1>14. ASSUME NEW c \in Clients, Fail(c) PROVE Fresh(d)'
    BY <1>0, <1>14 DEF Fail, Become
  <1>15. ASSUME NEW c \in Clients, CallWithToken(c) PROVE Fresh(d)'
    BY <1>0, <1>15 DEF CallWithToken, Become, MustRenew
  <1>16. ASSUME NEW c \in Clients, CallEnds(c) PROVE Fresh(d)'
    BY <1>0, <1>16 DEF CallEnds, Become
  <1>17. ASSUME NEW c \in Clients, NewCommand(c) PROVE Fresh(d)'
    BY <1>0, <1>17 DEF NewCommand, Become
  <1>18. ASSUME NEW c \in Clients, GoroutineFails(c) PROVE Fresh(d)'
    BY <1>0, <1>18 DEF GoroutineFails, Finish, Continue
  <1>19. ASSUME NEW c \in Clients, Return(c) PROVE Fresh(d)'
    BY <1>0, <1>19 DEF Return
  <1>20. ASSUME GoDown PROVE Fresh(d)'
    BY <1>0, <1>20 DEF GoDown
  <1>21. ASSUME Restart PROVE Fresh(d)'
    BY <1>0, <1>21 DEF Restart
  <1>22. ASSUME Tick PROVE Fresh(d)'
    <2>1. /\ clock' = clock + 1 /\ UNCHANGED <<token, renewal, used, client, toClient>>
          /\ IsToken(toClient[d]) => clock' <= toClient[d].expires - ServerLife + Delay
          /\ client[d] = "call" => clock' <= used[d].sent + Delay
      BY <1>22 DEF Tick
    <2>2. /\ IsToken(toClient[d]) => toClient[d].expires \in Int
          /\ clock \in Int /\ ServerLife \in Int /\ Delay \in Int
      BY <1>0
    <2>3. IsToken(toClient[d]) => clock' + ServerLife <= toClient[d].expires + Delay
      BY <2>1, <2>2
    <2> QED BY <1>0, <2>1, <2>3
  <1>23. ASSUME NEW k \in Keys, ChangeKey(k) PROVE Fresh(d)'
    BY <1>0, <1>23 DEF ChangeKey
  <1>24. CASE UNCHANGED vars
    BY <1>0, <1>24 DEF vars
  <1>25. ASSUME NEW c \in Clients, ClientStep(c) PROVE Fresh(d)'
    BY <1>6, <1>7, <1>8, <1>9, <1>10, <1>14, <1>25 DEF ClientStep, MustFail
  <1>26. ASSUME NEW c \in Clients, GoroutineStep(c) PROVE Fresh(d)'
    BY <1>1, <1>2, <1>3, <1>11, <1>4, <1>12, <1>5, <1>18, <1>20, <1>26
       DEF GoroutineStep, GoroutineMustFail, Panic
  <1> QED BY <1>13, <1>13a, <1>14, <1>15, <1>16, <1>17, <1>18, <1>19, <1>20, <1>21, <1>22, <1>23,
            <1>24, <1>25, <1>26 DEF Next, HandlerReturns, HandlerTimesOut, Crash

\* Whatever the lives of tokens and the delays of messages, as long as the
\* client's and two delays are shorter than the server's: no call is refused.
THEOREM FreshCorrect == Spec => []FreshTokenIsAccepted
  <1>1. FreshInv => FreshTokenIsAccepted
    <2> SUFFICES ASSUME FreshInv, NEW c \in Clients, client[c] = "call" PROVE Accepted(c)
      BY DEF FreshTokenIsAccepted
    <2>1. /\ used[c] \in Calls /\ clock <= used[c].sent + Delay
          /\ used[c].sent + ServerLife <= used[c].token.expires + Delay + ClientLife
      BY DEF FreshInv, Fresh
    <2>2. clock \in Nat /\ used[c].sent \in Nat /\ used[c].token.expires \in Nat
      BY <2>1 DEF FreshInv, TypeInv, TypeOK, Calls, Tokens
    <2>3. /\ ClientLife \in Nat /\ ServerLife \in Nat /\ Delay \in Nat
          /\ ClientLife + 2 * Delay < ServerLife
      BY ExchangeAssumption DEF ExchangeAssumption
    <2>4. clock < used[c].token.expires
      BY <2>1, <2>2, <2>3
    <2> QED BY <2>4 DEF Accepted
  <1> QED BY FreshInit, FreshStep, <1>1, PTL DEF Spec

------------------------------------------------------------------------------
(* Which keys were refused *)

\* A key of client c that had no owner at some time of its stream.
Unowned(c, k) == NoUser \in owners[c][k]

\* The client is at the key that the goroutine has got, or will get.
Refused(c) ==
  /\ client[c] \in Exchanging => \A i \in 1..index[c] - 1 : Unowned(c, agent[c][i])
  /\ client[c] = "offer" =>
       /\ toServer[c] = Nothing /\ toClient[c] = Nothing
       /\ goroutine[c] \in {"receive", "ended"}
       /\ goroutine[c] = "receive" => offered[c] = index[c] - 1
  /\ client[c] = "await" =>
       /\ toServer[c] # Nothing =>
            /\ toServer[c] = [fingerprint |-> Key(c)] /\ toClient[c] = Nothing
            /\ goroutine[c] \in {"receive", "ended"}
            /\ goroutine[c] = "receive" => offered[c] = index[c] - 1
       /\ goroutine[c] \in {"lookup", "reject"} =>
            found[c].key = Key(c) /\ offered[c] = index[c]
       /\ goroutine[c] = "reject" => Unowned(c, Key(c))
       /\ toClient[c] = Refusal =>
            /\ index[c] <= MaxKeyOfferings /\ Unowned(c, Key(c))
            /\ goroutine[c] \in {"receive", "ended"}
            /\ goroutine[c] = "receive" => offered[c] = index[c]
  /\ client[c] = "noKeys" =>
       Len(agent[c]) <= MaxKeyOfferings /\ \A i \in 1..Len(agent[c]) : Unowned(c, agent[c][i])

KeysInv == OwnerInv /\ \A c \in Clients : Refused(c)

\* At first no stream has begun.
LEMMA KeysInit == Init => KeysInv
  BY OwnerInit DEF Init, KeysInv, Refused, Exchanging

\* The next key.
LEMMA RefusedRejected ==
  ASSUME KeysInv, NEW c \in Clients, Rejected(c) PROVE \A d \in Clients : Refused(d)'
  <1>1. /\ client[c] = "await" /\ toClient[c] = Refusal
        /\ toClient' = [toClient EXCEPT ![c] = Nothing]
        /\ index' = [index EXCEPT ![c] = @ + 1]
        /\ client' = [client EXCEPT ![c] = IF index[c] = Len(agent[c]) THEN "noKeys" ELSE "offer"]
        /\ UNCHANGED <<agent, toServer, goroutine, offered, found, owners>>
    BY DEF Rejected, Become, table, serverVars
  <1>2. TypeInv /\ \A d \in Clients : Refused(d)
    BY DEF KeysInv, OwnerInv
  <1>3. /\ index[c] <= MaxKeyOfferings /\ index[c] \in 1..Len(agent[c]) /\ toServer[c] = Nothing
        /\ goroutine[c] \in {"receive", "ended"} /\ (goroutine[c] = "receive" => offered[c] = index[c])
        /\ \A i \in 1..index[c] : Unowned(c, agent[c][i])
    <2>1. client[c] \in Exchanging
      BY <1>1 DEF Exchanging
    <2>2. \A i \in 1..index[c] - 1 : Unowned(c, agent[c][i])
      BY <1>2, <2>1 DEF Refused
    <2>3. index[c] \in Nat /\ index[c] \in 1..Len(agent[c])
      BY <1>2, <2>1 DEF TypeInv, TypeOK
    <2>4. Unowned(c, agent[c][index[c]])
      BY <1>1, <1>2 DEF Refused, Key
    <2>5. \A i \in 1..index[c] : Unowned(c, agent[c][i])
      BY <2>2, <2>3, <2>4
    <2> QED BY <1>1, <1>2, <2>3, <2>5 DEF Refused
  <1>4. ASSUME NEW d \in Clients PROVE Refused(d)'
    <2>1. CASE d = c
      <3>1. /\ index'[c] = index[c] + 1 /\ toClient'[c] = Nothing
            /\ client'[c] = IF index[c] = Len(agent[c]) THEN "noKeys" ELSE "offer"
        BY <1>1, <1>2 DEF TypeInv, TypeOK
      <3>2. \A i \in 1..index'[c] - 1 : Unowned(c, agent[c][i])'
        BY <1>1, <1>2, <1>3, <3>1 DEF Unowned, TypeInv, TypeOK
      <3>3. index'[c] - 1 = index[c]
        BY <1>2, <3>1 DEF TypeInv, TypeOK
      <3> QED BY <1>1, <1>3, <2>1, <3>1, <3>2, <3>3 DEF Refused, Unowned
    <2>2. CASE d # c
      <3>1. Refused(d)
        BY <1>2
      <3>2. client'[d] = client[d] /\ index'[d] = index[d] /\ toClient'[d] = toClient[d]
        BY <1>1, <1>2, <2>2 DEF TypeInv, TypeOK
      <3> QED BY <1>1, <3>1, <3>2 DEF Refused, Unowned, Key
    <2> QED BY <2>1, <2>2
  <1> QED BY <1>4

\* Where the goroutine of another stream goes on.
LEMMA RefusedElsewhere ==
  ASSUME KeysInv, NEW d \in Clients,
         UNCHANGED <<agent, client, index, owners, toClient>>,
         goroutine'[d] = goroutine[d], offered'[d] = offered[d],
         found'[d] = found[d], toServer'[d] = toServer[d]
  PROVE  Refused(d)'
  BY DEF KeysInv, Refused, Unowned, Key

\* What was offered is the key that the client is at.
LEMMA RefusedReceiveOffering ==
  ASSUME KeysInv, NEW c \in Clients, ReceiveOffering(c) PROVE \A d \in Clients : Refused(d)'
  <1>1. /\ goroutine[c] = "receive" /\ toServer[c] # Nothing
        /\ toServer' = [toServer EXCEPT ![c] = Nothing]
        /\ UNCHANGED <<agent, client, index, owners, toClient>>
    BY DEF ReceiveOffering, Receive, table, clientVars
  <1>2. TypeInv /\ \A d \in Clients : Refused(d)
    BY DEF KeysInv, OwnerInv
  <1>3. client[c] = "await" =>
          toServer[c] = [fingerprint |-> Key(c)] /\ offered[c] = index[c] - 1 /\ toClient[c] = Nothing
    BY <1>1, <1>2 DEF Refused
  <1>4. client[c] # "offer"
    BY <1>1, <1>2 DEF Refused
  <1>5. /\ \A d \in Clients : d # c =>
             goroutine'[d] = goroutine[d] /\ offered'[d] = offered[d] /\ found'[d] = found[d]
        /\ goroutine'[c] \in {"lookup", "ended"}
        /\ goroutine'[c] = "lookup" => /\ offered'[c] = offered[c] + 1
                                       /\ found'[c] = [user |-> NoUser, key |-> toServer[c].fingerprint]
    BY <1>2 DEF ReceiveOffering, Continue, Finish, TypeInv, TypeOK
  <1>6. toServer'[c] = Nothing /\ \A d \in Clients : d # c => toServer'[d] = toServer[d]
    BY <1>1, <1>2 DEF TypeInv
  <1>7. Refused(c)'
    <2>1. client[c] = "await" /\ goroutine'[c] = "lookup" =>
            found'[c].key = Key(c) /\ offered'[c] = index[c]
      BY <1>2, <1>3, <1>5 DEF TypeInv, TypeOK
    <2> QED BY <1>1, <1>2, <1>3, <1>4, <1>5, <1>6, <2>1 DEF Refused, Unowned, Key
  <1> QED BY <1>1, <1>5, <1>6, <1>7, RefusedElsewhere

\* A key that is refused has no owner at that time.
LEMMA RefusedLookUp ==
  ASSUME KeysInv, NEW c \in Clients, LookUp(c) PROVE \A d \in Clients : Refused(d)'
  <1>1. /\ goroutine[c] = "lookup"
        /\ UNCHANGED <<agent, client, index, owners, toClient, toServer, offered>>
    BY DEF LookUp, table, clientVars
  <1>2. /\ TypeInv /\ (\A d \in Clients : Refused(d))
        /\ found[c] \in Rows
        /\ \A k \in Keys : owner[k] \in owners[c][k]
    BY <1>1 DEF KeysInv, OwnerInv, Owned, TypeInv, ActorTypes
  <1>3. /\ \A d \in Clients : d # c => goroutine'[d] = goroutine[d] /\ found'[d] = found[d]
        /\ goroutine'[c] \in {"reject", "approve"}
        /\ goroutine'[c] = "reject" => owner[found[c].key] = NoUser
        /\ found'[c].key = found[c].key
    BY <1>2 DEF LookUp, GetUserBySshKey, Continue, Rows, TypeInv, TypeOK
  <1>4. goroutine'[c] = "reject" => Unowned(c, found[c].key)
    BY <1>2, <1>3 DEF Unowned, Rows
  <1>5. Refused(c)'
    BY <1>1, <1>2, <1>3, <1>4 DEF Refused, Unowned, Key
  <1> QED BY <1>1, <1>3, <1>5, RefusedElsewhere

\* No signature arrives while the client waits for the answer to an offering.
LEMMA RefusedReceiveSignature ==
  ASSUME KeysInv, NEW c \in Clients, ReceiveSignature(c) PROVE \A d \in Clients : Refused(d)'
  <1>1. /\ goroutine[c] = "receiveSignature" /\ toServer[c] # Nothing
        /\ toServer' = [toServer EXCEPT ![c] = Nothing]
        /\ UNCHANGED <<agent, client, index, owners, toClient>>
    BY DEF ReceiveSignature, Receive, table, clientVars
  <1>2. TypeInv /\ \A d \in Clients : Refused(d)
    BY DEF KeysInv, OwnerInv
  <1>3. client[c] \notin {"offer", "await"}
    BY <1>1, <1>2 DEF Refused
  <1>4. \A d \in Clients : d # c =>
          /\ goroutine'[d] = goroutine[d] /\ offered'[d] = offered[d]
          /\ found'[d] = found[d] /\ toServer'[d] = toServer[d]
    BY <1>1, <1>2 DEF ReceiveSignature, Continue, Finish, TypeInv, TypeOK
  <1>5. Refused(c)'
    BY <1>1, <1>2, <1>3 DEF Refused, Unowned
  <1> QED BY <1>1, <1>4, <1>5, RefusedElsewhere

\* Every step keeps what is known of refusals.
LEMMA KeysStep == KeysInv /\ [Next]_vars => KeysInv'
  <1> SUFFICES ASSUME KeysInv, [Next]_vars, NEW d \in Clients PROVE Refused(d)'
    BY OwnerStep DEF KeysInv
  <1> USE DEF TypeInv, TypeOK, ActorTypes, table, serverVars, clientVars, Exchanging,
       IsToken, Owned, Unowned, Key, Rows, Refused
  <1>0. /\ OwnerInv /\ Refused(d)
        /\ TypeInv /\ Owned(d) /\ TypeInv'
    BY TypeStep DEF KeysInv, OwnerInv
  <1>1. ASSUME NEW c \in Clients, ReceiveOffering(c) PROVE Refused(d)'
    BY <1>1, RefusedReceiveOffering
  <1>2. ASSUME NEW c \in Clients, LookUp(c) PROVE Refused(d)'
    BY <1>2, RefusedLookUp
  <1>3. ASSUME NEW c \in Clients, ReceiveSignature(c) PROVE Refused(d)'
    BY <1>3, RefusedReceiveSignature
  <1>4. ASSUME NEW c \in Clients, Reject(c) PROVE Refused(d)'
    BY <1>0, <1>4 DEF Reject, Answer, Continue, Finish
  <1>5. ASSUME NEW c \in Clients, SendToken(c) PROVE Refused(d)'
    <2>1. /\ goroutine[c] = "token" /\ UNCHANGED <<agent, client, index, owners, toServer>>
          /\ toClient' = [toClient EXCEPT ![c] = TokenOf(found[c].user, found[c].key)]
          /\ goroutine' = [goroutine EXCEPT ![c] = "ended"]
          /\ offered' = [offered EXCEPT ![c] = 0] /\ found' = [found EXCEPT ![c] = Nothing]
      BY <1>5 DEF SendToken, Answer, Finish, Continue
    <2>2. TokenOf(found[c].user, found[c].key) \notin {Nothing, Refusal, Nonce}
      BY <1>0, <2>1, TokenType DEF Tokens
    <2> QED BY <1>0, <2>1, <2>2
  <1>6. ASSUME NEW c \in Clients, Offer(c) PROVE Refused(d)'
    BY <1>0, <1>6 DEF Offer, Send, Become
  <1>7. ASSUME NEW c \in Clients, Sign(c) PROVE Refused(d)'
    BY <1>0, <1>7 DEF Sign, Send, Become
  <1>8. ASSUME NEW c \in Clients, Rejected(c) PROVE Refused(d)'
    BY <1>8, RefusedRejected
  <1>9. ASSUME NEW c \in Clients, Approved(c) PROVE Refused(d)'
    BY <1>0, <1>9 DEF Approved, Become
  <1>10. ASSUME NEW c \in Clients, ReceiveToken(c) PROVE Refused(d)'
    BY <1>0, <1>10 DEF ReceiveToken, Become, Calls
  <1>11. ASSUME NEW c \in Clients, LogAuthentication(c) PROVE Refused(d)'
    BY <1>0, <1>11 DEF LogAuthentication, Continue
  <1>12. ASSUME NEW c \in Clients, Approve(c) PROVE Refused(d)'
    BY <1>0, <1>12 DEF Approve, Answer, Continue
  <1>13. ASSUME NEW c \in Clients, StartExchange(c) PROVE Refused(d)'
    BY <1>0, <1>13 DEF StartExchange, Become
  <1>13a. ASSUME NEW c \in Clients, HasNoKeys(c) PROVE Refused(d)'
    BY <1>0, <1>13a DEF HasNoKeys, Become
  <1>14. ASSUME NEW c \in Clients, Fail(c) PROVE Refused(d)'
    BY <1>0, <1>14 DEF Fail, Become
  <1>15. ASSUME NEW c \in Clients, CallWithToken(c) PROVE Refused(d)'
    BY <1>0, <1>15 DEF CallWithToken, Become, MustRenew, Calls
  <1>16. ASSUME NEW c \in Clients, CallEnds(c) PROVE Refused(d)'
    BY <1>0, <1>16 DEF CallEnds, Become
  <1>17. ASSUME NEW c \in Clients, NewCommand(c) PROVE Refused(d)'
    BY <1>0, <1>17 DEF NewCommand, Become
  <1>18. ASSUME NEW c \in Clients, GoroutineFails(c) PROVE Refused(d)'
    BY <1>0, <1>18 DEF GoroutineFails, Finish, Continue
  <1>19. ASSUME NEW c \in Clients, Return(c) PROVE Refused(d)'
    BY <1>0, <1>19 DEF Return
  <1>20. ASSUME GoDown PROVE Refused(d)'
    BY <1>0, <1>20 DEF GoDown
  <1>21. ASSUME Restart PROVE Refused(d)'
    BY <1>0, <1>21 DEF Restart
  <1>22. ASSUME Tick PROVE Refused(d)'
    BY <1>0, <1>22 DEF Tick
  <1>23. ASSUME NEW k \in Keys, ChangeKey(k) PROVE Refused(d)'
    BY <1>0, <1>23 DEF ChangeKey
  <1>24. CASE UNCHANGED vars
    BY <1>0, <1>24 DEF vars
  <1>25. ASSUME NEW c \in Clients, ClientStep(c) PROVE Refused(d)'
    BY <1>6, <1>7, <1>8, <1>9, <1>10, <1>14, <1>25 DEF ClientStep, MustFail
  <1>26. ASSUME NEW c \in Clients, GoroutineStep(c) PROVE Refused(d)'
    BY <1>1, <1>2, <1>3, <1>11, <1>4, <1>12, <1>5, <1>18, <1>20, <1>26
       DEF GoroutineStep, GoroutineMustFail, Panic
  <1> QED BY <1>13, <1>13a, <1>14, <1>15, <1>16, <1>17, <1>18, <1>19, <1>20, <1>21, <1>22, <1>23,
            <1>24, <1>25, <1>26 DEF Next, HandlerReturns, HandlerTimesOut, Crash

\* However many keys an agent has and whatever happens to them meanwhile: a
\* client that gives up has offered every key within the limit, and each had no
\* owner when it was looked up.
THEOREM KeysCorrect == Spec => []NoKeysIsTrue
  <1>1. KeysInv => NoKeysIsTrue
    BY DEF KeysInv, Refused, Unowned, NoKeysIsTrue
  <1> QED BY KeysInit, KeysStep, <1>1, PTL DEF Spec
==============================================================================
