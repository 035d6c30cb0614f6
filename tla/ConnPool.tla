------------------------------ MODULE ConnPool ------------------------------
(* The pool of database connections and the requests that share it.  Each    *)
(* handler is the order in which it begins and ends its transaction, queries *)
(* and waits for others: its client, or the identity provider.  The session  *)
(* middleware runs a transaction of its own before the handler's.            *)
EXTENDS Integers, Sequences, FiniteSets

CONSTANTS
  Requests,      \* slots in which requests run, one after the other
  MaxOpenConns,  \* SetMaxOpenConns
  Refusable,     \* the slots whose session lookups may fail
  Served         \* the routes that are requested, a subset of Routes

VARIABLES
  state,    \* where the request is
  guarded,  \* its handler is behind RequireLogin
  todo,     \* what its handler has yet to do
  mw,       \* the middleware's transaction is open
  own,      \* the handler's: "none", "open", or "bare", without deferred Rollback
  gone      \* its context is cancelled

vars == <<state, guarded, todo, mw, own, gone>>

Holds(r) == mw[r] \/ own[r] # "none"
InUse == Cardinality({r \in Requests : mw[r]}) + Cardinality({r \in Requests : own[r] # "none"})

---------------------------------------------------------------------------
(* The handlers.  "query" stands for one or more statements, "end" for       *)
(* COMMIT or ROLLBACK, "body" for reading what the client sends, "page" for  *)
(* writing an answer that is too large to be buffered, "ask" for a call to   *)
(* the identity provider.                                                    *)

BaseTemplate == <<"page">>

\* Mutant: the page is written before the deferred rollback.
PostTemplateDeferred == <<"begin", "query", "page", "end">>

PostTemplate == <<"begin", "query", "end", "page">>
PostsFeedTemplate == <<"begin", "query", "end", "page">>
ProfileTemplate == <<"begin", "query", "end", "page">>
servePostAsset == <<"begin", "query", "end", "page">>
serveLogout == <<"begin", "query", "end">>
editUserProfile == <<"begin", "body", "query", "end">>
addSSHKey == <<"body", "begin", "query", "end">>
removeSSHKey == <<"body", "beginBare", "query", "end">>
serveLocalLogin == <<"body", "begin", "query", "end">>
handleCallback == <<"ask", "begin", "query", "end">>
SeedArticle == <<"begin", "query", "end">>
PublishArticle == <<"begin", "query", "end">>
RedactArticle == <<"begin", "query", "end">>
PushAsset == <<"begin", "query", "body", "end">>
ExchangeSSHKey == <<"body", "begin", "query", "end", "body", "begin", "query", "end">>

Plain(plan) == [session |-> FALSE, login |-> FALSE, plan |-> plan]
Mw(plan) == [session |-> TRUE, login |-> FALSE, plan |-> plan]
RequireLogin(plan) == [session |-> TRUE, login |-> TRUE, plan |-> plan]

\* The routes of web.go and main.go.
Routes ==
  {Mw(BaseTemplate), RequireLogin(BaseTemplate), Mw(PostsFeedTemplate),
   Plain(PostTemplate), Plain(servePostAsset), Mw(serveLogout),
   RequireLogin(ProfileTemplate), RequireLogin(editUserProfile),
   RequireLogin(addSSHKey), RequireLogin(removeSSHKey),
   Plain(serveLocalLogin), Plain(handleCallback), Plain(ExchangeSSHKey),
   Plain(SeedArticle), Plain(PushAsset), Plain(PublishArticle), Plain(RedactArticle)}

ASSUME PoolAssumption ==
  /\ IsFiniteSet(Requests) /\ Refusable \subseteq Requests
  /\ MaxOpenConns \in Nat \ {0} /\ Served \subseteq Routes

---------------------------------------------------------------------------
Init ==
  /\ state = [r \in Requests |-> "idle"]
  /\ guarded = [r \in Requests |-> FALSE]
  /\ todo = [r \in Requests |-> <<>>]
  /\ mw = [r \in Requests |-> FALSE]
  /\ own = [r \in Requests |-> "none"]
  /\ gone = [r \in Requests |-> FALSE]

Goto(r, st) == state' = [state EXCEPT ![r] = st]

\* The handler runs, unless it requires a login and there is no user.
Serve(r, user, login, plan) ==
  /\ Goto(r, "run")
  /\ todo' = [todo EXCEPT ![r] = IF login /\ ~user THEN <<>> ELSE plan]
  /\ guarded' = [guarded EXCEPT ![r] = FALSE]

Arrive(r, route, cookie) ==
  /\ state[r] = "idle"
  /\ IF route.session /\ cookie
       THEN /\ Goto(r, "mwBegin")
            /\ todo' = [todo EXCEPT ![r] = route.plan]
            /\ guarded' = [guarded EXCEPT ![r] = route.login]
       ELSE Serve(r, FALSE, route.login, route.plan)
  /\ UNCHANGED <<mw, own, gone>>

\* Begin waits while all connections are in use, or until its context ends.
MwBegin(r) ==
  /\ state[r] = "mwBegin" /\ ~gone[r] /\ InUse < MaxOpenConns
  /\ mw' = [mw EXCEPT ![r] = TRUE]
  /\ Goto(r, "mwQuery")
  /\ UNCHANGED <<guarded, todo, own, gone>>

MwBeginFails(r) ==
  /\ state[r] = "mwBegin"
  /\ Serve(r, FALSE, guarded[r], todo[r])
  /\ UNCHANGED <<mw, own, gone>>

\* Mutant: the rollback is deferred until the handler has returned.
SessionFoundDeferred(r) ==
  /\ state[r] = "mwQuery" /\ mw[r]
  /\ Serve(r, TRUE, guarded[r], todo[r])
  /\ UNCHANGED <<mw, own, gone>>

SessionFound(r) ==
  /\ state[r] = "mwQuery" /\ mw[r]
  /\ mw' = [mw EXCEPT ![r] = FALSE]
  /\ Serve(r, TRUE, guarded[r], todo[r])
  /\ UNCHANGED <<own, gone>>

\* No session has this token, or the query fails: the handler runs within the
\* middleware's transaction.
SessionRefused(r) ==
  /\ state[r] = "mwQuery" /\ (r \in Refusable \/ gone[r])
  /\ Serve(r, FALSE, guarded[r], todo[r])
  /\ UNCHANGED <<mw, own, gone>>

---------------------------------------------------------------------------
AtOp(r, ops) == state[r] = "run" /\ todo[r] # <<>> /\ Head(todo[r]) \in ops
Done(r) == todo' = [todo EXCEPT ![r] = Tail(@)]

\* Mutant: there is no limit to the connections.
BeginUnlimited(r) ==
  /\ AtOp(r, {"begin", "beginBare"}) /\ ~gone[r]
  /\ own' = [own EXCEPT ![r] = IF Head(todo[r]) = "begin" THEN "open" ELSE "bare"]
  /\ Done(r)
  /\ UNCHANGED <<state, guarded, mw, gone>>

Begin(r) ==
  /\ AtOp(r, {"begin", "beginBare"}) /\ ~gone[r] /\ InUse < MaxOpenConns
  /\ own' = [own EXCEPT ![r] = IF Head(todo[r]) = "begin" THEN "open" ELSE "bare"]
  /\ Done(r)
  /\ UNCHANGED <<state, guarded, mw, gone>>

Query(r) ==
  /\ AtOp(r, {"query"}) /\ own[r] # "none"
  /\ Done(r)
  /\ UNCHANGED <<state, guarded, mw, own, gone>>

EndTx(r) ==
  /\ AtOp(r, {"end"})
  /\ own' = [own EXCEPT ![r] = "none"]
  /\ Done(r)
  /\ UNCHANGED <<state, guarded, mw, gone>>

\* The client, or the identity provider, does its part.
Answered(r) ==
  /\ AtOp(r, {"body", "page", "ask"})
  /\ Done(r)
  /\ UNCHANGED <<state, guarded, mw, own, gone>>

\* Mutant: a step that fails is tried again.
StepRetried(r) ==
  /\ AtOp(r, {"begin", "beginBare", "query", "body", "page", "ask"})
  /\ UNCHANGED vars

\* A step fails, as every step may, and the handler answers with an error.
StepFails(r) ==
  /\ AtOp(r, {"begin", "beginBare", "query", "body", "page", "ask"})
  /\ todo' = [todo EXCEPT ![r] = <<>>]
  /\ UNCHANGED <<state, guarded, mw, own, gone>>

\* The handler returns: its deferred Rollback runs, then its context ends.
Return(r) ==
  /\ state[r] = "run" /\ todo[r] = <<>>
  /\ Goto(r, "returned")
  /\ own' = [own EXCEPT ![r] = IF @ = "open" THEN "none" ELSE @]
  /\ gone' = [gone EXCEPT ![r] = TRUE]
  /\ UNCHANGED <<guarded, todo, mw>>

\* database/sql rolls back what the ended context has left open.
Reclaim(r) ==
  /\ gone[r] /\ Holds(r)
  /\ mw' = [mw EXCEPT ![r] = FALSE]
  /\ own' = [own EXCEPT ![r] = "none"]
  /\ UNCHANGED <<state, guarded, todo, gone>>

Finish(r) ==
  /\ state[r] = "returned" /\ ~Holds(r)
  /\ Goto(r, "idle")
  /\ gone' = [gone EXCEPT ![r] = FALSE]
  /\ UNCHANGED <<guarded, todo, mw, own>>

\* The client leaves while its request is running.
Leave(r) ==
  /\ state[r] \in {"mwBegin", "mwQuery", "run"} /\ ~gone[r]
  /\ gone' = [gone EXCEPT ![r] = TRUE]
  /\ UNCHANGED <<state, guarded, todo, mw, own>>

---------------------------------------------------------------------------
Take(r) == MwBegin(r) \/ Begin(r)

Run(r) ==
  \/ MwBeginFails(r) \/ SessionFound(r) \/ SessionRefused(r)
  \/ Query(r) \/ EndTx(r) \/ Answered(r) \/ StepFails(r)
  \/ Return(r) \/ Reclaim(r) \/ Finish(r)

Next == \E r \in Requests :
  \/ \E route \in Served, cookie \in BOOLEAN : Arrive(r, route, cookie)
  \/ Take(r) \/ Run(r) \/ Leave(r)

Spec == Init /\ [][Next]_vars

\* What goes on by itself: connections answer, the client or the provider does
\* its part or goes away, what is cancelled fails.  Begin does not fail while
\* its client waits; a request that waits gets one of the connections that are
\* returned again and again.
Progress(r) ==
  \/ SessionFound(r) \/ SessionRefused(r)
  \/ Query(r) \/ EndTx(r) \/ Answered(r)
  \/ gone[r] /\ (MwBeginFails(r) \/ StepFails(r))
  \/ Return(r) \/ Reclaim(r) \/ Finish(r)

FairSpec == Spec /\ \A r \in Requests : WF_vars(Progress(r)) /\ SF_vars(Take(r))

---------------------------------------------------------------------------
Plans == {route.plan : route \in Routes}
Suffixes == UNION {{SubSeq(plan, i, Len(plan)) : i \in 1..Len(plan) + 1} : plan \in Plans}

\* The variables have their types, and the pool has no more connections than
\* the server is configured for.
TypeOK ==
  /\ state \in [Requests -> {"idle", "mwBegin", "mwQuery", "run", "returned"}]
  /\ guarded \in [Requests -> BOOLEAN]
  /\ todo \in [Requests -> Suffixes]
  /\ mw \in [Requests -> BOOLEAN]
  /\ own \in [Requests -> {"none", "open", "bare"}]
  /\ gone \in [Requests -> BOOLEAN]
  /\ InUse <= MaxOpenConns

Waits(r) == state[r] = "mwBegin" \/ AtOp(r, {"begin", "beginBare"})

\* A request that waits for a connection holds none of its handler's, and the
\* middleware's only after its session lookup was refused: UserMiddleware rolls back
\* if it finds a user (userdata.go:42) and not before it returns early (:35-41).
WaitersHoldNothing ==
  \A r \in Requests : ~gone[r] /\ Waits(r) => own[r] = "none" /\ (mw[r] => r \in Refusable)

\* Requests that were refused do wait for a second connection while they hold one.
\* While fewer of them run than there are connections, not all that hold one wait
\* for another: somebody goes on, and gives a connection back.
SomeoneGoesOn ==
  Cardinality(Refusable) < MaxOpenConns /\ InUse = MaxOpenConns =>
    \E r \in Requests : Holds(r) /\ (gone[r] \/ ~Waits(r))

\* While a client reads a page slowly, or the identity provider is slow to answer,
\* the handler has no transaction: answers are rendered after it has ended and the
\* provider is asked before it begins (hypertext.go:120-186, oidc.go:172-181,
\* assets.go:29-57).  The middleware may have one: the page of a visitor whose
\* session cookie was refused is written within it (userdata.go:35-41).
HandlersEndBeforeSlowPeers ==
  \A r \in Requests : ~gone[r] /\ AtOp(r, {"page", "ask"}) =>
    own[r] = "none" /\ (mw[r] => r \in Refusable)

\* Every request ends and leaves no connection behind, removeSSHKey on its
\* error paths and requests that were refused included, if fewer requests than
\* there are connections have had their session lookup fail.
RequestEnds == \A r \in Requests : state[r] # "idle" ~> state[r] = "idle" /\ ~Holds(r)
=============================================================================
