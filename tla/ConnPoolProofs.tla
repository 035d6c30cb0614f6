--------------------------- MODULE ConnPoolProofs ---------------------------
(* Theorems about ConnPool, for any number of requests and connections, any *)
(* of the routes, and any slots whose session lookup may fail.              *)
EXTENDS ConnPool, SequenceTheorems, FiniteSetTheorems, TLAPS

-----------------------------------------------------------------------------
(* The plans of the routes *)

Ops == {"begin", "beginBare", "query", "end", "body", "page", "ask"}

\* The operations that may take as long as another request, a client or the
\* identity provider likes, and that no handler has in a transaction.
Slow == {"begin", "beginBare", "page", "ask"}

EndsBetween(s, i, k) == \E j \in i + 1 .. k - 1 : s[j] = "end"

\* A handler ends its transaction before it does such a thing...
Orderly(s) ==
  \A i, k \in 1 .. Len(s) :
    s[i] \in {"begin", "beginBare"} /\ i < k /\ s[k] \in Slow => EndsBetween(s, i, k)

\* ... and what is left of its plan while it has one shows that.
Inside(s) == \A k \in 1 .. Len(s) : s[k] \in Slow => EndsBetween(s, 0, k)

\* The plans, one by one.
LEMMA PlansAreOrderly == \A plan \in Plans : plan \in Seq(Ops) /\ Orderly(plan)
<1> DEFINE Good(plan) == plan \in Seq(Ops) /\ Orderly(plan)
<1> USE DEF Ops, Orderly, EndsBetween, Slow
<1>1. Good(BaseTemplate)
  BY DEF BaseTemplate
<1>2. Good(<<"begin", "query", "end", "page">>)
  OBVIOUS
<1>3. Good(<<"begin", "query", "end">>)
  OBVIOUS
<1>4. Good(editUserProfile)
  BY DEF editUserProfile
<1>5. Good(addSSHKey)
  BY DEF addSSHKey
<1>6. Good(removeSSHKey)
  BY DEF removeSSHKey
<1>7. Good(serveLocalLogin)
  BY DEF serveLocalLogin
<1>8. Good(handleCallback)
  BY DEF handleCallback
<1>9. Good(PushAsset)
  BY DEF PushAsset
<1>10. Good(ExchangeSSHKey)
  BY DEF ExchangeSSHKey
<1> HIDE DEF Good
<1>11. /\ Good(PostTemplate) /\ Good(PostsFeedTemplate) /\ Good(ProfileTemplate)
       /\ Good(servePostAsset)
  BY <1>2 DEF PostTemplate, PostsFeedTemplate, ProfileTemplate, servePostAsset
<1>12. /\ Good(serveLogout) /\ Good(SeedArticle) /\ Good(PublishArticle) /\ Good(RedactArticle)
  BY <1>3 DEF serveLogout, SeedArticle, PublishArticle, RedactArticle
<1>13. ASSUME NEW route \in Routes PROVE Good(route.plan)
  BY <1>1, <1>4, <1>5, <1>6, <1>7, <1>8, <1>9, <1>10, <1>11, <1>12
     DEF Routes, Mw, Plain, RequireLogin
<1> QED BY <1>13 DEF Plans, Good

\* What is left of a plan after one operation more is left of a plan.
LEMMA TailIsSuffix ==
  ASSUME NEW s \in Suffixes
  PROVE  s \in Seq(Ops) /\ (s # <<>> => Tail(s) \in Suffixes)
<1>0. PICK plan \in Plans : s \in {SubSeq(plan, i, Len(plan)) : i \in 1 .. Len(plan) + 1}
  BY DEF Suffixes
<1>1. PICK i \in 1 .. Len(plan) + 1 : s = SubSeq(plan, i, Len(plan))
  BY <1>0
<1>2. plan \in Seq(Ops) /\ Len(plan) \in Nat
  BY PlansAreOrderly
<1>3. CASE i \in 1 .. Len(plan)
  <2>1. Tail(s) = SubSeq(plan, i + 1, Len(plan))
    BY <1>1, <1>2, <1>3, HeadTailOfSubSeq
  <2>2. i + 1 \in 1 .. Len(plan) + 1
    BY <1>2, <1>3
  <2>3. s \in Seq(Ops)
    <3>1. \A j \in i .. Len(plan) : plan[j] \in Ops
      BY <1>2, <1>3
    <3> QED BY <1>1, <1>2, <3>1, SubSeqProperties
  <2>4. SubSeq(plan, i + 1, Len(plan)) \in {SubSeq(plan, j, Len(plan)) : j \in 1 .. Len(plan) + 1}
    BY <2>2
  <2>5. SubSeq(plan, i + 1, Len(plan)) \in Suffixes
    BY <1>0, <2>4 DEF Suffixes
  <2> QED BY <2>1, <2>3, <2>5
<1>4. CASE i = Len(plan) + 1
  <2>1. s = <<>>
    BY <1>1, <1>2, <1>4, SubSeqEmpty
  <2> QED BY <2>1
<1> QED BY <1>2, <1>3, <1>4

\* A plan is left of itself, and so is nothing.
LEMMA PlanIsSuffix ==
  ASSUME NEW plan \in Plans
  PROVE  plan \in Suffixes /\ <<>> \in Suffixes
<1>1. plan \in Seq(Ops) /\ Len(plan) \in Nat
  BY PlansAreOrderly
<1>2. SubSeq(plan, 1, Len(plan)) = plan /\ SubSeq(plan, Len(plan) + 1, Len(plan)) = <<>>
  BY <1>1, SubSeqFull, SubSeqEmpty
<1>3. 1 \in 1 .. Len(plan) + 1 /\ Len(plan) + 1 \in 1 .. Len(plan) + 1
  BY <1>1
<1> QED BY <1>2, <1>3 DEF Suffixes

\* Doing an operation keeps what is left orderly; beginning a transaction
\* leaves a plan that ends it in time, and so does all but ending it.
LEMMA TailIsOrderly ==
  ASSUME NEW s \in Seq(Ops), s # <<>>, Orderly(s)
  PROVE  /\ Orderly(Tail(s))
         /\ Head(s) \in {"begin", "beginBare"} => Inside(Tail(s))
         /\ Inside(s) /\ Head(s) # "end" => Inside(Tail(s))
<1> DEFINE t == Tail(s)
<1>1. /\ Len(s) \in Nat \ {0} /\ Len(t) = Len(s) - 1 /\ Head(s) = s[1]
      /\ \A i \in 1 .. Len(t) : t[i] = s[i + 1]
  BY HeadTailProperties
<1> HIDE DEF t
<1>2. ASSUME NEW i \in 0 .. Len(t), NEW k \in 1 .. Len(t), i < k, EndsBetween(s, i + 1, k + 1)
      PROVE  EndsBetween(t, i, k)
  <2>1. PICK j \in i + 2 .. k : s[j] = "end"
    BY <1>2 DEF EndsBetween
  <2>2. j - 1 \in i + 1 .. k - 1 /\ t[j - 1] = s[j]
    BY <1>1, <2>1
  <2> QED BY <2>1, <2>2 DEF EndsBetween
<1>3. Orderly(t)
  <2> SUFFICES ASSUME NEW i \in 1 .. Len(t), NEW k \in 1 .. Len(t),
                      t[i] \in {"begin", "beginBare"}, i < k, t[k] \in Slow
               PROVE  EndsBetween(t, i, k)
    BY DEF Orderly
  <2>1. /\ i + 1 \in 1 .. Len(s) /\ k + 1 \in 1 .. Len(s) /\ i + 1 < k + 1
        /\ s[i + 1] = t[i] /\ s[k + 1] = t[k]
    BY <1>1
  <2>2. EndsBetween(s, i + 1, k + 1)
    BY <2>1 DEF Orderly
  <2> QED BY <1>1, <1>2, <2>2
<1>4. ASSUME Head(s) \in {"begin", "beginBare"}, NEW k \in 1 .. Len(t), t[k] \in Slow
      PROVE  EndsBetween(t, 0, k)
  <2>1. 1 \in 1 .. Len(s) /\ k + 1 \in 1 .. Len(s) /\ 1 < k + 1 /\ s[k + 1] = t[k]
    BY <1>1
  <2>2. EndsBetween(s, 1, k + 1)
    BY <1>1, <1>4, <2>1 DEF Orderly
  <2> QED BY <1>1, <1>2, <2>2
<1>5. ASSUME Inside(s), Head(s) # "end", NEW k \in 1 .. Len(t), t[k] \in Slow
      PROVE  EndsBetween(t, 0, k)
  <2>1. k + 1 \in 1 .. Len(s) /\ s[k + 1] = t[k]
    BY <1>1
  <2>2. EndsBetween(s, 0, k + 1)
    BY <1>5, <2>1 DEF Inside
  <2>3. EndsBetween(s, 1, k + 1)
    BY <1>1, <1>5, <2>2 DEF EndsBetween
  <2> QED BY <1>1, <1>2, <2>3
<1> QED BY <1>3, <1>4, <1>5 DEF t, Inside
\* Inside a transaction the next operation is not a slow one.
LEMMA NoSlowHead ==
  ASSUME NEW s \in Seq(Ops), s # <<>>, Inside(s)
  PROVE  Head(s) \notin Slow
<1>1. Head(s) = s[1] /\ 1 \in 1 .. Len(s)
  BY HeadTailProperties
<1> QED BY <1>1 DEF Inside, EndsBetween

-----------------------------------------------------------------------------
(* The inductive invariant *)

States == {"idle", "mwBegin", "mwQuery", "run", "returned"}

\* TypeOK without the pool.
Types ==
  /\ state \in [Requests -> States]
  /\ guarded \in [Requests -> BOOLEAN]
  /\ todo \in [Requests -> Suffixes]
  /\ mw \in [Requests -> BOOLEAN]
  /\ own \in [Requests -> {"none", "open", "bare"}]
  /\ gone \in [Requests -> BOOLEAN]

\* While its context lasts, a request has the connection of the middleware for its
\* query only, unless it was refused, and then one of its own only if its plan ends
\* the transaction before anything slow.
Frugal(r) ==
  ~gone[r] =>
    /\ mw[r] => state[r] = "mwQuery" \/ r \in Refusable
    /\ own[r] # "none" => state[r] = "run" /\ Inside(todo[r])

IInv == Types /\ InUse <= MaxOpenConns /\ \A r \in Requests : Orderly(todo[r]) /\ Frugal(r)

\* One more connection, or not more than before.
LEMMA PoolStep ==
  ASSUME Types, InUse <= MaxOpenConns, NEW r \in Requests,
         mw' = [mw EXCEPT ![r] = mw'[r]], own' = [own EXCEPT ![r] = own'[r]],
         \/ (mw'[r] => mw[r]) /\ (own'[r] # "none" => own[r] # "none")
         \/ InUse < MaxOpenConns /\ (mw'[r] = mw[r] \/ own'[r] = own[r])
  PROVE  InUse' <= MaxOpenConns
<1> DEFINE M == {q \in Requests : mw[q]}
           O == {q \in Requests : own[q] # "none"}
           N == {q \in Requests : mw'[q]}
           P == {q \in Requests : own'[q] # "none"}
<1>1. IsFiniteSet(Requests) /\ MaxOpenConns \in Nat
  BY PoolAssumption
<1>2. IsFiniteSet(M) /\ IsFiniteSet(O) /\ IsFiniteSet(N) /\ IsFiniteSet(P)
  BY <1>1, FS_Subset
<1>3. /\ Cardinality(M) \in Nat /\ Cardinality(O) \in Nat
      /\ Cardinality(N) \in Nat /\ Cardinality(P) \in Nat
  BY <1>2, FS_CardinalityType
<1>4. InUse = Cardinality(M) + Cardinality(O) /\ InUse' = Cardinality(N) + Cardinality(P)
  BY DEF InUse
<1>5. N \subseteq M \cup {r} /\ P \subseteq O \cup {r}
  BY DEF Types
<1> HIDE DEF M, O, N, P
<1>6. (mw'[r] => mw[r]) => Cardinality(N) <= Cardinality(M)
  <2>1. (mw'[r] => mw[r]) => N \subseteq M
    BY DEF M, N, Types
  <2> QED BY <1>2, <2>1, FS_Subset
<1>7. (own'[r] # "none" => own[r] # "none") => Cardinality(P) <= Cardinality(O)
  <2>1. (own'[r] # "none" => own[r] # "none") => P \subseteq O
    BY DEF O, P, Types
  <2> QED BY <1>2, <2>1, FS_Subset
<1>8. Cardinality(N) <= Cardinality(M) + 1
  <2>0. /\ IsFiniteSet(M \cup {r})
        /\ Cardinality(M \cup {r}) = IF r \in M THEN Cardinality(M) ELSE Cardinality(M) + 1
    BY <1>2, FS_AddElement
  <2>1. IsFiniteSet(M \cup {r}) /\ Cardinality(M \cup {r}) <= Cardinality(M) + 1
    BY <1>3, <2>0
  <2>2. Cardinality(N) <= Cardinality(M \cup {r})
    BY <1>5, <2>1, FS_Subset
  <2>3. Cardinality(M \cup {r}) \in Nat
    BY <2>1, FS_CardinalityType
  <2> QED BY <1>3, <2>1, <2>2, <2>3
<1>9. Cardinality(P) <= Cardinality(O) + 1
  <2>0. /\ IsFiniteSet(O \cup {r})
        /\ Cardinality(O \cup {r}) = IF r \in O THEN Cardinality(O) ELSE Cardinality(O) + 1
    BY <1>2, FS_AddElement
  <2>1. IsFiniteSet(O \cup {r}) /\ Cardinality(O \cup {r}) <= Cardinality(O) + 1
    BY <1>3, <2>0
  <2>2. Cardinality(P) <= Cardinality(O \cup {r})
    BY <1>5, <2>1, FS_Subset
  <2>3. Cardinality(O \cup {r}) \in Nat
    BY <2>1, FS_CardinalityType
  <2> QED BY <1>3, <2>1, <2>2, <2>3
<1>10. CASE (mw'[r] => mw[r]) /\ (own'[r] # "none" => own[r] # "none")
  BY <1>1, <1>3, <1>4, <1>6, <1>7, <1>10
<1>11. CASE InUse < MaxOpenConns /\ mw'[r] = mw[r]
  BY <1>1, <1>3, <1>4, <1>6, <1>9, <1>11
<1>12. CASE InUse < MaxOpenConns /\ own'[r] = own[r]
  BY <1>1, <1>3, <1>4, <1>7, <1>8, <1>12
<1> QED BY <1>10, <1>11, <1>12

\* The other requests stay as they are.
Moves(r) ==
  /\ state' = [state EXCEPT ![r] = state'[r]]
  /\ guarded' = [guarded EXCEPT ![r] = guarded'[r]]
  /\ todo' = [todo EXCEPT ![r] = todo'[r]]
  /\ mw' = [mw EXCEPT ![r] = mw'[r]]
  /\ own' = [own EXCEPT ![r] = own'[r]]
  /\ gone' = [gone EXCEPT ![r] = gone'[r]]

\* What has to be seen of each step.
LEMMA OneStep ==
  ASSUME IInv, NEW r \in Requests, Moves(r),
         state'[r] \in States, guarded'[r] \in BOOLEAN, todo'[r] \in Suffixes,
         mw'[r] \in BOOLEAN, own'[r] \in {"none", "open", "bare"}, gone'[r] \in BOOLEAN,
         Orderly(todo'[r]), Frugal(r)',
         \/ (mw'[r] => mw[r]) /\ (own'[r] # "none" => own[r] # "none")
         \/ InUse < MaxOpenConns /\ (mw'[r] = mw[r] \/ own'[r] = own[r])
  PROVE  IInv'
<1> USE DEF IInv, Moves
<1>1. Types'
  BY DEF Types
<1>2. InUse' <= MaxOpenConns
  BY PoolStep
<1>3. ASSUME NEW q \in Requests PROVE Orderly(todo'[q]) /\ Frugal(q)'
  <2>1. CASE q = r
    BY <2>1
  <2>2. CASE q # r
    <3>1. /\ state'[q] = state[q] /\ todo'[q] = todo[q] /\ mw'[q] = mw[q]
          /\ own'[q] = own[q] /\ gone'[q] = gone[q]
      BY <2>2 DEF Types
    <3> QED BY <3>1 DEF Frugal
  <2> QED BY <2>1, <2>2
<1> QED BY <1>1, <1>2, <1>3

\* Nothing is left at the end.
LEMMA EmptyPlan == <<>> \in Suffixes /\ Orderly(<<>>) /\ Inside(<<>>)
<1>1. BaseTemplate \in Plans
  BY DEF Plans, Routes, Mw
<1> QED BY <1>1, PlanIsSuffix DEF Orderly, Inside

\* What is left of the plan of a request.
LEMMA Left ==
  ASSUME IInv, NEW r \in Requests
  PROVE  /\ todo[r] \in Suffixes /\ todo[r] \in Seq(Ops) /\ Orderly(todo[r])
         /\ todo[r] # <<>> =>
              /\ Tail(todo[r]) \in Suffixes /\ Orderly(Tail(todo[r]))
              /\ Head(todo[r]) \in {"begin", "beginBare"} => Inside(Tail(todo[r]))
              /\ Inside(todo[r]) /\ Head(todo[r]) # "end" => Inside(Tail(todo[r]))
<1>1. todo[r] \in Suffixes /\ Orderly(todo[r])
  BY DEF IInv, Types
<1>2. todo[r] \in Seq(Ops) /\ (todo[r] # <<>> => Tail(todo[r]) \in Suffixes)
  BY <1>1, TailIsSuffix
<1> QED BY <1>1, <1>2, TailIsOrderly

\* Every step of every request keeps the invariant.
LEMMA InvStep == IInv /\ [Next]_vars => IInv'
<1> SUFFICES ASSUME IInv, [Next]_vars PROVE IInv'
  OBVIOUS
<1>1. ASSUME NEW r \in Requests, NEW route \in Served, NEW cookie \in BOOLEAN,
             Arrive(r, route, cookie)
      PROVE  IInv'
  <2>1. /\ route.plan \in Suffixes /\ Orderly(route.plan)
        /\ route.login \in BOOLEAN
    <3>1. route \in Routes
      BY PoolAssumption
    <3>2. route.plan \in Plans
      BY <3>1 DEF Plans
    <3>3. route.login \in BOOLEAN
      <4>1. \A plan : Mw(plan).login = FALSE /\ Plain(plan).login = FALSE /\ RequireLogin(plan).login = TRUE
        BY DEF Mw, Plain, RequireLogin
      <4> QED BY <3>1, <4>1 DEF Routes
    <3> QED BY <3>2, <3>3, PlanIsSuffix, PlansAreOrderly
  <2>2. state[r] = "idle" /\ UNCHANGED <<mw, own, gone>>
    BY <1>1 DEF Arrive
  <2>3. ~gone[r] => own[r] = "none"
    BY <2>2 DEF IInv, Frugal
  <2>4. CASE route.session /\ cookie
    BY <1>1, <2>1, <2>2, <2>3, <2>4, EmptyPlan, OneStep
       DEF Arrive, Goto, Moves, IInv, Types, States, Frugal
  <2>5. CASE ~(route.session /\ cookie)
    <3>1. /\ state'[r] = "run" /\ guarded'[r] = FALSE /\ todo'[r] \in {<<>>, route.plan}
          /\ mw'[r] = mw[r] /\ own'[r] = own[r] /\ gone'[r] = gone[r]
      BY <1>1, <2>2, <2>5 DEF Arrive, Serve, Goto, IInv, Types
    <3>2. Moves(r)
      BY <1>1, <2>2, <2>5 DEF Arrive, Serve, Goto, Moves, IInv, Types
    <3>3. Frugal(r)'
      BY <2>2, <2>3, <3>1 DEF IInv, Frugal
    <3>4. todo'[r] \in Suffixes /\ Orderly(todo'[r])
      BY <2>1, <3>1, EmptyPlan
    <3> QED BY <3>1, <3>2, <3>3, <3>4, OneStep DEF IInv, Types, States
  <2> QED BY <2>4, <2>5
<1>2. ASSUME NEW r \in Requests, MwBegin(r) PROVE IInv'
  BY <1>2, Left, OneStep DEF MwBegin, Goto, Moves, IInv, Types, States, Frugal
<1>3. ASSUME NEW r \in Requests, MwBeginFails(r) PROVE IInv'
  BY <1>3, Left, EmptyPlan, OneStep DEF MwBeginFails, Serve, Goto, Moves, IInv, Types, States, Frugal
<1>4. ASSUME NEW r \in Requests, SessionFound(r) PROVE IInv'
  BY <1>4, Left, EmptyPlan, OneStep DEF SessionFound, Serve, Goto, Moves, IInv, Types, States, Frugal
<1>5. ASSUME NEW r \in Requests, SessionRefused(r) PROVE IInv'
  BY <1>5, Left, EmptyPlan, OneStep DEF SessionRefused, Serve, Goto, Moves, IInv, Types, States, Frugal
<1>6. ASSUME NEW r \in Requests, Begin(r) PROVE IInv'
  BY <1>6, Left, OneStep DEF Begin, AtOp, Done, Moves, IInv, Types, States, Frugal
<1>7. ASSUME NEW r \in Requests, Query(r) PROVE IInv'
  BY <1>7, Left, OneStep DEF Query, AtOp, Done, Moves, IInv, Types, States, Frugal
<1>8. ASSUME NEW r \in Requests, EndTx(r) PROVE IInv'
  BY <1>8, Left, OneStep DEF EndTx, AtOp, Done, Moves, IInv, Types, States, Frugal
<1>9. ASSUME NEW r \in Requests, Answered(r) PROVE IInv'
  BY <1>9, Left, OneStep DEF Answered, AtOp, Done, Moves, IInv, Types, States, Frugal
<1>10. ASSUME NEW r \in Requests, StepFails(r) PROVE IInv'
  BY <1>10, EmptyPlan, OneStep DEF StepFails, AtOp, Moves, IInv, Types, States, Frugal
<1>11. ASSUME NEW r \in Requests, Return(r) PROVE IInv'
  BY <1>11, Left, OneStep DEF Return, Goto, Moves, IInv, Types, States, Frugal
<1>12. ASSUME NEW r \in Requests, Reclaim(r) PROVE IInv'
  BY <1>12, Left, OneStep DEF Reclaim, Moves, IInv, Types, States, Frugal
<1>13. ASSUME NEW r \in Requests, Finish(r) PROVE IInv'
  BY <1>13, Left, OneStep DEF Finish, Goto, Holds, Moves, IInv, Types, States, Frugal
<1>14. ASSUME NEW r \in Requests, Leave(r) PROVE IInv'
  BY <1>14, Left, OneStep DEF Leave, Moves, IInv, Types, States, Frugal
<1>15. CASE UNCHANGED vars
  BY <1>15 DEF vars, IInv, Types, Frugal, InUse
<1> QED
  BY <1>1, <1>2, <1>3, <1>4, <1>5, <1>6, <1>7, <1>8, <1>9, <1>10, <1>11, <1>12, <1>13, <1>14, <1>15
     DEF Next, Take, Run

\* The invariant holds at first.
LEMMA InvInit == Init => IInv
<1> SUFFICES ASSUME Init PROVE IInv
  OBVIOUS
<1> USE DEF Init
<1>1. Types /\ \A r \in Requests : Orderly(todo[r]) /\ Frugal(r)
  BY EmptyPlan DEF Types, States, Frugal
<1>2. {r \in Requests : mw[r]} = {} /\ {r \in Requests : own[r] # "none"} = {}
  OBVIOUS
<1>3. InUse = 0
  <2>1. Cardinality({r \in Requests : mw[r]}) = 0
    BY <1>2, FS_EmptySet
  <2>2. Cardinality({r \in Requests : own[r] # "none"}) = 0
    BY <1>2, FS_EmptySet
  <2> QED BY <2>1, <2>2 DEF InUse
<1> QED BY <1>1, <1>3, PoolAssumption DEF IInv

-----------------------------------------------------------------------------
(* The properties *)

\* The pool never has more connections in use than it may open, however
\* requests come, fail and go away.
THEOREM TypeCorrect == Spec => []TypeOK
<1>1. IInv => TypeOK
  BY DEF IInv, Types, States, TypeOK
<1> QED BY <1>1, InvInit, InvStep, PTL DEF Spec

\* A request that waits for a connection holds none, but for the one its refused
\* session lookup has left it.
LEMMA FrugalWaiter ==
  ASSUME IInv, NEW r \in Requests, ~gone[r], Waits(r)
  PROVE  own[r] = "none" /\ (mw[r] => r \in Refusable)
<1>1. ~(AtOp(r, {"begin", "beginBare"}) /\ Inside(todo[r]))
  BY Left, NoSlowHead DEF AtOp, Slow
<1> QED BY <1>1 DEF IInv, Types, Frugal, Waits, AtOp

\* It is so in every state.
THEOREM WaitersCorrect == Spec => []WaitersHoldNothing
<1>1. IInv => WaitersHoldNothing
  BY FrugalWaiter DEF WaitersHoldNothing
<1> QED BY <1>1, InvInit, InvStep, PTL DEF Spec

\* So requests do not all wait for each other, while the refused are fewer than
\* the connections.
THEOREM GoesOnCorrect == Spec => []SomeoneGoesOn
<1>1. IInv => SomeoneGoesOn
  <2> SUFFICES ASSUME IInv, Cardinality(Refusable) < MaxOpenConns, InUse = MaxOpenConns,
                      \A r \in Requests : Holds(r) => ~gone[r] /\ Waits(r)
               PROVE  FALSE
    BY DEF SomeoneGoesOn
  <2> DEFINE M == {r \in Requests : mw[r]}
             O == {r \in Requests : own[r] # "none"}
  <2>1. \A r \in Requests : own[r] = "none" /\ (mw[r] => r \in Refusable)
    BY FrugalWaiter DEF Holds
  <2>2. O = {} /\ M \subseteq Refusable
    BY <2>1
  <2>3. IsFiniteSet(Refusable) /\ MaxOpenConns \in Nat
    BY PoolAssumption, FS_Subset
  <2> HIDE DEF M, O
  <2>4. Cardinality(O) = 0 /\ IsFiniteSet(M) /\ Cardinality(M) <= Cardinality(Refusable)
    BY <2>2, <2>3, FS_EmptySet, FS_Subset
  <2>5. Cardinality(M) \in Nat /\ Cardinality(Refusable) \in Nat
    BY <2>3, <2>4, FS_CardinalityType
  <2>6. InUse = Cardinality(M) + Cardinality(O)
    BY DEF InUse, M, O
  <2> QED BY <2>3, <2>4, <2>5, <2>6
<1> QED BY <1>1, InvInit, InvStep, PTL DEF Spec

\* No handler has a transaction while its client reads a page or the identity
\* provider answers.
THEOREM SlowPeersCorrect == Spec => []HandlersEndBeforeSlowPeers
<1>1. IInv => HandlersEndBeforeSlowPeers
  <2> SUFFICES ASSUME IInv, NEW r \in Requests, ~gone[r], AtOp(r, {"page", "ask"})
               PROVE  own[r] = "none" /\ (mw[r] => r \in Refusable)
    BY DEF HandlersEndBeforeSlowPeers
  <2>1. ~Inside(todo[r])
    BY Left, NoSlowHead DEF AtOp, Slow
  <2> QED BY <2>1 DEF IInv, Types, Frugal, AtOp
<1> QED BY <1>1, InvInit, InvStep, PTL DEF Spec
=============================================================================
