------------------------ MODULE ArticleServiceProofs ------------------------
(* Theorems about ArticleService, for any requests, users, slugs, revisions  *)
(* and assets.                                                               *)
EXTENDS ArticleService, WellFoundedInduction, TLAPS

-----------------------------------------------------------------------------
(* The inductive invariant *)

SeedWork == {"stage", "link", "list", "commitSeed"}
Staged == {"link", "list", "commitSeed"}
PublishWork == {"lock", "commitPublish"}
RedactWork == {"update", "lockRows", "commitRedact"}

\* A request is in a state of its own handler.
Kind(r) ==
  /\ pc[r] \in SeedStates => req[r] \in SeedRequests
  /\ pc[r] \in PublishStates => req[r] \in PublishRequests
  /\ pc[r] \in RedactStates => req[r] \in RedactRequests

TypeInv == TypeOK /\ \A r \in Requests : Kind(r)

\* What a request has established about the author is still so.
Allowed(r) ==
  /\ creating[r] => pc[r] \in SeedWork /\ author[req[r].slug] = NoUser
  /\ pc[r] \in SeedWork /\ ~creating[r] => author[req[r].slug] = req[r].user
  /\ pc[r] \in Staged => rev[r] \in taken /\ revision[rev[r]] = NoRevision
  /\ pc[r] \in PublishWork =>
       revision[rev[r]] # NoRevision /\ author[revision[rev[r]].slug] = req[r].user
  /\ pc[r] \in RedactWork => author[req[r].slug] = req[r].user

\* Uncommitted articles and revisions belong to one request each.
Apart(r, q) ==
  /\ creating[r] /\ creating[q] /\ req[r].slug = req[q].slug => r = q
  /\ pc[r] \in Staged /\ pc[q] \in Staged /\ rev[r] = rev[q] => r = q

\* Committed revisions have ids that are given out and come from the author;
\* ids that have no revision are neither published nor told.
Settled(n) ==
  IF revision[n] # NoRevision
    THEN n \in taken /\ author[revision[n].slug] = revision[n].by
    ELSE published[n] = 0 /\ told[n] = NotTold

AuthorInv ==
  /\ TypeInv
  /\ \A r \in Requests : Allowed(r)
  /\ \A r, q \in Requests : Apart(r, q)
  /\ \A n \in Revisions : Settled(n)

\* A committed revision the UPDATE of a redaction has not found.
Missed(r, n) == revision[n] # NoRevision /\ revision[n].slug = req[r].slug /\ n \notin seen[r]

\* It is published, or being published, with a time after the UPDATE began.
Timed(r) ==
  /\ pc[r] \in PublishWork => stamp[r] \in 1 .. clock
  /\ pc[r] \in {"lockRows", "commitRedact"} =>
       /\ stamp[r] <= clock
       /\ \A n \in Revisions : Missed(r, n) =>
            /\ published[n] = 0 \/ published[n] >= stamp[r]
            /\ \A q \in Requests : pc[q] \in PublishWork /\ rev[q] = n => stamp[q] >= stamp[r]

\* The UPDATE has found only revisions of its article.
Found(r) ==
  pc[r] \in {"lockRows", "commitRedact"} =>
    \A n \in seen[r] : revision[n] # NoRevision /\ revision[n].slug = req[r].slug

\* The list of missing assets covers what has not arrived, before and after COMMIT.
Covered(r) ==
  pc[r] = "commitSeed" => \A a \in req[r].assets : a.hash \in held \/ a \in listed[r]

IInv ==
  /\ AuthorInv
  /\ MissingListIsComplete
  /\ \A r \in Requests : Timed(r) /\ Found(r) /\ Covered(r)

-----------------------------------------------------------------------------
(* Type correctness *)

\* The values with which nothing is stated yet are of the right kind.
LEMMA AnyValues == AnyRevision \in Revisions /\ AnyRequest \in AllRequests
<1>1. AnyRevision \in Revisions
  BY ServiceAssumption DEF AnyRevision
<1>2. (CHOOSE u \in Users : TRUE) \in Users
  BY ServiceAssumption
<1> QED BY <1>1, <1>2 DEF AnyRequest, AllRequests, PublishRequests

\* The types hold initially.
LEMMA TypeInit == Init => TypeInv
<1> USE AnyValues, ServiceAssumption
<1>1. ASSUME Init PROVE TypeOK
  BY <1>1 DEF Init, TypeOK, States
<1>2. ASSUME Init, NEW r \in Requests PROVE Kind(r)
  BY <1>2 DEF Init, Kind, SeedStates, PublishStates, RedactStates
<1> QED BY <1>1, <1>2 DEF TypeInv

\* What End does to the request that is over, and to no other.
LEMMA EndWork ==
  ASSUME TypeInv, NEW r \in Requests, End(r)
  PROVE  /\ pc' \in [Requests -> States] /\ req' \in [Requests -> AllRequests]
         /\ creating' \in [Requests -> BOOLEAN] /\ rev' \in [Requests -> Revisions]
         /\ listed' \in [Requests -> SUBSET Assets] /\ stamp' \in [Requests -> 0 .. MaxClock]
         /\ seen' \in [Requests -> SUBSET Revisions]
         /\ \A q \in Requests : Kind(q)'
         /\ pc'[r] = "idle" /\ ~creating'[r]
         /\ \A q \in Requests \ {r} :
              /\ pc'[q] = pc[q] /\ req'[q] = req[q] /\ creating'[q] = creating[q]
              /\ rev'[q] = rev[q] /\ listed'[q] = listed[q] /\ stamp'[q] = stamp[q]
              /\ seen'[q] = seen[q]
BY AnyValues, ServiceAssumption DEF TypeInv, TypeOK, Kind, States, SeedStates, PublishStates,
   RedactStates, End, Goto

\* Every step keeps the types.
LEMMA TypeStep ==
  ASSUME TypeInv, Next
  PROVE  TypeInv'
<1> DEFINE Goal == TypeInv'
<1> SUFFICES Goal
  OBVIOUS
<1> USE AnyValues, ServiceAssumption DEF TypeInv, TypeOK, Kind, States, SeedStates, PublishStates, RedactStates, db, local, work, Goal
<1>1. ASSUME NEW r \in Requests, NEW q \in AllRequests, Start(r, q) PROVE Goal
  <2>1. CASE q.op = "seed"
    <3>1. q \in SeedRequests /\ pc' = [pc EXCEPT ![r] = "create"]
      BY <1>1, <2>1 DEF Start, AllRequests, PublishRequests, RedactRequests
    <3> QED BY <1>1, <3>1 DEF Start
  <2>2. CASE q.op = "publish"
    <3>1. q \in PublishRequests /\ pc' = [pc EXCEPT ![r] = "find"]
      BY <1>1, <2>2 DEF Start, AllRequests, SeedRequests, RedactRequests
    <3> QED BY <1>1, <3>1 DEF Start
  <2>3. CASE q.op = "redact"
    <3>1. q \in RedactRequests /\ pc' = [pc EXCEPT ![r] = "lookup"]
      BY <1>1, <2>3 DEF Start, AllRequests, SeedRequests, PublishRequests
    <3> QED BY <1>1, <3>1 DEF Start
  <2> QED BY <2>1, <2>2, <2>3 DEF AllRequests, SeedRequests, PublishRequests, RedactRequests
<1>2. ASSUME NEW r \in Requests, SeedStep(r) PROVE Goal
  <2>1. CASE CreateArticle(r)
    BY <2>1 DEF CreateArticle, Goto
  <2>2. CASE GetArticle(r)
    <3>1. CASE End(r)
      BY <2>2, <3>1, EndWork DEF GetArticle
    <3>2. CASE ~End(r)
      BY <2>2, <3>2 DEF GetArticle, Goto
    <3> QED BY <3>1, <3>2
  <2>3. CASE LinkAssets(r)
    <3>1. CASE End(r)
      BY <2>3, <3>1, EndWork DEF LinkAssets
    <3>2. CASE ~End(r)
      BY <2>3, <3>2 DEF LinkAssets, Goto
    <3> QED BY <3>1, <3>2
  <2>4. CASE ListMissing(r)
    <3>1. Missing(r) \in SUBSET Assets
      BY <2>4 DEF ListMissing, Missing, SeedRequests
    <3> HIDE DEF Missing
    <3> QED BY <2>4, <3>1 DEF ListMissing, Goto
  <2>5. ASSUME NEW n \in Revisions, StageRevision(r, n) PROVE Goal
    BY <2>5 DEF StageRevision, Goto
  <2>6. ASSUME NEW heard \in BOOLEAN, CommitSeed(r, heard) PROVE Goal
    <3>1. req[r] \in SeedRequests /\ req[r].user \in Users /\ req[r].slug \in Slugs
          /\ req[r].assets \subseteq Assets
      BY <2>6 DEF CommitSeed, SeedRequests
    <3>2. [slug |-> req[r].slug, by |-> req[r].user, links |-> Links(r)] \in RevisionRecords
      BY <3>1 DEF RevisionRecords, Links
    <3>3. author' \in [Slugs -> Users \cup {NoUser}]
      BY <2>6, <3>1 DEF CommitSeed
    <3>4. revision' \in [Revisions -> RevisionRecords \cup {NoRevision}]
      BY <2>6, <3>2 DEF CommitSeed
    <3>5. told' \in [Revisions -> (SUBSET Assets) \cup {NotTold}]
      BY <2>6 DEF CommitSeed
    <3> QED BY <2>6, <3>3, <3>4, <3>5, EndWork DEF CommitSeed
  <2> HIDE DEF Goal
  <2> QED BY <1>2, <2>1, <2>2, <2>3, <2>4, <2>5, <2>6 DEF SeedStep
<1>3. ASSUME NEW r \in Requests, PublishStep(r) PROVE Goal
  <2>1. CASE FindRevision(r)
    <3>1. CASE End(r)
      BY <2>1, <3>1, EndWork DEF FindRevision
    <3>2. CASE ~End(r)
      BY <2>1, <3>2 DEF FindRevision, Goto, PublishRequests
    <3> QED BY <3>1, <3>2
  <2>2. CASE LockRevision(r)
    BY <2>2 DEF LockRevision, Goto
  <2>3. CASE CommitPublish(r)
    BY <2>3 DEF CommitPublish, End, Goto
  <2> QED BY <1>3, <2>1, <2>2, <2>3 DEF PublishStep
<1>4. ASSUME NEW r \in Requests, RedactStep(r) PROVE Goal
  <2>1. CASE FindArticle(r)
    <3>1. CASE End(r)
      BY <2>1, <3>1, EndWork DEF FindArticle
    <3>2. CASE ~End(r)
      BY <2>1, <3>2 DEF FindArticle, Goto
    <3> QED BY <3>1, <3>2
  <2>2. CASE FindRows(r)
    BY <2>2 DEF FindRows, Goto, RowsOf
  <2>3. CASE LockRows(r)
    BY <2>3 DEF LockRows, Goto
  <2>4. CASE CommitRedact(r)
    BY <2>4 DEF CommitRedact, End, Goto
  <2> QED BY <1>4, <2>1, <2>2, <2>3, <2>4 DEF RedactStep
<1>5. ASSUME NEW r \in Requests, Abort(r) PROVE Goal
  BY <1>5 DEF Abort, End, Goto
<1>6. ASSUME NEW h \in Hashes, AssetArrives(h) PROVE Goal
  BY <1>6 DEF AssetArrives
<1>7. CASE Tick
  BY <1>7 DEF Tick
<1> HIDE DEF Goal
<1> QED BY <1>1, <1>2, <1>3, <1>4, <1>5, <1>6, <1>7 DEF Next

\* Authors, and what requests know of them, are settled.
LEMMA AuthorStep ==
  ASSUME AuthorInv, Next
  PROVE  (\A r \in Requests : Allowed(r)') /\ (\A r, q \in Requests : Apart(r, q)') /\ (\A n \in Revisions : Settled(n)')
<1> DEFINE Goal == (\A r \in Requests : Allowed(r)') /\ (\A r, q \in Requests : Apart(r, q)') /\ (\A n \in Revisions : Settled(n)')
<1> SUFFICES Goal
  OBVIOUS
<1> USE ServiceAssumption DEF AuthorInv, Allowed, Apart, Settled, TypeInv, TypeOK, Kind, States, SeedStates, PublishStates, RedactStates, SeedWork, Staged, PublishWork, RedactWork, db, local, work, Goal
<1>1. ASSUME NEW r \in Requests, NEW q \in AllRequests, Start(r, q) PROVE Goal
  <2>1. pc'[r] \in {"create", "find", "lookup"} /\ ~creating[r]
    BY <1>1 DEF Start, AllRequests, SeedRequests, PublishRequests, RedactRequests
  <2> QED BY <1>1, <2>1 DEF Start
<1>2. ASSUME NEW r \in Requests, SeedStep(r) PROVE Goal
  <2>1. CASE CreateArticle(r)
    BY <2>1 DEF CreateArticle, Goto, SlugIsFree
  <2>2. CASE GetArticle(r)
    BY <2>2 DEF GetArticle, End, Goto
  <2>3. CASE LinkAssets(r)
    BY <2>3 DEF LinkAssets, End, Goto
  <2>4. CASE ListMissing(r)
    BY <2>4 DEF ListMissing, Goto
  <2>5. ASSUME NEW n \in Revisions, StageRevision(r, n) PROVE Goal
    BY <2>5 DEF StageRevision, Goto
  <2>6. ASSUME NEW heard \in BOOLEAN, CommitSeed(r, heard) PROVE Goal
    <3> DEFINE s == req[r].slug
               u == req[r].user
               new == [slug |-> s, by |-> u, links |-> Links(r)]
    <3>1. /\ s \in Slugs /\ u \in Users /\ new \in RevisionRecords /\ new.slug = s /\ new.by = u
          /\ rev[r] \in taken /\ revision[rev[r]] = NoRevision
      BY <2>6 DEF CommitSeed, SeedRequests, RevisionRecords, Links
    <3>2. /\ author'[s] = u
          /\ \A t \in Slugs : author[t] # NoUser => author'[t] = author[t]
          /\ \A t \in Slugs : author'[t] # author[t] => t = s /\ creating[r]
      BY <2>6, <3>1 DEF CommitSeed
    <3>3. revision' = [revision EXCEPT ![rev[r]] = new]
      BY <2>6 DEF CommitSeed
    <3>4. End(r) /\ UNCHANGED <<published, taken>>
          /\ \A n \in Revisions \ {rev[r]} : told'[n] = told[n]
      BY <2>6 DEF CommitSeed
    <3> HIDE DEF new
    <3>5. ASSUME NEW q \in Requests PROVE Allowed(q)'
      <4>1. CASE q = r
        BY <3>4, <4>1, EndWork
      <4>2. CASE q # r
        <5>1. /\ pc'[q] = pc[q] /\ req'[q] = req[q] /\ creating'[q] = creating[q] /\ rev'[q] = rev[q]
          BY <3>4, <4>2, EndWork
        <5>2. pc[q] \in Staged => rev[q] \in taken' /\ revision'[rev[q]] = NoRevision
          BY <2>6, <3>3, <3>4, <4>2 DEF CommitSeed
        <5>3. creating[q] => author'[req[q].slug] = NoUser
          BY <2>6, <3>2, <4>2 DEF CommitSeed, SeedRequests
        <5>4. pc[q] \in SeedWork /\ ~creating[q] => author'[req[q].slug] = req[q].user
          BY <3>2 DEF SeedRequests
        <5>5. pc[q] \in PublishWork =>
                revision'[rev[q]] # NoRevision /\ author'[revision'[rev[q]].slug] = req[q].user
          BY <3>1, <3>2, <3>3 DEF PublishRequests, RevisionRecords
        <5>6. pc[q] \in RedactWork => author'[req[q].slug] = req[q].user
          BY <3>2 DEF RedactRequests
        <5> QED BY <5>1, <5>2, <5>3, <5>4, <5>5, <5>6
      <4> QED BY <4>1, <4>2
    <3>6. ASSUME NEW n \in Revisions PROVE Settled(n)'
      <4>1. CASE n = rev[r]
        BY <3>1, <3>2, <3>3, <3>4, <4>1, RecordAssumption
      <4>2. CASE n # rev[r] /\ revision[n] # NoRevision
        BY <3>2, <3>3, <3>4, <4>2 DEF RevisionRecords
      <4>3. CASE n # rev[r] /\ revision[n] = NoRevision
        BY <3>3, <3>4, <4>3
      <4> QED BY <4>1, <4>2, <4>3
    <3>7. ASSUME NEW q1 \in Requests, NEW q2 \in Requests PROVE Apart(q1, q2)'
      BY <3>4, EndWork
    <3> QED BY <3>5, <3>6, <3>7
  <2> HIDE DEF Goal
  <2> QED BY <1>2, <2>1, <2>2, <2>3, <2>4, <2>5, <2>6 DEF SeedStep
<1>3. ASSUME NEW r \in Requests, PublishStep(r) PROVE Goal
  <2>1. CASE FindRevision(r)
    BY <2>1 DEF FindRevision, End, Goto
  <2>2. CASE LockRevision(r)
    BY <2>2 DEF LockRevision, Goto
  <2>3. CASE CommitPublish(r)
    BY <2>3 DEF CommitPublish, End, Goto
  <2> QED BY <1>3, <2>1, <2>2, <2>3 DEF PublishStep
<1>4. ASSUME NEW r \in Requests, RedactStep(r) PROVE Goal
  <2>1. CASE FindArticle(r)
    BY <2>1 DEF FindArticle, End, Goto
  <2>2. CASE FindRows(r)
    BY <2>2 DEF FindRows, Goto
  <2>3. CASE LockRows(r)
    BY <2>3 DEF LockRows, Goto
  <2>4. CASE CommitRedact(r)
    BY <2>4 DEF CommitRedact, End, Goto
  <2> QED BY <1>4, <2>1, <2>2, <2>3, <2>4 DEF RedactStep
<1>5. ASSUME NEW r \in Requests, Abort(r) PROVE Goal
  BY <1>5 DEF Abort, End, Goto
<1>6. ASSUME NEW h \in Hashes, AssetArrives(h) PROVE Goal
  BY <1>6 DEF AssetArrives
<1>7. CASE Tick
  BY <1>7 DEF Tick
<1> HIDE DEF Goal
<1> QED BY <1>1, <1>2, <1>3, <1>4, <1>5, <1>6, <1>7 DEF Next

\* Publications and redactions stay ordered by the clock.
LEMMA TimeStep ==
  ASSUME IInv, Next
  PROVE  \A r \in Requests : Timed(r)' /\ Found(r)'
<1> DEFINE Goal == \A r \in Requests : Timed(r)' /\ Found(r)'
<1> SUFFICES Goal
  OBVIOUS
<1> USE ServiceAssumption DEF IInv, AuthorInv, Allowed, Settled, TypeInv, TypeOK, Kind, Timed, Missed, Found, States, SeedStates, PublishStates, RedactStates, SeedWork, Staged, PublishWork, RedactWork, db, local, work, Goal
<1>1. ASSUME NEW r \in Requests, NEW q \in AllRequests, Start(r, q) PROVE Goal
  <2>1. pc'[r] \in {"create", "find", "lookup"}
    BY <1>1 DEF Start, AllRequests, SeedRequests, PublishRequests, RedactRequests
  <2> QED BY <1>1, <2>1 DEF Start
<1>2. ASSUME NEW r \in Requests, SeedStep(r) PROVE Goal
  <2>1. CASE CreateArticle(r)
    BY <2>1 DEF CreateArticle, Goto
  <2>2. CASE GetArticle(r)
    BY <2>2 DEF GetArticle, End, Goto
  <2>3. CASE LinkAssets(r)
    BY <2>3 DEF LinkAssets, End, Goto
  <2>4. CASE ListMissing(r)
    BY <2>4 DEF ListMissing, Goto
  <2>5. ASSUME NEW n \in Revisions, StageRevision(r, n) PROVE Goal
    BY <2>5 DEF StageRevision, Goto
  <2>6. ASSUME NEW heard \in BOOLEAN, CommitSeed(r, heard) PROVE Goal
    BY <2>6 DEF CommitSeed, End, Goto
  <2> HIDE DEF Goal
  <2> QED BY <1>2, <2>1, <2>2, <2>3, <2>4, <2>5, <2>6 DEF SeedStep
<1>3. ASSUME NEW r \in Requests, PublishStep(r) PROVE Goal
  <2>1. CASE FindRevision(r)
    BY <2>1 DEF FindRevision, End, Goto
  <2>2. CASE LockRevision(r)
    BY <2>2 DEF LockRevision, Goto
  <2>3. CASE CommitPublish(r)
    BY <2>3 DEF CommitPublish, End, Goto
  <2> QED BY <1>3, <2>1, <2>2, <2>3 DEF PublishStep
<1>4. ASSUME NEW r \in Requests, RedactStep(r) PROVE Goal
  <2>1. CASE FindArticle(r)
    BY <2>1 DEF FindArticle, End, Goto
  <2>2. CASE FindRows(r)
    BY <2>2 DEF FindRows, Goto, RowsOf
  <2>3. CASE LockRows(r)
    BY <2>3 DEF LockRows, Goto
  <2>4. CASE CommitRedact(r)
    BY <2>4 DEF CommitRedact, End, Goto
  <2> QED BY <1>4, <2>1, <2>2, <2>3, <2>4 DEF RedactStep
<1>5. ASSUME NEW r \in Requests, Abort(r) PROVE Goal
  BY <1>5 DEF Abort, End, Goto
<1>6. ASSUME NEW h \in Hashes, AssetArrives(h) PROVE Goal
  BY <1>6 DEF AssetArrives
<1>7. CASE Tick
  BY <1>7 DEF Tick
<1> HIDE DEF Goal
<1> QED BY <1>1, <1>2, <1>3, <1>4, <1>5, <1>6, <1>7 DEF Next

\* Lists of missing assets stay complete.
LEMMA ListStep ==
  ASSUME IInv, Next
  PROVE  MissingListIsComplete' /\ \A r \in Requests : Covered(r)'
<1> DEFINE Goal == MissingListIsComplete' /\ \A r \in Requests : Covered(r)'
<1> SUFFICES Goal
  OBVIOUS
<1> USE ServiceAssumption DEF IInv, AuthorInv, Allowed, Settled, TypeInv, TypeOK, Kind, Covered, MissingListIsComplete, States, SeedStates, PublishStates, RedactStates, SeedWork, Staged, PublishWork, RedactWork, db, local, work, Goal
<1>1. ASSUME NEW r \in Requests, NEW q \in AllRequests, Start(r, q) PROVE Goal
  <2>1. pc'[r] \in {"create", "find", "lookup"}
    BY <1>1 DEF Start, AllRequests, SeedRequests, PublishRequests, RedactRequests
  <2> QED BY <1>1, <2>1 DEF Start
<1>2. ASSUME NEW r \in Requests, SeedStep(r) PROVE Goal
  <2>1. CASE CreateArticle(r)
    BY <2>1 DEF CreateArticle, Goto
  <2>2. CASE GetArticle(r)
    BY <2>2 DEF GetArticle, End, Goto
  <2>3. CASE LinkAssets(r)
    BY <2>3 DEF LinkAssets, End, Goto
  <2>4. CASE ListMissing(r)
    <3>1. req[r].assets \subseteq Assets
      BY <2>4 DEF ListMissing, SeedRequests
    <3>2. \A a \in req[r].assets : a.hash \in held \/ a \in Missing(r)
      <4> SUFFICES ASSUME NEW a \in req[r].assets, a.hash \notin held PROVE a \in Missing(r)
        OBVIOUS
      <4>1. Link(a) \in Links(r) /\ Link(a).hash = a.hash /\ Link(a).name = Clean[a.file]
        BY DEF Links, Link
      <4> QED BY <4>1 DEF Missing
    <3> HIDE DEF Missing
    <3>3. Covered(r)'
      BY <2>4, <3>2 DEF ListMissing, Goto
    <3>4. ASSUME NEW q \in Requests \ {r} PROVE Covered(q)'
      BY <2>4 DEF ListMissing, Goto
    <3>5. MissingListIsComplete'
      BY <2>4 DEF ListMissing
    <3> QED BY <3>3, <3>4, <3>5
  <2>5. ASSUME NEW n \in Revisions, StageRevision(r, n) PROVE Goal
    BY <2>5 DEF StageRevision, Goto
  <2>6. ASSUME NEW heard \in BOOLEAN, CommitSeed(r, heard) PROVE Goal
    BY <2>6 DEF CommitSeed, End, Goto, Links, Link
  <2> HIDE DEF Goal
  <2> QED BY <1>2, <2>1, <2>2, <2>3, <2>4, <2>5, <2>6 DEF SeedStep
<1>3. ASSUME NEW r \in Requests, PublishStep(r) PROVE Goal
  <2>1. CASE FindRevision(r)
    BY <2>1 DEF FindRevision, End, Goto
  <2>2. CASE LockRevision(r)
    BY <2>2 DEF LockRevision, Goto
  <2>3. CASE CommitPublish(r)
    BY <2>3 DEF CommitPublish, End, Goto
  <2> QED BY <1>3, <2>1, <2>2, <2>3 DEF PublishStep
<1>4. ASSUME NEW r \in Requests, RedactStep(r) PROVE Goal
  <2>1. CASE FindArticle(r)
    BY <2>1 DEF FindArticle, End, Goto
  <2>2. CASE FindRows(r)
    BY <2>2 DEF FindRows, Goto
  <2>3. CASE LockRows(r)
    BY <2>3 DEF LockRows, Goto
  <2>4. CASE CommitRedact(r)
    BY <2>4 DEF CommitRedact, End, Goto
  <2> QED BY <1>4, <2>1, <2>2, <2>3, <2>4 DEF RedactStep
<1>5. ASSUME NEW r \in Requests, Abort(r) PROVE Goal
  BY <1>5 DEF Abort, End, Goto
<1>6. ASSUME NEW h \in Hashes, AssetArrives(h) PROVE Goal
  BY <1>6 DEF AssetArrives
<1>7. CASE Tick
  BY <1>7 DEF Tick
<1> HIDE DEF Goal
<1> QED BY <1>1, <1>2, <1>3, <1>4, <1>5, <1>6, <1>7 DEF Next

-----------------------------------------------------------------------------
(* The theorems *)

\* The invariant holds of every behaviour: however the statements of requests
\* interleave and whichever of them fail.
THEOREM Invariance == Spec => []IInv
<1>1. Init => IInv
  <2> SUFFICES ASSUME Init PROVE IInv
    OBVIOUS
  <2>1. TypeInv
    BY TypeInit
  <2>2. (\A r \in Requests : Allowed(r)) /\ (\A r, q \in Requests : Apart(r, q)) /\ (\A n \in Revisions : Settled(n))
    BY DEF Init, Allowed, Apart, Settled, SeedWork, Staged, PublishWork, RedactWork
  <2>3. MissingListIsComplete
    BY DEF Init, MissingListIsComplete
  <2>4. \A r \in Requests : Timed(r) /\ Found(r) /\ Covered(r)
    BY DEF Init, Timed, Found, Covered, PublishWork
  <2> QED BY <2>1, <2>2, <2>3, <2>4 DEF IInv, AuthorInv
<1>2. IInv /\ [Next]_vars => IInv'
  <2>1. CASE Next
    BY <2>1, TypeStep, AuthorStep, TimeStep, ListStep DEF IInv, AuthorInv
  <2>2. CASE UNCHANGED vars
    <3> USE <2>2 DEF vars, db, local, work
    <3>1. TypeInv => TypeInv'
      BY DEF TypeInv, TypeOK, Kind
    <3>2. AuthorInv => AuthorInv'
      BY <3>1 DEF AuthorInv, Allowed, Apart, Settled
    <3>3. MissingListIsComplete => MissingListIsComplete'
      BY DEF MissingListIsComplete
    <3>4. ASSUME NEW r \in Requests PROVE /\ Timed(r) => Timed(r)'
                                          /\ Found(r) => Found(r)'
                                          /\ Covered(r) => Covered(r)'
      BY DEF Timed, Missed, Found, Covered
    <3> QED BY <3>2, <3>3, <3>4 DEF IInv
  <2> QED BY <2>1, <2>2
<1> QED BY <1>1, <1>2, PTL DEF Spec

\* The state has its types.
THEOREM TypeCorrect == Spec => []TypeOK
<1>1. IInv => TypeOK
  BY DEF IInv, AuthorInv, TypeInv
<1> QED BY <1>1, Invariance, PTL

\* However users race for a slug, each revision comes from the author.
THEOREM AuthorCorrect == Spec => []OnlyAuthorStages
<1>1. IInv => OnlyAuthorStages
  BY DEF IInv, AuthorInv, Settled, OnlyAuthorStages
<1> QED BY <1>1, Invariance, PTL

\* No asset of an article is missing without its client being told.
THEOREM MissingCorrect == Spec => []MissingListIsComplete
<1>1. IInv => MissingListIsComplete
  BY DEF IInv
<1> QED BY <1>1, Invariance, PTL

\* What a step does to publication, and who takes it.
LEMMA PublishedStep ==
  ASSUME IInv, Next, published' # published
  PROVE  \E r \in Requests : CommitPublish(r) \/ CommitRedact(r)
<1> USE DEF db
<1>1. ASSUME NEW r \in Requests, SeedStep(r) PROVE FALSE
  BY <1>1 DEF SeedStep, CreateArticle, GetArticle, LinkAssets, ListMissing, StageRevision, CommitSeed
<1>2. ASSUME NEW r \in Requests, PublishStep(r) PROVE CommitPublish(r)
  BY <1>2 DEF PublishStep, FindRevision, LockRevision
<1>3. ASSUME NEW r \in Requests, RedactStep(r) PROVE CommitRedact(r)
  BY <1>3 DEF RedactStep, FindArticle, FindRows, LockRows
<1> QED BY <1>1, <1>2, <1>3 DEF Next, Start, Abort, AssetArrives, Tick

\* Revisions and assets are never deleted, nor is a revision changed.
LEMMA RowsStay ==
  ASSUME IInv, Next
  PROVE  /\ held \subseteq held'
         /\ \A n \in Revisions : revision[n] # NoRevision => revision'[n] = revision[n]
<1> USE DEF db
<1>1. ASSUME NEW r \in Requests, NEW heard \in BOOLEAN, CommitSeed(r, heard)
      PROVE  /\ UNCHANGED held
             /\ \A n \in Revisions : revision[n] # NoRevision => revision'[n] = revision[n]
  <2>1. revision[rev[r]] = NoRevision
    BY <1>1 DEF IInv, AuthorInv, Allowed, CommitSeed, Staged
  <2> QED BY <1>1, <2>1 DEF IInv, AuthorInv, TypeInv, TypeOK, CommitSeed
<1>2. ASSUME NEW r \in Requests, SeedStep(r), \A heard \in BOOLEAN : ~CommitSeed(r, heard)
      PROVE  UNCHANGED <<held, revision>>
  BY <1>2 DEF SeedStep, CreateArticle, GetArticle, LinkAssets, ListMissing, StageRevision
<1>3. ASSUME NEW r \in Requests, PublishStep(r) PROVE UNCHANGED <<held, revision>>
  BY <1>3 DEF PublishStep, FindRevision, LockRevision, CommitPublish
<1>4. ASSUME NEW r \in Requests, RedactStep(r) PROVE UNCHANGED <<held, revision>>
  BY <1>4 DEF RedactStep, FindArticle, FindRows, LockRows, CommitRedact
<1> QED BY <1>1, <1>2, <1>3, <1>4 DEF Next, Start, Abort, AssetArrives, Tick

\* Nobody but the author publishes or redacts, though the author was compared
\* with the caller statements before the COMMIT.
THEOREM PublishCorrect == Spec => OnlyAuthorPublishes
<1> DEFINE ByAuthor == \A n \in Revisions : published'[n] # published[n] =>
      \E r \in Requests : /\ pc[r] \in {"commitPublish", "commitRedact"}
                         /\ pc'[r] = "idle"
                         /\ req[r].user = author[revision[n].slug]
<1>1. IInv /\ [Next]_vars => [ByAuthor]_vars
  <2> SUFFICES ASSUME IInv, Next, NEW n \in Revisions, published'[n] # published[n]
               PROVE  \E r \in Requests : /\ pc[r] \in {"commitPublish", "commitRedact"}
                                         /\ pc'[r] = "idle"
                                         /\ req[r].user = author[revision[n].slug]
    OBVIOUS
  <2>1. PICK r \in Requests : CommitPublish(r) \/ CommitRedact(r)
    BY PublishedStep
  <2>2. TypeInv /\ Allowed(r) /\ Found(r)
    BY DEF IInv, AuthorInv
  <2>3. CASE CommitPublish(r)
    <3>1. n = rev[r]
      BY <2>2, <2>3 DEF CommitPublish, TypeInv, TypeOK
    <3> QED BY <2>2, <2>3, <3>1 DEF CommitPublish, End, Goto, TypeInv, TypeOK, Allowed, PublishWork
  <2>4. CASE CommitRedact(r)
    <3>1. n \in seen[r]
      BY <2>2, <2>4 DEF CommitRedact, TypeInv, TypeOK
    <3> QED BY <2>2, <2>4, <3>1 DEF CommitRedact, End, Goto, TypeInv, TypeOK, Allowed, RedactWork, Found
  <2> QED BY <2>1, <2>3, <2>4
<1> QED BY <1>1, Invariance, PTL DEF Spec, OnlyAuthorPublishes

\* When a redaction commits, what it leaves public was published after it began.
THEOREM RedactCorrect == Spec => RedactionClearsEarlier
<1> DEFINE Complete == \A r \in Requests : CommitRedact(r) =>
      \A n \in RowsOf(req[r].slug) : published'[n] # 0 => published'[n] >= stamp[r]
<1>1. IInv /\ [Next]_vars => [Complete]_vars
  <2> SUFFICES ASSUME IInv, NEW r \in Requests, CommitRedact(r),
                      NEW n \in RowsOf(req[r].slug), published'[n] # 0
               PROVE  published'[n] >= stamp[r]
    OBVIOUS
  <2>1. n \in Revisions /\ revision[n] # NoRevision /\ revision[n].slug = req[r].slug
    BY DEF RowsOf
  <2>2. n \notin seen[r] /\ published'[n] = published[n]
    BY <2>1 DEF CommitRedact
  <2> QED BY <2>1, <2>2 DEF IInv, Timed, Missed, CommitRedact
<1> QED BY <1>1, Invariance, PTL DEF Spec, RedactionClearsEarlier

\* The requests implement Publication: each takes effect at its COMMIT.
THEOREM Refinement == Spec => ImplementsPublication
<1> DEFINE mapped == [n \in Revisions |-> IF revision[n] = NoRevision THEN NoRevision
                        ELSE [slug |-> revision[n].slug, by |-> revision[n].by]]
<1>1. Init => Articles!Init
  BY DEF Init, Articles!Init
<1>2. IInv /\ [Next]_vars => [Articles!Next]_Articles!vars
  <2> SUFFICES ASSUME IInv, Next PROVE [Articles!Next]_Articles!vars
    BY DEF vars, db, Articles!vars
  <2>1. ASSUME UNCHANGED db PROVE UNCHANGED Articles!vars
    BY <2>1 DEF db, Articles!vars
  <2>2. ASSUME NEW r \in Requests, NEW heard \in BOOLEAN, CommitSeed(r, heard) PROVE Articles!Next
    <3>0. PICK theUser \in Users, theSlug \in Slugs, new \in Revisions :
               req[r].user = theUser /\ req[r].slug = theSlug /\ rev[r] = new
      BY <2>2 DEF IInv, AuthorInv, TypeInv, TypeOK, Kind, CommitSeed, SeedStates, SeedRequests
    <3>1. TypeInv /\ Allowed(r) /\ req[r] \in SeedRequests
      BY <2>2 DEF IInv, AuthorInv, TypeInv, TypeOK, Kind, CommitSeed, SeedStates, SeedRequests
    <3>2. author[theSlug] \in {NoUser, theUser} /\ revision[new] = NoRevision
      BY <2>2, <3>0, <3>1 DEF Allowed, CommitSeed, SeedWork, Staged
    <3>3. author' = [author EXCEPT ![theSlug] = theUser]
      BY <2>2, <3>0, <3>1 DEF Allowed, CommitSeed, SeedWork, TypeInv, TypeOK
    <3>4. [slug |-> theSlug, by |-> theUser, links |-> Links(r)] # NoRevision
      <4>1. req[r].assets \subseteq Assets
        BY <3>0, <3>1, ServiceAssumption DEF SeedRequests
      <4>2. [slug |-> theSlug, by |-> theUser, links |-> Links(r)] \in RevisionRecords
        BY <3>0, <3>1, <4>1 DEF RevisionRecords, Links
      <4> QED BY <4>2, RecordAssumption
    <3>5. mapped' = [mapped EXCEPT ![new] = [slug |-> theSlug, by |-> theUser]]
      BY <2>2, <3>0, <3>1, <3>4 DEF CommitSeed, TypeInv, TypeOK
    <3>6. Articles!Seed(theUser, theSlug, new)
      BY <2>2, <3>0, <3>2, <3>3, <3>5, <3>1 DEF Articles!Seed, CommitSeed
    <3> QED BY <3>6 DEF Articles!Next
  <2>3. ASSUME NEW r \in Requests, CommitPublish(r) PROVE Articles!Next
    <3> DEFINE u == req[r].user
               n == rev[r]
    <3>1. TypeInv /\ Allowed(r) /\ Timed(r) /\ u \in Users /\ n \in Revisions
      BY <2>3 DEF IInv, AuthorInv, TypeInv, TypeOK, Kind, CommitPublish, PublishStates, PublishRequests
    <3>2. stamp[r] \in 1 .. MaxClock
      BY <2>3, <3>1 DEF Timed, CommitPublish, PublishWork, TypeInv, TypeOK
    <3>3. revision[n] # NoRevision /\ author[revision[n].slug] = u
      BY <2>3, <3>1 DEF Allowed, CommitPublish, PublishWork
    <3>4. [slug |-> revision[n].slug, by |-> revision[n].by] # NoRevision
      BY <3>1, <3>3, RecordAssumption DEF TypeInv, TypeOK, RevisionRecords
    <3>5. Articles!Publish(u, n, stamp[r])
      BY <2>3, <3>1, <3>3, <3>4 DEF Articles!Publish, CommitPublish
    <3> QED BY <3>1, <3>2, <3>5 DEF Articles!Next
  <2>4. ASSUME NEW r \in Requests, CommitRedact(r) PROVE Articles!Next
    <3> DEFINE u == req[r].user
               s == req[r].slug
               kept == RowsOf(s) \ seen[r]
    <3>1. TypeInv /\ Allowed(r) /\ Found(r) /\ (\A n \in Revisions : Settled(n))
          /\ u \in Users /\ s \in Slugs
      BY <2>4 DEF IInv, AuthorInv, TypeInv, TypeOK, Kind, CommitRedact, RedactStates, RedactRequests
    <3>2. author[s] = u
      BY <2>4, <3>1 DEF Allowed, CommitRedact, RedactWork
    <3>3. \A n \in Revisions : revision[n] # NoRevision =>
            mapped[n] # NoRevision /\ mapped[n].slug = revision[n].slug
      BY <3>1, RecordAssumption DEF TypeInv, TypeOK, RevisionRecords
    <3>4. published' = [n \in Revisions |->
            IF revision[n] # NoRevision /\ revision[n].slug = s /\ n \notin kept THEN 0 ELSE published[n]]
      BY <2>4, <3>1 DEF CommitRedact, RowsOf, Found
    <3>5. \A n \in Revisions : mapped[n] # NoRevision <=> revision[n] # NoRevision
      BY <3>3
    <3>6. \A n \in kept : mapped[n] # NoRevision
      BY <3>3 DEF RowsOf
    <3>7. published' = [n \in Revisions |->
            IF mapped[n] # NoRevision /\ mapped[n].slug = s /\ n \notin kept THEN 0 ELSE published[n]]
      <4> HIDE DEF mapped, kept
      <4> QED BY <3>3, <3>4, <3>5
    <3>8. UNCHANGED <<author, mapped>>
      BY <2>4 DEF CommitRedact
    <3>9. Articles!Redact(u, s, kept)
      <4> HIDE DEF kept
      <4> QED BY <3>2, <3>6, <3>7, <3>8 DEF Articles!Redact
    <3>10. kept \in SUBSET Revisions
      BY DEF RowsOf
    <3> HIDE DEF kept
    <3> QED BY <3>1, <3>9, <3>10 DEF Articles!Next
  <2>5. ASSUME NEW r \in Requests, SeedStep(r), \A heard \in BOOLEAN : ~CommitSeed(r, heard)
        PROVE  UNCHANGED db
    BY <2>5 DEF SeedStep, CreateArticle, GetArticle, LinkAssets, ListMissing, StageRevision
  <2>6. ASSUME NEW r \in Requests, PublishStep(r), ~CommitPublish(r) PROVE UNCHANGED db
    BY <2>6 DEF PublishStep, FindRevision, LockRevision
  <2>7. ASSUME NEW r \in Requests, RedactStep(r), ~CommitRedact(r) PROVE UNCHANGED db
    BY <2>7 DEF RedactStep, FindArticle, FindRows, LockRows
  <2> QED BY <2>1, <2>2, <2>3, <2>4, <2>5, <2>6, <2>7 DEF Next, Start, Abort, AssetArrives, Tick
<1> QED BY <1>1, <1>2, Invariance, PTL DEF Spec, ImplementsPublication, Articles!Spec
-----------------------------------------------------------------------------
(* What visitors are shown *)

\* A nonempty set of revisions has a latest one, since times are bounded.
LEMMA LatestExists ==
  ASSUME TypeOK, NEW rows \in SUBSET Revisions, rows # {}
  PROVE  Latest(rows) # {}
<1> DEFINE ages == {MaxClock - published[n] : n \in rows}
<1>1. \A n \in rows : published[n] \in 0 .. MaxClock /\ MaxClock \in Nat
  BY ServiceAssumption DEF TypeOK
<1>2. ages \subseteq Nat /\ ages # {}
  BY <1>1
<1>3. \E x \in ages : \A y \in ages : ~(<<y, x>> \in OpToRel(<, Nat))
  BY <1>2, NatLessThanWellFounded, WFMin
<1>4. PICK x \in ages : \A y \in ages : ~(y < x)
  BY <1>2, <1>3 DEF OpToRel
<1>5. PICK n \in rows : x = MaxClock - published[n]
  BY DEF ages
<1>6. ASSUME NEW m \in rows PROVE published[m] <= published[n]
  <2>1. ~(MaxClock - published[m] < MaxClock - published[n])
    BY <1>4, <1>5
  <2>2. MaxClock \in Int /\ published[m] \in Int /\ published[n] \in Int
    BY <1>1
  <2> QED BY <2>1, <2>2
<1> QED BY <1>6 DEF Latest

\* The pages and the feed are made of revisions of the article.
LEMMA RowsAreRevisions ==
  ASSUME NEW s
  PROVE  PublishedOf(s) \subseteq RowsOf(s) /\ RowsOf(s) \subseteq Revisions
BY DEF PublishedOf, RowsOf

\* Whatever the clocks say, an entry of the feed leads to a page, and shows what
\* it shows unless that was published since.
THEOREM FeedCorrect == Spec => []FeedAgreesWithPage
<1>1. TypeOK => FeedAgreesWithPage
  <2> SUFFICES ASSUME TypeOK, NEW now \in 1 .. MaxClock + 1, NEW s \in Slugs
               PROVE  LET entries == Feed(now) \cap RowsOf(s)
                      IN /\ entries # {} => Page(s) # {}
                         /\ (\A n \in PublishedOf(s) : published[n] < now) => entries = Page(s)
                         /\ \A n, k \in entries : published[n] = published[k]
    BY DEF FeedAgreesWithPage
  <2> DEFINE entries == Feed(now) \cap RowsOf(s)
             before == {m \in PublishedOf(s) : published[m] < now}
  <2>1. entries = Latest(before)
    BY DEF Feed, Latest, PublishedOf, RowsOf
  <2>2. entries # {} => Page(s) # {}
    BY <2>1, LatestExists, RowsAreRevisions DEF Latest, Page
  <2>3. (\A n \in PublishedOf(s) : published[n] < now) => entries = Page(s)
    <3>1. (\A n \in PublishedOf(s) : published[n] < now) => before = PublishedOf(s)
      OBVIOUS
    <3> QED BY <2>1, <3>1 DEF Page
  <2>4. ASSUME NEW n \in entries, NEW k \in entries PROVE published[n] = published[k]
    <3>1. published[n] <= published[k] /\ published[k] <= published[n]
      BY <2>1 DEF Latest
    <3>2. published[n] \in Int /\ published[k] \in Int
      BY ServiceAssumption, RowsAreRevisions DEF TypeOK
    <3> QED BY <3>1, <3>2
  <2> QED BY <2>2, <2>3, <2>4
<1> QED BY <1>1, TypeCorrect, PTL

\* The query for a page and the query for its assets agree.
THEOREM PageCorrect == Spec => []PageAndAssetsAgree
<1>1. TypeOK => PageAndAssetsAgree
  <2> SUFFICES ASSUME TypeOK, NEW s \in Slugs
               PROVE  /\ \A n \in Revisions : Page(s) = {n} =>
                           \A l \in revision[n].links :
                             /\ l.hash \in held
                             /\ \A k \in revision[n].links : k.name = l.name => k = l
                             => AssetOf(s, l.name) = {l.hash}
                      /\ Page(s) = {} => \A f \in FileNames : AssetOf(s, Clean[f]) = {}
    BY DEF PageAndAssetsAgree
  <2> DEFINE serves(name, n, h) == [name |-> name, hash |-> h] \in revision[n].links
             rows(name) == {n \in PublishedOf(s) : \E h \in held : serves(name, n, h)}
  <2>1. ASSUME NEW n \in Revisions, Page(s) = {n}, NEW l \in revision[n].links, l.hash \in held,
               \A k \in revision[n].links : k.name = l.name => k = l
        PROVE  AssetOf(s, l.name) = {l.hash}
    <3>1. n \in PublishedOf(s) /\ \A m \in PublishedOf(s) : published[m] <= published[n]
      BY <2>1 DEF Page, Latest
    <3>2. l = [name |-> l.name, hash |-> l.hash]
      BY <3>1 DEF TypeOK, RevisionRecords, Link, PublishedOf, RowsOf
    <3>3. n \in rows(l.name)
      BY <2>1, <3>1, <3>2
    <3>4. \A m \in PublishedOf(s) : published[m] \in Int
      BY ServiceAssumption, RowsAreRevisions DEF TypeOK
    <3>5. ASSUME NEW m \in Latest(rows(l.name)) PROVE m = n
      <4>1. m \in PublishedOf(s) /\ published[n] <= published[m]
        BY <3>3, <3>5 DEF Latest
      <4>2. m \in Page(s)
        BY <3>1, <3>4, <4>1 DEF Page, Latest
      <4> QED BY <2>1, <4>2
    <3>6. Latest(rows(l.name)) = {n}
      BY <3>1, <3>3, <3>5 DEF Latest
    <3>7. \A h : serves(l.name, n, h) => h = l.hash
      <4> SUFFICES ASSUME NEW h, serves(l.name, n, h) PROVE h = l.hash
        OBVIOUS
      <4>1. [name |-> l.name, hash |-> h] = l
        BY <2>1
      <4> QED BY <4>1
    <3>8. AssetOf(s, l.name) = {h \in held : \E m \in Latest(rows(l.name)) : serves(l.name, m, h)}
      BY DEF AssetOf
    <3> HIDE DEF rows
    <3> QED BY <2>1, <3>2, <3>6, <3>7, <3>8
  <2>2. ASSUME Page(s) = {}, NEW f \in FileNames PROVE AssetOf(s, Clean[f]) = {}
    <3>1. PublishedOf(s) = {}
      BY <2>2, LatestExists, RowsAreRevisions DEF Page
    <3> QED BY <3>1 DEF AssetOf, Latest
  <2> QED BY <2>1, <2>2
<1> QED BY <1>1, TypeCorrect, PTL

\* A publication that comes late displaces nothing newer from its page.
THEOREM LateCorrect == Spec => LateDoesNotDisplace
<1> DEFINE AllKept == \A r \in Requests : CommitPublish(r) =>
             \A s \in Slugs : \A n \in Page(s) \ {rev[r]} :
               \/ n \in Page(s)'
               \/ Page(s)' = {rev[r]} /\ published[n] < stamp[r]
<1>1. IInv /\ [Next]_vars => [AllKept]_vars
  <2> SUFFICES ASSUME IInv, NEW r \in Requests, CommitPublish(r),
                      NEW s \in Slugs, NEW n \in Page(s) \ {rev[r]}
               PROVE  n \in Page(s)' \/ (Page(s)' = {rev[r]} /\ published[n] < stamp[r])
    OBVIOUS
  <2>1. TypeOK /\ stamp[r] \in 1 .. MaxClock /\ rev[r] \in Revisions
    BY ServiceAssumption DEF IInv, AuthorInv, TypeInv, TypeOK, Timed, CommitPublish, PublishWork
  <2>2. published' = [published EXCEPT ![rev[r]] = stamp[r]] /\ UNCHANGED revision
    BY DEF CommitPublish
  <2>3. n \in PublishedOf(s) /\ \A m \in PublishedOf(s) : published[m] <= published[n]
    BY DEF Page, Latest
  <2>4. \A m \in Revisions : published[m] \in Int /\ MaxClock \in Nat
    BY <2>1, ServiceAssumption DEF TypeOK
  <2>5. PublishedOf(s) \subseteq Revisions /\ PublishedOf(s)' \subseteq PublishedOf(s) \cup {rev[r]}
    BY <2>1, <2>2 DEF PublishedOf, RowsOf, TypeOK
  <2>6. \A m \in PublishedOf(s) \ {rev[r]} : m \in PublishedOf(s)' /\ published'[m] = published[m]
    BY <2>1, <2>2 DEF PublishedOf, RowsOf, TypeOK
  <2>7. published'[rev[r]] = stamp[r]
    BY <2>1, <2>2 DEF TypeOK
  <2>8. Page(s)' = {m \in PublishedOf(s)' : \A k \in PublishedOf(s)' : published'[k] <= published'[m]}
    BY DEF Page, Latest
  <2>9. CASE rev[r] \in PublishedOf(s)' /\ published[n] < stamp[r]
    <3>1. \A m \in PublishedOf(s)' \ {rev[r]} : published'[m] = published[m] /\ published[m] < stamp[r]
      BY <2>1, <2>3, <2>4, <2>5, <2>6, <2>9
    <3>2. rev[r] \in Page(s)'
      BY <2>1, <2>4, <2>5, <2>7, <2>8, <2>9, <3>1
    <3>3. \A m \in PublishedOf(s)' \ {rev[r]} : m \notin Page(s)'
      <4> SUFFICES ASSUME NEW m \in PublishedOf(s)' \ {rev[r]}, stamp[r] <= published'[m] PROVE FALSE
        BY <2>7, <2>8, <2>9
      <4> QED BY <2>1, <2>4, <2>5, <3>1
    <3> QED BY <2>8, <2>9, <3>2, <3>3
  <2>10. CASE rev[r] \notin PublishedOf(s)' \/ stamp[r] <= published[n]
    <3>1. \A m \in PublishedOf(s)' : published'[m] <= published[n]
      BY <2>3, <2>5, <2>6, <2>7, <2>10
    <3> QED BY <2>3, <2>6, <2>8, <3>1
  <2> QED BY <2>1, <2>3, <2>4, <2>5, <2>9, <2>10
<1> QED BY <1>1, Invariance, PTL DEF Spec, LateDoesNotDisplace

\* While an article is not redacted, what it serves under a name it goes on serving
\* under that name, though another revision or another file may be served.
THEOREM KeepsCorrect == Spec => PageKeepsItsAssets
<1> DEFINE Serves(s, name) == \E n \in PublishedOf(s), h \in held :
                               [name |-> name, hash |-> h] \in revision[n].links
           ServesRight == \A s \in Slugs, f \in FileNames :
                            AssetOf(s, Clean[f]) # {} <=> Serves(s, Clean[f])
           Keeps == \A s \in Slugs, f \in FileNames :
                      AssetOf(s, Clean[f]) # {} =>
                        \/ AssetOf(s, Clean[f])' # {}
                        \/ \E r \in Requests : CommitRedact(r) /\ req[r].slug = s
<1>1. TypeOK => ServesRight
  <2> SUFFICES ASSUME TypeOK, NEW s \in Slugs, NEW name
               PROVE  AssetOf(s, name) # {} <=> Serves(s, name)
    OBVIOUS
  <2> DEFINE rows == {n \in PublishedOf(s) : \E h \in held : [name |-> name, hash |-> h] \in revision[n].links}
  <2>1. AssetOf(s, name) =
          {h \in held : \E n \in Latest(rows) : [name |-> name, hash |-> h] \in revision[n].links}
    BY DEF AssetOf
  <2>2. rows # {} <=> Serves(s, name)
    OBVIOUS
  <2>3. Latest(rows) \subseteq rows
    BY DEF Latest
  <2>4. rows \in SUBSET Revisions
    BY RowsAreRevisions
  <2>5. rows # {} => Latest(rows) # {}
    <3> HIDE DEF rows
    <3> QED BY <2>4, LatestExists
  <2>6. \A n \in rows : \E h \in held : [name |-> name, hash |-> h] \in revision[n].links
    OBVIOUS
  <2> HIDE DEF rows, Serves
  <2> QED BY <2>1, <2>2, <2>3, <2>5, <2>6
<1>2. IInv /\ ServesRight /\ ServesRight' /\ [Next]_vars => [Keeps]_vars
  <2> SUFFICES ASSUME IInv, Next, NEW s \in Slugs, NEW name, Serves(s, name),
                      \A r \in Requests : CommitRedact(r) => req[r].slug # s
               PROVE  Serves(s, name)'
    BY DEF Keeps
  <2>1. PICK n \in PublishedOf(s), h \in held : [name |-> name, hash |-> h] \in revision[n].links
    OBVIOUS
  <2>2. n \in Revisions /\ revision[n] # NoRevision /\ revision[n].slug = s /\ published[n] # 0
    BY <2>1 DEF PublishedOf, RowsOf
  <2>3. held \subseteq held'
    BY RowsStay
  <2>4. revision'[n] = revision[n]
    BY <2>2, RowsStay
  <2>5. published'[n] # 0
    <3> SUFFICES ASSUME published' # published PROVE published'[n] # 0
      BY <2>2
    <3>1. PICK r \in Requests : CommitPublish(r) \/ CommitRedact(r)
      BY PublishedStep
    <3>2. CASE CommitPublish(r)
      <4>1. stamp[r] # 0
        BY <3>2, ServiceAssumption DEF IInv, AuthorInv, TypeInv, TypeOK, Timed, CommitPublish, PublishWork
      <4> QED BY <2>2, <3>2, <4>1 DEF IInv, AuthorInv, TypeInv, TypeOK, CommitPublish
    <3>3. CASE CommitRedact(r)
      <4>1. n \notin seen[r]
        BY <2>2, <3>3 DEF IInv, Found, CommitRedact
      <4> QED BY <2>2, <3>3, <4>1 DEF CommitRedact
    <3> QED BY <3>1, <3>2, <3>3
  <2>6. n \in PublishedOf(s)'
    BY <2>2, <2>4, <2>5 DEF PublishedOf, RowsOf
  <2> QED BY <2>1, <2>3, <2>4, <2>6
<1> QED BY <1>1, <1>2, TypeCorrect, Invariance, PTL DEF Spec, PageKeepsItsAssets
=============================================================================
