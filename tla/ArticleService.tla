--------------------------- MODULE ArticleService ---------------------------
(* CmsService.SeedArticle, PublishArticle and RedactArticle over PostgreSQL. *)
(*                                                                           *)
(* A request is one READ COMMITTED transaction.  One action is one statement *)
(* of it: a statement reads what is committed when it begins and what its    *)
(* own transaction has written, and an INSERT or UPDATE waits for the        *)
(* transactions that hold its key or its rows.  Assets are rows that         *)
(* PushAsset (module AssetUpload) adds; they are never deleted.              *)
EXTENDS Integers

CONSTANTS
  Requests,    \* the request slots of the server
  Users, Slugs,
  Revisions,   \* the ids revisions may get
  Hashes,      \* the hashes of assets
  FileNames,   \* the file names in the descriptors clients send
  Clean,       \* Clean[f]: path.Clean(f), or NotLocal if f is not a local path
  AssetLists,  \* the sets of descriptors clients send with an article
  MaxClock,    \* bound on the clock
  NoUser, NoRevision, NotTold, NotLocal

\* What a descriptor says that matters here, and what LinkArticleAsset keeps.
Assets == [file : FileNames, hash : Hashes]
Link(a) == [name |-> Clean[a.file], hash |-> a.hash]

ASSUME ServiceAssumption ==
  /\ MaxClock \in Nat \ {0}
  /\ NoUser \notin Users
  /\ Users # {} /\ Revisions # {}
  /\ AssetLists \subseteq SUBSET Assets

\* What a revision is here: the rows of articles__revisions__assets with it.
RevisionRecords == [slug : Slugs, by : Users, links : SUBSET {Link(a) : a \in Assets}]

ASSUME RecordAssumption ==
  /\ NoRevision \notin RevisionRecords
  /\ NoRevision \notin [slug : Slugs, by : Users]

SeedRequests == [op : {"seed"}, user : Users, slug : Slugs, assets : AssetLists]
PublishRequests == [op : {"publish"}, user : Users, rev : Revisions]
RedactRequests == [op : {"redact"}, user : Users, slug : Slugs]
AllRequests == SeedRequests \cup PublishRequests \cup RedactRequests

VARIABLES
  author,      \* articles: author[s], or NoUser while there is no article s
  revision,    \* articles__revisions: [slug, by, links] or NoRevision; by is
               \* the user of the request that staged it, which no column keeps
  published,   \* published_at of each revision, 0 for NULL
  held,        \* assets: the hashes that have a row
  clock,       \* time.Now()
  taken,       \* the public ids given out: defaults are not rolled back
  pc, req,     \* where each request is, and what it asks
  creating,    \* the transaction has inserted the article of its slug
  rev,         \* the revision it stages or publishes
  listed,      \* the missing assets it found
  stamp,       \* the time it publishes with, or (not in the code) when its
               \* UPDATE began if it redacts
  seen,        \* the rows the UPDATE of a redaction found
  told         \* the missing assets the client was told of, for each revision

db == <<author, revision, published>>
work == <<creating, rev, listed, stamp, seen>>
local == <<req, work>>
vars == <<db, held, clock, taken, pc, local, told>>

SeedStates == {"create", "get", "stage", "link", "list", "commitSeed"}
PublishStates == {"find", "lock", "commitPublish"}
RedactStates == {"lookup", "update", "lockRows", "commitRedact"}
States == {"idle"} \cup SeedStates \cup PublishStates \cup RedactStates

AnyRevision == CHOOSE n \in Revisions : TRUE
AnyRequest == [op |-> "publish", user |-> CHOOSE u \in Users : TRUE, rev |-> AnyRevision]

Init ==
  /\ author = [s \in Slugs |-> NoUser]
  /\ revision = [n \in Revisions |-> NoRevision]
  /\ published = [n \in Revisions |-> 0]
  /\ held = {}
  /\ clock = 1
  /\ taken = {}
  /\ pc = [r \in Requests |-> "idle"]
  /\ req = [r \in Requests |-> AnyRequest]
  /\ creating = [r \in Requests |-> FALSE]
  /\ rev = [r \in Requests |-> AnyRevision]
  /\ listed = [r \in Requests |-> {}]
  /\ stamp = [r \in Requests |-> 0]
  /\ seen = [r \in Requests |-> {}]
  /\ told = [n \in Revisions |-> NotTold]

-----------------------------------------------------------------------------
(* Every handler *)

\* Begin; the claims of the caller give the user.
Start(r, q) ==
  /\ pc[r] = "idle"
  /\ req' = [req EXCEPT ![r] = q]
  /\ pc' = [pc EXCEPT ![r] = CASE q.op = "seed" -> "create"
                               [] q.op = "publish" -> "find"
                               [] q.op = "redact" -> "lookup"]
  /\ UNCHANGED <<db, held, clock, taken, work, told>>

Goto(r, state) == pc' = [pc EXCEPT ![r] = state]

\* The transaction is over: its locks are gone, the handler returns.
End(r) ==
  /\ Goto(r, "idle")
  /\ req' = [req EXCEPT ![r] = AnyRequest]
  /\ creating' = [creating EXCEPT ![r] = FALSE]
  /\ rev' = [rev EXCEPT ![r] = AnyRevision]
  /\ listed' = [listed EXCEPT ![r] = {}]
  /\ stamp' = [stamp EXCEPT ![r] = 0]
  /\ seen' = [seen EXCEPT ![r] = {}]

\* A statement fails, the client goes away, the server stops, a COMMIT is not
\* applied: the deferred Rollback, or PostgreSQL on its own.
Abort(r) ==
  /\ pc[r] # "idle"
  /\ End(r)
  /\ UNCHANGED <<db, held, clock, taken, told>>

-----------------------------------------------------------------------------
(* SeedArticle *)

\* Mutant: the INSERT does not wait for an uncommitted article of the slug.
SlugIsAlwaysFree(r) == TRUE

\* The unique key on slug makes the INSERT wait for another transaction's.
SlugIsFree(r) ==
  \A q \in Requests \ {r} : ~(creating[q] /\ req[q].slug = req[r].slug)

\* INSERT ... ON CONFLICT (slug) DO NOTHING
CreateArticle(r) ==
  /\ pc[r] = "create" /\ SlugIsFree(r)
  /\ IF author[req[r].slug] = NoUser
       THEN creating' = [creating EXCEPT ![r] = TRUE] /\ Goto(r, "stage")
       ELSE UNCHANGED creating /\ Goto(r, "get")
  /\ UNCHANGED <<db, held, clock, taken, req, rev, listed, stamp, seen, told>>

\* Mutant: no comparison of the author with the caller.
GetArticleOfAnyone(r) ==
  /\ pc[r] = "get"
  /\ Goto(r, "stage")
  /\ UNCHANGED <<db, held, clock, taken, local, told>>

\* GetArticleBySlug after a conflict, and ErrPermissionDenied.
GetArticle(r) ==
  /\ pc[r] = "get"
  /\ IF author[req[r].slug] = req[r].user
       THEN Goto(r, "stage") /\ UNCHANGED local
       ELSE End(r)
  /\ UNCHANGED <<db, held, clock, taken, told>>

StageRevision(r, n) ==
  /\ pc[r] = "stage" /\ n \notin taken
  /\ taken' = taken \cup {n}
  /\ rev' = [rev EXCEPT ![r] = n]
  /\ Goto(r, "link")
  /\ UNCHANGED <<db, held, clock, req, creating, listed, stamp, seen, told>>

\* One LinkArticleAsset for each descriptor, unless a file is not local.
LinkAssets(r) ==
  /\ pc[r] = "link"
  /\ IF \E a \in req[r].assets : Clean[a.file] = NotLocal
       THEN End(r)
       ELSE Goto(r, "list") /\ UNCHANGED local
  /\ UNCHANGED <<db, held, clock, taken, told>>

\* Mutant: the row keeps the name the client sent.
LinksByRawName(r) == {[name |-> a.file, hash |-> a.hash] : a \in req[r].assets}

Links(r) == {Link(a) : a \in req[r].assets}

\* Mutant: the file name of a row is compared with the name the client sent.
MissingByRawName(r) ==
  {a \in req[r].assets : \E l \in Links(r) : l.hash \notin held /\ l.name = a.file}

\* GetMissingArticleAssets, and the descriptors whose file name matches a row.
Missing(r) ==
  {a \in req[r].assets : \E l \in Links(r) : l.hash \notin held /\ l.name = Clean[a.file]}

ListMissing(r) ==
  /\ pc[r] = "list"
  /\ listed' = [listed EXCEPT ![r] = Missing(r)]
  /\ Goto(r, "commitSeed")
  /\ UNCHANGED <<db, held, clock, taken, req, creating, rev, stamp, seen, told>>

\* The client may not hear of a COMMIT that was applied.
CommitSeed(r, heard) ==
  /\ pc[r] = "commitSeed"
  /\ author' = IF creating[r] THEN [author EXCEPT ![req[r].slug] = req[r].user] ELSE author
  /\ revision' = [revision EXCEPT ![rev[r]] =
       [slug |-> req[r].slug, by |-> req[r].user, links |-> Links(r)]]
  /\ told' = IF heard THEN [told EXCEPT ![rev[r]] = listed[r]] ELSE told
  /\ End(r)
  /\ UNCHANGED <<published, held, clock, taken>>

-----------------------------------------------------------------------------
(* PublishArticle and RedactArticle *)

\* The rows a transaction has updated are locked until it is over.
Locked(r) == CASE pc[r] = "commitPublish" -> {rev[r]}
               [] pc[r] = "commitRedact" -> seen[r]
               [] OTHER -> {}
RowsAreFree(r, rows) == \A q \in Requests \ {r} : Locked(q) \cap rows = {}

\* Mutant: no comparison of the author with the caller.
FindRevisionOfAnyone(r) ==
  /\ pc[r] = "find"
  /\ IF revision[req[r].rev] # NoRevision
       THEN /\ Goto(r, "lock")
            /\ rev' = [rev EXCEPT ![r] = req[r].rev]
            /\ stamp' = [stamp EXCEPT ![r] = clock]
            /\ UNCHANGED <<req, creating, listed, seen>>
       ELSE End(r)
  /\ UNCHANGED <<db, held, clock, taken, told>>

\* GetArticleRevision, ErrPermissionDenied, and time.Now() for the parameter.
FindRevision(r) ==
  LET n == req[r].rev
  IN /\ pc[r] = "find"
     /\ IF revision[n] # NoRevision /\ author[revision[n].slug] = req[r].user
          THEN /\ Goto(r, "lock")
               /\ rev' = [rev EXCEPT ![r] = n]
               /\ stamp' = [stamp EXCEPT ![r] = clock]
               /\ UNCHANGED <<req, creating, listed, seen>>
          ELSE End(r)
     /\ UNCHANGED <<db, held, clock, taken, told>>

\* PublishArticleRevision: the UPDATE waits for the row.
LockRevision(r) ==
  /\ pc[r] = "lock" /\ RowsAreFree(r, {rev[r]})
  /\ Goto(r, "commitPublish")
  /\ UNCHANGED <<db, held, clock, taken, local, told>>

\* Mutant: publishing a revision takes the others of the article off.
CommitPublishAlone(r) ==
  /\ pc[r] = "commitPublish"
  /\ published' = [n \in Revisions |->
       CASE n = rev[r] -> stamp[r]
         [] n # rev[r] /\ revision[n] # NoRevision
              /\ revision[n].slug = revision[rev[r]].slug -> 0
         [] OTHER -> published[n]]
  /\ End(r)
  /\ UNCHANGED <<author, revision, held, clock, taken, told>>

CommitPublish(r) ==
  /\ pc[r] = "commitPublish"
  /\ published' = [published EXCEPT ![rev[r]] = stamp[r]]
  /\ End(r)
  /\ UNCHANGED <<author, revision, held, clock, taken, told>>

\* GetArticleBySlug, ErrArticleNotFound and ErrPermissionDenied.
FindArticle(r) ==
  /\ pc[r] = "lookup"
  /\ IF author[req[r].slug] = req[r].user
       THEN Goto(r, "update") /\ UNCHANGED local
       ELSE End(r)
  /\ UNCHANGED <<db, held, clock, taken, told>>

\* Mutant: the UPDATE has AND published_at IS NOT NULL.
PublishedRowsOf(s) ==
  {n \in Revisions : revision[n] # NoRevision /\ revision[n].slug = s /\ published[n] # 0}

RowsOf(s) == {n \in Revisions : revision[n] # NoRevision /\ revision[n].slug = s}

\* RedactArticle: the UPDATE finds the rows that are committed when it begins...
FindRows(r) ==
  /\ pc[r] = "update"
  /\ seen' = [seen EXCEPT ![r] = RowsOf(req[r].slug)]
  /\ stamp' = [stamp EXCEPT ![r] = clock]
  /\ Goto(r, "lockRows")
  /\ UNCHANGED <<db, held, clock, taken, req, creating, rev, listed, told>>

\* ... and waits for each of them.
LockRows(r) ==
  /\ pc[r] = "lockRows" /\ RowsAreFree(r, seen[r])
  /\ Goto(r, "commitRedact")
  /\ UNCHANGED <<db, held, clock, taken, local, told>>

CommitRedact(r) ==
  /\ pc[r] = "commitRedact"
  /\ published' = [n \in Revisions |-> IF n \in seen[r] THEN 0 ELSE published[n]]
  /\ End(r)
  /\ UNCHANGED <<author, revision, held, clock, taken, told>>

-----------------------------------------------------------------------------
(* The environment *)

\* PushAsset commits the row of an asset.
AssetArrives(h) ==
  /\ h \notin held
  /\ held' = held \cup {h}
  /\ UNCHANGED <<db, clock, taken, pc, local, told>>

Tick ==
  /\ clock < MaxClock
  /\ clock' = clock + 1
  /\ UNCHANGED <<db, held, taken, pc, local, told>>

SeedStep(r) ==
  \/ CreateArticle(r) \/ GetArticle(r) \/ LinkAssets(r) \/ ListMissing(r)
  \/ \E n \in Revisions : StageRevision(r, n)
  \/ \E heard \in BOOLEAN : CommitSeed(r, heard)
PublishStep(r) == FindRevision(r) \/ LockRevision(r) \/ CommitPublish(r)
RedactStep(r) == FindArticle(r) \/ FindRows(r) \/ LockRows(r) \/ CommitRedact(r)

Next ==
  \/ \E r \in Requests : \/ \E q \in AllRequests : Start(r, q)
                        \/ SeedStep(r) \/ PublishStep(r) \/ RedactStep(r) \/ Abort(r)
  \/ \E h \in Hashes : AssetArrives(h)
  \/ Tick

Spec == Init /\ [][Next]_vars

-----------------------------------------------------------------------------
(* What visitors are shown *)

PublishedOf(s) == {n \in RowsOf(s) : published[n] # 0}

\* A row that ORDER BY published_at DESC LIMIT 1 may return, out of rows.
Latest(rows) == {n \in rows : \A m \in rows : published[m] <= published[n]}

\* GetPublishedRevisionBySlug
Page(s) == Latest(PublishedOf(s))

\* Mutant: an asset is looked for in every revision of the article.
AssetOfAnyRevision(s, name) ==
  {h \in held : \E n \in RowsOf(s) : [name |-> name, hash |-> h] \in revision[n].links}

\* Mutant: an asset is looked for in the revision of the page only.
AssetOfPage(s, name) ==
  {h \in held : \E n \in Page(s) : [name |-> name, hash |-> h] \in revision[n].links}

\* GetAsset: the latest published revision that links the name to a held asset.
AssetOf(s, name) ==
  LET serves(n, h) == [name |-> name, hash |-> h] \in revision[n].links
      rows == {n \in PublishedOf(s) : \E h \in held : serves(n, h)}
  IN {h \in held : \E n \in Latest(rows) : serves(n, h)}

\* Mutant: every publication is a row, not only the latest of its article.
FeedOfAll(now) ==
  {n \in Revisions : revision[n] # NoRevision /\ published[n] # 0 /\ published[n] < now}

\* GetArticleFeed: of each article the revisions that have its latest time of
\* publication before now, the time of the database.  Each is an entry.
Feed(now) ==
  {n \in Revisions : revision[n] # NoRevision /\
     n \in Latest({m \in PublishedOf(revision[n].slug) : published[m] < now})}

-----------------------------------------------------------------------------
(* Properties *)

\* The types of the state.
TypeOK ==
  /\ author \in [Slugs -> Users \cup {NoUser}]
  /\ revision \in [Revisions -> RevisionRecords \cup {NoRevision}]
  /\ published \in [Revisions -> 0 .. MaxClock]
  /\ held \subseteq Hashes
  /\ clock \in 1 .. MaxClock
  /\ taken \subseteq Revisions
  /\ pc \in [Requests -> States]
  /\ req \in [Requests -> AllRequests]
  /\ creating \in [Requests -> BOOLEAN]
  /\ rev \in [Requests -> Revisions]
  /\ listed \in [Requests -> SUBSET Assets]
  /\ stamp \in [Requests -> 0 .. MaxClock]
  /\ seen \in [Requests -> SUBSET Revisions]
  /\ told \in [Revisions -> (SUBSET Assets) \cup {NotTold}]

\* Two users may seed the same slug at the same time: every revision of an
\* article was staged by the one who became its author.
OnlyAuthorStages ==
  \A n \in Revisions : revision[n] # NoRevision => author[revision[n].slug] = revision[n].by

\* What a publication was checked for still holds when it commits: published_at
\* changes only by a request of the author of the article.
OnlyAuthorPublishes ==
  [][\A n \in Revisions : published'[n] # published[n] =>
       \E r \in Requests : /\ pc[r] \in {"commitPublish", "commitRedact"}
                          /\ pc'[r] = "idle"
                          /\ req[r].user = author[revision[n].slug]]_vars

\* When a redaction commits, what stays published has a time no older than the
\* beginning of its UPDATE: a publication that read its time before, and has the
\* row or gets it while the redaction waits, is cleared with the rest.  (One that
\* gets the row only after this COMMIT is applied after it, with its older time:
\* nothing in the code orders the two, and the article is public again.)
RedactionClearsEarlier ==
  [][\A r \in Requests : CommitRedact(r) =>
       \A n \in RowsOf(req[r].slug) : published'[n] # 0 => published'[n] >= stamp[r]]_vars

\* A publication reads its time before it waits for its row, so it may COMMIT
\* after one with a later time.  Then it does not displace that one: what
\* visitors see stays on the page, or makes room for what is published now, and
\* only if that has the later time.  (Of the revision that the page shows itself,
\* a late second publication sets the time back, and another may show.)
LateDoesNotDisplace ==
  [][\A r \in Requests : CommitPublish(r) =>
       \A s \in Slugs : \A n \in Page(s) \ {rev[r]} :
         \/ n \in Page(s)'
         \/ Page(s)' = {rev[r]} /\ published[n] < stamp[r]]_vars

\* Each asset a committed revision links has arrived, or the client that seeded
\* it was told to upload it under every name it has in the article.
MissingListIsComplete ==
  \A n \in Revisions : told[n] # NotTold =>
    \A l \in revision[n].links : l.hash \in held \/ \E a \in told[n] : Link(a) = l

\* The comment on SeedArticleResponse.missing_assets: what is listed is what the
\* server does not have when it makes the list.
ListedIsMissing ==
  [][\A r \in Requests : ListMissing(r) => \A a \in listed'[r] : a.hash \notin held]_vars

\* A page and its assets come from two queries.  If one revision is the latest,
\* and it has one asset of a name, and the asset has arrived, that is the asset
\* visitors get; and an article without a page has no assets.
PageAndAssetsAgree ==
  \A s \in Slugs :
    /\ \A n \in Revisions : Page(s) = {n} =>
         \A l \in revision[n].links :
           /\ l.hash \in held
           /\ \A k \in revision[n].links : k.name = l.name => k = l
           => AssetOf(s, l.name) = {l.hash}
    /\ Page(s) = {} => \A f \in FileNames : AssetOf(s, Clean[f]) = {}

\* A visitor has read a page and asks for its assets later, when a newer revision
\* may be public, whose assets may not have arrived or have other names: until the
\* article is redacted, a name that led to an asset goes on leading to one.
PageKeepsItsAssets ==
  [][\A s \in Slugs, f \in FileNames :
       AssetOf(s, Clean[f]) # {} =>
         \/ AssetOf(s, Clean[f])' # {}
         \/ \E r \in Requests : CommitRedact(r) /\ req[r].slug = s]_vars

\* The feed and the pages come from two queries with two clocks, that of the
\* database and that which stamped the publications (posts.sql.go:68-95,
\* 238-255).  Whatever the former says, an entry of the feed leads to a page, and
\* shows what that page shows unless the page was published since; an article
\* has two entries only if it was published twice at one time.
FeedAgreesWithPage ==
  \A now \in 1 .. MaxClock + 1, s \in Slugs :
    LET entries == Feed(now) \cap RowsOf(s)
    IN /\ entries # {} => Page(s) # {}
       /\ (\A n \in PublishedOf(s) : published[n] < now) => entries = Page(s)
       /\ \A n, k \in entries : published[n] = published[k]

\* The requests implement the abstract articles, each at its COMMIT.
Articles == INSTANCE Publication WITH
  Times <- 1 .. MaxClock,
  revision <- [n \in Revisions |-> IF revision[n] = NoRevision THEN NoRevision
                 ELSE [slug |-> revision[n].slug, by |-> revision[n].by]]
ImplementsPublication == Articles!Spec
=============================================================================
