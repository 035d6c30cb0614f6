# TLA+ models of the personal website and its CMS

The repository is a small content management system: a web server
(`src/cmd/webserver`) that shows articles to visitors and offers two Connect
services, a command-line client (`src/cmd/cmscli`) that pushes articles to it,
and the packages they share (`src/internal`). PostgreSQL keeps users, sessions,
articles, revisions and the rows of assets; a storage driver (a directory, or an
S3 bucket) keeps the bytes of assets under the name `SHA512:<hash>`.

What is hard in this code is not any one function. It is that

* the file of an asset is not part of the transaction that inserts its row,
* every request of the two services is its own READ COMMITTED transaction, and
  checks in one statement what it relies on in a later one,
* uploads and the key exchange run as two goroutines joined by pipes, channels,
  contexts and timeouts,
* a push is many calls, any of which may fail, be lost or be repeated,
* requests share 25 database connections and wait for clients and providers.

The modules below model these, one action per step the code takes, and check and
prove what the code promises in spite of them.

## 1. Inventory

| Component | State it keeps | Operations | Talks to |
|---|---|---|---|
| Asset upload: `CmsService.PushAsset` (`cmsservice.go:160`), `LocalFSStore` (`localfs.go`) | the row `assets(sha512_hash PK, content_length, content_type)`; the file of the hash; per request a transaction, an `io.Pipe`, the channel `writerResp`, a byte counter and a hasher | insert row, create/write/remove file, receive chunk, give a verdict, commit, roll back | PostgreSQL, file system, the client's stream |
| Article service: `SeedArticle`, `PublishArticle`, `RedactArticle` (`cmsservice.go:58`, `298`, `342`) | `articles(slug UNIQUE, author)`, `articles__revisions(public_id, published_at)`, `articles__revisions__assets(file_name, sha512_hash)` | create or find article, stage revision, link assets, list missing ones; publish a revision; redact an article | PostgreSQL |
| Pages, assets and feed: `ht/posts.go`, `ht/hypertext.go`, `assets.go`, `posts.sql` | none (reads) | latest published revision of a slug; asset of a slug by name; feed | PostgreSQL, storage |
| Client: `cmscli/pusharticle.go` | none that is kept | hash the files, seed, upload what is missing, publish | both services |
| SSH key exchange: `authentication.go`, `authclient.go`, `authutils.go` | keys with `last_used`; per stream a nonce, a timeout of 15 s, 15 offers; the client's cached token | offer a fingerprint, approve/reject, sign, verify, issue and verify a token | PostgreSQL, the user's SSH agent |
| Accounts: `auth.go`, `oidc.go` | users, OIDC identities, sessions (hashes of tokens), SSH keys; the state cookie | log in (password, OIDC), log out, edit profile, add/remove key | PostgreSQL, the identity provider |
| Session middleware and pool: `userdata.go`, `dbapi.go` | at most 25 pooled connections; a transaction per request | look up the session, run the handler | PostgreSQL |
| Configuration: `config.go` | the tree of settings | resolve `_fromenv`/`_fromfile`, reject conflicts | environment, files |
| S3 storage: `storage/s3` | objects of a bucket | put, get, delete | MinIO client |
| Rendering: `markdown.go`, templates, styles | none | pure functions | |
| Start-up, routing, migrations: `main.go`, `web.go`, `migrations.go` | none after start | wiring, run once | |
| Generated code: `internal/gen`, `dbapi/gen` | none | stubs of the `.proto` and `.sql` files | |

What makes each correct, and what is hard about it:

* **Asset upload.** A row that is committed has its file, whole, with the length
  the row announces. Rows and files are written in separate steps by two
  goroutines; uploads of one hash share one file; the request can be cancelled,
  the server restarted, the disk can refuse, the answer to COMMIT can be lost.
  Each upload must end, tell its client what was wrong with the stream, and
  leave no file behind.
* **Article service.** Whoever seeded a slug first owns it; revisions come only
  from the owner, who alone publishes and redacts; a redaction clears what was
  published before it, and a late publication displaces nothing newer; what the
  client was told is missing is enough to complete the article. Statements of several requests interleave, and COMMIT may or may not apply.
* **Pages.** Visitors see the latest published revision, and its assets with it,
  though the two come from different queries and different requests.
* **Client.** What a push publishes is complete; a failed push can be repeated and
  succeeds after few repetitions. The client learns what to upload before the
  seed is committed, reads its files twice, and shares assets with others.
* **Key exchange.** A token is for a user who owned the key; the stream ends for
  client, goroutine and handler; a client told that no key was accepted offered
  all of them; a token that the client takes to be fresh is accepted. Keys come
  and go meanwhile, and the goroutine may outlive its handler.
* **Accounts.** A session is of the user who logged in; one name, address,
  identity and key has one user; no account is left that nobody can enter; only
  a user's own sessions change the profile and keys. First logins of one
  identity race, renames cross, rows and unique values are waited for.
* **Pool.** Every request ends and gives its connections back; never does
  everyone wait for everyone; no handler holds a connection while it waits for
  another, for a visitor to read a page, or for the identity provider. The
  middleware does, when it has refused a session.
* **Configuration.** A configuration has one meaning, whatever order Go walks the
  maps in that are changed while they are walked.

## 2. Modules

| Module | Models | Role |
|---|---|---|
| `AssetStore` | what the asset side promises: a set of held assets that only grows | abstract specification |
| `AssetUpload` | `PushAsset`, its writer goroutine, `LocalFSStore.PutFile`/`DeleteFile`, the row's transaction | implements `AssetStore` |
| `AssetUploadProofs` | theorems about `AssetUpload` | TLAPS |
| `MCAssetUpload` | values of the constants | TLC |
| `Publication` | what the article side promises: atomic Seed, Publish, Redact | abstract specification |
| `ArticleService` | the three handlers, statement by statement; the queries behind pages and assets | implements `Publication` |
| `ArticleServiceProofs` | theorems about `ArticleService` | TLAPS |
| `MCArticleService` | values of the constants | TLC |
| `PushArticle`, `MCPushArticle` | the `push` command of `cmscli`, several of them, over the two abstract specifications | composes `AssetStore` and `Publication` |
| `PushArticleProofs` | theorems about `PushArticle` | TLAPS |
| `Accounts`, `MCAccounts` | logins, logout, profile and key handlers, statement by statement | TLC |
| `AccountsProofs` | theorems about `Accounts` | TLAPS |
| `SshExchange`, `MCSshExchange` | `ExchangeSSHKey`, the client's `Authenticator`, the tokens | TLC |
| `SshExchangeProofs` | theorems about `SshExchange` | TLAPS |
| `ConnPool`, `MCConnPool` | the pool of connections, the session middleware and every route | TLC |
| `ConnPoolProofs` | theorems about `ConnPool` | TLAPS |
| `SecretConfig`, `MCSecretConfig` | `config.Load` and its walk over the settings | TLC |
| `SecretConfigProofs` | theorems about `SecretConfig` | TLAPS |

The specifications contain a few operators marked *Mutant*: each is a plausible
bug in the definition that follows it, named in `PROJECT.json` next to the
property that fails when the definition is replaced by it. They are used by no
action.

### AssetUpload

One slot of `Uploads` runs one request at a time. Its two program counters are
the two goroutines:

    handler  idle -> insert -> create -> copy -> await -> commit -> return -> idle
             create -> select          (Create fails)
             copy -> remove -> select  (the copy is short)
             await -> delete, commit -> delete   (clean-up after the copy)
    writer   receive <-> write, -> closing -> closed

| Variable | In the code |
|---|---|
| `row` | committed rows of `assets` |
| `object`, `attached` | the file `SHA512:<hash>`, and whether the descriptor this upload has open is still the file of that name |
| `hpc`, `wpc` | where `PushAsset`/`PutFile` and the goroutine are |
| `tx` | the transaction is open and has inserted the row |
| `cancelled` | the request's context has ended |
| `counted`, `sound` | `byteCounter`; whether what was hashed is a prefix of the content |
| `chunk` | the bytes in `assetWriter.Write` |
| `copied` | what `io.Copy` has written |
| `verdict` | the channel `writerResp` |
| `reply` | what the client is about to be told |

A file is a size and the set of offsets whose byte is not the content's, so that
holes, overwrites and truncation are represented, and bytes are not. SHA-512 is
taken as collision free: the hash agrees exactly when every byte was genuine and
the count is `Length[h]`. A declared length is an `int64` of the client that
nothing refuses when it is negative: the copy then ends at once and is short
(`CopyFails`). Chunks are atomic; a chunk that `io.Copy` takes in
several reads behaves as several chunks. The uncommitted row is a lock because
`sha512_hash` is the primary key: `CanInsert` waits for it. The verdict is sent
before the deferred `assetWriter.Close`; that order is an action each
(`Receive*`/`WriteFails`, then `ClosePipe`), and `ShortCopyHasVerdict` rests on it.
It does not hold of a negative length: no chunk has to be read, so no verdict need
have been sent, and the client may be told of an internal error.

`Faults` selects what may go wrong: `disk` (Create, Write and Remove fail),
`crash` (the server stops and starts; committed rows and files remain),
`cancel` (the client leaves; `database/sql` then rolls the transaction back on
its own, `RollbackCancelled`, at any moment), `lostCommit` (COMMIT returns an
error whether or not it was applied).

Left out: errors of `Close` on the file, which the code only logs; a stream
without a first descriptor, which is refused before anything changes; other
errors of `Begin` and the INSERT, which end the request at the same place as a
refused INSERT.

### ArticleService

One slot of `Requests` runs one transaction. Reads see what is committed when
the statement begins and the transaction's own writes; an INSERT of a slug waits
for another transaction that has inserted it (`SlugIsFree`); an UPDATE finds its
rows when it begins and then waits for their locks (`FindRows`, `LockRows`;
`LockRevision`). All three are PostgreSQL's, in READ COMMITTED, the default that
`BeginTx(ctx, nil)` asks for. Writes appear at COMMIT.

    seed     create -> [get ->] stage -> link -> list -> commitSeed
    publish  find -> lock -> commitPublish
    redact   lookup -> update -> lockRows -> commitRedact

| Variable | In the code |
|---|---|
| `author` | rows of `articles` |
| `revision`, `published` | rows of `articles__revisions` with their links; `published_at`, 0 for NULL |
| `held` | rows of `assets` (they are never deleted; `AssetUpload` models how they come) |
| `taken` | ids that were given out; a rolled back transaction does not return them |
| `clock` | `time.Now()` |
| `creating`, `rev`, `listed`, `stamp`, `seen` | what a request has found or written so far |
| `told` | the `missing_assets` a client has received |

`revision[n].by`, `told` and the `stamp` of a redaction are history: no column
keeps them, no guard reads them, properties do. `Abort` is every way to end
without COMMIT: an error of a statement, a client that leaves, a restart; the
errors of parsing (markdown, UUIDs) come before any statement with an effect and
are ends of this kind too. `CommitSeed(r, FALSE)` is a COMMIT whose answer is
lost. File names are members of a small set with `Clean` as `path.Clean`, and
`NotLocal` for what `filepath.IsLocal` refuses. Descriptors of a request are a
set: a descriptor sent twice only repeats itself in the answer. `GetArticleRevision` and
`time.Now()` are one step (`FindRevision`): nothing the model's other steps do
between the two can be told apart, since the clock is only compared with times
that were read later. A redaction locks its rows in one step (`LockRows`); row
by row it could wait while it holds some of them, which only makes others wait
longer, and of two redactions that wait for each other PostgreSQL ends one,
which is `Abort`. Users are never deleted by this code, so an article that has
an author keeps it.

Three queries serve visitors. `Page`, `AssetOf` and `Feed` are what
`GetPublishedRevisionBySlug`, `GetAsset` and `GetArticleFeed` return over this
state; as the ties of `ORDER BY ... LIMIT 1` and of the feed's join are open, each
is the set of rows that may be returned (`Page`, `AssetOf`) or that are returned
(`Feed`). `Feed(now)` takes the time of the database, which is not the clock that
stamps publications. Its limit of 1000 articles is left out.

### PushArticle

One client is one `pushArticle`, run again when it has failed:

    idle -> process -> commitSeed -> upload -> done
                       commitSeed -> denied (the article is another user's)

The server is the two abstract specifications: `Seed`, `Publish` and `Store` are
the actions of `Publication` and `AssetStore` that `ArticleService` and
`AssetUpload` are shown to implement. What is added is how `SeedArticle` makes
its list (`Missing`, by file name), before the commit, in a step of its own.
`content` is what each file holds: the files are hashed one by one
(`ProcessAsset`), and each that is missing is read again when it is uploaded;
`EditFile` may come between any two of these. A file may be listed twice, with two
hashes if it was edited in between. `Upload` fails as `PushAsset` does, when the
content does not have the announced hash or the asset is already there. `Fails` is a call that did nothing, `Loses*Answer` one that did
its work before its answer was lost. `Goto` leaves `slug` alone: the front matter
is read once per run and is not edited. `AssetStore` promises what `AssetUpload`
keeps under disk errors and restarts; findings 1 and 2 are its exceptions and
are not repeated here.

### Accounts

`db` is the set of all rows of users, identities, sessions and keys; each open
transaction has the rows it has inserted and deleted, and an UPDATE is both. A
slot serves one request and names the user, session and key it may create.

    local login   createSession -> commit
    OIDC login    [createUser -> createIdentity ->] createSession -> commit
    logout        deleteSession -> commit
    edit          lockUser -> writeUser -> commit
    keys          addKey -> commit, removeKey -> commit

`Blockers` are PostgreSQL's waits: for a unique value another transaction has
inserted or deleted, for a row another has deleted or updated, and between an
insert with a foreign key and an update of the row it refers to, if that changes
its unique columns (`Keeps` is the weaker lock of one that does not). An edit that
changes nothing is an update like any other: it waits, and writes over what another
edit has committed meanwhile.
`Violates` is the constraint, which ends the request; `BreakDeadlock` is
PostgreSQL's deadlock check. `Arrive` is the middleware: its own transaction,
over before the handler begins, so a session may be logged out while a request
that was admitted by it runs. The provider's claims are an input; the password
hash is `Password`, equality standing for Argon2. A login's cookie is the
request's own name. `Clash` is what the UNIQUE clauses of the first migration
say; the issuer is one, so it is left out of an identity's key.
`InitialRowsAssumption` is what holds of rows that earlier requests have left: no
two clash, each names a user there is, a user without a password has an identity,
and a user has at most one, as `handleCallback` inserts it with the user.

### SshExchange

Three actors for each stream: the client (`client`, at key `index` of its
agent's list), the goroutine of the server, and the handler, which waits for
`result` or for its 15 seconds.

    client     idle -> noKeys (the agent is empty)
               idle -> offer -> await -> sign -> awaitToken -> call -> idle
               await -> offer (refused), -> noKeys (no key left), -> failed
    goroutine  receive -> lookup -> reject -> receive
               lookup -> approve -> receiveSignature -> log -> token -> ended

One message is under way in each direction, as the protocol is strictly
alternating. `HandlerTimesOut` may happen at any time: the timer runs against
whatever the goroutine does, and the client's leaving has the same effect. Once
the handler has returned a `Receive` fails and a `Send` panics in `net/http2`
("Write called after Handler finished"): not in the handler, so nothing recovers,
and the process ends (`Panic`, `GoDown`). Some errors leave no result
(`authentication.go:76`, `93`, `98`): `GoroutineFails` has both kinds.
`SecurityKeys` are keys whose signatures have a part that the message does not
carry (`ssh.Signature.Rest`), so that they are approved and then never verify.
Clocks: `renewal` is `.expiration`, set when the token is *received*; `expires` is
set when it is *signed*; `Delay` bounds how long the answer with the token, and
the call that carries it, are under way. `ClientLife + 2 * Delay < ServerLife` is
the assumption that makes 10 and 15 minutes enough.

### ConnPool

A handler is the order of what it does that matters to the pool: `begin`, `query`,
`end`, and the waits for others, `body` (reads what the client sends), `page`
(writes an answer too large to be buffered) and `ask` (the identity provider).
Each route of `web.go` and `main.go` is such a list with the middleware it has.
`mw` is the middleware's transaction, which `SessionRefused` leaves open
(`userdata.go:35`) and nothing but the end of the request's context closes;
`own` is the handler's, `bare` in `removeSSHKey`, which has no deferred `Rollback`.
`StepFails` ends a handler at any step; `Return` runs the deferred `Rollback`;
`Reclaim` is `database/sql`, which rolls back when the context has ended.
`ExchangeSSHKey` is one offering and its signature; more offerings repeat its
first four steps. `servePostAsset` queries without a transaction, which takes and
returns a connection in the same way.

### SecretConfig

A tree of maps is a function from paths to values; a key is a name with its
suffixes. Each call of `resolveSecrets` is a frame with the keys it has yet to
visit. `Resolve` inserts the base and deletes the reference; Go leaves open
whether an entry inserted during a `range` is visited, and `seen` is that choice.
`OrderIrrelevant` compares the outcome of every walk with a definition that knows
of no order (`Meaningful`, `Resolved`). Lists are maps whose keys are indices.
The contents of a secret file are taken without their trailing line ends; they and
the text of a variable may be empty, which is the value "other".

## 3. What is checked

Run `tlc -config X.cfg M` for each line; `M` is the `MC` module of the component.

| Run (`cfg`) | Instance | Shows |
|---|---|---|
| `AssetUploadSafety` | 2 uploads of one hash of 2 bytes; declared lengths -1, 1, 2; chunks of 1, 2 bytes, genuine or not; disk errors, restarts; fair | types; `ServedAssetIsWhole`; `OneWriterPerObject`; `ImplementsAssetStore`; liveness: `UploadEnds` |
| `AssetUploadFaults` | declared lengths -1 to 3, empty chunks too, and clients that leave and lost COMMITs instead | `CommittedLengthIsTrue`; `ShortCopyHasVerdict`; `NoOrphanObject` |
| `AssetUploadCancel` | cancel only | `NotListedMeansHeld` fails (finding 1) |
| `AssetUploadLostCommit` | lost COMMIT only | `NotListedMeansHeld` fails (finding 2) |
| `ArticleRaces` | 2 requests, 2 users, one slug, 2 revisions, clock to 3 | `OnlyAuthorStages`; `OnlyAuthorPublishes`; `RedactionClearsEarlier`; `LateDoesNotDisplace`; `FeedAgreesWithPage`; `ImplementsPublication` |
| `ArticleAssets` | 2 requests, 1 user, 2 revisions, 2 hashes; lists with two assets, with one file under two names, with a path that is not local; clock to 2 | types; `MissingListIsComplete`; `PageAndAssetsAgree`; `PageKeepsItsAssets` |
| `ArticleListed` | the same, 1 revision | `ListedIsMissing` fails (finding 3) |
| `PushArticle` | 2 clients of 2 users, slugs equal or not; one lists a file twice and another in between, the other one of them; equal or different contents; a fault per client and an edit; fair | types; `PublishedIsComplete`; `RetriesAreFew`; liveness: `PushSucceeds` |
| `Accounts` | 3 requests, any of 14 inputs each, 2 users with sessions; fair | types; `OneOwner`; `SessionIsOfCaller`; `EveryUserCanLogIn`; `OnlyOwnerChanges`; liveness: `RequestEnds` |
| `SshExchange` | 1 client with 0, 2 or 3 keys, 2 offerings allowed, 2 changes of keys, clock to 4, lifetimes 1 and 4, delay 1; crashes; fair | types; `TokenIsOfKeyOwner`; `FreshTokenIsAccepted`; `NoKeysIsTrue`; liveness: `ExchangeEnds` |
| `ConnPool` | 2 requests at a time to any route, 2 connections, one of the requests may have its session lookup fail; fair | types and limit; `WaitersHoldNothing`; `SomeoneGoesOn`; `HandlersEndBeforeSlowPeers`; liveness: `RequestEnds` |
| `SecretConfig` | every pair of 11 ways to give two secrets, with 6 ways to give nested settings | types; `OrderIrrelevant` |

Why these bounds are enough to be of interest. *Uploads*: all interference is
between uploads of one hash, through one row and one file, and a third upload
can only wait where the second does; the theorems below hold for any number.
Content of 2 bytes has a proper prefix, declared lengths are negative, zero, too
short, right or too long, chunks make the stream too short, right, too long or wrong, and a chunk may
cross the declared length. *Articles*: a slug has one row, so two users and two
requests make every race for it; two revisions are needed for one to be
published and another staged; `MaxClock` 3 orders a publication before, at and
after the start of a redaction, 2 makes one page replace another and ties
possible. With the clock at its bound time stands still and requests go on.
*Push*: two clients share an asset, and one client has the same content under two
names, and lists one file twice; `MaxRevision` 9 is enough ids, as a command that
stopped for want of one would not satisfy `PushSucceeds`. *Accounts*: the third
request is what turns a race of two first logins or two renames into one that a rename or a logout
crosses; the inputs hold two users who take each other's names, one identity
whose claims change from one login to the next, and one key that two users add.
*Exchange*: 2 offerings and 3 keys stand for 15 and 16; streams share nothing but
the table of keys and the process, and `ChangeKey` and `Crash` are what others do
to it. *Pool*: two requests over two connections make one wait for the other as
soon as one of them takes two; `WaitersHoldNothing` says for every number what
keeps them from waiting for each other. *Configuration*: a key has up to
three suffixes, so that what one replacement inserts is a reference again, and what
that inserts may take the place of a map that was read.

The slots of `AssetUploadFaults` and `ArticleAssets` are a symmetry set: they differ
in nothing, and these runs check invariants and action properties only.

Slots run requests one after another without limit, except in `Accounts`, where
a request names what it creates and runs once.

No run disables the check for deadlock: an idle slot can always start, and where
everything may have ended (`PushArticle`, `Accounts`, `SecretConfig`) only the
state in which all *has* ended may stutter.

Properties that deserve a word:

* `ServedAssetIsWhole` relates the committed row to a file that other steps,
  of either goroutine of any upload, write, truncate and remove.
* `ShortCopyHasVerdict` is why a client that sends too little, too much or the
  wrong bytes is told so and not just that something failed: the handler looks into
  the channel without waiting. Negative lengths are its exception, see above.
* `NoOrphanObject` is the other side: a file without a row has an upload that has
  neither ended nor passed the step that commits or deletes it. (One that is stuck
  on an empty chunk, hazard `cmsservice.go:221`, has its file as long.) Restarts and disk errors do leave files; the
  next upload of the hash truncates them, so they are excluded there and
  covered by `ServedAssetIsWhole`.
* `OnlyAuthorPublishes` looks at the moment of COMMIT, the author having been
  compared statements earlier.
* `RedactionClearsEarlier`: what a redaction leaves public at its COMMIT was
  published with a time no older than the beginning of its UPDATE, though the UPDATE
  waits for publications that have their row. A revision *staged* meanwhile and
  published later may stay: `kept` in `Publication`. The property ends with that
  COMMIT: a publication that took its time before the redaction began and gets its
  row only after the COMMIT makes the article public again, with the older time.
  The code orders the two by nothing else than the row, and nothing it says
  promises more.
* `LateDoesNotDisplace`: what such a publication, or any other that read `time.Now()`
  and then waited, cannot do is take a newer revision off the page.
* `PageAndAssetsAgree` compares two queries: if the page of an article is
  determined, each asset it links and that has arrived is the one visitors get.
  `PageKeepsItsAssets` is about two requests of one visitor: the page, and an asset
  of it after another revision was published.
  `FeedAgreesWithPage` compares two others, for every time the database may have.
* `PublishedIsComplete` is the promise of the whole system to a visitor, over
  both services and the client. It rests on three orders at once: the list is
  made from the uncommitted links, every listed file is uploaded before the
  publication, and an upload is refused if the file has changed.
* `RetriesAreFew` counts: a run that fails without a fault or an edit has met an
  asset that had arrived since it was listed, and an asset arrives once. So two
  files of equal content cost one more run, and `PushSucceeds` follows once a
  failed command is run again.
* `EveryUserCanLogIn` and `SessionIsOfCaller` are about the two first logins of
  one identity, which both find no user (`oidc.go:189`).
* `OnlyOwnerChanges` asks for a session that *was* granted, not one that still
  is: a request that was admitted goes on after a logout.
* `NoKeysIsTrue`: "no keys accepted" implies that the agent had no more keys than
  the limit; with more, the client sees a timeout instead.
* `WaitersHoldNothing`: who waits for a connection holds none, but for the
  middleware's of a request whose session lookup failed, which is kept while the
  handler takes another (`userdata.go:35`). `SomeoneGoesOn` is what is left to
  such requests: as long as fewer of them than there are connections run at a
  time (the instance has one of two), not all that hold a connection wait for one,
  and `RequestEnds` follows. With as many, they do wait for each other.
* `HandlersEndBeforeSlowPeers` is about the transactions of handlers. It has the same
  exception: the page of a visitor whose cookie names no session, an old or an
  invented one, is written while the middleware's transaction is open, so there a
  slow reader does keep a connection.
* `ExchangeEnds` takes the end of the process by the panic (`Panic`) for an end of
  its streams; that there is no panic is not claimed.
* `OrderIrrelevant` excepts the fields of keys with several suffixes, such as
  `x_fromenv_fromfile`: what they resolve to does depend on the order. So are the
  settings within a map whose key such a key speaks of: with three suffixes, the
  map may be replaced by a text before or after it is visited (its proof needed
  the second exception, and an instance of it is now in the run).

### Fairness

* `AssetUpload`: weak fairness of `HandlerStep`, `Transfer` and `WriterStep` of
  each upload. The first two are goroutines that the Go runtime schedules, and
  database and file operations that return. `WriterStep` also stands for the
  client: it sends something, ends its stream or goes away. The server sets no
  read timeout (`main.go:79`), so a client that keeps its connection open and is
  silent keeps its upload open; that is an assumption, not something the code
  ensures. No fairness is assumed of the start of uploads, of faults or of
  cancellation. Disk errors are in the instance because they are what makes the
  handler return while the writer still has a chunk in the pipe: only the
  deferred `assetReader.Close` then frees it (`WriteFails`). The chunks of this
  instance are not empty, as the client's never are (`pusharticle.go:156`): see
  the hazard at `cmsservice.go:221` for an empty chunk after the declared length.
* `PushArticle`: weak fairness of each command's steps. `ReadFrontMatter` is one of
  them: that a failed push is run again is what its user does, not the code.
* `Accounts`: weak fairness of each request's statements and of PostgreSQL's
  deadlock check, which runs after `deadlock_timeout`. None of arrivals, and none
  of `Abort`.
* `SshExchange`: weak fairness of the client's and the goroutine's steps and of
  the handler's timer, which the code sets (`authentication.go:40`). None of the
  handler's receipt of a result, of crashes or of restarts.
* `ConnPool`: weak fairness of `Progress`: statements return, a client or the
  provider does its part or goes away (the same assumption as for uploads), what
  is cancelled fails. Strong fairness of `Take`: connections that are returned
  again and again reach each waiting request, as `database/sql` hands a
  connection to a waiter picked at random.

### Findings

1. A request whose client goes away loses its transaction, hence the row that
   keeps other uploads of the hash out, while its handler still has to remove
   its file (`localfs.go:65`, `cmsservice.go:262`, `284`). Another upload gets
   the row, writes, commits; the first then removes the committed file.
2. If COMMIT is applied but its answer lost, the handler deletes the file of a
   committed row (`cmsservice.go:282`).

   In both, the asset has a row and no file: `GetMissingArticleAssets` does not
   list it, and the primary key refuses to upload it again.
3. `SeedArticle` matches missing rows with descriptors by cleaned file name only
   (`cmsservice.go:143`). Two contents under spellings of one name, one of them
   held: the held one is listed as missing.

The comment these contradict is `main.proto:38`, "Lists the assets that the
server doesn't yet have."

## 4. What is proved

`tlapm M.tla` checks every proof of a module `M`: `AssetUploadProofs`,
`ArticleServiceProofs`, `PushArticleProofs`, `AccountsProofs`, `SshExchangeProofs`,
`ConnPoolProofs`, `SecretConfigProofs`. Every safety property of section 3 that
holds is a theorem of one of them, for every value of the constants that satisfies
the named assumptions:

* `UploadAssumption`, `ObjectAssumption`, `ServiceAssumption`, `RecordAssumption`,
  `PushAssumption`, `AccountsAssumption`, `PoolAssumption`: sets are not empty or, for
  the requests at a pool, finite; numbers are natural, declared lengths integers; the model values that stand
  for "none" are not records or numbers.
* `ExchangeAssumption`: also, the client's life of a token and two delays are shorter
  than the server's.
* `InitialRowsAssumption`: the rows of `Accounts` are such as earlier requests leave.
* `ConfigAssumption`: a configuration is a tree of maps, with a name and suffixes for
  each key; variables and files have texts.

The runs of a module evaluate its assumptions.

`AssetUploadProofs`:

* `TypeCorrect`, `LengthCorrect`, `VerdictCorrect`: `TypeOK`,
  `CommittedLengthIsTrue`, `ShortCopyHasVerdict`, for all faults and declared
  lengths (`ShortCopyHasVerdict` speaks of those that are not negative). The invariant is
  `StreamInv`: while the driver copies, what it has copied and the chunk in
  flight add up to what the writer counted (`Streamed`), and a verdict `nil`
  means the counted bytes are the content (`Judged`).
* `ServedCorrect`, `WriterExclusion`, `Refinement`: `ServedAssetIsWhole`,
  `OneWriterPerObject`, `ImplementsAssetStore`, under `LocalFaults`, that is,
  with disk errors and restarts, but no cancelled request and no lost COMMIT.
  Findings 1 and 2 show that the restriction is needed. The invariant `IInv`
  adds that an upload at work holds the uncommitted row, that no two do for one
  hash, that a hash with an uncommitted row has no committed one, and that the
  bytes in the file are those the hasher saw.
* `NoOrphan`: `NoOrphanObject`, also when requests are cancelled and answers of COMMIT
  lost. It is inductive as it stands: an upload that is in one of the states `Holding`
  leaves them only through a COMMIT that makes the row visible or through the removal
  of the file, and who creates or writes a file is in one of them (`OrphanStep`).

`ArticleServiceProofs`, with no restriction:

* `AuthorCorrect`, `PublishCorrect`, `Refinement`: a request's knowledge stays
  true until its COMMIT (`Allowed`): an author, once set, does not change, and
  the article that a transaction is creating has none. Two transactions never
  create one slug or stage one id (`Apart`).
* `RedactCorrect`: `RedactionClearsEarlier`. A committed revision that a redaction's UPDATE has not found
  is not published with a time before the UPDATE began, nor about to be
  (`Timed`); those it has found are of its article (`Found`).
* `MissingCorrect`: from the list to the COMMIT, what is not listed has arrived
  (`Covered`); assets only arrive.
* `FeedCorrect`, `PageCorrect`: `FeedAgreesWithPage`, `PageAndAssetsAgree`. They follow
  from types and two lemmas about the queries: a published revision is one of its
  article's (`RowsAreRevisions`), and where there are revisions some are the latest
  (`LatestExists`, as times, counted backwards from the bound of the clock, are well-founded).
* `LateCorrect`: `LateDoesNotDisplace`. A COMMIT of a publication changes one row,
  and gives it the request's `stamp`: a revision that was the latest is below that
  time, or stays among the latest.
* `KeepsCorrect`: `PageKeepsItsAssets`. Until a redaction of its article no row with a
  time loses it, and no revision its links (`RowsStay`); assets stay. So the revisions
  that had the asset are still there for the query to choose from.
* `TypeCorrect`.

`PushArticleProofs`, with no restriction:

* `CompleteCorrect`: `PublishedIsComplete`. A command learns what is missing
  before its revision exists, so the invariant `CompleteInv` follows both: from the
  list on, each listed file is either still to be uploaded or its hash is held, and
  from the COMMIT on the rows of the command's revision are what it hashed
  (`Working`); a revision that is published is staged and complete (`Settled`).
  Others only add assets and new revisions (`RowsStay`).
* `RetriesCorrect`: `RetriesAreFew`. A run has been paid for, by a fault, an edit or an
  asset that has arrived, not when it ends but as soon as it is bound to fail: when a
  file has changed since it was hashed, or an asset has arrived since it was listed as
  missing (`Stale`). Then the number of runs is already one less than the bound allows
  (`Paid`), and each step of another command that makes a run stale pays for it.
* `TypeCorrect`. `TypeOK` has the clause that makes it inductive: an ended command
  has neither hashes nor a list.

`AccountsProofs`, with no restriction, by one invariant of four parts:

* `Typed`, and `Apart`: the rows of two open transactions never clash, nor those of one
  with what it leaves in the tables. That is what `Blockers` and `Violates` achieve
  together, at the statement that inserts a row; until the COMMIT, whatever others
  commit or roll back keeps it. At the COMMIT it is `OwnerCorrect` (`OneOwner`).
* `Requesting`: a request has written only rows of its operation and user, knows who it
  acts for, and has written a user before the user's identity and session. It gives
  `OwnerChanges` (`OnlyOwnerChanges`): a request with a cookie acts for the user of a
  session that was granted.
* `Stored`: what holds of the tables between transactions. A user has one identity,
  as only the request that creates the user inserts it (`OneIdentity`); a login's
  session is of the user with the password or the identity (`Granted`). With
  `OneOwner` that is `CallerCorrect` (`SessionIsOfCaller`). `LogInCorrect`
  (`EveryUserCanLogIn`) is a part of it, `TypeCorrect` another.

`SshExchangeProofs`, with no restriction:

* `OwnerCorrect`: `TokenIsOfKeyOwner`. While a stream is open, who owns a key is
  among those recorded; so is the user a lookup has found, through the signature
  and the log, and then the user of the token (`Owned`). A token is under way only
  when its goroutine has ended.
* `FreshCorrect`: `FreshTokenIsAccepted`. The age of a token is bounded while it
  is under way (`Delay`), kept (`ClientLife` more) and used (`Delay` more): `Fresh`.
* `KeysCorrect`: `NoKeysIsTrue`, from `OwnerInv` and `Refused`: the count of the
  goroutine and the index of the client are the same but for the message under
  way, so the limit cannot end the loop before the client's last key is refused
  without the client noticing.
* `TypeCorrect`.

`ConnPoolProofs`, with no restriction:

* `WaitersCorrect`, `SlowPeersCorrect`: `WaitersHoldNothing`, `HandlersEndBeforeSlowPeers`. The
  plans of the routes are looked at one by one: each ends its transaction before it
  waits for a connection, its client or the provider again (`Orderly`,
  `PlansAreOrderly`). What is left of a plan keeps that, and while a request holds a
  connection, the end of its transaction comes first (`Inside`); the middleware's is
  held for its own query only, unless the session was refused (`Frugal`).
* `GoesOnCorrect`: `SomeoneGoesOn`. If all that hold a connection waited for one, each
  would hold one only, the middleware's, and would be one that was refused
  (`FrugalWaiter`); these are fewer than the connections.
* `TypeCorrect`: with it, that no more connections are in use than the limit.

`SecretConfigProofs`, for every tree, of any depth and size:

* `TypeCorrect`. Calls are nested, each one level deeper and within a key its caller
  has passed (`Nested`); a replacement changes paths of the length of the innermost map
  and longer ones within, so no outer call loses a key (`ResolveHeld`), and no map
  above it goes (`ReplaceTree`).
* `OrderCorrect`: `OrderIrrelevant`. `WalkInv` divides the configuration into what
  waits, by the keys the calls have left, and what does not: the first is as it was
  read, the second has its value, the tree holds nothing else, and a field that is given
  twice is in a map that waits as a whole. The step that could break it is the
  replacement, as it may remove a map: `ReferenceIsSole` shows that unless the field is
  one of the exceptions, nothing is where the secret is put.

The inductive invariant of each module was also checked by TLC on the instances of
section 3. Two proofs changed a model. The alternatives of `Arrive` in `Accounts` were
a CASE whose guards overlapped, whose value TLA+ leaves open, and TLC takes the first;
they are disjoint now. `OrderIrrelevant` had missed an exception (section 3).

Only model-checked: the liveness properties (`UploadEnds`, `PushSucceeds`, `RequestEnds`
of `Accounts` and of `ConnPool`, `ExchangeEnds`), which need fairness and ENABLED and are
out of the prover's reach; and the three runs that expect a violation.

## 5. Not modelled, and the plan

Not modelled:

* rendering: pure, no state;
* start-up: runs once, in a straight line. `main.go:24` takes SIGTERM and SIGINT
  away from the runtime and gives them to a context that `server.Serve` does not
  look at, so the process does not stop on them; there is no state to model;
* the protobuf and Connect stubs: data types and plumbing;
* the S3 adapter: its objects appear whole or not at all;
* the state cookie of an OIDC login and the age of sessions. `handleCallback`
  compares a cookie with a parameter of the same request and touches no state
  before it has; `expires` of a session is written and is not read by
  `GetSessionDataByTokenHash`, so sessions end by logout only.
* errors the code only logs: of closing files, of delayed writes.

To follow: that the steps of `PushArticle` are steps or stutters of `AssetStore` and
`Publication`, which it uses action by action, as a theorem.
