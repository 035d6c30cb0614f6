---------------------------- MODULE PushArticle ----------------------------
(* The push command of cmscli: seed the article, upload the assets that the  *)
(* server misses, publish the revision.  The server is what its two services *)
(* promise, AssetStore and Publication, and the rule by which SeedArticle    *)
(* lists assets.  Several commands run at the same time; each is run again   *)
(* when it has failed.                                                       *)
EXTENDS Integers, Sequences, FiniteSets

CONSTANTS
  Clients,
  Users, Slugs, Hashes, Files,
  UserOf,          \* whose token each client uses
  FilesOf,         \* the sequence of files that its front matter lists
  SlugChoices,     \* the slugs that the clients' front matters may have
  Contents,        \* what the files may hold at first, as hashes
  MaxRevision,     \* bound on the revisions, so on the attempts of all clients
  MaxFaults,       \* bound on the failures of each client's runs
  MaxEdits,        \* bound on the changes of files
  NoUser, NoRevision

Revisions == 1..MaxRevision

ASSUME PushAssumption ==
  /\ MaxRevision \in Nat /\ MaxFaults \in Nat /\ MaxEdits \in Nat
  /\ UserOf \in [Clients -> Users] /\ SlugChoices \subseteq [Clients -> Slugs]
  /\ FilesOf \in [Clients -> Seq(Files)]
  /\ Contents \subseteq [Files -> Hashes]
  /\ NoUser \notin Users
  /\ \A s \in Slugs, u \in Users : NoRevision # [slug |-> s, by |-> u]

VARIABLES
  author, revision, published,  \* the articles, see Publication
  held,                         \* the assets, see AssetStore
  links,      \* articles__revisions__assets: [file, hash] of each revision
  content,    \* the hash of what each file holds
  slug,       \* the slug in each client's front matter
  pc,         \* where each command is
  hashes,     \* assetDescriptors: the hashes it has found for the listed files
  todo,       \* GetMissingAssets: the listed files it has yet to upload
  rev,        \* GetRevisionId
  attempts,   \* not in the code: how often each command has been run,
  faults,     \* how often it failed for reasons outside the model,
  edits       \* and how often a file was changed

articles == <<author, revision, published>>
local == <<hashes, todo, rev>>
counters == <<attempts, faults, edits>>
vars == <<articles, held, links, content, slug, pc, local, counters>>

Articles == INSTANCE Publication WITH Times <- {1}
Assets == INSTANCE AssetStore

Listed(c) == DOMAIN FilesOf[c]
File(c, i) == FilesOf[c][i]
IsNext(n) == n \in Revisions /\ \A m \in Revisions : revision[m] = NoRevision <=> m >= n

Init ==
  /\ Articles!Init /\ Assets!Init
  /\ links = [n \in Revisions |-> {}]
  /\ content \in Contents
  /\ slug \in SlugChoices
  /\ pc = [c \in Clients |-> "idle"]
  /\ hashes = [c \in Clients |-> <<>>]
  /\ todo = [c \in Clients |-> {}]
  /\ rev = [c \in Clients |-> 0]
  /\ attempts = [c \in Clients |-> 0]
  /\ faults = [c \in Clients |-> 0]
  /\ edits = 0

Goto(c, state) == pc' = [pc EXCEPT ![c] = state] /\ UNCHANGED slug

\* Mutant: the list of what to upload outlives the command.
EndKeepingTodo(c, state) ==
  /\ Goto(c, state)
  /\ hashes' = [hashes EXCEPT ![c] = <<>>]
  /\ UNCHANGED <<todo, rev>>

\* The command ends; from "idle" it is run again.
End(c, state) ==
  /\ Goto(c, state)
  /\ hashes' = [hashes EXCEPT ![c] = <<>>]
  /\ todo' = [todo EXCEPT ![c] = {}]
  /\ UNCHANGED rev

\* The front matter is read.
ReadFrontMatter(c) ==
  /\ pc[c] = "idle"
  /\ attempts' = [attempts EXCEPT ![c] = @ + 1]
  /\ Goto(c, "process")
  /\ UNCHANGED <<articles, held, links, content, local, faults, edits>>

\* The listed files are opened and hashed, one after the other.
ProcessAsset(c) ==
  LET i == Len(hashes[c]) + 1
  IN /\ pc[c] = "process" /\ i \in Listed(c)
     /\ hashes' = [hashes EXCEPT ![c] = Append(@, content[File(c, i)])]
     /\ UNCHANGED <<articles, held, links, content, slug, pc, todo, rev, counters>>

\* Mutant: all that is linked counts as missing.
MissingOrNot(c) == Listed(c)

\* SeedArticle lists each descriptor that has the name of a missing asset.
Missing(c) ==
  {i \in Listed(c) : \E j \in Listed(c) :
     File(c, j) = File(c, i) /\ hashes[c][j] \notin held}

ListMissing(c) ==
  /\ pc[c] = "process" /\ Len(hashes[c]) = Len(FilesOf[c])
  /\ todo' = [todo EXCEPT ![c] = Missing(c)]
  /\ Goto(c, "commitSeed")
  /\ UNCHANGED <<articles, held, links, content, hashes, rev, counters>>

Seed(c, n) ==
  /\ pc[c] = "commitSeed" /\ IsNext(n)
  /\ Articles!Seed(UserOf[c], slug[c], n)
  /\ links' = [links EXCEPT ![n] =
       {[file |-> File(c, i), hash |-> hashes[c][i]] : i \in Listed(c)}]

CommitSeed(c, n) ==
  /\ Seed(c, n)
  /\ rev' = [rev EXCEPT ![c] = n]
  /\ Goto(c, "upload")
  /\ UNCHANGED <<held, content, hashes, todo, counters>>

\* Mutant: an article that is there is refused to its author too.
SeedDeniedToAuthor(c) ==
  /\ pc[c] = "commitSeed" /\ author[slug[c]] # NoUser
  /\ End(c, "denied")
  /\ UNCHANGED <<articles, held, links, content, counters>>

\* SeedArticle refuses to stage a revision of another user's article.
SeedDenied(c) ==
  /\ pc[c] = "commitSeed" /\ author[slug[c]] \notin {NoUser, UserOf[c]}
  /\ End(c, "denied")
  /\ UNCHANGED <<articles, held, links, content, counters>>

\* Mutant: an upload that fails is passed over.
UploadOrSkip(c, i) ==
  /\ pc[c] = "upload" /\ i \in todo[c]
  /\ held' = held \cup
       IF content[File(c, i)] = hashes[c][i] THEN {hashes[c][i]} ELSE {}
  /\ todo' = [todo EXCEPT ![c] = @ \ {i}]
  /\ UNCHANGED <<articles, links, content, slug, pc, hashes, rev, counters>>

\* PushAsset takes what the file holds by now if it has the hash that was
\* announced and if there is no such asset yet; otherwise the command fails.
Upload(c, i) ==
  /\ pc[c] = "upload" /\ i \in todo[c]
  /\ IF content[File(c, i)] = hashes[c][i] /\ hashes[c][i] \notin held
       THEN /\ Assets!Store(hashes[c][i])
            /\ todo' = [todo EXCEPT ![c] = @ \ {i}]
            /\ UNCHANGED <<slug, pc, hashes, rev>>
       ELSE End(c, "idle") /\ UNCHANGED held
  /\ UNCHANGED <<articles, links, content, counters>>

Publish(c) ==
  /\ pc[c] = "upload" /\ todo[c] = {}
  /\ Articles!Publish(UserOf[c], rev[c], 1)

PublishArticle(c) ==
  /\ Publish(c)
  /\ End(c, "done")
  /\ UNCHANGED <<held, links, content, counters>>

---------------------------------------------------------------------------
(* What the command does not control.                                       *)

\* A file cannot be read, there is no token, a call fails: the command ends.
Fault(c) ==
  /\ pc[c] \notin {"idle", "done", "denied"} /\ faults[c] < MaxFaults
  /\ faults' = [faults EXCEPT ![c] = @ + 1]
  /\ End(c, "idle")
  /\ UNCHANGED <<content, attempts, edits>>

Fails(c) == Fault(c) /\ UNCHANGED <<articles, held, links>>

\* The answer to a call is lost after the server has done what it asked for.
LosesSeedAnswer(c, n) == Fault(c) /\ Seed(c, n) /\ UNCHANGED held

LosesUploadAnswer(c, i) ==
  /\ Fault(c)
  /\ pc[c] = "upload" /\ i \in todo[c] /\ content[File(c, i)] = hashes[c][i]
  /\ Assets!Store(hashes[c][i])
  /\ UNCHANGED <<articles, links>>

LosesPublishAnswer(c) == Fault(c) /\ Publish(c) /\ UNCHANGED <<held, links>>

\* A file is written in place, perhaps between its hash and its upload.
EditFile(f, h) ==
  /\ edits < MaxEdits /\ content[f] # h
  /\ content' = [content EXCEPT ![f] = h]
  /\ edits' = edits + 1
  /\ UNCHANGED <<articles, held, links, slug, pc, local, attempts, faults>>

---------------------------------------------------------------------------
Step(c) ==
  \/ ReadFrontMatter(c) \/ ProcessAsset(c)
  \/ ListMissing(c)
  \/ \E n \in Revisions : CommitSeed(c, n)
  \/ SeedDenied(c)
  \/ \E i \in Listed(c) : Upload(c, i)
  \/ PublishArticle(c)

FaultStep(c) ==
  \/ Fails(c)
  \/ \E n \in Revisions : LosesSeedAnswer(c, n)
  \/ \E i \in Listed(c) : LosesUploadAnswer(c, i)
  \/ LosesPublishAnswer(c)

AllEnded == (\A c \in Clients : pc[c] \in {"done", "denied"}) /\ UNCHANGED vars

Next ==
  \/ \E c \in Clients : Step(c) \/ FaultStep(c)
  \/ \E f \in Files, h \in Hashes : EditFile(f, h)
  \/ AllEnded

Spec == Init /\ [][Next]_vars

\* A command goes on, and is run again until it succeeds or is denied.
FairSpec == Spec /\ \A c \in Clients : WF_vars(Step(c))

---------------------------------------------------------------------------
\* The state has the types of the tables and of the command's variables, and
\* a list of what to upload exists only while a command is running.
TypeOK ==
  /\ author \in [Slugs -> Users \cup {NoUser}]
  /\ revision \in [Revisions -> [slug : Slugs, by : Users] \cup {NoRevision}]
  /\ published \in [Revisions -> {0, 1}]
  /\ held \subseteq Hashes
  /\ links \in [Revisions -> SUBSET [file : Files, hash : Hashes]]
  /\ content \in [Files -> Hashes]
  /\ slug \in [Clients -> Slugs]
  /\ pc \in [Clients -> {"idle", "process", "commitSeed", "upload", "done", "denied"}]
  /\ rev \in [Clients -> 0..MaxRevision]
  /\ \A c \in Clients :
       /\ pc[c] \in {"idle", "done", "denied"} => hashes[c] = <<>> /\ todo[c] = {}
       /\ pc[c] = "process" => hashes[c] \in Seq(Hashes) /\ Len(hashes[c]) <= Len(FilesOf[c])
       /\ pc[c] \in {"commitSeed", "upload"} => hashes[c] \in [Listed(c) -> Hashes]
       /\ todo[c] \subseteq Listed(c)
  /\ attempts \in [Clients -> Nat] /\ faults \in [Clients -> 0..MaxFaults]
  /\ edits \in 0..MaxEdits

\* What a command has published is complete: every asset of a published
\* revision can be served, though the client learned what to upload before the
\* seed was committed, files change after they were hashed, and other clients
\* upload the same assets meanwhile (pusharticle.go:110-176).
PublishedIsComplete ==
  \A n \in Revisions : published[n] # 0 => \A l \in links[n] : l.hash \in held

\* A command that failed can be run again, and few runs are needed: apart from
\* faults and edits, a run fails only when an asset it was told to upload has
\* arrived since, from another client or from the same one under another name
\* (pusharticle.go:111-175), and no asset arrives twice.
RetriesAreFew ==
  \A c \in Clients : attempts[c] <= 1 + faults[c] + edits + Cardinality(held)

\* Once faults and edits are over, every command that is run again until it
\* succeeds does succeed, with its article public, unless the article is
\* another user's (pusharticle.go:23-187).
PushSucceeds ==
  \A c \in Clients :
    <>[](\/ pc[c] = "denied" /\ author[slug[c]] # UserOf[c]
         \/ pc[c] = "done" /\ published[rev[c]] # 0)
=============================================================================
