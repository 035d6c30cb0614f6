------------------------- MODULE PushArticleProofs -------------------------
(* Theorems about PushArticle, for any clients, users, slugs and files, and  *)
(* any number of faults and edits.                                           *)
EXTENDS PushArticle, SequenceTheorems, FiniteSetTheorems, TLAPS

-----------------------------------------------------------------------------
(* Types *)

\* TypeOK says what a command's list and hashes are, not that there is one of
\* each for every command.
TypeInv ==
  /\ TypeOK
  /\ hashes = [c \in Clients |-> hashes[c]]
  /\ todo = [c \in Clients |-> todo[c]]

USE PushAssumption

\* Which rows and links the tables may hold.
LEMMA RecordTypes ==
  ASSUME NEW s \in Slugs, NEW u \in Users
  PROVE  [slug |-> s, by |-> u] \in [slug : Slugs, by : Users]
  OBVIOUS

\* What hashes and todo have to be for a command in a given state.
Local(c) ==
  /\ pc[c] \in {"idle", "done", "denied"} => hashes[c] = <<>> /\ todo[c] = {}
  /\ pc[c] = "process" => hashes[c] \in Seq(Hashes) /\ Len(hashes[c]) <= Len(FilesOf[c])
  /\ pc[c] \in {"commitSeed", "upload"} => hashes[c] \in [Listed(c) -> Hashes]
  /\ todo[c] \subseteq Listed(c)

\* The end of a command keeps the types of its variables.
LEMMA EndTypes ==
  ASSUME TypeInv, NEW c \in Clients, NEW state \in {"idle", "done", "denied"}, End(c, state)
  PROVE  /\ slug' = slug /\ rev' = rev
         /\ pc' \in [Clients -> {"idle", "process", "commitSeed", "upload", "done", "denied"}]
         /\ hashes' = [d \in Clients |-> hashes'[d]]
         /\ todo' = [d \in Clients |-> todo'[d]]
         /\ \A d \in Clients : Local(d)'
  <1>1. /\ slug' = slug /\ rev' = rev
        /\ pc' = [pc EXCEPT ![c] = state]
        /\ hashes' = [hashes EXCEPT ![c] = <<>>]
        /\ todo' = [todo EXCEPT ![c] = {}]
    BY DEF End, Goto
  <1>2. \A d \in Clients : Local(d)
    BY DEF TypeInv, TypeOK, Local
  <1>3. ASSUME NEW d \in Clients PROVE Local(d)'
    <2>1. CASE d = c
      BY <1>1, <2>1 DEF TypeInv, TypeOK, Local, Listed
    <2>2. CASE d # c
      BY <1>1, <1>2, <2>2 DEF TypeInv, TypeOK, Local, Listed
    <2> QED BY <2>1, <2>2
  <1> QED BY <1>1, <1>3 DEF TypeInv, TypeOK

\* A step that leaves what a command knows as it is.
LEMMA LocalUnchanged ==
  ASSUME TypeInv, UNCHANGED <<pc, hashes, todo>>
  PROVE  /\ pc' \in [Clients -> {"idle", "process", "commitSeed", "upload", "done", "denied"}]
         /\ hashes' = [d \in Clients |-> hashes'[d]]
         /\ todo' = [d \in Clients |-> todo'[d]]
         /\ \A d \in Clients : Local(d)'
  BY DEF TypeInv, TypeOK, Local, Listed

\* The rows that a seed writes have their types.
LEMMA SeedTypes ==
  ASSUME TypeInv, NEW c \in Clients, NEW n \in Revisions, Seed(c, n)
  PROVE  /\ author' \in [Slugs -> Users \cup {NoUser}]
         /\ revision' \in [Revisions -> [slug : Slugs, by : Users] \cup {NoRevision}]
         /\ published' = published
         /\ links' \in [Revisions -> SUBSET [file : Files, hash : Hashes]]
  <1>1. UserOf[c] \in Users /\ slug[c] \in Slugs
    BY DEF TypeInv, TypeOK
  <1>2. /\ author' = [author EXCEPT ![slug[c]] = UserOf[c]]
        /\ revision' = [revision EXCEPT ![n] = [slug |-> slug[c], by |-> UserOf[c]]]
        /\ published' = published
        /\ links' = [links EXCEPT ![n] =
             {[file |-> File(c, i), hash |-> hashes[c][i]] : i \in Listed(c)}]
    BY DEF Seed, Articles!Seed
  <1>3. \A i \in Listed(c) : File(c, i) \in Files /\ hashes[c][i] \in Hashes
    <2>1. pc[c] = "commitSeed" BY DEF Seed
    <2>2. hashes[c] \in [Listed(c) -> Hashes] BY <2>1 DEF TypeInv, TypeOK
    <2>3. FilesOf[c] \in Seq(Files) OBVIOUS
    <2> QED BY <2>2, <2>3 DEF File, Listed
  <1>4. {[file |-> File(c, i), hash |-> hashes[c][i]] : i \in Listed(c)}
          \subseteq [file : Files, hash : Hashes]
    BY <1>3
  <1>5. [slug |-> slug[c], by |-> UserOf[c]] \in [slug : Slugs, by : Users]
    BY <1>1, RecordTypes
  <1>6. author' \in [Slugs -> Users \cup {NoUser}]
    BY <1>1, <1>2 DEF TypeInv, TypeOK
  <1>7. revision' \in [Revisions -> [slug : Slugs, by : Users] \cup {NoRevision}]
    BY <1>2, <1>5 DEF TypeInv, TypeOK
  <1>8. links' \in [Revisions -> SUBSET [file : Files, hash : Hashes]]
    BY <1>2, <1>4 DEF TypeInv, TypeOK
  <1> QED BY <1>2, <1>6, <1>7, <1>8

\* What a publication writes.
LEMMA PublishTypes ==
  ASSUME TypeInv, NEW c \in Clients, Publish(c)
  PROVE  /\ published' \in [Revisions -> {0, 1}]
         /\ published' = [published EXCEPT ![rev[c]] = 1]
         /\ UNCHANGED <<author, revision>>
  BY DEF Publish, Articles!Publish, TypeInv, TypeOK

\* What an upload stores.
LEMMA StoreTypes ==
  ASSUME TypeInv, NEW c \in Clients, NEW i \in Listed(c),
         content[File(c, i)] = hashes[c][i], Assets!Store(hashes[c][i])
  PROVE  held' \subseteq Hashes /\ held \subseteq held' /\ hashes[c][i] \in held'
  <1>1. FilesOf[c] \in Seq(Files) OBVIOUS
  <1>2. File(c, i) \in Files BY <1>1 DEF File, Listed
  <1> QED BY <1>2 DEF Assets!Store, TypeInv, TypeOK

\* The initial state has its types.
LEMMA TypeInit == Init => TypeInv
  BY DEF Init, Articles!Init, Assets!Init, TypeInv, TypeOK, Listed, Revisions

\* Every step keeps the types.
LEMMA TypeStep == TypeInv /\ [Next]_vars => TypeInv'
  <1> SUFFICES ASSUME TypeInv, [Next]_vars PROVE TypeInv'
    OBVIOUS
  <1> DEFINE Commands ==
        /\ pc' \in [Clients -> {"idle", "process", "commitSeed", "upload", "done", "denied"}]
        /\ hashes' = [d \in Clients |-> hashes'[d]]
        /\ todo' = [d \in Clients |-> todo'[d]]
        /\ \A d \in Clients : Local(d)'
      Rest ==
        /\ author' \in [Slugs -> Users \cup {NoUser}]
        /\ revision' \in [Revisions -> [slug : Slugs, by : Users] \cup {NoRevision}]
        /\ published' \in [Revisions -> {0, 1}]
        /\ held' \subseteq Hashes
        /\ links' \in [Revisions -> SUBSET [file : Files, hash : Hashes]]
        /\ content' \in [Files -> Hashes]
        /\ slug' \in [Clients -> Slugs]
        /\ rev' \in [Clients -> 0..MaxRevision]
        /\ attempts' \in [Clients -> Nat] /\ faults' \in [Clients -> 0..MaxFaults]
        /\ edits' \in 0..MaxEdits
  <1> SUFFICES Commands /\ Rest
    BY DEF TypeInv, TypeOK, Local
  <1>0. \A d \in Clients : Local(d)
    BY DEF TypeInv, TypeOK, Local
  <1>1a. ASSUME NEW c \in Clients, ReadFrontMatter(c) PROVE Commands /\ Rest
    <2>1. /\ pc[c] = "idle" /\ pc' = [pc EXCEPT ![c] = "process"] /\ UNCHANGED <<todo, hashes>>
      BY <1>1a DEF ReadFrontMatter, Goto, local
    <2>2. <<>> \in Seq(Hashes) /\ Len(<<>>) = 0 /\ Len(FilesOf[c]) \in Nat
      OBVIOUS
    <2>3. ASSUME NEW d \in Clients PROVE Local(d)'
      <3>1. CASE d = c
        <4>1. pc'[c] = "process" /\ todo'[c] = {} /\ hashes'[c] = <<>>
          BY <2>1, <1>0 DEF TypeInv, TypeOK, Local
        <4> QED BY <2>2, <3>1, <4>1 DEF Local
      <3>2. CASE d # c
        BY <2>1, <3>2, <1>0 DEF TypeInv, TypeOK, Local, Listed
      <3> QED BY <3>1, <3>2
    <2>4. Commands
      BY <2>1, <2>3 DEF TypeInv, TypeOK
    <2>5. Rest
      BY <1>1a DEF ReadFrontMatter, Goto, articles, local, TypeInv, TypeOK
    <2> QED BY <2>4, <2>5
  <1>1. ASSUME NEW c \in Clients, ProcessAsset(c) PROVE Commands /\ Rest
    <2> DEFINE i == Len(hashes[c]) + 1
    <2>1. /\ pc[c] = "process" /\ i \in Listed(c) /\ UNCHANGED <<pc, todo>>
          /\ hashes' = [hashes EXCEPT ![c] = Append(hashes[c], content[File(c, i)])]
      BY <1>1 DEF ProcessAsset
    <2>2. FilesOf[c] \in Seq(Files) /\ Len(FilesOf[c]) \in Nat /\ Listed(c) = 1 .. Len(FilesOf[c])
      BY LenProperties DEF Listed
    <2>3. content[File(c, i)] \in Hashes
      BY <2>1, <2>2 DEF TypeInv, TypeOK, File
    <2>4. hashes[c] \in Seq(Hashes) /\ Len(hashes[c]) \in Nat
      BY <2>1 DEF TypeInv, TypeOK
    <2>5. /\ hashes'[c] \in Seq(Hashes) /\ Len(hashes'[c]) = i
      <3>1. hashes'[c] = Append(hashes[c], content[File(c, i)])
        BY <2>1 DEF TypeInv
      <3> QED BY <2>3, <2>4, <3>1, AppendProperties
    <2>6. ASSUME NEW d \in Clients PROVE Local(d)'
      <3>1. CASE d = c
        <4>1. pc'[c] = "process" /\ todo'[c] = todo[c] /\ todo[c] \subseteq Listed(c)
          BY <2>1, <1>0 DEF Local
        <4>2. i <= Len(FilesOf[c])
          BY <2>1, <2>2
        <4>3. Listed(c)' = Listed(c)
          BY DEF Listed
        <4> QED BY <2>5, <3>1, <4>1, <4>2, <4>3 DEF Local
      <3>2. CASE d # c
        BY <2>1, <3>2, <1>0 DEF TypeInv, TypeOK, Local, Listed
      <3> QED BY <3>1, <3>2
    <2>7. Commands
      BY <2>1, <2>6 DEF TypeInv, TypeOK
    <2>8. Rest
      BY <1>1 DEF ProcessAsset, articles, counters, TypeInv, TypeOK
    <2> QED BY <2>7, <2>8
  <1>2. ASSUME NEW c \in Clients, ListMissing(c) PROVE Commands /\ Rest
    <2>1. /\ pc[c] = "process" /\ pc' = [pc EXCEPT ![c] = "commitSeed"] /\ UNCHANGED hashes
          /\ todo' = [todo EXCEPT ![c] = Missing(c)] /\ Len(hashes[c]) = Len(FilesOf[c])
      BY <1>2 DEF ListMissing, Goto
    <2>1a. hashes[c] \in [Listed(c) -> Hashes]
      <3>1. FilesOf[c] \in Seq(Files) /\ hashes[c] \in Seq(Hashes)
        BY <2>1 DEF TypeInv, TypeOK
      <3> QED BY <2>1, <3>1, LenProperties DEF Listed
    <2>2. Missing(c) \subseteq Listed(c)
      BY DEF Missing
    <2>3. ASSUME NEW d \in Clients PROVE Local(d)'
      <3>1. CASE d = c
        BY <2>1, <2>1a, <2>2, <3>1, <1>0 DEF TypeInv, TypeOK, Local, Listed
      <3>2. CASE d # c
        BY <2>1, <3>2, <1>0 DEF TypeInv, TypeOK, Local, Listed
      <3> QED BY <3>1, <3>2
    <2>4. Commands
      BY <2>1, <2>3 DEF TypeInv, TypeOK
    <2>5. Rest
      BY <1>2 DEF ListMissing, Goto, articles, counters, TypeInv, TypeOK
    <2> QED BY <2>4, <2>5
  <1>3. ASSUME NEW c \in Clients, NEW n \in Revisions, CommitSeed(c, n) PROVE Commands /\ Rest
    <2>1. /\ pc[c] = "commitSeed" /\ pc' = [pc EXCEPT ![c] = "upload"]
          /\ UNCHANGED <<hashes, todo>> /\ rev' = [rev EXCEPT ![c] = n]
      BY <1>3 DEF CommitSeed, Seed, Goto
    <2>3. ASSUME NEW d \in Clients PROVE Local(d)'
      BY <2>1, <1>0 DEF TypeInv, TypeOK, Local, Listed
    <2>4. Commands
      BY <2>1, <2>3 DEF TypeInv, TypeOK
    <2>5. Seed(c, n)
      BY <1>3 DEF CommitSeed
    <2>6. rev' \in [Clients -> 0..MaxRevision]
      BY <2>1 DEF TypeInv, TypeOK, Revisions
    <2>7. Rest
      BY <1>3, <2>5, <2>6, SeedTypes DEF CommitSeed, Goto, counters, TypeInv, TypeOK
    <2> QED BY <2>4, <2>7
  <1>4. ASSUME NEW c \in Clients, SeedDenied(c) PROVE Commands /\ Rest
    <2>1. End(c, "denied")
      BY <1>4 DEF SeedDenied
    <2>2. Rest
      BY <1>4, <2>1, EndTypes DEF SeedDenied, articles, counters, TypeInv, TypeOK
    <2> QED BY <2>1, <2>2, EndTypes
  <1>5. ASSUME NEW c \in Clients, NEW i \in Listed(c), Upload(c, i) PROVE Commands /\ Rest
    <2>1. CASE content[File(c, i)] = hashes[c][i] /\ hashes[c][i] \notin held
      <3>1. /\ Assets!Store(hashes[c][i]) /\ UNCHANGED <<slug, pc, hashes, rev>>
            /\ todo' = [todo EXCEPT ![c] = @ \ {i}]
            /\ pc[c] = "upload"
        BY <1>5, <2>1 DEF Upload
      <3>2. ASSUME NEW d \in Clients PROVE Local(d)'
        <4>1. CASE d = c
          BY <3>1, <4>1, <1>0 DEF TypeInv, TypeOK, Local, Listed
        <4>2. CASE d # c
          BY <3>1, <4>2, <1>0 DEF TypeInv, TypeOK, Local, Listed
        <4> QED BY <4>1, <4>2
      <3>3. Commands
        BY <3>1, <3>2 DEF TypeInv, TypeOK
      <3>4. Rest
        BY <1>5, <2>1, <3>1, StoreTypes DEF Upload, articles, counters, TypeInv, TypeOK
      <3> QED BY <3>3, <3>4
    <2>2. CASE ~(content[File(c, i)] = hashes[c][i] /\ hashes[c][i] \notin held)
      <3>1. End(c, "idle") /\ UNCHANGED <<held, articles, links, content, counters>>
        BY <1>5, <2>2 DEF Upload
      <3>2. Rest
        BY <3>1, EndTypes DEF articles, counters, TypeInv, TypeOK
      <3> QED BY <3>1, <3>2, EndTypes
    <2> QED BY <2>1, <2>2
  <1>6. ASSUME NEW c \in Clients, PublishArticle(c) PROVE Commands /\ Rest
    <2>1. End(c, "done") /\ Publish(c)
      BY <1>6 DEF PublishArticle
    <2>2. Rest
      BY <1>6, <2>1, EndTypes, PublishTypes DEF PublishArticle, counters, TypeInv, TypeOK
    <2> QED BY <2>1, <2>2, EndTypes
  <1>7. ASSUME NEW c \in Clients, Fault(c),
               \/ UNCHANGED <<articles, held, links>>
               \/ \E n \in Revisions : Seed(c, n) /\ UNCHANGED held
               \/ \E i \in Listed(c) : /\ content[File(c, i)] = hashes[c][i]
                                       /\ Assets!Store(hashes[c][i])
                                       /\ UNCHANGED <<articles, links>>
               \/ Publish(c) /\ UNCHANGED <<held, links>>
        PROVE  Commands /\ Rest
    <2>1. End(c, "idle") /\ UNCHANGED <<content, attempts, edits>>
      BY <1>7 DEF Fault
    <2>2. faults' \in [Clients -> 0..MaxFaults]
      <3>1. faults[c] < MaxFaults /\ faults' = [faults EXCEPT ![c] = @ + 1]
        BY <1>7 DEF Fault
      <3>2. faults[c] \in 0..MaxFaults
        BY DEF TypeInv, TypeOK
      <3>3. faults[c] + 1 \in 0..MaxFaults
        BY <3>1, <3>2
      <3> QED BY <3>1, <3>3 DEF TypeInv, TypeOK
    <2>3. /\ author' \in [Slugs -> Users \cup {NoUser}]
          /\ revision' \in [Revisions -> [slug : Slugs, by : Users] \cup {NoRevision}]
          /\ published' \in [Revisions -> {0, 1}]
          /\ held' \subseteq Hashes
          /\ links' \in [Revisions -> SUBSET [file : Files, hash : Hashes]]
      <3>1. CASE UNCHANGED <<articles, held, links>>
        BY <3>1 DEF articles, TypeInv, TypeOK
      <3>2. CASE \E n \in Revisions : Seed(c, n) /\ UNCHANGED held
        BY <3>2, SeedTypes DEF TypeInv, TypeOK
      <3>3. CASE \E i \in Listed(c) : /\ content[File(c, i)] = hashes[c][i]
                                      /\ Assets!Store(hashes[c][i])
                                      /\ UNCHANGED <<articles, links>>
        BY <3>3, StoreTypes DEF articles, TypeInv, TypeOK
      <3>4. CASE Publish(c) /\ UNCHANGED <<held, links>>
        BY <3>4, PublishTypes DEF TypeInv, TypeOK
      <3> QED BY <1>7, <3>1, <3>2, <3>3, <3>4
    <2>4. Rest
      BY <2>1, <2>2, <2>3, EndTypes DEF TypeInv, TypeOK
    <2> QED BY <2>1, <2>4, EndTypes
  <1>8. ASSUME NEW f \in Files, NEW h \in Hashes, EditFile(f, h) PROVE Commands /\ Rest
    <2>1. UNCHANGED <<pc, hashes, todo>>
      BY <1>8 DEF EditFile, local
    <2>2. edits' \in 0..MaxEdits
      BY <1>8 DEF EditFile, TypeInv, TypeOK
    <2>3. Rest
      BY <1>8, <2>2 DEF EditFile, local, articles, TypeInv, TypeOK
    <2> QED BY <2>1, <2>3, LocalUnchanged
  <1>9. ASSUME UNCHANGED vars PROVE Commands /\ Rest
    <2>1. UNCHANGED <<pc, hashes, todo>>
      BY <1>9 DEF vars, local
    <2>2. Rest
      BY <1>9 DEF vars, local, articles, counters, TypeInv, TypeOK
    <2> QED BY <2>1, <2>2, LocalUnchanged
  <1>10. ASSUME NEW c \in Clients, FaultStep(c) PROVE Commands /\ Rest
    BY <1>7, <1>10 DEF FaultStep, Fails, LosesSeedAnswer, LosesUploadAnswer, LosesPublishAnswer
  <1>11. ASSUME NEW c \in Clients, Step(c) PROVE Commands /\ Rest
    BY <1>1a, <1>1, <1>2, <1>3, <1>4, <1>5, <1>6, <1>11 DEF Step
  <1> QED BY <1>8, <1>9, <1>10, <1>11 DEF Next, AllEnded

\* The tables and what each command knows have their types, always.
THEOREM TypeCorrect == Spec => []TypeOK
  <1>1. TypeInv => TypeOK
    BY DEF TypeInv
  <1> QED BY TypeInit, TypeStep, <1>1, PTL DEF Spec

-----------------------------------------------------------------------------
(* What is published is complete *)

\* The rows of links that a seed of command c writes.
LinksOf(c) == {[file |-> File(c, i), hash |-> hashes[c][i]] : i \in Listed(c)}

\* A command has yet to upload what the server does not hold, though it learned
\* so before the seed; from the commit to the publication its revision is the
\* one it hashed the files for.
Working(c) ==
  /\ pc[c] \in {"commitSeed", "upload"} =>
       \A i \in Listed(c) : i \in todo[c] \/ hashes[c][i] \in held
  /\ pc[c] = "upload" => /\ rev[c] \in Revisions
                         /\ revision[rev[c]] # NoRevision
                         /\ links[rev[c]] = LinksOf(c)

\* A published revision is one that was staged, and its assets are held.
Settled(n) ==
  published[n] # 0 => revision[n] # NoRevision /\ \A l \in links[n] : l.hash \in held

CompleteInv ==
  /\ TypeInv
  /\ \A c \in Clients : Working(c)
  /\ \A n \in Revisions : Settled(n)

\* What a step may do to the tables: assets come, staged revisions stay.
RowsStay ==
  /\ held \subseteq held'
  /\ \A n \in Revisions : revision[n] # NoRevision =>
       revision'[n] # NoRevision /\ links'[n] = links[n]

\* A command that does not move keeps its part of the invariant.
LEMMA WorkingStays ==
  ASSUME NEW d \in Clients, Working(d), RowsStay,
         pc'[d] = pc[d], hashes'[d] = hashes[d], todo'[d] = todo[d], rev'[d] = rev[d]
  PROVE  Working(d)'
  BY DEF Working, RowsStay, LinksOf, Listed, File

\* Without a publication, what is published stays complete.
LEMMA SettledStays ==
  ASSUME NEW n \in Revisions, Settled(n), RowsStay, published' = published
  PROVE  Settled(n)'
  BY DEF Settled, RowsStay

\* A seed writes the links of a new revision and touches no other.
LEMMA SeedKeeps ==
  ASSUME TypeInv, NEW c \in Clients, NEW n \in Revisions, Seed(c, n), UNCHANGED held
  PROVE  /\ RowsStay /\ published' = published
         /\ revision'[n] # NoRevision /\ links'[n] = LinksOf(c)
  <1>1. UserOf[c] \in Users /\ slug[c] \in Slugs
    BY DEF TypeInv, TypeOK
  <1>2. /\ revision[n] = NoRevision /\ published' = published
        /\ revision' = [revision EXCEPT ![n] = [slug |-> slug[c], by |-> UserOf[c]]]
        /\ links' = [links EXCEPT ![n] = LinksOf(c)]
    BY DEF Seed, Articles!Seed, LinksOf
  <1>3. revision'[n] # NoRevision /\ links'[n] = LinksOf(c)
    BY <1>1, <1>2 DEF TypeInv, TypeOK
  <1>4. RowsStay
    BY <1>2 DEF RowsStay, TypeInv, TypeOK
  <1> QED BY <1>2, <1>3, <1>4

\* A publication adds a revision all of whose assets have been uploaded.
LEMMA PublishKeeps ==
  ASSUME CompleteInv, NEW c \in Clients, Publish(c), UNCHANGED <<held, links>>
  PROVE  RowsStay /\ \A n \in Revisions : Settled(n)'
  <1>1. published' = [published EXCEPT ![rev[c]] = 1] /\ UNCHANGED revision
    BY PublishTypes DEF CompleteInv
  <1>2. RowsStay
    BY <1>1 DEF RowsStay
  <1>3. /\ pc[c] = "upload" /\ todo[c] = {}
        /\ revision[rev[c]] # NoRevision /\ links[rev[c]] = LinksOf(c)
        /\ \A i \in Listed(c) : hashes[c][i] \in held
    BY DEF Publish, CompleteInv, Working
  <1>4. \A l \in links[rev[c]] : l.hash \in held
    BY <1>3 DEF LinksOf
  <1>5. ASSUME NEW n \in Revisions PROVE Settled(n)'
    <2>1. CASE n = rev[c]
      BY <1>1, <1>3, <1>4, <2>1 DEF Settled
    <2>2. CASE n # rev[c]
      <3>1. published'[n] = published[n]
        BY <1>1, <2>2 DEF CompleteInv, TypeInv, TypeOK
      <3> QED BY <1>1, <3>1 DEF CompleteInv, Settled
    <2> QED BY <2>1, <2>2
  <1> QED BY <1>2, <1>5

\* A command that has ended has nothing to keep.
LEMMA EndKeeps ==
  ASSUME CompleteInv, NEW c \in Clients, NEW state \in {"idle", "done", "denied"},
         End(c, state), RowsStay
  PROVE  \A d \in Clients : Working(d)'
  <1>1. /\ pc' = [pc EXCEPT ![c] = state] /\ rev' = rev
        /\ hashes' = [hashes EXCEPT ![c] = <<>>]
        /\ todo' = [todo EXCEPT ![c] = {}]
    BY DEF End, Goto
  <1>2. ASSUME NEW d \in Clients PROVE Working(d)'
    <2>1. CASE d = c
      BY <1>1, <2>1 DEF Working, CompleteInv, TypeInv, TypeOK
    <2>2. CASE d # c
      <3>1. pc'[d] = pc[d] /\ hashes'[d] = hashes[d] /\ todo'[d] = todo[d] /\ rev'[d] = rev[d]
        BY <1>1, <2>2 DEF CompleteInv, TypeInv, TypeOK
      <3> QED BY <3>1, WorkingStays DEF CompleteInv
    <2> QED BY <2>1, <2>2
  <1> QED BY <1>2

\* At first nothing is staged.
LEMMA CompleteInit == Init => CompleteInv
  BY TypeInit DEF Init, Articles!Init, CompleteInv, Working, Settled

\* Every step keeps the invariant.
LEMMA CompleteStep == CompleteInv /\ [Next]_vars => CompleteInv'
  <1> SUFFICES ASSUME CompleteInv, [Next]_vars
               PROVE  (\A d \in Clients : Working(d)') /\ (\A n \in Revisions : Settled(n)')
    BY TypeStep DEF CompleteInv
  <1> DEFINE Goal == (\A d \in Clients : Working(d)') /\ (\A n \in Revisions : Settled(n)')
  <1>0. TypeInv /\ (\A d \in Clients : Working(d)) /\ (\A n \in Revisions : Settled(n))
    BY DEF CompleteInv
  <1>1. ASSUME NEW c \in Clients, ReadFrontMatter(c) \/ ProcessAsset(c) PROVE Goal
    <2>1. /\ UNCHANGED <<articles, held, links, todo, rev>>
          /\ pc[c] \in {"idle", "process"} /\ pc' = [pc EXCEPT ![c] = "process"]
          /\ hashes' = [hashes EXCEPT ![c] = hashes'[c]]
      BY <1>1, <1>0 DEF ReadFrontMatter, ProcessAsset, Goto, local, TypeInv, TypeOK
    <2>2. RowsStay
      BY <2>1 DEF RowsStay, articles
    <2>3. ASSUME NEW d \in Clients PROVE Working(d)'
      <3>1. CASE d = c
        BY <2>1, <3>1, <1>0 DEF Working, TypeInv, TypeOK
      <3>2. CASE d # c
        <4>1. pc'[d] = pc[d] /\ hashes'[d] = hashes[d] /\ todo'[d] = todo[d] /\ rev'[d] = rev[d]
          BY <2>1, <3>2, <1>0 DEF TypeInv, TypeOK
        <4> QED BY <4>1, <2>2, <1>0, WorkingStays
      <3> QED BY <3>1, <3>2
    <2> QED BY <2>1, <2>2, <2>3, <1>0, SettledStays DEF articles
  <1>2. ASSUME NEW c \in Clients, ListMissing(c) PROVE Goal
    <2>1. /\ UNCHANGED <<articles, held, links, hashes, rev>>
          /\ pc[c] = "process" /\ pc' = [pc EXCEPT ![c] = "commitSeed"]
          /\ todo' = [todo EXCEPT ![c] = Missing(c)]
      BY <1>2 DEF ListMissing, Goto
    <2>2. RowsStay
      BY <2>1 DEF RowsStay, articles
    <2>3. \A i \in Listed(c) : i \in Missing(c) \/ hashes[c][i] \in held
      BY DEF Missing
    <2>4. ASSUME NEW d \in Clients PROVE Working(d)'
      <3>1. CASE d = c
        <4>1. /\ pc'[c] = "commitSeed" /\ todo'[c] = Missing(c)
              /\ hashes' = hashes /\ held' = held
          BY <2>1, <1>0 DEF TypeInv, TypeOK
        <4>2. \A i \in Listed(c) : i \in todo'[c] \/ hashes'[c][i] \in held'
          BY <2>3, <4>1
        <4> QED BY <3>1, <4>1, <4>2 DEF Working, Listed
      <3>2. CASE d # c
        <4>1. pc'[d] = pc[d] /\ hashes'[d] = hashes[d] /\ todo'[d] = todo[d] /\ rev'[d] = rev[d]
          BY <2>1, <3>2, <1>0 DEF TypeInv, TypeOK
        <4> QED BY <4>1, <2>2, <1>0, WorkingStays
      <3> QED BY <3>1, <3>2
    <2> QED BY <2>1, <2>2, <2>4, <1>0, SettledStays DEF articles
  <1>3. ASSUME NEW c \in Clients, NEW n \in Revisions, CommitSeed(c, n) PROVE Goal
    <2>1. /\ Seed(c, n) /\ UNCHANGED <<held, hashes, todo>>
          /\ pc[c] = "commitSeed" /\ pc' = [pc EXCEPT ![c] = "upload"]
          /\ rev' = [rev EXCEPT ![c] = n]
      BY <1>3 DEF CommitSeed, Seed, Goto
    <2>2. /\ RowsStay /\ published' = published
          /\ revision'[n] # NoRevision /\ links'[n] = LinksOf(c)
      BY <2>1, <1>0, SeedKeeps
    <2>3. ASSUME NEW d \in Clients PROVE Working(d)'
      <3>1. CASE d = c
        <4>1. pc'[c] = "upload" /\ rev'[c] = n /\ LinksOf(c)' = LinksOf(c)
          BY <2>1, <1>0 DEF LinksOf, Listed, File, TypeInv, TypeOK
        <4>2. \A i \in Listed(c) : i \in todo'[c] \/ hashes'[c][i] \in held'
          BY <2>1, <1>0 DEF Working
        <4> QED BY <3>1, <4>1, <4>2, <2>2 DEF Working, Listed
      <3>2. CASE d # c
        <4>1. pc'[d] = pc[d] /\ hashes'[d] = hashes[d] /\ todo'[d] = todo[d] /\ rev'[d] = rev[d]
          BY <2>1, <3>2, <1>0 DEF TypeInv, TypeOK
        <4> QED BY <4>1, <2>2, <1>0, WorkingStays
      <3> QED BY <3>1, <3>2
    <2> QED BY <2>2, <2>3, <1>0, SettledStays
  <1>4. ASSUME NEW c \in Clients, SeedDenied(c) PROVE Goal
    <2>1. End(c, "denied") /\ UNCHANGED <<articles, held, links>>
      BY <1>4 DEF SeedDenied
    <2>2. RowsStay
      BY <2>1 DEF RowsStay, articles
    <2> QED BY <2>1, <2>2, <1>0, EndKeeps, SettledStays DEF articles
  <1>5. ASSUME NEW c \in Clients, NEW i \in Listed(c), Upload(c, i) PROVE Goal
    <2>1. CASE content[File(c, i)] = hashes[c][i] /\ hashes[c][i] \notin held
      <3>1. /\ held' = held \cup {hashes[c][i]} /\ UNCHANGED <<articles, links, pc, hashes, rev>>
            /\ pc[c] = "upload" /\ todo' = [todo EXCEPT ![c] = @ \ {i}]
        BY <1>5, <2>1 DEF Upload, Assets!Store
      <3>2. RowsStay
        BY <3>1 DEF RowsStay, articles
      <3>3. ASSUME NEW d \in Clients PROVE Working(d)'
        <4>1. CASE d = c
          <5>1. todo'[c] = todo[c] \ {i}
            BY <3>1, <1>0 DEF TypeInv, TypeOK
          <5>2. \A j \in Listed(c) : j \in todo'[c] \/ hashes'[c][j] \in held'
            BY <3>1, <5>1, <1>0 DEF Working
          <5>3. LinksOf(c)' = LinksOf(c)
            BY <3>1 DEF LinksOf, Listed, File
          <5> QED BY <4>1, <3>1, <5>2, <5>3, <1>0 DEF Working, Listed, articles
        <4>2. CASE d # c
          <5>1. pc'[d] = pc[d] /\ hashes'[d] = hashes[d] /\ todo'[d] = todo[d] /\ rev'[d] = rev[d]
            BY <3>1, <4>2, <1>0 DEF TypeInv, TypeOK
          <5> QED BY <5>1, <3>2, <1>0, WorkingStays
        <4> QED BY <4>1, <4>2
      <3> QED BY <3>1, <3>2, <3>3, <1>0, SettledStays DEF articles
    <2>2. CASE ~(content[File(c, i)] = hashes[c][i] /\ hashes[c][i] \notin held)
      <3>1. End(c, "idle") /\ UNCHANGED <<held, articles, links>>
        BY <1>5, <2>2 DEF Upload
      <3>2. RowsStay
        BY <3>1 DEF RowsStay, articles
      <3> QED BY <3>1, <3>2, <1>0, EndKeeps, SettledStays DEF articles
    <2> QED BY <2>1, <2>2
  <1>6. ASSUME NEW c \in Clients, PublishArticle(c) PROVE Goal
    <2>1. Publish(c) /\ End(c, "done") /\ UNCHANGED <<held, links>>
      BY <1>6 DEF PublishArticle
    <2> QED BY <2>1, PublishKeeps, EndKeeps
  <1>7. ASSUME NEW c \in Clients, FaultStep(c) PROVE Goal
    <2>1. Fault(c) /\ End(c, "idle")
      BY <1>7 DEF FaultStep, Fault, Fails, LosesSeedAnswer, LosesUploadAnswer, LosesPublishAnswer
    <2>2. SUFFICES RowsStay /\ \A n \in Revisions : Settled(n)'
      BY <2>1, <2>2, EndKeeps
    <2>3. CASE Fails(c)
      <3>1. RowsStay
        BY <2>3 DEF Fails, RowsStay, articles
      <3> QED BY <2>3, <3>1, <1>0, SettledStays DEF Fails, articles
    <2>4. CASE \E n \in Revisions : LosesSeedAnswer(c, n)
      BY <2>4, <1>0, SeedKeeps, SettledStays DEF LosesSeedAnswer
    <2>5. CASE \E i \in Listed(c) : LosesUploadAnswer(c, i)
      <3>1. /\ held \subseteq held' /\ UNCHANGED <<articles, links>>
        BY <2>5 DEF LosesUploadAnswer, Assets!Store
      <3>2. RowsStay
        BY <3>1 DEF RowsStay, articles
      <3> QED BY <3>1, <3>2, <1>0, SettledStays DEF articles
    <2>6. CASE LosesPublishAnswer(c)
      BY <2>6, PublishKeeps DEF LosesPublishAnswer
    <2> QED BY <1>7, <2>3, <2>4, <2>5, <2>6 DEF FaultStep
  <1>8. ASSUME UNCHANGED <<articles, held, links, pc, local>> PROVE Goal
    <2>1. RowsStay
      BY <1>8 DEF RowsStay, articles
    <2> QED BY <1>8, <2>1, <1>0, WorkingStays, SettledStays DEF articles, local
  <1>9. ASSUME NEW c \in Clients, Step(c) PROVE Goal
    BY <1>1, <1>2, <1>3, <1>4, <1>5, <1>6, <1>9 DEF Step
  <1>10. CASE \E f \in Files, h \in Hashes : EditFile(f, h)
    BY <1>8, <1>10 DEF EditFile
  <1>11. CASE UNCHANGED vars
    BY <1>8, <1>11 DEF vars
  <1> QED BY <1>7, <1>9, <1>10, <1>11 DEF Next, AllEnded

\* Whatever fails, is run again or is edited, and however many clients push:
\* every asset of a published revision can be served.
THEOREM CompleteCorrect == Spec => []PublishedIsComplete
  <1>1. CompleteInv => PublishedIsComplete
    BY DEF CompleteInv, Settled, PublishedIsComplete
  <1> QED BY CompleteInit, CompleteStep, <1>1, PTL DEF Spec
-----------------------------------------------------------------------------
(* Retries *)

\* What may have made the runs of a command fail.
Spent(c) == faults[c] + edits + Cardinality(held)

\* Where a command has hashes of files.
Hashing == {"process", "commitSeed", "upload"}

\* A run will fail, or may: a file has changed since it was hashed, or an asset has
\* arrived since it was listed.
Stale(c) ==
  \/ pc[c] \in Hashing /\ \E i \in DOMAIN hashes[c] : content[File(c, i)] # hashes[c][i]
  \/ pc[c] \in {"commitSeed", "upload"} /\ \E i \in todo[c] : hashes[c][i] \in held

\* Between its runs, and as soon as the present one may fail, a command has not
\* been run more often than there were reasons.
Paid(c) ==
  /\ attempts[c] <= 1 + Spent(c)
  /\ pc[c] = "idle" \/ Stale(c) => attempts[c] <= Spent(c)

RetryInv == TypeInv /\ IsFiniteSet(held) /\ \A c \in Clients : Paid(c)

\* Reasons and runs are counted in natural numbers.
LEMMA SpentType ==
  ASSUME RetryInv, NEW c \in Clients
  PROVE  /\ Spent(c) \in Nat /\ attempts[c] \in Nat /\ faults[c] \in Nat /\ edits \in Nat
         /\ Cardinality(held) \in Nat
<1>1. Cardinality(held) \in Nat
  BY FS_CardinalityType DEF RetryInv
<1>2. faults[c] \in Nat /\ edits \in Nat /\ attempts[c] \in Nat
  BY DEF RetryInv, TypeInv, TypeOK
<1> QED BY <1>1, <1>2 DEF Spent

\* An asset that arrives adds one to the reasons.
LEMMA StoreCounts ==
  ASSUME RetryInv, NEW h, Assets!Store(h)
  PROVE  IsFiniteSet(held') /\ Cardinality(held') = Cardinality(held) + 1
BY FS_AddElement DEF RetryInv, Assets!Store

\* While reasons stay as they are, a command is paid for if it does not move.
LEMMA PaidStays ==
  ASSUME NEW d \in Clients, Paid(d), UNCHANGED <<held, content, edits>>,
         attempts'[d] = attempts[d], faults'[d] = faults[d],
         pc'[d] = pc[d], hashes'[d] = hashes[d], todo'[d] = todo[d]
  PROVE  Paid(d)'
<1>1. Spent(d)' = Spent(d)
  BY DEF Spent
<1>2. Stale(d)' <=> Stale(d)
  BY DEF Stale, Hashing, File
<1> QED BY <1>1, <1>2 DEF Paid

\* Any reason more pays for another run.
LEMMA PaidAgain ==
  ASSUME RetryInv, NEW d \in Clients, attempts'[d] = attempts[d],
         faults'[d] \in Nat, edits' \in Nat, Cardinality(held') \in Nat,
         Spent(d)' > Spent(d)
  PROVE  Paid(d)'
<1>1. attempts[d] <= 1 + Spent(d) /\ Spent(d) \in Nat /\ attempts[d] \in Nat
  BY SpentType DEF RetryInv, Paid
<1>2. Spent(d)' \in Nat
  BY DEF Spent
<1>3. attempts'[d] <= Spent(d)'
  BY <1>1, <1>2
<1> QED BY <1>1, <1>2, <1>3 DEF Paid

\* The end of a run that succeeds or is denied, or fails for a reason.
LEMMA PaidEnd ==
  ASSUME RetryInv, NEW c \in Clients, NEW state \in {"idle", "done", "denied"}, End(c, state),
         UNCHANGED <<held, content, counters>>, state = "idle" => Stale(c)
  PROVE  \A d \in Clients : Paid(d)'
<1>1. /\ pc' = [pc EXCEPT ![c] = state]
      /\ hashes' = [hashes EXCEPT ![c] = <<>>] /\ todo' = [todo EXCEPT ![c] = {}]
  BY DEF End, Goto
<1>2. ASSUME NEW d \in Clients PROVE Paid(d)'
  <2>1. CASE d = c
    <3>1. pc'[d] = state
      BY <1>1, <2>1 DEF RetryInv, TypeInv, TypeOK
    <3>2. Spent(d)' = Spent(d)
      BY DEF Spent, counters
    <3>3. ~Stale(d)'
      BY <3>1 DEF Stale, Hashing
    <3> QED BY <2>1, <3>1, <3>2, <3>3 DEF RetryInv, Paid, counters
  <2>2. CASE d # c
    <3>1. pc'[d] = pc[d] /\ hashes'[d] = hashes[d] /\ todo'[d] = todo[d]
      BY <1>1, <2>2 DEF RetryInv, TypeInv, TypeOK
    <3> QED BY <3>1, PaidStays DEF RetryInv, counters
  <2> QED BY <2>1, <2>2
<1> QED BY <1>2

\* A fault pays for the next run of its command, and an asset that its lost
\* call has stored pays for everyone.
LEMMA PaidFault ==
  ASSUME RetryInv, NEW c \in Clients, Fault(c),
         UNCHANGED held \/ \E h : Assets!Store(h)
  PROVE  IsFiniteSet(held') /\ \A d \in Clients : Paid(d)'
<1>1. /\ pc' = [pc EXCEPT ![c] = "idle"] /\ faults' = [faults EXCEPT ![c] = @ + 1]
      /\ hashes' = [hashes EXCEPT ![c] = <<>>] /\ todo' = [todo EXCEPT ![c] = {}]
      /\ UNCHANGED <<content, attempts, edits>>
  BY DEF Fault, End, Goto
<1>2. /\ IsFiniteSet(held') /\ Cardinality(held') \in Nat /\ Cardinality(held') >= Cardinality(held)
      /\ UNCHANGED held \/ Cardinality(held') = Cardinality(held) + 1
  BY StoreCounts, FS_CardinalityType DEF RetryInv
<1>3. ASSUME NEW d \in Clients PROVE Paid(d)'
  <2>1. edits' \in Nat /\ faults[d] \in Nat /\ attempts'[d] = attempts[d] /\ Cardinality(held) \in Nat
    BY <1>1, SpentType
  <2>2. CASE d = c
    <3>1. faults'[d] = faults[d] + 1 /\ pc'[d] = "idle"
      BY <1>1, <2>2 DEF RetryInv, TypeInv, TypeOK
    <3>2. Spent(d)' > Spent(d)
      BY <1>1, <1>2, <2>1, <3>1 DEF Spent
    <3>3. faults'[d] \in Nat
      BY <2>1, <3>1
    <3> QED BY <1>2, <2>1, <3>2, <3>3, PaidAgain
  <2>3. CASE d # c
    <3>1. /\ pc'[d] = pc[d] /\ hashes'[d] = hashes[d] /\ todo'[d] = todo[d]
          /\ faults'[d] = faults[d]
      BY <1>1, <2>3 DEF RetryInv, TypeInv, TypeOK
    <3>2. CASE UNCHANGED held
      BY <1>1, <2>1, <3>1, <3>2, PaidStays DEF RetryInv
    <3>3. CASE Cardinality(held') = Cardinality(held) + 1
      <4>1. Spent(d)' > Spent(d)
        BY <1>1, <2>1, <3>1, <3>3 DEF Spent
      <4> QED BY <1>2, <2>1, <3>1, <4>1, PaidAgain
    <3> QED BY <1>2, <3>2, <3>3
  <2> QED BY <2>2, <2>3
<1> QED BY <1>2, <1>3

\* Every step is paid for.
LEMMA RetryStep == RetryInv /\ [Next]_vars => RetryInv'
<1> SUFFICES ASSUME RetryInv, [Next]_vars PROVE IsFiniteSet(held') /\ \A d \in Clients : Paid(d)'
  BY TypeStep DEF RetryInv
<1> DEFINE Goal == IsFiniteSet(held') /\ \A d \in Clients : Paid(d)'
<1>0. IsFiniteSet(held) /\ \A d \in Clients : Paid(d)
  BY DEF RetryInv
<1>1a. ASSUME NEW c \in Clients, ReadFrontMatter(c) PROVE Goal
  <2>1. /\ UNCHANGED <<held, content, todo, hashes, faults, edits>>
        /\ pc[c] = "idle" /\ pc' = [pc EXCEPT ![c] = "process"]
        /\ attempts' = [attempts EXCEPT ![c] = @ + 1]
    BY <1>1a DEF ReadFrontMatter, Goto, local
  <2>2. ASSUME NEW d \in Clients PROVE Paid(d)'
    <3>1. CASE d = c
      <4>1. pc'[c] = "process" /\ attempts'[c] = attempts[c] + 1 /\ hashes'[c] = <<>>
        BY <2>1 DEF RetryInv, TypeInv, TypeOK
      <4>2. Spent(c)' = Spent(c)
        BY <2>1 DEF Spent
      <4>3. ~Stale(c)'
        BY <4>1 DEF Stale, Hashing
      <4>4. attempts'[c] <= 1 + Spent(c)'
        BY <1>0, <2>1, <4>1, <4>2, SpentType DEF Paid
      <4> QED BY <3>1, <4>1, <4>3, <4>4 DEF Paid
    <3>2. CASE d # c
      <4>1. pc'[d] = pc[d] /\ attempts'[d] = attempts[d]
        BY <2>1, <3>2 DEF RetryInv, TypeInv, TypeOK
      <4> QED BY <1>0, <2>1, <4>1, PaidStays
    <3> QED BY <3>1, <3>2
  <2> QED BY <1>0, <2>1, <2>2
<1>1. ASSUME NEW c \in Clients, ProcessAsset(c) PROVE Goal
  <2> DEFINE i == Len(hashes[c]) + 1
  <2>1. /\ UNCHANGED <<held, content, pc, todo, counters>> /\ pc[c] = "process"
        /\ hashes' = [hashes EXCEPT ![c] = Append(hashes[c], content[File(c, i)])]
    BY <1>1 DEF ProcessAsset
  <2>2. ASSUME NEW d \in Clients PROVE Paid(d)'
    <3>1. CASE d = c
      <4>1. hashes'[c] = Append(hashes[c], content[File(c, i)]) /\ hashes[c] \in Seq(Hashes)
        BY <2>1 DEF RetryInv, TypeInv, TypeOK
      <4>2. \A j \in DOMAIN hashes'[c] :
              \/ j \in DOMAIN hashes[c] /\ hashes'[c][j] = hashes[c][j]
              \/ j = i /\ hashes'[c][j] = content[File(c, i)]
        BY <4>1
      <4>3. Stale(c)' => Stale(c)
        BY <2>1, <4>2 DEF Stale, Hashing, File
      <4>4. Spent(c)' = Spent(c)
        BY <2>1 DEF Spent, counters
      <4> QED BY <1>0, <2>1, <3>1, <4>3, <4>4 DEF Paid, counters
    <3>2. CASE d # c
      <4>1. hashes'[d] = hashes[d]
        BY <2>1, <3>2 DEF RetryInv, TypeInv, TypeOK
      <4> QED BY <1>0, <2>1, <4>1, PaidStays DEF counters
    <3> QED BY <3>1, <3>2
  <2> QED BY <1>0, <2>1, <2>2
<1>2. ASSUME NEW c \in Clients, ListMissing(c) PROVE Goal
  <2>1. /\ UNCHANGED <<held, content, hashes, counters>> /\ pc[c] = "process"
        /\ Len(hashes[c]) = Len(FilesOf[c])
        /\ pc' = [pc EXCEPT ![c] = "commitSeed"] /\ todo' = [todo EXCEPT ![c] = Missing(c)]
    BY <1>2 DEF ListMissing, Goto
  <2>2. ASSUME NEW d \in Clients PROVE Paid(d)'
    <3>1. CASE d = c
      <4>1. pc'[c] = "commitSeed" /\ todo'[c] = Missing(c)
        BY <2>1 DEF RetryInv, TypeInv, TypeOK
      <4>2. ~Stale(c) => \A i \in Missing(c) : hashes[c][i] \notin held
        <5>1. hashes[c] \in Seq(Hashes) /\ FilesOf[c] \in Seq(Files)
          BY <2>1 DEF RetryInv, TypeInv, TypeOK
        <5>2. DOMAIN hashes[c] = Listed(c)
          BY <2>1, <5>1, LenProperties DEF Listed
        <5> QED BY <2>1, <5>2 DEF Stale, Hashing, Missing
      <4>3. Stale(c)' => Stale(c)
        BY <2>1, <4>1, <4>2 DEF Stale, Hashing, File
      <4>4. Spent(c)' = Spent(c)
        BY <2>1 DEF Spent, counters
      <4> QED BY <1>0, <2>1, <3>1, <4>1, <4>3, <4>4 DEF Paid, counters
    <3>2. CASE d # c
      <4>1. pc'[d] = pc[d] /\ todo'[d] = todo[d]
        BY <2>1, <3>2 DEF RetryInv, TypeInv, TypeOK
      <4> QED BY <1>0, <2>1, <4>1, PaidStays DEF counters
    <3> QED BY <3>1, <3>2
  <2> QED BY <1>0, <2>1, <2>2
<1>3. ASSUME NEW c \in Clients, NEW n \in Revisions, CommitSeed(c, n) PROVE Goal
  <2>1. /\ UNCHANGED <<held, content, hashes, todo, counters>> /\ pc[c] = "commitSeed"
        /\ pc' = [pc EXCEPT ![c] = "upload"]
    BY <1>3 DEF CommitSeed, Seed, Goto
  <2>2. ASSUME NEW d \in Clients PROVE Paid(d)'
    <3>1. CASE d = c
      <4>1. pc'[c] = "upload"
        BY <2>1 DEF RetryInv, TypeInv, TypeOK
      <4>2. Stale(c)' => Stale(c)
        BY <2>1, <4>1 DEF Stale, Hashing, File
      <4>3. Spent(c)' = Spent(c)
        BY <2>1 DEF Spent, counters
      <4> QED BY <1>0, <2>1, <3>1, <4>1, <4>2, <4>3 DEF Paid, counters
    <3>2. CASE d # c
      <4>1. pc'[d] = pc[d]
        BY <2>1, <3>2 DEF RetryInv, TypeInv, TypeOK
      <4> QED BY <1>0, <2>1, <4>1, PaidStays DEF counters
    <3> QED BY <3>1, <3>2
  <2> QED BY <1>0, <2>1, <2>2
<1>4. ASSUME NEW c \in Clients, SeedDenied(c) PROVE Goal
  BY <1>0, <1>4, PaidEnd DEF SeedDenied
<1>5. ASSUME NEW c \in Clients, NEW i \in Listed(c), Upload(c, i) PROVE Goal
  <2>1. pc[c] = "upload" /\ i \in todo[c] /\ UNCHANGED <<content, counters>>
    BY <1>5 DEF Upload
  <2>2. CASE content[File(c, i)] = hashes[c][i] /\ hashes[c][i] \notin held
    <3>1. Assets!Store(hashes[c][i]) /\ UNCHANGED <<pc, hashes>>
      BY <1>5, <2>2 DEF Upload
    <3>2. IsFiniteSet(held') /\ Cardinality(held') = Cardinality(held) + 1
      BY <3>1, StoreCounts
    <3>3. ASSUME NEW d \in Clients PROVE Paid(d)'
      <4>1. Spent(d)' > Spent(d) /\ Cardinality(held') \in Nat /\ faults'[d] \in Nat /\ edits' \in Nat
        BY <2>1, <3>2, SpentType DEF Spent, counters
      <4> QED BY <2>1, <3>1, <4>1, PaidAgain DEF counters
    <3> QED BY <3>2, <3>3
  <2>3. CASE ~(content[File(c, i)] = hashes[c][i] /\ hashes[c][i] \notin held)
    <3>1. End(c, "idle") /\ UNCHANGED held
      BY <1>5, <2>3 DEF Upload
    <3>2. Stale(c)
      BY <2>1, <2>3 DEF Stale, Hashing, RetryInv, TypeInv, TypeOK
    <3> QED BY <1>0, <2>1, <3>1, <3>2, PaidEnd
  <2> QED BY <2>2, <2>3
<1>6. ASSUME NEW c \in Clients, PublishArticle(c) PROVE Goal
  BY <1>0, <1>6, PaidEnd DEF PublishArticle
<1>7. ASSUME NEW c \in Clients, FaultStep(c) PROVE Goal
  <2>1. Fault(c) /\ (UNCHANGED held \/ \E h : Assets!Store(h))
    BY <1>7 DEF FaultStep, Fails, LosesSeedAnswer, LosesUploadAnswer, LosesPublishAnswer
  <2> QED BY <2>1, PaidFault
<1>8. ASSUME NEW f \in Files, NEW h \in Hashes, EditFile(f, h) PROVE Goal
  <2>1. UNCHANGED <<held, pc, hashes, attempts, faults>> /\ edits' = edits + 1
    BY <1>8 DEF EditFile, local
  <2>2. ASSUME NEW d \in Clients PROVE Paid(d)'
    <3>1. Spent(d)' > Spent(d) /\ Cardinality(held') \in Nat /\ faults'[d] \in Nat /\ edits' \in Nat
      BY <2>1, SpentType DEF Spent
    <3> QED BY <2>1, <3>1, PaidAgain
  <2> QED BY <1>0, <2>1, <2>2
<1>9. CASE UNCHANGED vars
  BY <1>0, <1>9, PaidStays DEF vars, local, counters
<1> QED
  BY <1>1a, <1>1, <1>2, <1>3, <1>4, <1>5, <1>6, <1>7, <1>8, <1>9 DEF Next, Step, AllEnded

\* At first no command has been run.
LEMMA RetryInit == Init => RetryInv
<1> SUFFICES ASSUME Init PROVE IsFiniteSet(held) /\ \A c \in Clients : Paid(c)
  BY TypeInit DEF RetryInv
<1>1. held = {} /\ IsFiniteSet(held) /\ Cardinality(held) = 0
  BY FS_EmptySet DEF Init, Assets!Init
<1>2. ASSUME NEW c \in Clients PROVE Paid(c)
  BY <1>1 DEF Init, Paid, Spent, Stale
<1> QED BY <1>1, <1>2

\* However often commands fail and are run again: each is run at most once more
\* than there were faults of its own, edits of files and assets that arrived.
THEOREM RetriesCorrect == Spec => []RetriesAreFew
<1>1. RetryInv => RetriesAreFew
  <2> SUFFICES ASSUME RetryInv, NEW c \in Clients
               PROVE  attempts[c] <= 1 + faults[c] + edits + Cardinality(held)
    BY DEF RetriesAreFew
  <2>1. attempts[c] <= 1 + Spent(c)
    BY DEF RetryInv, Paid
  <2> QED BY <2>1, SpentType DEF Spent
<1> QED BY <1>1, RetryInit, RetryStep, PTL DEF Spec
=============================================================================
