---------------------------- MODULE AssetUpload ----------------------------
(* CmsService.PushAsset with the local-file storage driver.                 *)
(*                                                                          *)
(* A request runs as two goroutines joined by an io.Pipe and by a channel   *)
(* that carries one verdict.  The handler owns the database transaction     *)
(* that inserts the row of the asset and calls the storage driver, which    *)
(* reads the pipe into a file named after the hash.  The writer reads the   *)
(* client's stream, counts and hashes it, and feeds the pipe.  The file is  *)
(* not part of the transaction: it is kept in step with the row only by     *)
(* the order of these steps.                                                *)
(*                                                                          *)
(* A byte is only known as genuine (the byte the hashed content has at that *)
(* offset) or not; the hash of a stream is the declared one exactly when    *)
(* the stream is the content, that is, SHA-512 is taken as collision free.  *)
EXTENDS Integers

CONSTANTS
  Uploads,     \* the request slots of the server: each runs one upload at a time
  Hashes,      \* the hashes clients declare
  Length,      \* Length[h]: the number of bytes whose hash is h
  Lengths,     \* the content lengths clients declare: any int64, checked by nobody
  ChunkSizes,  \* the sizes of the chunks clients send
  Faults,      \* which of the faults below may happen
  NoRow,       \* the asset has no row in the table assets
  NoObject     \* there is no file of that name

AllFaults == {"disk",        \* file operations fail: os.Root.Create, File.Write
              "crash",       \* the web server stops and starts again
              "cancel",      \* the client goes away: the request context ends
              "lostCommit"}  \* the database connection breaks during COMMIT

ASSUME UploadAssumption ==
  /\ Length \in [Hashes -> Nat]
  /\ Lengths \subseteq Int
  /\ ChunkSizes \subseteq Nat
  /\ Faults \subseteq AllFaults
  /\ Hashes # {} /\ Lengths # {}
  /\ NoRow \notin Int

Descriptors == [hash : Hashes, len : Lengths]

\* A file: its size and the offsets that do not hold the content's byte.
Files == [size : Nat, bad : SUBSET Nat]
EmptyFile == [size |-> 0, bad |-> {}]

NoChunk == [size |-> 0, genuine |-> TRUE]

ASSUME ObjectAssumption == NoObject \notin Files

VARIABLES
  row,        \* row[h]: the committed content_length of asset h, or NoRow
  object,     \* object[h]: the file "SHA512:" h of the storage directory, or NoObject
  hpc, wpc,   \* where the handler and the writer of each slot are
  desc,       \* the descriptor of the request
  tx,         \* TRUE while the transaction holds an uncommitted row of the asset
  cancelled,  \* the context of the request has ended
  counted,    \* byteCounter
  sound,      \* every byte given to the hasher was genuine
  chunk,      \* the chunk the writer is passing to the pipe
  copied,     \* what the driver wrote to its file: the offset of its descriptor
  attached,   \* the driver's descriptor is the file that has the name now
  verdict,    \* the content of the channel writerResp
  reply       \* what the handler is about to answer

shared == <<row, object, attached>>
handler == <<hpc, desc, tx, cancelled, copied, reply>>
writer == <<wpc, counted, sound, chunk, verdict>>
vars == <<shared, handler, writer>>

Errors == {"size", "hash", "protocol"}     \* the errors clients are told apart

HandlerStates == {"idle", "insert", "create", "copy", "remove", "select",
                  "await", "commit", "delete", "return"}
WriterStates == {"receive", "write", "closing", "closed"}

Init ==
  /\ row = [h \in Hashes |-> NoRow]
  /\ object = [h \in Hashes |-> NoObject]
  /\ attached = [u \in Uploads |-> FALSE]
  /\ hpc = [u \in Uploads |-> "idle"]
  /\ wpc = [u \in Uploads |-> "closed"]
  /\ desc = [u \in Uploads |-> CHOOSE d \in Descriptors : TRUE]
  /\ tx = [u \in Uploads |-> FALSE]
  /\ cancelled = [u \in Uploads |-> FALSE]
  /\ copied = [u \in Uploads |-> 0]
  /\ counted = [u \in Uploads |-> 0]
  /\ sound = [u \in Uploads |-> TRUE]
  /\ chunk = [u \in Uploads |-> NoChunk]
  /\ verdict = [u \in Uploads |-> "empty"]
  /\ reply = [u \in Uploads |-> "none"]

-----------------------------------------------------------------------------
(* Files of the storage directory *)

\* A write of size bytes at offset off; a gap before it reads as zeros.
WriteAt(file, off, size, genuine) ==
  LET written == off .. off + size - 1
      gap == file.size .. off - 1
  IN [size |-> IF off + size > file.size THEN off + size ELSE file.size,
      bad |-> ((file.bad \cup gap) \ written)
                \cup (IF genuine THEN {} ELSE written)]

Whole(file, h) == file = [size |-> Length[h], bad |-> {}]

\* os.Root.Remove: files that are open keep their data but lose the name.
RemoveObject(h) ==
  /\ object' = [object EXCEPT ![h] = NoObject]
  /\ attached' = [u \in Uploads |-> attached[u] /\ desc[u].hash # h]

\* The callers only log that a removal failed.
TryRemove(h) == \/ RemoveObject(h)
                \/ "disk" \in Faults /\ UNCHANGED <<object, attached>>

-----------------------------------------------------------------------------
(* The handler: PushAsset and, inside it, LocalFSStore.PutFile *)

\* The first message of the stream is a descriptor.
Start(u, d) ==
  /\ hpc[u] = "idle" /\ wpc[u] = "closed"
  /\ hpc' = [hpc EXCEPT ![u] = "insert"]
  /\ desc' = [desc EXCEPT ![u] = d]
  /\ counted' = [counted EXCEPT ![u] = 0]
  /\ sound' = [sound EXCEPT ![u] = TRUE]
  /\ verdict' = [verdict EXCEPT ![u] = "empty"]
  /\ UNCHANGED <<shared, wpc, chunk, tx, cancelled, copied, reply>>

\* Mutant: hash not a key, an INSERT waits for nobody.
CanAlwaysInsert(u) == TRUE

\* Begin and CreateAsset.  The primary key makes the INSERT wait for another
\* transaction that has inserted the hash, and refuses a committed hash.
CanInsert(u) == \A v \in Uploads : ~(tx[v] /\ desc[v].hash = desc[u].hash)

\* Mutant: ON CONFLICT DO NOTHING, a committed asset is uploaded again.
InsertOverCommitted(u) ==
  /\ hpc[u] = "insert" /\ CanInsert(u)
  /\ ~cancelled[u]
  /\ tx' = [tx EXCEPT ![u] = TRUE]
  /\ hpc' = [hpc EXCEPT ![u] = "create"]
  /\ wpc' = [wpc EXCEPT ![u] = "receive"]
  /\ UNCHANGED <<shared, desc, cancelled, copied, reply, counted, sound, chunk, verdict>>

InsertAsset(u) ==
  /\ hpc[u] = "insert" /\ CanInsert(u)
  /\ row[desc[u].hash] = NoRow /\ ~cancelled[u]
  /\ tx' = [tx EXCEPT ![u] = TRUE]
  /\ hpc' = [hpc EXCEPT ![u] = "create"]
  /\ wpc' = [wpc EXCEPT ![u] = "receive"]    \* go func()
  /\ UNCHANGED <<shared, desc, cancelled, copied, reply, counted, sound, chunk, verdict>>

InsertFails(u) ==
  /\ hpc[u] = "insert"
  /\ \/ CanInsert(u) /\ row[desc[u].hash] # NoRow
     \/ cancelled[u]
  /\ reply' = [reply EXCEPT ![u] = "internal"]
  /\ hpc' = [hpc EXCEPT ![u] = "return"]
  /\ UNCHANGED <<shared, desc, tx, cancelled, copied, writer>>

\* os.Root.Create makes the file or truncates the one that has the name.
CreateObject(u) ==
  /\ hpc[u] = "create"
  /\ object' = [object EXCEPT ![desc[u].hash] = EmptyFile]
  /\ attached' = [attached EXCEPT ![u] = TRUE]
  /\ hpc' = [hpc EXCEPT ![u] = "copy"]
  /\ UNCHANGED <<row, desc, tx, cancelled, copied, reply, writer>>

CreateFails(u) ==
  /\ "disk" \in Faults
  /\ hpc[u] = "create"
  /\ hpc' = [hpc EXCEPT ![u] = "select"]
  /\ UNCHANGED <<shared, desc, tx, cancelled, copied, reply, writer>>

\* io.Copy takes the writer's chunk out of the pipe; assetWriter.Write returns.
Transfer(u) ==
  /\ hpc[u] = "copy" /\ wpc[u] = "write"
  /\ copied[u] < desc[u].len
  /\ IF attached[u]
       THEN object' = [object EXCEPT ![desc[u].hash] =
                         WriteAt(@, copied[u], chunk[u].size, chunk[u].genuine)]
       ELSE UNCHANGED object
  /\ copied' = [copied EXCEPT ![u] = @ + chunk[u].size]
  /\ chunk' = [chunk EXCEPT ![u] = NoChunk]
  /\ wpc' = [wpc EXCEPT ![u] = "receive"]
  /\ UNCHANGED <<row, attached, hpc, desc, tx, cancelled, reply, counted, sound, verdict>>

\* The LimitReader is exhausted: PutFile succeeds without reading the pipe again.
CopyEnds(u) ==
  /\ hpc[u] = "copy"
  /\ copied[u] = desc[u].len
  /\ hpc' = [hpc EXCEPT ![u] = "await"]
  /\ UNCHANGED <<shared, desc, tx, cancelled, copied, reply, writer>>

\* The pipe is closed, or the file cannot be written: the copy is short.  Of a
\* negative length the LimitReader reads nothing, which is not that length.
CopyFails(u) ==
  /\ hpc[u] = "copy"
  /\ \/ desc[u].len < 0
     \/ /\ copied[u] < desc[u].len
        /\ wpc[u] = "closed" \/ (wpc[u] = "write" /\ "disk" \in Faults)
  /\ hpc' = [hpc EXCEPT ![u] = "remove"]
  /\ UNCHANGED <<shared, desc, tx, cancelled, copied, reply, writer>>

\* PutFile removes what it has written and returns an error.
RemoveShortCopy(u) ==
  /\ hpc[u] = "remove"
  /\ TryRemove(desc[u].hash)
  /\ hpc' = [hpc EXCEPT ![u] = "select"]
  /\ UNCHANGED <<row, desc, tx, cancelled, copied, reply, writer>>

\* Mutant: the writer's internal errors are answered as they are.
AnswerAnything(v) == v

\* PutFile failed: answer the writer's error if there is one by now.
AnswerFor(v) == IF v \in Errors THEN v ELSE "internal"

SelectVerdict(u) ==
  /\ hpc[u] = "select"
  /\ reply' = [reply EXCEPT ![u] = AnswerFor(verdict[u])]
  /\ hpc' = [hpc EXCEPT ![u] = "return"]
  /\ UNCHANGED <<shared, desc, tx, cancelled, copied, writer>>

\* Mutant: no clean-up when the driver succeeded and the writer did not.
AwaitWithoutDelete(u) ==
  /\ hpc[u] = "await" /\ verdict[u] # "empty"
  /\ IF verdict[u] = "nil"
       THEN hpc' = [hpc EXCEPT ![u] = "commit"] /\ UNCHANGED reply
       ELSE /\ hpc' = [hpc EXCEPT ![u] = "return"]
            /\ reply' = [reply EXCEPT ![u] = AnswerFor(verdict[u])]
  /\ UNCHANGED <<shared, desc, tx, cancelled, copied, writer>>

\* PutFile succeeded: wait for the writer.
AwaitVerdict(u) ==
  /\ hpc[u] = "await" /\ verdict[u] # "empty"
  /\ IF verdict[u] = "nil"
       THEN hpc' = [hpc EXCEPT ![u] = "commit"] /\ UNCHANGED reply
       ELSE /\ hpc' = [hpc EXCEPT ![u] = "delete"]
            /\ reply' = [reply EXCEPT ![u] = AnswerFor(verdict[u])]
  /\ UNCHANGED <<shared, desc, tx, cancelled, copied, writer>>

Commit(u) ==
  /\ hpc[u] = "commit" /\ tx[u] /\ ~cancelled[u]
  /\ row' = [row EXCEPT ![desc[u].hash] = desc[u].len]
  /\ tx' = [tx EXCEPT ![u] = FALSE]
  /\ reply' = [reply EXCEPT ![u] = "ok"]
  /\ hpc' = [hpc EXCEPT ![u] = "return"]
  /\ UNCHANGED <<object, attached, desc, cancelled, copied, writer>>

\* sql.Tx.Commit refuses once the context has ended.
CommitRefused(u) ==
  /\ hpc[u] = "commit" /\ cancelled[u]
  /\ reply' = [reply EXCEPT ![u] = "internal"]
  /\ hpc' = [hpc EXCEPT ![u] = "delete"]
  /\ UNCHANGED <<shared, desc, tx, cancelled, copied, writer>>

\* The connection breaks during COMMIT: an error, whether it was applied or not.
CommitLost(u) ==
  /\ "lostCommit" \in Faults
  /\ hpc[u] = "commit" /\ tx[u] /\ ~cancelled[u]
  /\ \/ row' = [row EXCEPT ![desc[u].hash] = desc[u].len]
     \/ UNCHANGED row
  /\ tx' = [tx EXCEPT ![u] = FALSE]
  /\ reply' = [reply EXCEPT ![u] = "internal"]
  /\ hpc' = [hpc EXCEPT ![u] = "delete"]
  /\ UNCHANGED <<object, attached, desc, cancelled, copied, writer>>

DeleteObject(u) ==
  /\ hpc[u] = "delete"
  /\ TryRemove(desc[u].hash)
  /\ hpc' = [hpc EXCEPT ![u] = "return"]
  /\ UNCHANGED <<row, desc, tx, cancelled, copied, reply, writer>>

\* The deferred assetReader.Close, tx.Rollback and cancel; the reply is sent.
Return(u) ==
  /\ hpc[u] = "return"
  /\ tx' = [tx EXCEPT ![u] = FALSE]
  /\ cancelled' = [cancelled EXCEPT ![u] = FALSE]
  /\ attached' = [attached EXCEPT ![u] = FALSE]
  /\ copied' = [copied EXCEPT ![u] = 0]
  /\ reply' = [reply EXCEPT ![u] = "none"]
  /\ hpc' = [hpc EXCEPT ![u] = "idle"]
  /\ UNCHANGED <<row, object, desc, writer>>

HandlerStep(u) ==
  \/ InsertAsset(u) \/ InsertFails(u) \/ CreateObject(u) \/ CreateFails(u)
  \/ CopyEnds(u) \/ CopyFails(u) \/ RemoveShortCopy(u) \/ SelectVerdict(u)
  \/ AwaitVerdict(u) \/ Commit(u) \/ CommitRefused(u) \/ CommitLost(u)
  \/ DeleteObject(u) \/ Return(u)

-----------------------------------------------------------------------------
(* The writer: the goroutine that PushAsset starts *)

\* A chunk arrives.  It is counted, and refused before it is hashed or written
\* if it exceeds the declared length.
ReceiveChunk(u, size, genuine) ==
  /\ wpc[u] = "receive"
  /\ genuine => counted[u] + size <= Length[desc[u].hash]
  /\ counted' = [counted EXCEPT ![u] = @ + size]
  /\ IF counted[u] + size > desc[u].len
       THEN /\ verdict' = [verdict EXCEPT ![u] = "size"]
            /\ wpc' = [wpc EXCEPT ![u] = "closing"]
            /\ UNCHANGED <<sound, chunk>>
       ELSE /\ sound' = [sound EXCEPT ![u] = @ /\ genuine]
            /\ chunk' = [chunk EXCEPT ![u] = [size |-> size, genuine |-> genuine]]
            /\ wpc' = [wpc EXCEPT ![u] = "write"]
            /\ UNCHANGED verdict
  /\ UNCHANGED <<shared, handler>>

\* A message that is not a chunk.
ReceiveOther(u) ==
  /\ wpc[u] = "receive"
  /\ verdict' = [verdict EXCEPT ![u] = "protocol"]
  /\ wpc' = [wpc EXCEPT ![u] = "closing"]
  /\ UNCHANGED <<shared, handler, counted, sound, chunk>>

\* Mutants: the hash is not compared; a prefix of the content is accepted.
HashIgnored(u) == counted[u] = desc[u].len
HashOfPrefix(u) == sound[u]

\* The comparison of the hash of what was received with the declared one.
HashMatches(u) == sound[u] /\ counted[u] = Length[desc[u].hash]

\* Mutant: the writer returns at the end of the stream without a verdict.
ReceiveEndSilently(u) ==
  /\ wpc[u] = "receive"
  /\ wpc' = [wpc EXCEPT ![u] = "closing"]
  /\ UNCHANGED <<shared, handler, counted, sound, chunk, verdict>>

\* Receive returns false: the stream ended or broke off, or the handler is gone.
ReceiveEnd(u) ==
  /\ wpc[u] = "receive"
  /\ verdict' = [verdict EXCEPT ![u] = IF HashMatches(u) THEN "nil" ELSE "hash"]
  /\ wpc' = [wpc EXCEPT ![u] = "closing"]
  /\ UNCHANGED <<shared, handler, counted, sound, chunk>>

\* Mutant: the reading end is not closed, so a pending write never fails.
WriteNeverFails(u) == FALSE /\ UNCHANGED vars

\* The handler has returned and closed the reading end (FallbackError).
WriteFails(u) ==
  /\ wpc[u] = "write" /\ hpc[u] = "idle"
  /\ verdict' = [verdict EXCEPT ![u] = "fallback"]
  /\ chunk' = [chunk EXCEPT ![u] = NoChunk]
  /\ wpc' = [wpc EXCEPT ![u] = "closing"]
  /\ UNCHANGED <<shared, handler, counted, sound>>

\* The deferred assetWriter.Close: it runs after the verdict is in the channel.
ClosePipe(u) ==
  /\ wpc[u] = "closing"
  /\ wpc' = [wpc EXCEPT ![u] = "closed"]
  /\ UNCHANGED <<shared, handler, counted, sound, chunk, verdict>>

WriterStep(u) ==
  \/ \E size \in ChunkSizes, genuine \in BOOLEAN : ReceiveChunk(u, size, genuine)
  \/ ReceiveOther(u) \/ ReceiveEnd(u) \/ WriteFails(u) \/ ClosePipe(u)

-----------------------------------------------------------------------------
(* The environment *)

Cancel(u) ==
  /\ "cancel" \in Faults
  /\ hpc[u] # "idle"
  /\ cancelled' = [cancelled EXCEPT ![u] = TRUE]
  /\ UNCHANGED <<shared, hpc, desc, tx, copied, reply, writer>>

\* database/sql rolls a transaction back as soon as its context has ended,
\* whatever its owner is doing.
RollbackCancelled(u) ==
  /\ cancelled[u] /\ tx[u]
  /\ tx' = [tx EXCEPT ![u] = FALSE]
  /\ UNCHANGED <<shared, hpc, desc, cancelled, copied, reply, writer>>

\* The server restarts: committed rows and files are all that is left.
Crash ==
  /\ "crash" \in Faults
  /\ \E u \in Uploads : hpc[u] # "idle"
  /\ hpc' = [u \in Uploads |-> "idle"]
  /\ wpc' = [u \in Uploads |-> "closed"]
  /\ tx' = [u \in Uploads |-> FALSE]
  /\ cancelled' = [u \in Uploads |-> FALSE]
  /\ attached' = [u \in Uploads |-> FALSE]
  /\ copied' = [u \in Uploads |-> 0]
  /\ chunk' = [u \in Uploads |-> NoChunk]
  /\ reply' = [u \in Uploads |-> "none"]
  /\ UNCHANGED <<row, object, desc, counted, sound, verdict>>

Next ==
  \/ \E u \in Uploads, d \in Descriptors : Start(u, d)
  \/ \E u \in Uploads : \/ HandlerStep(u) \/ Transfer(u) \/ WriterStep(u)
                       \/ Cancel(u) \/ RollbackCancelled(u)
  \/ Crash

Spec == Init /\ [][Next]_vars

\* Goroutines are scheduled; a client sends, ends its stream or goes away.
Fairness == \A u \in Uploads : /\ WF_vars(HandlerStep(u))
                              /\ WF_vars(Transfer(u))
                              /\ WF_vars(WriterStep(u))

FairSpec == Spec /\ Fairness

-----------------------------------------------------------------------------
(* Properties *)

Replies == Errors \cup {"none", "ok", "internal"}

\* The types of the state.
TypeOK ==
  /\ row \in [Hashes -> Int \cup {NoRow}]
  /\ object \in [Hashes -> Files \cup {NoObject}]
  /\ attached \in [Uploads -> BOOLEAN]
  /\ hpc \in [Uploads -> HandlerStates]
  /\ wpc \in [Uploads -> WriterStates]
  /\ desc \in [Uploads -> Descriptors]
  /\ tx \in [Uploads -> BOOLEAN]
  /\ cancelled \in [Uploads -> BOOLEAN]
  /\ copied \in [Uploads -> Nat]
  /\ counted \in [Uploads -> Nat]
  /\ sound \in [Uploads -> BOOLEAN]
  /\ chunk \in [Uploads -> [size : Nat, genuine : BOOLEAN]]
  /\ verdict \in [Uploads -> Errors \cup {"empty", "nil", "fallback"}]
  /\ reply \in [Uploads -> Replies]

\* Every committed asset can be served: its file exists, holds exactly the
\* bytes whose hash names it and has the length the row announces.  Row and
\* file are written by separate steps, and a failed upload deletes the file.
ServedAssetIsWhole ==
  \A h \in Hashes : row[h] # NoRow => row[h] = Length[h] /\ Whole(object[h], h)

\* Between creating the file and giving it up or committing it, an upload is
\* alone with it: the uncommitted row keeps every other upload of the hash out.
Owning == {"create", "copy", "remove", "await", "commit", "delete"}
OneWriterPerObject ==
  \A u, v \in Uploads :
    hpc[u] \in Owning /\ hpc[v] \in Owning /\ desc[u].hash = desc[v].hash => u = v

\* Whatever fails, a committed row announces the true length of the content:
\* counting, the LimitReader and the hash agree.  So a negative length, which
\* neither the handler nor the column refuses, is never committed.
CommittedLengthIsTrue == \A h \in Hashes : row[h] \in {NoRow, Length[h]}

\* Unless the disk fails or the declared length is negative, a copy is short
\* only because the writer gave up, and its verdict is in the channel before the
\* handler looks, without waiting, for an error to tell the client.  A copy of
\* a negative length ends at once: its client may just hear of an internal error.
ShortCopyHasVerdict ==
  "disk" \notin Faults =>
    \A u \in Uploads :
      hpc[u] \in {"remove", "select"} /\ desc[u].len >= 0 => verdict[u] # "empty"

\* Unless the server crashes or the disk fails, a file that no committed row
\* names belongs to an upload that has neither ended nor passed the step that
\* commits or deletes it.
NoOrphanObject ==
  Faults \cap {"crash", "disk"} = {} =>
    \A h \in Hashes :
      object[h] # NoObject /\ row[h] = NoRow =>
        \E u \in Uploads : desc[u].hash = h
                          /\ hpc[u] \in {"copy", "remove", "await", "commit", "delete"}

\* What the comment on SeedArticleResponse.missing_assets says, read from the
\* other side: an asset GetMissingArticleAssets does not list is in the storage.
NotListedMeansHeld == \A h \in Hashes : row[h] # NoRow => object[h] # NoObject

\* An upload that has inserted its row always ends, both goroutines of it, and
\* so gives back the transaction and the row other uploads wait for.
UploadEnds ==
  \A u \in Uploads :
    hpc[u] \notin {"idle", "insert"} ~> hpc[u] = "idle" /\ wpc[u] = "closed"

\* The uploads implement the abstract store: an asset is held once its row is
\* committed and its file whole, which happens in one step and is never undone.
Held == {h \in Hashes : row[h] # NoRow /\ Whole(object[h], h)}
Store == INSTANCE AssetStore WITH held <- Held
ImplementsAssetStore == Store!Spec
=============================================================================
