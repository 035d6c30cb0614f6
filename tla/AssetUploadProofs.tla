------------------------- MODULE AssetUploadProofs -------------------------
(* Theorems about AssetUpload, for any uploads, hashes, lengths and chunks, *)
(* while the transaction of an upload ends only when the handler ends it:   *)
(* no cancelled request, no connection lost during COMMIT.                  *)
EXTENDS AssetUpload, TLAPS

LocalFaults == Faults \subseteq {"disk", "crash"}

-----------------------------------------------------------------------------
(* The inductive invariant *)

\* A descriptor is only written through while there is a file: a removal
\* detaches every upload that had the file open.
Attached == \A u \in Uploads :
  attached[u] => hpc[u] # "idle" /\ object[desc[u].hash] \in Files
TypeInv == TypeOK /\ Attached

\* The row lock: an upload that may touch the file holds the uncommitted row.
RowLock(u) ==
  /\ ~cancelled[u]
  /\ hpc[u] \in Owning \cup {"select"} => tx[u]
  /\ tx[u] => hpc[u] \in Owning \cup {"select", "return"} /\ row[desc[u].hash] = NoRow

\* The row lock is exclusive.
Alone == \A u, v \in Uploads : tx[u] /\ tx[v] /\ desc[u].hash = desc[v].hash => u = v

\* Before the row is inserted there is no writer and nothing is counted.
Fresh(u) ==
  /\ hpc[u] \in {"idle", "insert", "create"} => copied[u] = 0
  /\ hpc[u] = "insert" => /\ wpc[u] = "closed" /\ verdict[u] = "empty"
                          /\ counted[u] = 0 /\ sound[u]

\* The bytes counted are those copied and those in the pipe, up to the
\* chunk that is refused.
Copying == {"create", "copy", "await", "commit"}
Streamed(u) ==
  /\ wpc[u] = "write" => (sound[u] => chunk[u].genuine)
  /\ hpc[u] \in Copying /\ wpc[u] = "receive" => counted[u] = copied[u]
  /\ hpc[u] \in Copying /\ wpc[u] = "write" => counted[u] = copied[u] + chunk[u].size

\* The verdict is given once; a good one means the hash of the stream is right.
Judged(u) ==
  /\ wpc[u] \in {"receive", "write"} => verdict[u] = "empty"
  /\ verdict[u] = "nil" => HashMatches(u) /\ (hpc[u] \in Copying => counted[u] = copied[u])
  /\ hpc[u] = "commit" => verdict[u] = "nil"
  /\ hpc[u] \in {"await", "commit"} => copied[u] = desc[u].len
  /\ hpc[u] \in Owning \cup {"select"} /\ wpc[u] \in {"closing", "closed"} => verdict[u] # "empty"
  /\ hpc[u] \in {"remove", "select"} /\ "disk" \notin Faults /\ desc[u].len >= 0 =>
       verdict[u] # "empty"

\* The file holds what was copied, and what was copied is genuine if all is.
Filed(u) ==
  /\ hpc[u] = "copy" => attached[u]
  /\ hpc[u] \in {"copy", "await", "commit"} =>
       /\ object[desc[u].hash] \in Files
       /\ object[desc[u].hash].size = copied[u]
       /\ sound[u] => object[desc[u].hash].bad = {}

\* What holds whatever fails, and what holds under LocalFaults.
StreamInv == TypeInv /\ \A u \in Uploads : Fresh(u) /\ Streamed(u) /\ Judged(u)

IInv == /\ StreamInv /\ Alone /\ ServedAssetIsWhole
        /\ \A u \in Uploads : RowLock(u) /\ Filed(u)

-----------------------------------------------------------------------------
(* Type correctness *)

\* A write keeps a file a file.
LEMMA WriteIsFile ==
  ASSUME NEW file \in Files, NEW off \in Nat, NEW size \in Nat, NEW genuine \in BOOLEAN
  PROVE  WriteAt(file, off, size, genuine) \in Files
BY DEF WriteAt, Files

\* The types hold initially.
LEMMA TypeInit == Init => TypeInv
<1> SUFFICES ASSUME Init PROVE TypeInv
  OBVIOUS
<1>1. (CHOOSE d \in Descriptors : TRUE) \in Descriptors
  <2>1. \E d \in Descriptors : TRUE
    <3>1. PICK h \in Hashes, len \in Lengths : TRUE
      BY UploadAssumption
    <3>2. [hash |-> h, len |-> len] \in Descriptors
      BY DEF Descriptors
    <3> QED BY <3>2
  <2> QED BY <2>1
<1> QED BY <1>1 DEF Init, TypeInv, Attached, TypeOK, HandlerStates, WriterStates, Replies, Errors, NoChunk

\* A removal keeps the types of the files.
LEMMA RemoveType ==
  ASSUME TypeOK, NEW h \in Hashes, TryRemove(h)
  PROVE  /\ object' \in [Hashes -> Files \cup {NoObject}]
         /\ attached' \in [Uploads -> BOOLEAN]
         /\ \A u \in Uploads : attached'[u] =>
              attached[u] /\ object'[desc[u].hash] = object[desc[u].hash]
<1>1. \A u \in Uploads : desc[u].hash \in Hashes
  BY DEF TypeOK, Descriptors
<1>2. CASE RemoveObject(h)
  BY <1>1, <1>2 DEF TypeOK, RemoveObject
<1>3. CASE UNCHANGED <<object, attached>>
  BY <1>3 DEF TypeOK
<1> QED BY <1>2, <1>3 DEF TryRemove

\* Every step keeps the types.
LEMMA TypeStep == TypeInv /\ [Next]_vars => TypeInv'
<1> SUFFICES ASSUME TypeInv, [Next]_vars PROVE TypeInv'
  OBVIOUS
<1> USE DEF TypeInv, Attached, TypeOK, HandlerStates, WriterStates, Replies, Errors, shared, handler, writer
<1>1. ASSUME NEW u \in Uploads, NEW d \in Descriptors, Start(u, d) PROVE TypeInv'
  BY <1>1 DEF Start
<1>2. ASSUME NEW u \in Uploads, HandlerStep(u) PROVE TypeInv'
  <2>1. CASE InsertAsset(u)
    BY <2>1 DEF InsertAsset
  <2>2. CASE InsertFails(u)
    BY <2>2 DEF InsertFails
  <2>3. CASE CreateObject(u)
    <3>1. EmptyFile \in Files
      BY DEF EmptyFile, Files
    <3>2. \A v \in Uploads : desc[v].hash \in Hashes
      BY DEF Descriptors
    <3> QED BY <2>3, <3>1, <3>2 DEF CreateObject
  <2>4. CASE CreateFails(u)
    BY <2>4 DEF CreateFails
  <2>5. CASE CopyEnds(u)
    BY <2>5 DEF CopyEnds
  <2>6. CASE CopyFails(u)
    BY <2>6 DEF CopyFails
  <2>7. CASE RemoveShortCopy(u)
    <3>1. desc[u].hash \in Hashes
      BY DEF Descriptors
    <3> QED BY <2>7, <3>1, RemoveType DEF RemoveShortCopy
  <2>8. CASE SelectVerdict(u)
    BY <2>8 DEF SelectVerdict, AnswerFor
  <2>9. CASE AwaitVerdict(u)
    BY <2>9 DEF AwaitVerdict, AnswerFor
  <2>10. CASE Commit(u)
    BY <2>10, UploadAssumption DEF Commit, Descriptors
  <2>11. CASE CommitRefused(u)
    BY <2>11 DEF CommitRefused
  <2>12. CASE CommitLost(u)
    BY <2>12, UploadAssumption DEF CommitLost, Descriptors
  <2>13. CASE DeleteObject(u)
    <3>1. desc[u].hash \in Hashes
      BY DEF Descriptors
    <3> QED BY <2>13, <3>1, RemoveType DEF DeleteObject
  <2>14. CASE Return(u)
    BY <2>14 DEF Return
  <2> QED BY <1>2, <2>1, <2>2, <2>3, <2>4, <2>5, <2>6, <2>7, <2>8, <2>9, <2>10, <2>11, <2>12, <2>13, <2>14 DEF HandlerStep
<1>3. ASSUME NEW u \in Uploads, Transfer(u) PROVE TypeInv'
  <2> DEFINE h == desc[u].hash
             new == WriteAt(object[h], copied[u], chunk[u].size, chunk[u].genuine)
  <2>1. h \in Hashes /\ chunk[u].size \in Nat /\ chunk[u].genuine \in BOOLEAN
    BY DEF Descriptors
  <2>2. attached[u] => new \in Files
    BY <2>1, WriteIsFile
  <2>3. attached[u] => object' = [object EXCEPT ![h] = new]
    BY <1>3 DEF Transfer
  <2>4. ~attached[u] => object' = object
    BY <1>3 DEF Transfer
  <2> HIDE DEF new
  <2>5. object' \in [Hashes -> Files \cup {NoObject}]
    BY <2>1, <2>2, <2>3, <2>4
  <2>6. ASSUME NEW v \in Uploads, attached'[v]
        PROVE  hpc'[v] # "idle" /\ object'[desc'[v].hash] \in Files
    <3>1. desc[v].hash \in Hashes
      BY DEF Descriptors
    <3>2. attached[v] /\ desc' = desc /\ hpc' = hpc
      BY <1>3, <2>6 DEF Transfer
    <3> QED BY <2>1, <2>2, <2>3, <2>4, <3>1, <3>2
  <2> QED BY <1>3, <2>1, <2>5, <2>6 DEF Transfer, NoChunk
<1>4. ASSUME NEW u \in Uploads, WriterStep(u) PROVE TypeInv'
  <2>1. ASSUME NEW size \in ChunkSizes, NEW genuine \in BOOLEAN, ReceiveChunk(u, size, genuine)
        PROVE  TypeInv'
    <3>1. size \in Nat
      BY UploadAssumption
    <3>2. counted' \in [Uploads -> Nat]
      BY <2>1, <3>1 DEF ReceiveChunk
    <3>4. chunk' \in [Uploads -> [size : Nat, genuine : BOOLEAN]]
      <4>1. [size |-> size, genuine |-> genuine] \in [size : Nat, genuine : BOOLEAN]
        BY <3>1
      <4> QED BY <2>1, <4>1, Zenon DEF ReceiveChunk
    <3>3. sound' \in [Uploads -> BOOLEAN]
      BY <2>1, Zenon DEF ReceiveChunk
    <3> QED BY <2>1, <3>2, <3>3, <3>4 DEF ReceiveChunk
  <2>2. CASE ReceiveOther(u)
    BY <2>2 DEF ReceiveOther
  <2>3. CASE ReceiveEnd(u)
    BY <2>3 DEF ReceiveEnd
  <2>4. CASE WriteFails(u)
    BY <2>4 DEF WriteFails, NoChunk
  <2>5. CASE ClosePipe(u)
    BY <2>5 DEF ClosePipe
  <2> QED BY <1>4, <2>1, <2>2, <2>3, <2>4, <2>5 DEF WriterStep
<1>5. ASSUME NEW u \in Uploads, Cancel(u) PROVE TypeInv'
  BY <1>5 DEF Cancel
<1>6. ASSUME NEW u \in Uploads, RollbackCancelled(u) PROVE TypeInv'
  BY <1>6 DEF RollbackCancelled
<1>7. CASE Crash
  BY <1>7 DEF Crash, NoChunk
<1>8. CASE UNCHANGED vars
  BY <1>8 DEF vars
<1> QED BY <1>1, <1>2, <1>3, <1>4, <1>5, <1>6, <1>7, <1>8 DEF Next

\* The types are an invariant, whatever faults there are.
THEOREM TypeCorrect == Spec => []TypeOK
<1>1. TypeInv => TypeOK
  BY DEF TypeInv
<1> QED BY <1>1, TypeInit, TypeStep, PTL DEF Spec

-----------------------------------------------------------------------------
(* The invariant is inductive *)

\* The row lock is kept, and its exclusiveness.
LEMMA LockStep ==
  ASSUME IInv, LocalFaults, Next
  PROVE  Alone' /\ \A v \in Uploads : RowLock(v)'
<1> DEFINE Goal == Alone' /\ \A v \in Uploads : RowLock(v)'
<1> SUFFICES Goal
  OBVIOUS
<1> USE DEF IInv, StreamInv, TypeInv, Attached, TypeOK, HandlerStates, WriterStates, Errors, shared, handler, writer, RowLock, Alone, Owning, Goal
<1>0. \A v \in Uploads : desc[v].hash \in Hashes
  BY DEF Descriptors
<1>1. ASSUME NEW u \in Uploads, NEW d \in Descriptors, Start(u, d) PROVE Goal
  BY <1>0, <1>1 DEF Start
<1>2. ASSUME NEW u \in Uploads, HandlerStep(u) PROVE Goal
  <2>1. CASE InsertAsset(u)
    BY <1>0, <2>1 DEF InsertAsset, CanInsert
  <2>2. CASE InsertFails(u)
    BY <1>0, <2>2 DEF InsertFails
  <2>3. CASE CreateObject(u)
    BY <1>0, <2>3 DEF CreateObject
  <2>4. CASE CreateFails(u)
    BY <1>0, <2>4 DEF CreateFails
  <2>5. CASE CopyEnds(u)
    BY <1>0, <2>5 DEF CopyEnds
  <2>6. CASE CopyFails(u)
    BY <1>0, <2>6 DEF CopyFails
  <2>7. CASE RemoveShortCopy(u)
    BY <1>0, <2>7 DEF RemoveShortCopy
  <2>8. CASE SelectVerdict(u)
    BY <1>0, <2>8 DEF SelectVerdict
  <2>9. CASE AwaitVerdict(u)
    BY <1>0, <2>9 DEF AwaitVerdict
  <2>10. CASE Commit(u)
    BY <1>0, <2>10 DEF Commit
  <2>11. CASE CommitRefused(u)
    BY <1>0, <2>11 DEF CommitRefused
  <2>12. CASE CommitLost(u)
    BY <1>0, <2>12 DEF CommitLost, LocalFaults
  <2>13. CASE DeleteObject(u)
    BY <1>0, <2>13 DEF DeleteObject
  <2>14. CASE Return(u)
    BY <1>0, <2>14 DEF Return
  <2> QED BY <1>2, <2>1, <2>2, <2>3, <2>4, <2>5, <2>6, <2>7, <2>8, <2>9, <2>10, <2>11, <2>12, <2>13, <2>14 DEF HandlerStep
<1>3. ASSUME NEW u \in Uploads, Transfer(u) PROVE Goal
  BY <1>0, <1>3 DEF Transfer
<1>4. ASSUME NEW u \in Uploads, WriterStep(u) PROVE Goal
  <2>1. ASSUME NEW size \in ChunkSizes, NEW genuine \in BOOLEAN, ReceiveChunk(u, size, genuine)
        PROVE  Goal
    BY <1>0, <2>1, UploadAssumption DEF ReceiveChunk
  <2>2. CASE ReceiveOther(u)
    BY <1>0, <2>2 DEF ReceiveOther
  <2>3. CASE ReceiveEnd(u)
    BY <1>0, <2>3 DEF ReceiveEnd
  <2>4. CASE WriteFails(u)
    BY <1>0, <2>4 DEF WriteFails
  <2>5. CASE ClosePipe(u)
    BY <1>0, <2>5 DEF ClosePipe
  <2> QED BY <1>4, <2>1, <2>2, <2>3, <2>4, <2>5 DEF WriterStep
<1>5. ASSUME NEW u \in Uploads, Cancel(u) PROVE Goal
  BY <1>5 DEF Cancel, LocalFaults
<1>6. ASSUME NEW u \in Uploads, RollbackCancelled(u) PROVE Goal
  BY <1>6 DEF RollbackCancelled, RowLock
<1>7. CASE Crash
  BY <1>0, <1>7 DEF Crash
<1> HIDE DEF Goal
<1> QED BY <1>1, <1>2, <1>3, <1>4, <1>5, <1>6, <1>7 DEF Next


\* The stream, its count and its verdict stay related.
LEMMA StreamStep ==
  ASSUME StreamInv, Next
  PROVE  \A v \in Uploads : Fresh(v)' /\ Streamed(v)' /\ Judged(v)'
<1> DEFINE Goal == \A v \in Uploads : Fresh(v)' /\ Streamed(v)' /\ Judged(v)'
<1> SUFFICES Goal
  OBVIOUS
<1> USE DEF StreamInv, TypeInv, Attached, TypeOK, HandlerStates, WriterStates, Errors, shared, handler, writer, Fresh, Streamed, Judged, Copying, Owning, HashMatches, Goal
<1>0. \A v \in Uploads : desc[v].hash \in Hashes
  BY DEF Descriptors
<1>1. ASSUME NEW u \in Uploads, NEW d \in Descriptors, Start(u, d) PROVE Goal
  BY <1>0, <1>1 DEF Start
<1>2. ASSUME NEW u \in Uploads, HandlerStep(u) PROVE Goal
  <2>1. CASE InsertAsset(u)
    BY <1>0, <2>1 DEF InsertAsset
  <2>2. CASE InsertFails(u)
    BY <1>0, <2>2 DEF InsertFails
  <2>3. CASE CreateObject(u)
    BY <1>0, <2>3 DEF CreateObject
  <2>4. CASE CreateFails(u)
    BY <1>0, <2>4 DEF CreateFails
  <2>5. CASE CopyEnds(u)
    BY <1>0, <2>5 DEF CopyEnds
  <2>6. CASE CopyFails(u)
    <3>1. \/ desc[u].len < 0
          \/ wpc[u] = "closed" \/ "disk" \in Faults
      BY <2>6 DEF CopyFails
    <3>2. desc[u].len \in Int /\ hpc[u] = "copy" /\ hpc' = [hpc EXCEPT ![u] = "remove"]
      BY <2>6, UploadAssumption DEF CopyFails, Descriptors
    <3>3. desc[u].len < 0 => ~(desc[u].len >= 0)
      BY <3>2
    <3> QED BY <1>0, <2>6, <3>1, <3>2, <3>3 DEF CopyFails
  <2>7. CASE RemoveShortCopy(u)
    BY <1>0, <2>7 DEF RemoveShortCopy
  <2>8. CASE SelectVerdict(u)
    BY <1>0, <2>8 DEF SelectVerdict
  <2>9. CASE AwaitVerdict(u)
    BY <1>0, <2>9 DEF AwaitVerdict
  <2>10. CASE Commit(u)
    BY <1>0, <2>10 DEF Commit
  <2>11. CASE CommitRefused(u)
    BY <1>0, <2>11 DEF CommitRefused
  <2>12. CASE CommitLost(u)
    BY <1>0, <2>12 DEF CommitLost
  <2>13. CASE DeleteObject(u)
    BY <1>0, <2>13 DEF DeleteObject
  <2>14. CASE Return(u)
    BY <1>0, <2>14 DEF Return
  <2> QED BY <1>2, <2>1, <2>2, <2>3, <2>4, <2>5, <2>6, <2>7, <2>8, <2>9, <2>10, <2>11, <2>12, <2>13, <2>14 DEF HandlerStep
<1>3. ASSUME NEW u \in Uploads, Transfer(u) PROVE Goal
  BY <1>0, <1>3 DEF Transfer, NoChunk
<1>4. ASSUME NEW u \in Uploads, WriterStep(u) PROVE Goal
  <2>1. ASSUME NEW size \in ChunkSizes, NEW genuine \in BOOLEAN, ReceiveChunk(u, size, genuine)
        PROVE  Goal
    BY <1>0, <2>1, UploadAssumption DEF ReceiveChunk
  <2>2. CASE ReceiveOther(u)
    BY <1>0, <2>2 DEF ReceiveOther
  <2>3. CASE ReceiveEnd(u)
    BY <1>0, <2>3 DEF ReceiveEnd
  <2>4. CASE WriteFails(u)
    BY <1>0, <2>4 DEF WriteFails, NoChunk
  <2>5. CASE ClosePipe(u)
    BY <1>0, <2>5 DEF ClosePipe
  <2> QED BY <1>4, <2>1, <2>2, <2>3, <2>4, <2>5 DEF WriterStep
<1>5. ASSUME NEW u \in Uploads, Cancel(u) PROVE Goal
  BY <1>5 DEF Cancel
<1>6. ASSUME NEW u \in Uploads, RollbackCancelled(u) PROVE Goal
  BY <1>6 DEF RollbackCancelled
<1>7. CASE Crash
  BY <1>0, <1>7 DEF Crash, NoChunk
<1> HIDE DEF Goal
<1> QED BY <1>1, <1>2, <1>3, <1>4, <1>5, <1>6, <1>7 DEF Next


\* What a chunk tells the hasher can only make the stream unsound.
LEMMA SoundFalls ==
  ASSUME TypeOK, NEW u \in Uploads, NEW size \in ChunkSizes, NEW genuine \in BOOLEAN,
         ReceiveChunk(u, size, genuine)
  PROVE  \A v \in Uploads : sound'[v] => sound[v]
<1>1. sound \in [Uploads -> BOOLEAN]
  BY DEF TypeOK
<1>2. sound' = sound \/ sound' = [sound EXCEPT ![u] = @ /\ genuine]
  BY DEF ReceiveChunk
<1> QED BY <1>1, <1>2

\* Files stay in step with what is copied, and with the committed rows.
LEMMA FileStep ==
  ASSUME IInv, LocalFaults, Next
  PROVE  ServedAssetIsWhole' /\ \A v \in Uploads : Filed(v)'
<1> DEFINE Goal == ServedAssetIsWhole' /\ \A v \in Uploads : Filed(v)'
<1> SUFFICES Goal
  OBVIOUS
<1> USE DEF IInv, StreamInv, TypeInv, Attached, TypeOK, HandlerStates, WriterStates, Errors, shared, handler, writer, RowLock, Alone, Owning, Fresh, Streamed, Judged, Filed, Copying, HashMatches, ServedAssetIsWhole, Whole, Goal
<1>0. \A v \in Uploads : desc[v].hash \in Hashes
  BY DEF Descriptors
<1>01. ASSUME NEW u \in Uploads, NEW v \in Uploads, u # v, tx[u], desc[u].hash = desc[v].hash
       PROVE  hpc[v] \notin {"copy", "await", "commit"}
  BY <1>01
<1>02. ASSUME NEW u \in Uploads, hpc[u] \in {"remove", "delete"}, TryRemove(desc[u].hash),
              UNCHANGED <<row, desc, tx, cancelled, copied, writer>>,
              hpc' \in [Uploads -> HandlerStates],
              \A v \in Uploads \ {u} : hpc'[v] = hpc[v],
              hpc'[u] \in {"select", "return"}
       PROVE  Goal
  <2>1. CASE RemoveObject(desc[u].hash)
    <3>1. ASSUME NEW g \in Hashes, row'[g] # NoRow
          PROVE  row'[g] = Length[g] /\ Whole(object'[g], g)
      <4>1. row' = row /\ tx[u] /\ g # desc[u].hash
        BY <1>02, <3>1
      <4>2. object'[g] = object[g]
        BY <1>0, <2>1, <4>1 DEF RemoveObject
      <4>3. row[g] = Length[g] /\ Whole(object[g], g)
        BY <3>1, <4>1
      <4> QED BY <4>1, <4>2, <4>3
    <3>2. ASSUME NEW v \in Uploads PROVE Filed(v)'
      <4>1. CASE v = u
        BY <1>0, <1>02, <2>1, <4>1 DEF RemoveObject
      <4>2. CASE v # u
        <5>1. hpc'[v] \in {"copy", "await", "commit"} => desc[v].hash # desc[u].hash
          BY <1>01, <1>02, <4>2
        <5> QED BY <1>0, <1>02, <2>1, <4>2, <5>1 DEF RemoveObject
      <4> QED BY <4>1, <4>2
    <3> QED BY <3>1, <3>2
  <2>2. CASE UNCHANGED <<object, attached>>
    BY <1>0, <1>02, <2>2
  <2> QED BY <1>02, <2>1, <2>2 DEF TryRemove
<1>1. ASSUME NEW u \in Uploads, NEW d \in Descriptors, Start(u, d) PROVE Goal
  BY <1>0, <1>1 DEF Start
<1>2. ASSUME NEW u \in Uploads, HandlerStep(u) PROVE Goal
  <2>1. CASE InsertAsset(u)
    BY <1>0, <2>1 DEF InsertAsset
  <2>2. CASE InsertFails(u)
    BY <1>0, <2>2 DEF InsertFails
  <2>3. CASE CreateObject(u)
    <3>1. EmptyFile \in Files /\ EmptyFile.size = 0 /\ EmptyFile.bad = {}
      BY DEF EmptyFile, Files
    <3>2. tx[u] /\ row[desc[u].hash] = NoRow /\ copied[u] = 0
      BY <2>3 DEF CreateObject
    <3>3. ServedAssetIsWhole'
      BY <1>0, <2>3, <3>2 DEF CreateObject
    <3>4. ASSUME NEW v \in Uploads PROVE Filed(v)'
      <4>1. CASE v = u
        BY <1>0, <2>3, <3>1, <3>2, <4>1 DEF CreateObject
      <4>2. CASE v # u
        BY <1>0, <1>01, <2>3, <3>2, <4>2 DEF CreateObject
      <4> QED BY <4>1, <4>2
    <3> QED BY <3>3, <3>4
  <2>4. CASE CreateFails(u)
    BY <1>0, <2>4 DEF CreateFails
  <2>5. CASE CopyEnds(u)
    BY <1>0, <2>5 DEF CopyEnds
  <2>6. CASE CopyFails(u)
    BY <1>0, <2>6 DEF CopyFails
  <2>7. CASE RemoveShortCopy(u)
    <3>1. /\ hpc[u] \in {"remove", "delete"} /\ TryRemove(desc[u].hash)
          /\ UNCHANGED <<row, desc, tx, cancelled, copied, writer>>
          /\ hpc' = [hpc EXCEPT ![u] = "select"]
      BY <2>7 DEF RemoveShortCopy
    <3>2. /\ hpc' \in [Uploads -> HandlerStates]
          /\ \A v \in Uploads \ {u} : hpc'[v] = hpc[v]
          /\ hpc'[u] \in {"select", "return"}
      BY <3>1
    <3> HIDE DEF Goal
    <3> QED BY <1>02, <3>1, <3>2
  <2>8. CASE SelectVerdict(u)
    BY <1>0, <2>8 DEF SelectVerdict
  <2>9. CASE AwaitVerdict(u)
    BY <1>0, <2>9 DEF AwaitVerdict
  <2>10. CASE Commit(u)
    <3> DEFINE h == desc[u].hash
    <3>1. h \in Hashes /\ object[h] \in Files /\ object[h].bad = {}
          /\ object[h].size = Length[h] /\ desc[u].len = Length[h]
      BY <1>0, <2>10 DEF Commit
    <3>2. Whole(object[h], h)
      BY <3>1 DEF Files
    <3>3. ServedAssetIsWhole'
      BY <1>0, <2>10, <3>1, <3>2 DEF Commit
    <3> QED BY <1>0, <2>10, <3>3 DEF Commit
  <2>11. CASE CommitRefused(u)
    BY <1>0, <2>11 DEF CommitRefused
  <2>12. CASE CommitLost(u)
    BY <1>0, <2>12 DEF CommitLost, LocalFaults
  <2>13. CASE DeleteObject(u)
    <3>1. /\ hpc[u] \in {"remove", "delete"} /\ TryRemove(desc[u].hash)
          /\ UNCHANGED <<row, desc, tx, cancelled, copied, writer>>
          /\ hpc' = [hpc EXCEPT ![u] = "return"]
      BY <2>13 DEF DeleteObject
    <3>2. /\ hpc' \in [Uploads -> HandlerStates]
          /\ \A v \in Uploads \ {u} : hpc'[v] = hpc[v]
          /\ hpc'[u] \in {"select", "return"}
      BY <3>1
    <3> HIDE DEF Goal
    <3> QED BY <1>02, <3>1, <3>2
  <2>14. CASE Return(u)
    BY <1>0, <2>14 DEF Return
  <2> QED BY <1>2, <2>1, <2>2, <2>3, <2>4, <2>5, <2>6, <2>7, <2>8, <2>9, <2>10, <2>11, <2>12, <2>13, <2>14 DEF HandlerStep
<1>3. ASSUME NEW u \in Uploads, Transfer(u) PROVE Goal
  <2> DEFINE h == desc[u].hash
             new == WriteAt(object[h], copied[u], chunk[u].size, chunk[u].genuine)
  <2>1. /\ h \in Hashes /\ object[h] \in Files /\ object[h].size = copied[u]
        /\ tx[u] /\ row[h] = NoRow /\ attached[u]
        /\ sound[u] => chunk[u].genuine /\ object[h].bad = {}
        /\ copied[u] \in Nat /\ chunk[u].size \in Nat /\ chunk[u].genuine \in BOOLEAN
    BY <1>0, <1>3 DEF Transfer
  <2>2. new \in Files
    BY <2>1, WriteIsFile
  <2>3. new.size = copied[u] + chunk[u].size /\ (sound[u] => new.bad = {})
    BY <2>1 DEF WriteAt
  <2>4. object' = [object EXCEPT ![h] = new]
    BY <1>3, <2>1 DEF Transfer
  <2> HIDE DEF new
  <2>5. ServedAssetIsWhole'
    <3>1. \A g \in Hashes \ {h} : object'[g] = object[g]
      BY <2>1, <2>4
    <3>2. row' = row
      BY <1>3 DEF Transfer
    <3>3. ASSUME NEW g \in Hashes, row'[g] # NoRow
          PROVE  row'[g] = Length[g] /\ Whole(object'[g], g)
      <4>1. g # h
        BY <2>1, <3>2, <3>3
      <4>2. row[g] = Length[g] /\ Whole(object[g], g)
        BY <3>2, <3>3
      <4> QED BY <3>1, <3>2, <4>1, <4>2
    <3> QED BY <3>3
  <2>6. ASSUME NEW v \in Uploads PROVE Filed(v)'
    <3>1. CASE v = u
      BY <1>0, <1>3, <2>1, <2>2, <2>3, <2>4, <3>1 DEF Transfer
    <3>2. CASE v # u
      <4>1. hpc[v] \in {"copy", "await", "commit"} => desc[v].hash # h
        BY <1>01, <2>1, <3>2
      <4> QED BY <1>0, <1>3, <2>1, <2>4, <3>2, <4>1 DEF Transfer
    <3> QED BY <3>1, <3>2
  <2> QED BY <2>5, <2>6
<1>4. ASSUME NEW u \in Uploads, WriterStep(u) PROVE Goal
  <2>1. ASSUME NEW size \in ChunkSizes, NEW genuine \in BOOLEAN, ReceiveChunk(u, size, genuine)
        PROVE  Goal
    <3>1. \A v \in Uploads : sound'[v] => sound[v]
      BY <2>1, SoundFalls
    <3> QED BY <1>0, <2>1, <3>1 DEF ReceiveChunk
  <2>2. CASE ReceiveOther(u)
    BY <1>0, <2>2 DEF ReceiveOther
  <2>3. CASE ReceiveEnd(u)
    BY <1>0, <2>3 DEF ReceiveEnd
  <2>4. CASE WriteFails(u)
    BY <1>0, <2>4 DEF WriteFails
  <2>5. CASE ClosePipe(u)
    BY <1>0, <2>5 DEF ClosePipe
  <2> HIDE DEF Goal
  <2> QED BY <1>4, <2>1, <2>2, <2>3, <2>4, <2>5 DEF WriterStep
<1>5. ASSUME NEW u \in Uploads, Cancel(u) PROVE Goal
  BY <1>5 DEF Cancel, LocalFaults
<1>6. ASSUME NEW u \in Uploads, RollbackCancelled(u) PROVE Goal
  BY <1>6 DEF RollbackCancelled, RowLock
<1>7. CASE Crash
  BY <1>0, <1>7 DEF Crash
<1> HIDE DEF Goal
<1> QED BY <1>1, <1>2, <1>3, <1>4, <1>5, <1>6, <1>7 DEF Next

\* A committed row always has the length of the content: COMMIT is reached
\* only after the count, the copy and the hash have agreed.
LEMMA LengthStep ==
  ASSUME StreamInv, CommittedLengthIsTrue, Next
  PROVE  CommittedLengthIsTrue'
<1>1. ASSUME NEW u \in Uploads, Commit(u) \/ CommitLost(u) PROVE CommittedLengthIsTrue'
  <2>1. desc[u].hash \in Hashes /\ desc[u].len = Length[desc[u].hash]
    BY <1>1 DEF Commit, CommitLost, StreamInv, TypeInv, TypeOK, Descriptors, Judged, HashMatches, Copying
  <2> QED BY <1>1, <2>1 DEF Commit, CommitLost, CommittedLengthIsTrue, StreamInv, TypeInv, TypeOK
<1>2. CASE row' = row
  BY <1>2 DEF CommittedLengthIsTrue
<1>3. ASSUME NEW u \in Uploads, HandlerStep(u), ~Commit(u), ~CommitLost(u) PROVE row' = row
  BY <1>3 DEF HandlerStep, shared, InsertAsset, InsertFails, CreateObject, CreateFails, CopyEnds,
              CopyFails, RemoveShortCopy, SelectVerdict, AwaitVerdict, CommitRefused, DeleteObject, Return
<1>4. ASSUME NEW u \in Uploads, WriterStep(u) PROVE row' = row
  BY <1>4 DEF WriterStep, shared, ReceiveChunk, ReceiveOther, ReceiveEnd, WriteFails, ClosePipe
<1> QED BY <1>1, <1>2, <1>3, <1>4 DEF Next, shared, Start, Transfer, Cancel, RollbackCancelled, Crash

-----------------------------------------------------------------------------
(* The theorems *)

\* Whatever fails: a committed row announces the true length of its content.
THEOREM LengthCorrect == Spec => []CommittedLengthIsTrue
<1>1. Init => StreamInv /\ CommittedLengthIsTrue
  BY TypeInit DEF Init, StreamInv, Fresh, Streamed, Judged, Copying, Owning, CommittedLengthIsTrue
<1>2. StreamInv /\ CommittedLengthIsTrue /\ [Next]_vars => (StreamInv /\ CommittedLengthIsTrue)'
  <2>1. CASE Next
    BY <2>1, TypeStep, StreamStep, LengthStep DEF StreamInv
  <2>2. CASE UNCHANGED vars
    BY <2>2 DEF vars, shared, handler, writer, StreamInv, TypeInv, Attached, TypeOK, Fresh, Streamed,
                Judged, HashMatches, CommittedLengthIsTrue
  <2> QED BY <2>1, <2>2
<1> QED BY <1>1, <1>2, PTL DEF Spec

\* Whatever fails, except the disk: when the copy of a declared length that is not
\* negative ends short, what the writer has found is there for the client.
THEOREM VerdictCorrect == Spec => []ShortCopyHasVerdict
<1>1. Init => StreamInv
  BY TypeInit DEF Init, StreamInv, Fresh, Streamed, Judged, Copying, Owning
<1>2. StreamInv /\ [Next]_vars => StreamInv'
  <2>1. CASE Next
    BY <2>1, TypeStep, StreamStep DEF StreamInv
  <2>2. CASE UNCHANGED vars
    BY <2>2 DEF vars, shared, handler, writer, StreamInv, TypeInv, Attached, TypeOK, Fresh, Streamed,
                Judged, HashMatches
  <2> QED BY <2>1, <2>2
<1>3. StreamInv => ShortCopyHasVerdict
  BY DEF StreamInv, Judged, ShortCopyHasVerdict
<1> QED BY <1>1, <1>2, <1>3, PTL DEF Spec

\* The invariant holds of every behaviour with local faults only.
THEOREM Invariance == LocalFaults /\ Spec => []IInv
<1> SUFFICES ASSUME LocalFaults PROVE Spec => []IInv
  OBVIOUS
<1>1. Init => IInv
  BY TypeInit DEF Init, IInv, StreamInv, Fresh, Streamed, Judged, Copying, Owning, Alone, RowLock,
                  Filed, ServedAssetIsWhole
<1>2. IInv /\ [Next]_vars => IInv'
  <2>1. CASE Next
    BY <2>1, TypeStep, StreamStep, LockStep, FileStep DEF IInv, StreamInv
  <2>2. CASE UNCHANGED vars
    BY <2>2 DEF vars, shared, handler, writer, IInv, StreamInv, TypeInv, Attached, TypeOK, Fresh,
                Streamed, Judged, HashMatches, Alone, RowLock, Filed, ServedAssetIsWhole
  <2> QED BY <2>1, <2>2
<1> QED BY <1>1, <1>2, PTL DEF Spec

\* Every committed asset can be served, whole and with the announced length.
THEOREM ServedCorrect == LocalFaults /\ Spec => []ServedAssetIsWhole
<1>1. IInv => ServedAssetIsWhole
  BY DEF IInv
<1> QED BY <1>1, Invariance, PTL

\* No two uploads touch the same file at the same time.
THEOREM WriterExclusion == LocalFaults /\ Spec => []OneWriterPerObject
<1>1. IInv => OneWriterPerObject
  BY DEF IInv, Alone, RowLock, OneWriterPerObject
<1> QED BY <1>1, Invariance, PTL

\* The uploads implement AssetStore: an asset appears in one step, at COMMIT,
\* and no later step of any upload takes it away.
THEOREM Refinement == LocalFaults /\ Spec => ImplementsAssetStore
<1> SUFFICES ASSUME LocalFaults PROVE Spec => Store!Spec
  BY DEF ImplementsAssetStore
<1>1. Init => Store!Init
  BY DEF Init, Store!Init, Held
<1>2. IInv /\ IInv' /\ [Next]_vars => [Store!Next]_Held
  <2> SUFFICES ASSUME IInv, IInv', [Next]_vars PROVE [Store!Next]_Held
    OBVIOUS
  <2>1. Held = {h \in Hashes : row[h] # NoRow} /\ Held' = {h \in Hashes : row'[h] # NoRow}
    BY DEF IInv, ServedAssetIsWhole, Held
  <2>2. CASE row' = row
    BY <2>1, <2>2
  <2>3. ASSUME NEW u \in Uploads, Commit(u) PROVE [Store!Next]_Held
    <3> DEFINE h == desc[u].hash
    <3>1. h \in Hashes /\ row[h] = NoRow /\ row' = [row EXCEPT ![h] = desc[u].len]
          /\ row \in [Hashes -> Int \cup {NoRow}] /\ desc[u].len \in Int
      BY <2>3, UploadAssumption DEF Commit, IInv, StreamInv, TypeInv, TypeOK, Descriptors, RowLock
    <3>2. h \notin Held /\ Held' = Held \cup {h}
      BY <2>1, <3>1, UploadAssumption
    <3> QED BY <3>1, <3>2 DEF Store!Next, Store!Store
  <2>4. ASSUME NEW u \in Uploads, HandlerStep(u), ~Commit(u) PROVE row' = row
    BY <2>4 DEF HandlerStep, LocalFaults, shared, InsertAsset, InsertFails, CreateObject, CreateFails,
                CopyEnds, CopyFails, RemoveShortCopy, SelectVerdict, AwaitVerdict, CommitRefused,
                CommitLost, DeleteObject, Return
  <2>5. ASSUME NEW u \in Uploads, WriterStep(u) PROVE row' = row
    BY <2>5 DEF WriterStep, shared, ReceiveChunk, ReceiveOther, ReceiveEnd, WriteFails, ClosePipe
  <2> QED BY <2>2, <2>3, <2>4, <2>5 DEF Next, vars, shared, Start, Transfer, Cancel,
                                        RollbackCancelled, Crash
<1> QED BY <1>1, <1>2, Invariance, PTL DEF Spec, Store!Spec
-----------------------------------------------------------------------------
(* Files without a row *)

\* Where an upload answers for the file of its hash.
Holding == {"copy", "remove", "await", "commit", "delete"}

\* A step that changes neither files nor rows, and lets no upload go.
LEMMA HoldingStays ==
  ASSUME NoOrphanObject, UNCHANGED <<row, object, desc>>,
         \A u \in Uploads : hpc[u] \in Holding => hpc'[u] \in Holding
  PROVE  NoOrphanObject'
BY DEF NoOrphanObject, Holding

\* With no crash and no disk error, whatever requests are cancelled and
\* COMMITs lost, no step leaves a file that nobody will delete.
LEMMA OrphanStep == TypeInv /\ NoOrphanObject /\ [Next]_vars => NoOrphanObject'
<1> SUFFICES ASSUME TypeInv, NoOrphanObject, [Next]_vars, Faults \cap {"crash", "disk"} = {}
             PROVE  NoOrphanObject'
  BY DEF NoOrphanObject
<1> USE DEF TypeInv, TypeOK, Holding, shared, handler, writer
<1>0. \A v \in Uploads : desc[v].hash \in Hashes /\ desc[v].len # NoRow
  BY UploadAssumption DEF Descriptors
<1>1. ASSUME NEW u \in Uploads, NEW d \in Descriptors, Start(u, d) PROVE NoOrphanObject'
  BY <1>1 DEF Start, NoOrphanObject
<1>2. ASSUME NEW u \in Uploads, HandlerStep(u) PROVE NoOrphanObject'
  <2>1. CASE InsertAsset(u)
    BY <2>1, HoldingStays DEF InsertAsset
  <2>2. CASE InsertFails(u)
    BY <2>2, HoldingStays DEF InsertFails
  <2>3. CASE CreateObject(u)
    BY <1>0, <2>3 DEF CreateObject, NoOrphanObject
  <2>4. CASE CreateFails(u)
    BY <2>4 DEF CreateFails
  <2>5. CASE CopyEnds(u)
    BY <2>5, HoldingStays DEF CopyEnds
  <2>6. CASE CopyFails(u)
    BY <2>6, HoldingStays DEF CopyFails
  <2>7. CASE RemoveShortCopy(u)
    BY <1>0, <2>7 DEF RemoveShortCopy, TryRemove, RemoveObject, NoOrphanObject
  <2>8. CASE SelectVerdict(u)
    BY <2>8, HoldingStays DEF SelectVerdict
  <2>9. CASE AwaitVerdict(u)
    BY <2>9, HoldingStays DEF AwaitVerdict
  <2>10. CASE Commit(u)
    BY <1>0, <2>10 DEF Commit, NoOrphanObject
  <2>11. CASE CommitRefused(u)
    BY <2>11, HoldingStays DEF CommitRefused
  <2>12. CASE CommitLost(u)
    BY <1>0, <2>12 DEF CommitLost, NoOrphanObject
  <2>13. CASE DeleteObject(u)
    BY <1>0, <2>13 DEF DeleteObject, TryRemove, RemoveObject, NoOrphanObject
  <2>14. CASE Return(u)
    BY <2>14, HoldingStays DEF Return
  <2> QED BY <1>2, <2>1, <2>2, <2>3, <2>4, <2>5, <2>6, <2>7, <2>8, <2>9, <2>10, <2>11, <2>12, <2>13, <2>14 DEF HandlerStep
<1>3. ASSUME NEW u \in Uploads, Transfer(u) PROVE NoOrphanObject'
  <2>1. \A h \in Hashes : h # desc[u].hash => object'[h] = object[h]
    BY <1>0, <1>3 DEF Transfer
  <2> QED BY <1>3, <2>1 DEF Transfer, NoOrphanObject
<1>4. ASSUME NEW u \in Uploads, WriterStep(u) PROVE NoOrphanObject'
  BY <1>4, HoldingStays DEF WriterStep, ReceiveChunk, ReceiveOther, ReceiveEnd, WriteFails, ClosePipe
<1>5. ASSUME NEW u \in Uploads, Cancel(u) PROVE NoOrphanObject'
  BY <1>5, HoldingStays DEF Cancel
<1>6. ASSUME NEW u \in Uploads, RollbackCancelled(u) PROVE NoOrphanObject'
  BY <1>6, HoldingStays DEF RollbackCancelled
<1>7. CASE Crash
  BY <1>7 DEF Crash
<1>8. CASE UNCHANGED vars
  BY <1>8, HoldingStays DEF vars
<1> QED BY <1>1, <1>2, <1>3, <1>4, <1>5, <1>6, <1>7, <1>8 DEF Next

\* Unless the server crashes or the disk fails, a file that no row names belongs
\* to an upload that will commit or delete it, also when requests are cancelled
\* and the connection breaks during COMMIT.
THEOREM NoOrphan == Spec => []NoOrphanObject
<1>1. Init => NoOrphanObject
  BY DEF Init, NoOrphanObject
<1> QED BY <1>1, TypeInit, TypeStep, OrphanStep, PTL DEF Spec
=============================================================================
