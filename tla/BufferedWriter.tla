--------------------------- MODULE BufferedWriter ---------------------------
(***************************************************************************)
(* The multipart upload of gce_export: BufferedWriter of                   *)
(* cli_tools/common/utils/storage/buffered_writer.go.                      *)
(*                                                                         *)
(* One goroutine writes (Write, then Close); Worker goroutines take the    *)
(* name of a finished chunk file from an unbuffered channel, register the  *)
(* chunk's object in tmpObjs, upload it (retrying on error) and remove the *)
(* file. Close waits for the workers and composes the registered objects,  *)
(* MaxComponents at a time, until one is left, which becomes the target.   *)
(*                                                                         *)
(* The payload of the k-th Write is the number k, of length written[k]: a  *)
(* file or an object is the sequence of the payloads it holds. GCS is      *)
(* external: an object is a name and its payloads.                         *)
(***************************************************************************)
EXTENDS Integers, FiniteSets, SequencesExt

CONSTANTS
    Worker,         \* the goroutines started by NewBufferedWriter
    BufferSize,     \* its size parameter, -buffer_size of gce_export
    WriteSizes,     \* lengths of the slices handed to Write
    MaxWrites,      \* bound on the number of Writes of one export
    MaxAttempts,    \* tries of one chunk before the process dies: 17
    MaxComponents,  \* objects in a single compose: 32
    Faults          \* the kinds of error the environment produces

FaultKinds ==
    {"disk", "client", "upload", "denied", "remove", "compose", "delete"}

ASSUME WorkerAssumption == IsFiniteSet(Worker) /\ Worker # {}
ASSUME SizeAssumption ==
    /\ BufferSize \in Nat
    /\ WriteSizes \subseteq Nat
    /\ MaxWrites \in Nat
    /\ MaxAttempts \in Nat \ {0}
    /\ MaxComponents \in Nat \ {0, 1}
    /\ Faults \subseteq FaultKinds

\* A chunk is closed once it would reach this many bytes.
CSize == BufferSize \div Cardinality(Worker)

VARIABLES
    written,      \* lengths of the slices Write has accepted
    pc,           \* where the writing goroutine is
    pending,      \* length of the slice Write is working on
    part,         \* number of chunk files created; the open one is part - 1
    bytes,        \* b.bytes
    disk,         \* chunk files present: part number -> payloads
    wpc,          \* where each worker is
    chunk,        \* the chunk each worker holds
    attempt,      \* i of its retry loop
    uploadClosed, \* the channel has been closed
    tmpObjs,      \* names registered for composing
    bucket,       \* objects present: name -> payloads
    round,        \* i of the compose loop
    deleting      \* sources of the last compose still to delete

writerVars == <<written, pc, pending, part, bytes, uploadClosed>>
workerVars == <<wpc, chunk, attempt>>
closeVars  == <<round, deleting>>
vars == <<writerVars, disk, workerVars, tmpObjs, bucket, closeVars>>

Part(p)     == <<"part", p>>
Composed(i) == <<"compose", i>>
Target      == <<"obj", 0>>
Name        == {"part", "compose", "obj"} \X Nat

Put(f, k, v) == [x \in DOMAIN f \cup {k} |-> IF x = k THEN v ELSE f[x]]
Drop(f, k)   == [x \in DOMAIN f \ {k} |-> f[x]]

Init ==
    /\ written = <<>> /\ pc = "write" /\ pending = 0
    /\ part = 0 /\ bytes = 0
    /\ disk = <<>>
    /\ wpc = [w \in Worker |-> "recv"]
    /\ chunk = [w \in Worker |-> 0]
    /\ attempt = [w \in Worker |-> 0]
    /\ uploadClosed = FALSE
    /\ tmpObjs = <<>>
    /\ bucket = <<>>
    /\ round = 0 /\ deleting = <<>>

(***************************************************************************)
(* The writing goroutine: Write.                                           *)
(***************************************************************************)

\* Write(d): the first one opens a chunk; a slice that would fill the chunk
\* sends the chunk off first.
Write(n) ==
    /\ pc = "write" /\ Len(written) < MaxWrites
    /\ pending' = n
    /\ bytes' = bytes + n
    /\ pc' = IF bytes + n >= CSize THEN "flush" ELSE "append"
    /\ IF part = 0
       THEN part' = 1 /\ disk' = Put(disk, 0, <<>>)
       ELSE UNCHANGED <<part, disk>>
    /\ UNCHANGED <<written, uploadClosed, workerVars, tmpObjs, bucket, closeVars>>

\* The rendezvous on the unbuffered channel: flush hands the closed file to
\* a worker that is receiving.
Send(w) ==
    /\ pc \in {"flush", "closeFlush"} /\ wpc[w] = "recv"
    /\ pc' = IF pc = "flush" THEN "newChunk" ELSE "closeUpload"
    /\ wpc' = [wpc EXCEPT ![w] = "connect"]
    /\ chunk' = [chunk EXCEPT ![w] = part - 1]
    /\ attempt' = [attempt EXCEPT ![w] = 1]
    /\ UNCHANGED <<written, pending, part, bytes, uploadClosed, disk, tmpObjs,
                   bucket, closeVars>>

\* newChunk after a flush; the new chunk is charged with the pending slice.
NewChunk ==
    /\ pc = "newChunk"
    /\ pc' = "append"
    /\ part' = part + 1
    /\ disk' = Put(disk, part, <<>>)
    /\ bytes' = pending
    /\ UNCHANGED <<written, pending, uploadClosed, workerVars, tmpObjs, bucket,
                   closeVars>>

\* file.Write(d), and Write returns.
AppendSlice ==
    /\ pc = "append"
    /\ pc' = "write"
    /\ written' = Append(written, pending)
    /\ disk' = [disk EXCEPT ![part - 1] = Append(@, Len(written) + 1)]
    /\ pending' = 0
    /\ UNCHANGED <<part, bytes, uploadClosed, workerVars, tmpObjs, bucket,
                   closeVars>>

\* OpenFile, Close or Write of a chunk file fails, and so does the export.
DiskFails ==
    /\ "disk" \in Faults
    /\ \/ pc \in {"newChunk", "append", "flush", "closeFlush"}
       \/ pc = "write" /\ part = 0
    /\ pc' = "failed"
    /\ UNCHANGED <<written, pending, part, bytes, uploadClosed, disk, workerVars,
                   tmpObjs, bucket, closeVars>>

(***************************************************************************)
(* The upload workers.                                                     *)
(***************************************************************************)

Alive == pc # "exited"

\* The range over a closed channel ends: the deferred b.Done().
WorkerEnds(w) ==
    /\ Alive /\ wpc[w] = "recv" /\ uploadClosed
    /\ wpc' = [wpc EXCEPT ![w] = "done"]
    /\ UNCHANGED <<writerVars, disk, chunk, attempt, tmpObjs, bucket, closeVars>>

\* b.client and os.Open succeed: addObj registers the object, before a byte
\* of it is uploaded and again in every attempt that gets this far.
Register(w) ==
    /\ Alive /\ wpc[w] = "connect"
    /\ wpc' = [wpc EXCEPT ![w] = "copy"]
    /\ tmpObjs' = Append(tmpObjs, Part(chunk[w]))
    /\ UNCHANGED <<writerVars, disk, chunk, attempt, bucket, closeVars>>

\* io.Copy and dst.Close succeed.
Upload(w) ==
    /\ Alive /\ wpc[w] = "copy"
    /\ wpc' = [wpc EXCEPT ![w] = "remove"]
    /\ bucket' = Put(bucket, Part(chunk[w]), disk[chunk[w]])
    /\ UNCHANGED <<writerVars, disk, chunk, attempt, tmpObjs, closeVars>>

\* Mutant: the loop ends without the upload.
RetryBreaks(w) ==
    wpc' = [wpc EXCEPT ![w] = "remove"] /\ UNCHANGED <<attempt, pc>>

\* The error path of an attempt: log.Fatal once i > 16, else sleep and retry.
Retry(w) ==
    IF attempt[w] >= MaxAttempts
    THEN pc' = "exited" /\ UNCHANGED <<wpc, attempt>>
    ELSE /\ wpc' = [wpc EXCEPT ![w] = "connect"]
         /\ attempt' = [attempt EXCEPT ![w] = @ + 1]
         /\ UNCHANGED pc

ConnectFails(w) ==
    /\ "client" \in Faults
    /\ Alive /\ wpc[w] = "connect"
    /\ Retry(w)
    /\ UNCHANGED <<written, pending, part, bytes, uploadClosed, disk, chunk,
                   tmpObjs, bucket, closeVars>>

\* An upload that reports an error may have stored the object all the same.
UploadFails(w) ==
    /\ "upload" \in Faults
    /\ Alive /\ wpc[w] = "copy"
    /\ Retry(w)
    /\ \/ UNCHANGED bucket
       \/ bucket' = Put(bucket, Part(chunk[w]), disk[chunk[w]])
    /\ UNCHANGED <<written, pending, part, bytes, uploadClosed, disk, chunk,
                   tmpObjs, closeVars>>

\* A 403 naming storage.objects is not retried: exit(2).
PermissionDenied(w) ==
    /\ "denied" \in Faults
    /\ Alive /\ wpc[w] \in {"connect", "copy"}
    /\ pc' = "exited"
    /\ UNCHANGED <<written, pending, part, bytes, uploadClosed, disk, workerVars,
                   tmpObjs, bucket, closeVars>>

\* Mutant: the uploaded file stays.
RemoveFileForgotten(w) ==
    /\ Alive /\ wpc[w] = "remove"
    /\ wpc' = [wpc EXCEPT ![w] = "recv"]
    /\ UNCHANGED <<writerVars, disk, chunk, attempt, tmpObjs, bucket, closeVars>>

\* os.Remove, whose error is ignored.
RemoveFile(w) ==
    /\ Alive /\ wpc[w] = "remove"
    /\ wpc' = [wpc EXCEPT ![w] = "recv"]
    /\ \/ disk' = Drop(disk, chunk[w])
       \/ "remove" \in Faults /\ UNCHANGED disk
    /\ UNCHANGED <<writerVars, chunk, attempt, tmpObjs, bucket, closeVars>>

(***************************************************************************)
(* The writing goroutine: Close.                                           *)
(***************************************************************************)

\* Close flushes the open chunk; with no chunk ever opened the nil file's
\* Close is an error.
Close ==
    /\ pc = "write"
    /\ pc' = IF part = 0 THEN "failed" ELSE "closeFlush"
    /\ UNCHANGED <<written, pending, part, bytes, uploadClosed, disk, workerVars,
                   tmpObjs, bucket, closeVars>>

\* close(b.upload)
CloseUpload ==
    /\ pc = "closeUpload"
    /\ pc' = "wait"
    /\ uploadClosed' = TRUE
    /\ UNCHANGED <<written, pending, part, bytes, disk, workerVars, tmpObjs,
                   bucket, closeVars>>

\* Mutant: Close does not wait for the workers.
WaitSkipped ==
    /\ pc = "wait"
    /\ pc' = "compose"
    /\ UNCHANGED <<written, pending, part, bytes, uploadClosed, disk, workerVars,
                   tmpObjs, bucket, closeVars>>

\* b.Wait() returns.
WaitEnds ==
    /\ pc = "wait" /\ \A w \in Worker : wpc[w] = "done"
    /\ pc' = "compose"
    /\ UNCHANGED <<written, pending, part, bytes, uploadClosed, disk, workerVars,
                   tmpObjs, bucket, closeVars>>

Smaller(a, b) == IF a <= b THEN a ELSE b
Batch == SubSeq(tmpObjs, 1, Smaller(MaxComponents, Len(tmpObjs)))
SourcesExist == \A i \in DOMAIN Batch : Batch[i] \in DOMAIN bucket

\* Composing with the given names left to compose afterwards.
ComposeInto(rest) ==
    /\ pc = "compose" /\ Len(Batch) # 1
    /\ tmpObjs' = rest
    /\ round' = round + 1
    /\ \/ /\ SourcesExist
          /\ pc' = "delete"
          /\ bucket' = Put(bucket, Composed(round),
                           FlattenSeq([i \in DOMAIN Batch |-> bucket[Batch[i]]]))
          /\ deleting' = Batch
       \/ /\ ~SourcesExist \/ "compose" \in Faults
          /\ pc' = "failed"
          /\ UNCHANGED <<bucket, deleting>>
    /\ UNCHANGED <<written, pending, part, bytes, uploadClosed, disk, workerVars>>

\* Mutants: the composed object goes last; one object too many is dropped.
ComposeToBack ==
    ComposeInto(SubSeq(tmpObjs, Len(Batch) + 1, Len(tmpObjs)) \o <<Composed(round)>>)
ComposeDropsOne ==
    ComposeInto(<<Composed(round)>> \o SubSeq(tmpObjs, Len(Batch) + 2, Len(tmpObjs)))

\* Several objects are left: the first of them are composed into a new one,
\* which takes their place at the head of tmpObjs even if Compose fails.
ComposeBatch ==
    ComposeInto(<<Composed(round)>> \o SubSeq(tmpObjs, Len(Batch) + 1, Len(tmpObjs)))

\* One object is left: it is copied to the target.
CopyLast ==
    /\ pc = "compose" /\ Len(Batch) = 1
    /\ \/ /\ SourcesExist
          /\ pc' = "deleteLast"
          /\ bucket' = Put(bucket, Target, bucket[Batch[1]])
          /\ deleting' = Batch
       \/ /\ ~SourcesExist \/ "compose" \in Faults
          /\ pc' = "failed"
          /\ UNCHANGED <<bucket, deleting>>
    /\ UNCHANGED <<written, pending, part, bytes, uploadClosed, disk, workerVars,
                   tmpObjs, round>>

\* Mutant: a failed Delete is tried again for ever.
DeleteSourceForever ==
    /\ pc \in {"delete", "deleteLast"} /\ deleting # <<>>
    /\ \/ /\ Head(deleting) \in DOMAIN bucket
          /\ bucket' = Drop(bucket, Head(deleting))
          /\ deleting' = Tail(deleting)
       \/ /\ Head(deleting) \notin DOMAIN bucket
          /\ UNCHANGED <<bucket, deleting>>
    /\ UNCHANGED <<writerVars, disk, workerVars, tmpObjs, round>>

\* o.Delete() of the next composed source; an absent object is an error.
DeleteSource ==
    /\ pc \in {"delete", "deleteLast"} /\ deleting # <<>>
    /\ \/ /\ Head(deleting) \in DOMAIN bucket
          /\ bucket' = Drop(bucket, Head(deleting))
          /\ deleting' = Tail(deleting)
          /\ UNCHANGED pc
       \/ /\ Head(deleting) \notin DOMAIN bucket \/ "delete" \in Faults
          /\ pc' = "failed"
          /\ UNCHANGED <<bucket, deleting>>
    /\ UNCHANGED <<written, pending, part, bytes, uploadClosed, disk, workerVars,
                   tmpObjs, round>>

\* All sources are deleted: the next round, or Close returns nil.
RoundEnds ==
    /\ pc \in {"delete", "deleteLast"} /\ deleting = <<>>
    /\ pc' = IF pc = "delete" THEN "compose" ELSE "closed"
    /\ UNCHANGED <<written, pending, part, bytes, uploadClosed, disk, workerVars,
                   tmpObjs, bucket, closeVars>>

\* b.client fails in Close.
CloseClientFails ==
    /\ "client" \in Faults
    /\ pc = "compose" /\ round = 0
    /\ pc' = "failed"
    /\ UNCHANGED <<written, pending, part, bytes, uploadClosed, disk, workerVars,
                   tmpObjs, bucket, closeVars>>

\* main of gce_export: an error from Write or Close is fatal.
Fatal ==
    /\ pc = "failed"
    /\ pc' = "exited"
    /\ UNCHANGED <<written, pending, part, bytes, uploadClosed, disk, workerVars,
                   tmpObjs, bucket, closeVars>>

\* The export is over.
Terminating == pc \in {"closed", "exited"} /\ UNCHANGED vars

WriterStep ==
    \/ \E n \in WriteSizes : Write(n)
    \/ NewChunk \/ AppendSlice \/ DiskFails
    \/ Close \/ CloseUpload \/ WaitEnds
    \/ ComposeBatch \/ CopyLast \/ DeleteSource \/ RoundEnds
    \/ CloseClientFails \/ Fatal

WorkerStep(w) ==
    \/ Send(w) \/ WorkerEnds(w) \/ Register(w) \/ Upload(w)
    \/ ConnectFails(w) \/ UploadFails(w) \/ PermissionDenied(w) \/ RemoveFile(w)

Next == WriterStep \/ (\E w \in Worker : WorkerStep(w)) \/ Terminating

Spec == Init /\ [][Next]_vars

\* Every goroutine that can run eventually does; a Send needs both sides.
Fairness == WF_vars(WriterStep) /\ \A w \in Worker : WF_vars(WorkerStep(w))

FairSpec == Spec /\ Fairness

(***************************************************************************)
(* Properties.                                                             *)
(***************************************************************************)

\* Types of the variables, over any constants.  What an object holds is the
\* subject of the other properties.
TypeOK ==
    /\ written \in Seq(Nat)
    /\ pc \in {"write", "flush", "newChunk", "append", "closeFlush",
               "closeUpload", "wait", "compose", "delete", "deleteLast",
               "closed", "failed", "exited"}
    /\ pending \in Nat /\ part \in Nat /\ bytes \in Nat
    /\ part = 0 => pc \in {"write", "failed", "exited"}
    /\ DOMAIN disk \subseteq 0..(part - 1)
    /\ \A p \in DOMAIN disk : disk[p] \in Seq(Nat)
    /\ wpc \in [Worker -> {"recv", "connect", "copy", "remove", "done"}]
    /\ chunk \in [Worker -> Nat]
    /\ attempt \in [Worker -> 0..MaxAttempts]
    /\ uploadClosed \in BOOLEAN
    /\ tmpObjs \in Seq(Name)
    /\ DOMAIN bucket \subseteq Name
    /\ round \in Nat
    /\ deleting \in Seq(Name)

Payloads(files) == UNION {Range(files[f]) : f \in DOMAIN files}

\* A slice Write has accepted is at every moment in a chunk file or in an
\* object, whatever fails: Remove follows the upload, Delete the compose.
NoByteLost ==
    \A k \in 1..Len(written) : k \in Payloads(disk) \/ k \in Payloads(bucket)

\* When the workers have ended and Close starts composing, every slice is in
\* an object that is stored and registered in tmpObjs.
AllUploaded ==
    pc = "compose" /\ round = 0 =>
        \A k \in 1..Len(written) :
            \E i \in DOMAIN tmpObjs :
                tmpObjs[i] \in DOMAIN bucket /\ k \in Range(bucket[tmpObjs[i]])

\* The unbuffered channel is the only brake on Write: at most one chunk file
\* for each worker and the one being filled exist (if os.Remove works).
FilesBounded ==
    "remove" \notin Faults => Cardinality(DOMAIN disk) <= Cardinality(Worker) + 1

\* The target holds the slices in the order of the Writes: "the file can be
\* split into multiple parts and concurrently uploaded", and composed back.
ComposedInOrder ==
    pc = "closed" => \A i \in DOMAIN bucket[Target] : bucket[Target][i] = i

\* Close returns or the process exits: no worker and no sender waits forever.
Terminates == <>(pc \in {"closed", "exited"})

(***************************************************************************)
(* The inductive invariant behind AllUploaded: who is in charge of a chunk. *)
(***************************************************************************)

Busy(w) == wpc[w] \in {"connect", "copy", "remove"}

\* p is the chunk being filled; p is in the hands of a worker.
Filling == {"write", "flush", "append", "closeFlush"}
Open(p) == p = part - 1 /\ pc \in Filling
Held(p) == \E w \in Worker : Busy(w) /\ chunk[w] = p

Uploading ==
    \/ pc \in Filling \cup {"newChunk", "closeUpload", "wait"}
    \/ pc = "compose" /\ round = 0

\* Each chunk has one keeper, and a worker's object is registered before it
\* is stored and stored before the file goes.
Custody ==
    /\ part > 0 /\ pc \in Filling => part - 1 \in DOMAIN disk
    /\ \A w \in Worker : Busy(w) =>
        /\ chunk[w] \in DOMAIN disk
        /\ chunk[w] < part /\ ~Open(chunk[w])
        /\ \A v \in Worker : Busy(v) /\ chunk[v] = chunk[w] => v = w
    /\ \A w \in Worker :
        wpc[w] \in {"copy", "remove"} => Part(chunk[w]) \in Range(tmpObjs)
    /\ \A w \in Worker : wpc[w] = "remove" =>
        /\ Part(chunk[w]) \in DOMAIN bucket
        /\ bucket[Part(chunk[w])] = disk[chunk[w]]

\* Slice k is in chunk p: in its file while the chunk has a keeper, in its
\* registered object after that.
In(k, p) ==
    IF Open(p) \/ Held(p)
    THEN p \in DOMAIN disk /\ k \in Range(disk[p])
    ELSE /\ Part(p) \in Range(tmpObjs) /\ Part(p) \in DOMAIN bucket
         /\ k \in Range(bucket[Part(p)])

UploadInv ==
    /\ pc \in Filling \cup {"newChunk", "closeUpload", "wait"} => round = 0
    /\ pc = "delete" => round > 0
    /\ pc \in {"compose", "delete", "deleteLast"} =>
        \A w \in Worker : wpc[w] = "done"
    /\ Uploading =>
        /\ Custody
        /\ \A k \in 1..Len(written) : \E p \in 0..(part - 1) : In(k, p)

\* Every chunk file belongs to a worker or is the last one created.
FileInv ==
    "remove" \notin Faults =>
        \A p \in DOMAIN disk : Held(p) \/ (p = part - 1 /\ pc # "newChunk")

\* The refinement mapping to StreamExport.
published == Target \in DOMAIN bucket
object == IF published THEN bucket[Target] ELSE <<>>
outcome ==
    CASE pc = "closed" -> "closed"
      [] pc \in {"failed", "exited"} -> "abandoned"
      [] OTHER -> "open"

AnyOrder == INSTANCE StreamExport WITH Ordered <- FALSE, accepted <- Len(written)
InOrder  == INSTANCE StreamExport WITH Ordered <- TRUE, accepted <- Len(written)

\* The upload implements the promise, the order of the slices apart.
ImplementsAnyOrder == AnyOrder!Spec

\* With a single worker the upload also keeps the order.
ImplementsInOrder == InOrder!Spec
=============================================================================
