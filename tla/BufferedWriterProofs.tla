------------------------ MODULE BufferedWriterProofs ------------------------
(***************************************************************************)
(* Theorems about BufferedWriter, for every set of workers, every size and *)
(* every combination of faults.                                            *)
(***************************************************************************)
EXTENDS BufferedWriter, SequenceTheorems, FiniteSetTheorems, WellFoundedInduction,
        TLAPS

\* The sources of a compose and the objects left over are names.
LEMMA BatchType ==
    ASSUME tmpObjs \in Seq(Name)
    PROVE  /\ Batch \in Seq(Name)
           /\ SubSeq(tmpObjs, Len(Batch) + 1, Len(tmpObjs)) \in Seq(Name)
<1> DEFINE n == Smaller(MaxComponents, Len(tmpObjs))
<1>1. Len(tmpObjs) \in Nat /\ MaxComponents \in Nat
  BY SizeAssumption, LenProperties
<1>2. n \in 0..Len(tmpObjs)
  BY <1>1 DEF Smaller
<1>3. \A i \in 1..Len(tmpObjs) : tmpObjs[i] \in Name
  BY ElementOfSeq
<1>4. Batch \in Seq(Name) /\ Len(Batch) = n
  BY <1>1, <1>2, <1>3, SubSeqProperties DEF Batch
<1>5. SubSeq(tmpObjs, n + 1, Len(tmpObjs)) \in Seq(Name)
  BY <1>1, <1>2, <1>3, SubSeqProperties
<1> QED BY <1>4, <1>5

\* Retry moves the worker back to connecting, or ends the process.
LEMMA RetryType ==
    ASSUME TypeOK, NEW w \in Worker, Retry(w)
    PROVE  /\ pc' \in {pc, "exited"}
           /\ wpc' \in {wpc, [wpc EXCEPT ![w] = "connect"]}
           /\ wpc' \in [Worker -> {"recv", "connect", "copy", "remove", "done"}]
           /\ attempt' \in [Worker -> 0..MaxAttempts]
<1>1. attempt[w] \in Nat /\ MaxAttempts \in Nat
  BY SizeAssumption DEF TypeOK
<1>2. CASE attempt[w] >= MaxAttempts
  BY <1>2 DEF Retry, TypeOK
<1>3. CASE ~(attempt[w] >= MaxAttempts)
  <2>1. attempt[w] + 1 \in 0..MaxAttempts
    BY <1>1, <1>3
  <2> QED BY <1>3, <2>1 DEF Retry, TypeOK
<1> QED BY <1>2, <1>3

\* The variables keep their types in every reachable state of the export.
THEOREM TypeCorrect == Spec => []TypeOK
<1>1. Init => TypeOK
  <2> SUFFICES ASSUME Init PROVE TypeOK
    OBVIOUS
  <2>1. DOMAIN disk = {} /\ DOMAIN bucket = {}
    BY DEF Init
  <2>2. written \in Seq(Nat) /\ tmpObjs \in Seq(Name) /\ deleting \in Seq(Name)
    BY DEF Init
  <2>3. attempt \in [Worker -> 0..MaxAttempts]
    BY SizeAssumption DEF Init
  <2> QED BY <2>1, <2>2, <2>3 DEF Init, TypeOK
<1>2. TypeOK /\ [Next]_vars => TypeOK'
  <2> SUFFICES ASSUME TypeOK, [Next]_vars PROVE TypeOK'
    OBVIOUS
  <2> USE SizeAssumption
  <2>1. ASSUME NEW n \in WriteSizes, Write(n) PROVE TypeOK'
    <3>1. DOMAIN disk' \subseteq 0..(part' - 1)
      <4>1. CASE part = 0
        <5>1. \A p \in DOMAIN disk : p \in 0..(0 - 1)
          BY <4>1 DEF TypeOK
        <5>2. DOMAIN disk' = DOMAIN disk \cup {0}
          <6>1. disk' = Put(disk, 0, <<>>)
            BY <2>1, <4>1 DEF Write
          <6> QED BY <6>1 DEF Put
        <5>3. part' = 1
          BY <2>1, <4>1 DEF Write
        <5> QED BY <5>1, <5>2, <5>3
      <4>2. CASE part # 0
        BY <2>1, <4>2 DEF Write, TypeOK
      <4> QED BY <4>1, <4>2
    <3>2. ASSUME NEW p \in DOMAIN disk' PROVE disk'[p] \in Seq(Nat)
      <4>1. CASE part = 0
        <5>1. disk' = Put(disk, 0, <<>>)
          BY <2>1, <4>1 DEF Write
        <5> QED
          BY <5>1, EmptySeq DEF Put, TypeOK
      <4>2. CASE part # 0
        BY <2>1, <4>2 DEF Write, TypeOK
      <4> QED
        BY <4>1, <4>2
    <3>3. n \in Nat /\ part' \in Nat /\ part' # 0
      BY <2>1 DEF Write, TypeOK
    <3> QED BY <2>1, <3>1, <3>2, <3>3 DEF Write, TypeOK, workerVars, closeVars
  <2>2. ASSUME NewChunk PROVE TypeOK'
    BY <2>2 DEF NewChunk, TypeOK, Put, workerVars, closeVars
  <2>3. ASSUME AppendSlice PROVE TypeOK'
    <3>1. Append(written, pending) \in Seq(Nat) /\ Len(written) \in Nat
      BY AppendProperties, LenProperties DEF TypeOK
    <3>2. ASSUME NEW p \in DOMAIN disk' PROVE disk'[p] \in Seq(Nat)
      <4>1. p \in DOMAIN disk /\ disk[p] \in Seq(Nat)
        BY <2>3 DEF AppendSlice, TypeOK
      <4>2. Append(disk[p], Len(written) + 1) \in Seq(Nat)
        BY <3>1, <4>1, AppendProperties
      <4>3. disk'[p] \in {disk[p], Append(disk[p], Len(written) + 1)}
        BY <2>3, <4>1 DEF AppendSlice
      <4> QED BY <4>1, <4>2, <4>3
    <3> QED BY <2>3, <3>1, <3>2 DEF AppendSlice, TypeOK, workerVars, closeVars
  <2>4. CASE DiskFails \/ Close \/ CloseUpload \/ WaitEnds \/ RoundEnds
                 \/ CloseClientFails \/ Fatal
    BY <2>4 DEF DiskFails, Close, CloseUpload, WaitEnds, RoundEnds,
                CloseClientFails, Fatal, TypeOK, workerVars, closeVars
  <2>5. ASSUME ComposeBatch PROVE TypeOK'
    <3>1. Composed(round) \in Name
      BY DEF TypeOK, Composed, Name
    <3>2. tmpObjs' \in Seq(Name)
      BY <2>5, <3>1, BatchType, ConcatProperties DEF ComposeBatch, ComposeInto, TypeOK
    <3>3. deleting' \in Seq(Name)
      BY <2>5, BatchType DEF ComposeBatch, ComposeInto, TypeOK
    <3>4. DOMAIN bucket' \subseteq Name
      BY <2>5, <3>1 DEF ComposeBatch, ComposeInto, TypeOK, Put
    <3> QED BY <2>5, <3>2, <3>3, <3>4 DEF ComposeBatch, ComposeInto, TypeOK, workerVars
  <2>6. ASSUME CopyLast PROVE TypeOK'
    <3>1. deleting' \in Seq(Name)
      BY <2>6, BatchType DEF CopyLast, TypeOK
    <3>2. Target \in Name
      BY DEF Target, Name
    <3>3. DOMAIN bucket' \subseteq Name
      BY <2>6, <3>2 DEF CopyLast, TypeOK, Put
    <3> QED BY <2>6, <3>1, <3>3 DEF CopyLast, TypeOK, workerVars
  <2>7. ASSUME DeleteSource PROVE TypeOK'
    <3>1. Tail(deleting) \in Seq(Name)
      BY <2>7, HeadTailProperties DEF DeleteSource, TypeOK
    <3> QED BY <2>7, <3>1 DEF DeleteSource, TypeOK, Drop, workerVars
  <2>8. ASSUME NEW w \in Worker, Send(w) PROVE TypeOK'
    <3>1. part - 1 \in Nat
      BY <2>8 DEF Send, TypeOK
    <3> QED BY <2>8, <3>1 DEF Send, TypeOK, closeVars
  <2>9. ASSUME NEW w \in Worker, WorkerStep(w), ~Send(w) PROVE TypeOK'
    <3>1. Part(chunk[w]) \in Name
      BY DEF TypeOK, Part, Name
    <3>2. CASE WorkerEnds(w) \/ PermissionDenied(w)
      BY <3>2 DEF WorkerEnds, PermissionDenied, TypeOK, writerVars, workerVars,
                  closeVars
    <3>3. CASE Register(w)
      BY <3>1, <3>3, AppendProperties DEF Register, TypeOK, writerVars, closeVars
    <3>4. CASE RemoveFile(w)
      BY <3>4 DEF RemoveFile, TypeOK, Drop, writerVars, closeVars
    <3>5. CASE Upload(w)
      <4>1. DOMAIN bucket' \subseteq Name
        <5>1. DOMAIN bucket' = DOMAIN bucket \cup {Part(chunk[w])}
          <6>1. bucket' = Put(bucket, Part(chunk[w]), disk[chunk[w]])
            BY <3>5 DEF Upload
          <6> QED BY <6>1 DEF Put
        <5> QED BY <3>1, <5>1 DEF TypeOK
      <4>2. /\ wpc' = [wpc EXCEPT ![w] = "remove"]
            /\ UNCHANGED <<writerVars, disk, chunk, attempt, tmpObjs, closeVars>>
        BY <3>5 DEF Upload
      <4> QED BY <4>1, <4>2 DEF TypeOK, writerVars, closeVars
    <3>6. CASE ConnectFails(w)
      BY <3>6, RetryType DEF ConnectFails, TypeOK, closeVars
    <3>7. CASE UploadFails(w)
      <4>1. DOMAIN bucket' \subseteq Name
        <5>1. DOMAIN bucket' \subseteq DOMAIN bucket \cup {Part(chunk[w])}
          <6>1. \/ bucket' = bucket
                \/ bucket' = Put(bucket, Part(chunk[w]), disk[chunk[w]])
            BY <3>7 DEF UploadFails
          <6> QED BY <6>1 DEF Put
        <5> QED BY <3>1, <5>1 DEF TypeOK
      <4>2. /\ Retry(w)
            /\ UNCHANGED <<written, pending, part, bytes, uploadClosed, disk,
                           chunk, tmpObjs, closeVars>>
        BY <3>7 DEF UploadFails
      <4> QED BY <4>1, <4>2, RetryType DEF TypeOK, closeVars
    <3> QED BY <2>9, <3>2, <3>3, <3>4, <3>5, <3>6, <3>7 DEF WorkerStep
  <2>10. CASE UNCHANGED vars \/ Terminating
    BY <2>10 DEF Terminating, vars, writerVars, workerVars, closeVars, TypeOK
  <2> QED BY <2>1, <2>2, <2>3, <2>4, <2>5, <2>6, <2>7, <2>8, <2>9, <2>10
          DEF Next, WriterStep
<1> QED BY <1>1, <1>2, PTL DEF Spec

\* What a sequence holds after an append.
LEMMA RangeOfAppend ==
    ASSUME NEW S, NEW s \in Seq(S), NEW e \in S
    PROVE  Range(Append(s, e)) = Range(s) \cup {e}
<1>1. /\ DOMAIN s = 1..Len(s) /\ Len(s) \in Nat
      /\ DOMAIN Append(s, e) = 1..(Len(s) + 1)
      /\ \A i \in 1..Len(s) : Append(s, e)[i] = s[i]
      /\ Append(s, e)[Len(s) + 1] = e
  BY AppendProperties, LenProperties
<1>2. ASSUME NEW i \in DOMAIN Append(s, e)
      PROVE  Append(s, e)[i] \in Range(s) \cup {e}
  BY <1>1 DEF Range
<1>3. ASSUME NEW i \in DOMAIN s PROVE s[i] \in Range(Append(s, e))
  BY <1>1 DEF Range
<1>4. e \in Range(Append(s, e))
  BY <1>1 DEF Range
<1> QED BY <1>2, <1>3, <1>4 DEF Range

\* Different chunks have objects of different names.
LEMMA PartInjective == \A p, q : Part(p) = Part(q) => p = q
  BY DEF Part

\* The part of UploadInv about the chunks, for the phase before composing.
ChunksInv == Custody /\ \A k \in 1..Len(written) : \E p \in 0..(part - 1) : In(k, p)

\* A step that moves the writer but no chunk keeps the chunks where they are.
LEMMA QuietStep ==
    ASSUME ChunksInv, UNCHANGED <<written, part, disk, wpc, chunk, tmpObjs, bucket>>,
           pc \in Filling <=> pc' \in Filling
    PROVE  ChunksInv'
<1>1. \A p : Open(p) <=> Open(p)'
  BY DEF Open
<1>2. \A p : Held(p) <=> Held(p)'
  BY DEF Held, Busy
<1>3. \A k, p : In(k, p) <=> In(k, p)'
  BY <1>1, <1>2 DEF In
<1>4. Custody'
  BY <1>1 DEF ChunksInv, Custody, Busy, Open
<1> QED BY <1>3, <1>4 DEF ChunksInv

\* Write puts the accepted slice into the open chunk.
LEMMA AppendKeepsChunks ==
    ASSUME TypeOK, ChunksInv, AppendSlice
    PROVE  ChunksInv'
<1>1. part \in Nat /\ part > 0 /\ part' = part
  BY DEF AppendSlice, TypeOK
<1>2. Len(written) \in Nat /\ Len(written') = Len(written) + 1
  BY AppendProperties, LenProperties DEF AppendSlice, TypeOK
<1>3. part - 1 \in DOMAIN disk /\ DOMAIN disk' = DOMAIN disk
  BY <1>1 DEF ChunksInv, Custody, AppendSlice, Filling
<1>4. /\ Range(disk'[part - 1]) = Range(disk[part - 1]) \cup {Len(written')}
      /\ \A p \in DOMAIN disk : p # part - 1 => disk'[p] = disk[p]
  <2>1. disk'[part - 1] = Append(disk[part - 1], Len(written'))
    BY <1>2, <1>3 DEF AppendSlice
  <2>2. disk[part - 1] \in Seq(Nat)
    BY <1>3 DEF TypeOK
  <2>3. \A p \in DOMAIN disk : p # part - 1 => disk'[p] = disk[p]
    BY DEF AppendSlice
  <2> QED BY <1>2, <2>1, <2>2, <2>3, RangeOfAppend
<1>5. \A p : (Open(p) <=> Open(p)') /\ (Held(p) <=> Held(p)')
  BY DEF AppendSlice, Open, Filling, Held, Busy, workerVars
<1>6. Custody'
  BY <1>1, <1>3, <1>4, <1>5 DEF ChunksInv, Custody, AppendSlice, Open, Filling,
                                Busy, workerVars
<1>7. ASSUME NEW k \in 1..Len(written), NEW p \in 0..(part - 1), In(k, p)
      PROVE  In(k, p)'
  BY <1>3, <1>4, <1>5, <1>7 DEF In, AppendSlice
<1>8. ASSUME NEW k, k = Len(written'), NEW p, p = part - 1
      PROVE  In(k, p)'
  <2>1. Open(p)'
    BY <1>1, <1>8 DEF Open, Filling, AppendSlice
  <2> QED BY <1>3, <1>4, <1>8, <2>1 DEF In
<1>9. ASSUME NEW k \in 1..Len(written')
      PROVE  \E p \in 0..(part' - 1) : In(k, p)'
  <2>1. CASE k = Len(written')
    BY <1>1, <1>8, <2>1
  <2>2. CASE k # Len(written')
    BY <1>1, <1>2, <1>7, <2>2 DEF ChunksInv
  <2> QED BY <2>1, <2>2
<1> QED BY <1>6, <1>9 DEF ChunksInv

\* A new chunk is opened: the first one by Write, the others by NewChunk.
LEMMA OpeningKeepsChunks ==
    ASSUME TypeOK, ChunksInv, pc \notin Filling \/ part = 0, pc' \in Filling,
           part' = part + 1, disk' = Put(disk, part, <<>>),
           UNCHANGED <<written, wpc, chunk, tmpObjs, bucket>>
    PROVE  ChunksInv'
<1>1. part \in Nat
  BY DEF TypeOK
<1>2. /\ DOMAIN disk' = DOMAIN disk \cup {part}
      /\ \A p \in DOMAIN disk : p # part => disk'[p] = disk[p]
  BY DEF Put
<1>3. \A p : Held(p) <=> Held(p)'
  BY DEF Held, Busy
<1>4. \A p \in 0..(part - 1) : ~Open(p) /\ ~Open(p)'
  BY <1>1 DEF Open
<1>5. Custody'
  <2>1. part' - 1 \in DOMAIN disk'
    BY <1>1, <1>2
  <2>2. ASSUME NEW w \in Worker, Busy(w)'
        PROVE  /\ chunk'[w] \in DOMAIN disk' /\ chunk'[w] < part'
               /\ ~Open(chunk[w])'
               /\ chunk[w] \in DOMAIN disk /\ chunk[w] # part
               /\ \A v \in Worker : Busy(v)' /\ chunk'[v] = chunk'[w] => v = w
    <3>1. Busy(w) /\ \A v \in Worker : Busy(v) <=> Busy(v)'
      BY <2>2 DEF Busy
    <3>2. chunk[w] \in DOMAIN disk /\ chunk[w] < part /\ chunk[w] \in Nat
      BY <3>1 DEF ChunksInv, Custody, TypeOK
    <3>3. \A v \in Worker : Busy(v)' /\ chunk'[v] = chunk'[w] => v = w
      BY <3>1 DEF ChunksInv, Custody
    <3>4. ~Open(chunk[w])'
      BY <1>1, <3>2 DEF Open
    <3> QED BY <1>1, <1>2, <3>2, <3>3, <3>4
  <2>3. ASSUME NEW w \in Worker, wpc'[w] = "remove"
        PROVE  /\ Part(chunk'[w]) \in DOMAIN bucket'
               /\ bucket'[Part(chunk'[w])] = disk'[chunk'[w]]
    <3>1. Busy(w)' /\ wpc[w] = "remove"
      BY <2>3 DEF Busy
    <3> QED BY <1>2, <2>2, <3>1 DEF ChunksInv, Custody
  <2>4. \A w \in Worker :
          wpc'[w] \in {"copy", "remove"} => Part(chunk'[w]) \in Range(tmpObjs')
    BY DEF ChunksInv, Custody
  <2> QED BY <2>1, <2>2, <2>3, <2>4 DEF Custody
<1>6. ASSUME NEW k, NEW p \in 0..(part - 1), In(k, p) PROVE In(k, p)'
  <2>1. p # part
    BY <1>1
  <2> QED BY <1>2, <1>3, <1>4, <1>6, <2>1 DEF In
<1>7. 0..(part - 1) \subseteq 0..(part' - 1)
  BY <1>1
<1> QED BY <1>5, <1>6, <1>7 DEF ChunksInv

\* The finished chunk passes from the writer to the worker that receives it.
LEMMA SendKeepsChunks ==
    ASSUME TypeOK, ChunksInv, NEW w \in Worker, Send(w)
    PROVE  ChunksInv'
<1>1. /\ part \in Nat /\ part > 0 /\ part' = part
      /\ pc \in Filling /\ pc' \notin Filling
      /\ UNCHANGED <<written, disk, tmpObjs, bucket>>
  BY DEF Send, TypeOK, Filling
<1>2. /\ ~Busy(w) /\ Busy(w)' /\ chunk'[w] = part - 1 /\ wpc'[w] = "connect"
      /\ \A v \in Worker : v # w => wpc'[v] = wpc[v] /\ chunk'[v] = chunk[v]
  BY DEF Send, Busy, TypeOK
<1>3. part - 1 \in DOMAIN disk
  BY <1>1 DEF ChunksInv, Custody
<1>4. \A v \in Worker : Busy(v) => chunk[v] \in DOMAIN disk /\ chunk[v] < part
                                   /\ chunk[v] # part - 1
  BY <1>1 DEF ChunksInv, Custody, Open
<1>5. \A p : ~Open(p)'
  BY <1>1 DEF Open
<1>6. \A v \in Worker : v # w => (Busy(v) <=> Busy(v)')
  BY <1>2 DEF Busy
<1>7. \A p : Held(p)' <=> Held(p) \/ p = part - 1
  BY <1>2, <1>6 DEF Held
<1>8. ASSUME NEW v \in Worker, Busy(v)'
      PROVE  /\ chunk'[v] \in DOMAIN disk' /\ chunk'[v] < part'
             /\ \A u \in Worker : Busy(u)' /\ chunk'[u] = chunk'[v] => u = v
  BY <1>1, <1>2, <1>3, <1>4, <1>6, <1>8 DEF ChunksInv, Custody
<1>9. ASSUME NEW v \in Worker
      PROVE  /\ wpc'[v] \in {"copy", "remove"} => Part(chunk'[v]) \in Range(tmpObjs')
             /\ wpc'[v] = "remove" =>
                  /\ Part(chunk'[v]) \in DOMAIN bucket'
                  /\ bucket'[Part(chunk'[v])] = disk'[chunk'[v]]
  BY <1>1, <1>2 DEF ChunksInv, Custody
<1>10. Custody'
  BY <1>1, <1>5, <1>8, <1>9 DEF Custody
<1>11. ASSUME NEW k, NEW p, In(k, p) PROVE In(k, p)'
  <2>1. Open(p) \/ Held(p) <=> Held(p)'
    BY <1>1, <1>7 DEF Open
  <2> QED BY <1>1, <1>5, <1>11, <2>1 DEF In
<1> QED BY <1>1, <1>10, <1>11 DEF ChunksInv

\* A worker that keeps its chunk while it connects, registers or fails.
LEMMA HoldingKeepsChunks ==
    ASSUME TypeOK, ChunksInv, NEW w \in Worker, Busy(w), Busy(w)',
           UNCHANGED <<written, part, pc, disk, chunk>>,
           \A v \in Worker : v # w => wpc'[v] = wpc[v],
           Range(tmpObjs) \subseteq Range(tmpObjs'),
           DOMAIN bucket \subseteq DOMAIN bucket',
           \A o \in DOMAIN bucket : o # Part(chunk[w]) => bucket'[o] = bucket[o],
           wpc'[w] # "connect" => Part(chunk[w]) \in Range(tmpObjs'),
           wpc'[w] = "remove" =>
             /\ Part(chunk[w]) \in DOMAIN bucket'
             /\ bucket'[Part(chunk[w])] = disk[chunk[w]]
    PROVE  ChunksInv'
<1>1. \A v \in Worker : Busy(v) <=> Busy(v)'
  BY DEF Busy
<1>2. \A p : (Open(p) <=> Open(p)') /\ (Held(p) <=> Held(p)')
  BY <1>1 DEF Open, Held
<1>3. \A v \in Worker : Busy(v) /\ v # w => Part(chunk[v]) # Part(chunk[w])
  BY PartInjective DEF ChunksInv, Custody
<1>4. ASSUME NEW v \in Worker, wpc'[v] = "remove"
      PROVE  /\ Part(chunk'[v]) \in DOMAIN bucket'
             /\ bucket'[Part(chunk'[v])] = disk'[chunk'[v]]
  <2>1. CASE v = w
    BY <1>4, <2>1
  <2>2. CASE v # w
    <3>1. wpc[v] = "remove" /\ Busy(v)
      BY <1>4, <2>2 DEF Busy
    <3> QED BY <1>3, <2>2, <3>1 DEF ChunksInv, Custody
  <2> QED BY <2>1, <2>2
<1>5. ASSUME NEW v \in Worker, wpc'[v] \in {"copy", "remove"}
      PROVE  Part(chunk'[v]) \in Range(tmpObjs')
  BY <1>5 DEF ChunksInv, Custody
<1>6. ASSUME NEW v \in Worker, Busy(v)'
      PROVE  /\ chunk'[v] \in DOMAIN disk' /\ chunk'[v] < part' /\ ~Open(chunk[v])'
             /\ \A u \in Worker : Busy(u)' /\ chunk'[u] = chunk'[v] => u = v
  BY <1>1, <1>2, <1>6 DEF ChunksInv, Custody
<1>7. part' > 0 /\ pc' \in Filling => part' - 1 \in DOMAIN disk'
  BY DEF ChunksInv, Custody
<1>8. Custody'
  BY <1>4, <1>5, <1>6, <1>7 DEF Custody
<1>9. ASSUME NEW k, NEW p, In(k, p) PROVE In(k, p)'
  <2>1. CASE Open(p) \/ Held(p)
    BY <1>2, <1>9, <2>1 DEF In
  <2>2. CASE ~(Open(p) \/ Held(p))
    <3>1. Part(p) # Part(chunk[w])
      BY <2>2, PartInjective DEF Held
    <3> QED BY <1>2, <1>9, <2>2, <3>1 DEF In
  <2> QED BY <2>1, <2>2
<1> QED BY <1>8, <1>9 DEF ChunksInv

\* The file goes only after its object is stored and registered.
LEMMA RemoveKeepsChunks ==
    ASSUME TypeOK, ChunksInv, NEW w \in Worker, RemoveFile(w)
    PROVE  ChunksInv'
<1>1. /\ UNCHANGED <<written, part, pc, chunk, tmpObjs, bucket>>
      /\ wpc[w] = "remove" /\ Busy(w) /\ ~Busy(w)' /\ wpc'[w] = "recv"
      /\ \A v \in Worker : v # w => wpc'[v] = wpc[v]
  BY DEF RemoveFile, TypeOK, Busy, writerVars
<1>2. /\ DOMAIN disk \ {chunk[w]} \subseteq DOMAIN disk'
      /\ \A p \in DOMAIN disk : p # chunk[w] => disk'[p] = disk[p]
  BY DEF RemoveFile, Drop
<1>3. \A v \in Worker : v # w => (Busy(v) <=> Busy(v)')
  BY <1>1 DEF Busy
<1>4. \A v \in Worker : Busy(v)' => v # w /\ chunk[v] # chunk[w]
  BY <1>1, <1>3 DEF ChunksInv, Custody
<1>5. \A p : (Open(p) <=> Open(p)') /\ (Open(p) => p # chunk[w])
  BY <1>1 DEF ChunksInv, Custody, Open
<1>6. \A p : Held(p)' <=> Held(p) /\ p # chunk[w]
  BY <1>1, <1>3, <1>4 DEF Held
<1>7. part' > 0 /\ pc' \in Filling => part' - 1 \in DOMAIN disk'
  BY <1>1, <1>2, <1>5 DEF ChunksInv, Custody, Open
<1>8. ASSUME NEW v \in Worker, Busy(v)'
      PROVE  /\ chunk'[v] \in DOMAIN disk' /\ chunk'[v] < part' /\ ~Open(chunk[v])'
             /\ \A u \in Worker : Busy(u)' /\ chunk'[u] = chunk'[v] => u = v
  BY <1>1, <1>2, <1>3, <1>4, <1>5, <1>8 DEF ChunksInv, Custody
<1>9. ASSUME NEW v \in Worker, wpc'[v] \in {"copy", "remove"}
      PROVE  /\ Part(chunk'[v]) \in Range(tmpObjs')
             /\ wpc'[v] = "remove" =>
                  /\ Part(chunk'[v]) \in DOMAIN bucket'
                  /\ bucket'[Part(chunk'[v])] = disk'[chunk'[v]]
  <2>1. v # w /\ Busy(v)' /\ Busy(v) /\ wpc[v] = wpc'[v]
    BY <1>1, <1>9 DEF Busy
  <2> QED BY <1>1, <1>2, <1>4, <1>9, <2>1 DEF ChunksInv, Custody
<1>10. Custody'
  BY <1>7, <1>8, <1>9 DEF Custody
<1>11. ASSUME NEW k, NEW p, In(k, p) PROVE In(k, p)'
  <2>1. CASE p = chunk[w]
    <3>1. Held(p) /\ ~Held(p)' /\ ~Open(p)'
      BY <1>1, <1>5, <1>6, <2>1 DEF Held
    <3>2. k \in Range(disk[p])
      BY <1>11, <3>1 DEF In
    <3> QED BY <1>1, <2>1, <3>1, <3>2 DEF In, ChunksInv, Custody
  <2>2. CASE p # chunk[w]
    BY <1>1, <1>2, <1>5, <1>6, <1>11, <2>2 DEF In
  <2> QED BY <2>1, <2>2
<1> QED BY <1>1, <1>10, <1>11 DEF ChunksInv

\* The inductive invariant: until composing starts, every slice accepted by
\* Write is in a chunk that has exactly one keeper or is safely uploaded.
THEOREM UploadInvariant == Spec => []UploadInv
<1>1. Init => UploadInv
  <2> SUFFICES ASSUME Init PROVE UploadInv
    OBVIOUS
  <2>1. Len(written) = 0 /\ part = 0 /\ pc = "write" /\ round = 0
    BY DEF Init
  <2>2. \A w \in Worker : ~Busy(w) /\ wpc[w] = "recv"
    BY DEF Init, Busy
  <2> QED BY <2>1, <2>2 DEF UploadInv, Custody
<1>2. TypeOK /\ UploadInv /\ [Next]_vars => UploadInv'
  <2> SUFFICES ASSUME TypeOK, UploadInv, [Next]_vars PROVE UploadInv'
    OBVIOUS
  <2>0. /\ Uploading => ChunksInv
        /\ pc \in Filling \cup {"newChunk", "closeUpload", "wait"} => round = 0
        /\ pc = "delete" => round > 0
        /\ pc \in {"compose", "delete", "deleteLast"} =>
             \A w \in Worker : wpc[w] = "done"
        /\ round \in Nat /\ part \in Nat
    BY DEF UploadInv, ChunksInv, TypeOK
  \* It suffices to look at the parts of the invariant one by one.
  <2>a. ASSUME pc' \in Filling \cup {"newChunk", "closeUpload", "wait"} => round' = 0,
               pc' = "delete" => round' > 0,
               pc' \in {"compose", "delete", "deleteLast"} =>
                 \A w \in Worker : wpc'[w] = "done",
               Uploading' => ChunksInv'
        PROVE  UploadInv'
    BY <2>a DEF UploadInv, ChunksInv
  <2>1. ASSUME NEW n \in WriteSizes, Write(n) PROVE UploadInv'
    <3>1. pc = "write" /\ pc' \in Filling /\ round' = 0 /\ ChunksInv
      BY <2>0, <2>1 DEF Write, Filling, Uploading, closeVars
    <3>2. CASE part = 0
      <4>1. part' = part + 1 /\ disk' = Put(disk, part, <<>>)
        BY <2>1, <3>2 DEF Write
      <4>2. UNCHANGED <<written, wpc, chunk, tmpObjs, bucket>>
        BY <2>1 DEF Write, workerVars
      <4>3. ChunksInv'
        BY <3>1, <3>2, <4>1, <4>2, OpeningKeepsChunks
      <4> QED BY <2>a, <3>1, <4>3 DEF Filling
    <3>3. CASE part # 0
      <4>1. UNCHANGED <<written, part, disk, wpc, chunk, tmpObjs, bucket>>
        BY <2>1, <3>3 DEF Write, workerVars
      <4>2. ChunksInv'
        BY <3>1, <4>1, QuietStep DEF Filling
      <4> QED BY <2>a, <3>1, <4>2 DEF Filling
    <3> QED BY <3>2, <3>3
  <2>2. CASE NewChunk
    <3>1. /\ pc \notin Filling /\ pc' = "append" /\ round' = 0 /\ ChunksInv
          /\ part' = part + 1 /\ disk' = Put(disk, part, <<>>)
          /\ UNCHANGED <<written, wpc, chunk, tmpObjs, bucket>>
      BY <2>0, <2>2 DEF NewChunk, Filling, Uploading, workerVars, closeVars
    <3>2. ChunksInv'
      BY <3>1, OpeningKeepsChunks DEF Filling
    <3> QED BY <2>a, <3>1, <3>2 DEF Filling
  <2>3. CASE AppendSlice
    <3>1. ChunksInv
      BY <2>0, <2>3 DEF AppendSlice, Uploading, Filling
    <3>2. pc' = "write" /\ round' = 0
      BY <2>0, <2>3 DEF AppendSlice, Filling, closeVars
    <3> QED BY <2>3, <2>a, <3>1, <3>2, AppendKeepsChunks DEF Filling
  <2>4. CASE Close \/ CloseUpload \/ WaitEnds
    <3>1. pc \in {"write", "closeUpload", "wait"} /\ ChunksInv /\ round' = 0
      BY <2>0, <2>4 DEF Close, CloseUpload, WaitEnds, Uploading, Filling, closeVars
    <3>2. UNCHANGED <<written, part, disk, wpc, chunk, tmpObjs, bucket>>
      BY <2>4 DEF Close, CloseUpload, WaitEnds, workerVars
    <3>3. CASE pc' = "failed"
      BY <2>a, <3>1, <3>3 DEF Uploading, Filling
    <3>4. CASE pc' # "failed"
      <4>1. pc \in Filling <=> pc' \in Filling
        BY <2>4, <3>4 DEF Close, CloseUpload, WaitEnds, Filling
      <4>2. pc' \in {"compose", "delete", "deleteLast"} =>
              \A w \in Worker : wpc'[w] = "done"
        BY <2>4, <3>2 DEF Close, CloseUpload, WaitEnds
      <4>3. pc' # "delete"
        BY <2>4 DEF Close, CloseUpload, WaitEnds
      <4> QED BY <2>a, <3>1, <3>2, <4>1, <4>2, <4>3, QuietStep
    <3> QED BY <3>3, <3>4
  <2>5. CASE DiskFails \/ CloseClientFails \/ Fatal
    <3>1. pc' \in {"failed", "exited"}
      BY <2>5 DEF DiskFails, CloseClientFails, Fatal
    <3> QED BY <2>a, <3>1 DEF Uploading, Filling
  <2>6. CASE ComposeBatch \/ CopyLast \/ DeleteSource \/ RoundEnds
    <3>1. \A w \in Worker : wpc'[w] = "done"
      BY <2>0, <2>6 DEF ComposeBatch, ComposeInto, CopyLast, DeleteSource, RoundEnds, workerVars
    <3>2. /\ pc' \in {"compose", "delete", "deleteLast", "failed", "closed"}
          /\ pc' \in {"compose", "delete"} => round' > 0
      BY <2>0, <2>6 DEF ComposeBatch, ComposeInto, CopyLast, DeleteSource, RoundEnds, closeVars
    <3> QED BY <2>a, <3>1, <3>2 DEF Uploading, Filling
  <2>7. ASSUME NEW w \in Worker, Send(w) PROVE UploadInv'
    <3>1. pc \in Filling /\ pc' \in {"newChunk", "closeUpload"} /\ round' = 0
      BY <2>0, <2>7 DEF Send, Filling, closeVars
    <3>2. ChunksInv'
      BY <2>0, <2>7, <3>1, SendKeepsChunks DEF Uploading
    <3> QED BY <2>a, <3>1, <3>2
  <2>8. ASSUME NEW w \in Worker, WorkerStep(w), ~Send(w) PROVE UploadInv'
    <3>1. /\ UNCHANGED <<written, part, round, chunk>> /\ pc' \in {pc, "exited"}
          /\ \A v \in Worker : v # w => wpc'[v] = wpc[v]
      <4>1. CASE ConnectFails(w) \/ UploadFails(w)
        <5>1. Retry(w) /\ UNCHANGED <<written, part, round, chunk>>
          BY <4>1 DEF ConnectFails, UploadFails, closeVars
        <5> QED BY <5>1, RetryType DEF TypeOK
      <4>2. CASE WorkerEnds(w) \/ Register(w) \/ Upload(w) \/ PermissionDenied(w)
                   \/ RemoveFile(w)
        BY <4>2 DEF WorkerEnds, Register, Upload, PermissionDenied, RemoveFile,
                    writerVars, workerVars, closeVars, TypeOK
      <4> QED BY <2>8, <4>1, <4>2 DEF WorkerStep
    <3>2. CASE pc' = "exited"
      BY <2>a, <3>2 DEF Uploading, Filling
    <3>3. CASE pc' # "exited"
      <4>1. pc' = pc /\ wpc[w] # "done"
        BY <2>8, <3>1, <3>3 DEF WorkerStep, WorkerEnds, Register, Upload,
             ConnectFails, UploadFails, PermissionDenied, RemoveFile
      <4>2. pc \notin {"compose", "delete", "deleteLast"}
        BY <2>0, <4>1
      <4>3. Uploading' => ChunksInv
        BY <2>0, <3>1, <4>1 DEF Uploading
      <4>4. ASSUME ChunksInv PROVE ChunksInv'
        <5>1. CASE WorkerEnds(w)
          <6>1. UNCHANGED <<written, part, pc, disk, chunk, tmpObjs, bucket>>
            BY <5>1 DEF WorkerEnds, writerVars
          <6>2. \A v \in Worker : /\ Busy(v) <=> Busy(v)'
                                  /\ wpc'[v] \in {"copy", "remove"} => wpc'[v] = wpc[v]
            BY <3>1, <5>1 DEF WorkerEnds, Busy, TypeOK
          <6>3. \A p : (Open(p) <=> Open(p)') /\ (Held(p) <=> Held(p)')
            BY <6>1, <6>2 DEF Open, Held
          <6>4. Custody'
            BY <4>4, <6>1, <6>2, <6>3 DEF ChunksInv, Custody, Open
          <6>5. \A k, p : In(k, p) <=> In(k, p)'
            BY <6>1, <6>3 DEF In
          <6> QED BY <4>4, <6>1, <6>4, <6>5 DEF ChunksInv
        <5>2. CASE Register(w)
          <6>1. /\ UNCHANGED <<written, part, pc, disk, chunk, bucket>>
                /\ wpc[w] = "connect" /\ wpc'[w] = "copy"
            BY <5>2 DEF Register, writerVars, TypeOK
          <6>2. Range(tmpObjs') = Range(tmpObjs) \cup {Part(chunk[w])}
            <7>1. Part(chunk[w]) \in Name
              BY DEF TypeOK, Part, Name
            <7> QED BY <5>2, <7>1, RangeOfAppend DEF Register, TypeOK
          <6> QED BY <3>1, <4>4, <6>1, <6>2, HoldingKeepsChunks DEF Busy
        <5>3. CASE Upload(w)
          <6>1. /\ UNCHANGED <<written, part, pc, disk, chunk, tmpObjs>>
                /\ wpc[w] = "copy" /\ wpc'[w] = "remove"
                /\ bucket' = Put(bucket, Part(chunk[w]), disk[chunk[w]])
            BY <5>3 DEF Upload, writerVars, TypeOK
          <6>2. /\ DOMAIN bucket' = DOMAIN bucket \cup {Part(chunk[w])}
                /\ bucket'[Part(chunk[w])] = disk[chunk[w]]
                /\ \A o \in DOMAIN bucket : o # Part(chunk[w]) => bucket'[o] = bucket[o]
            BY <6>1 DEF Put
          <6>3. Part(chunk[w]) \in Range(tmpObjs)
            BY <4>4, <6>1 DEF ChunksInv, Custody
          <6> QED BY <3>1, <4>4, <6>1, <6>2, <6>3, HoldingKeepsChunks DEF Busy
        <5>4. CASE ConnectFails(w) \/ UploadFails(w)
          <6>1. /\ Retry(w) /\ wpc[w] \in {"connect", "copy"}
                /\ UNCHANGED <<written, part, disk, chunk, tmpObjs>>
                /\ \/ bucket' = bucket
                   \/ bucket' = Put(bucket, Part(chunk[w]), disk[chunk[w]])
            BY <5>4 DEF ConnectFails, UploadFails
          <6>2. wpc'[w] = "connect"
            BY <3>3, <6>1 DEF Retry, TypeOK
          <6>3. /\ DOMAIN bucket \subseteq DOMAIN bucket'
                /\ \A o \in DOMAIN bucket : o # Part(chunk[w]) => bucket'[o] = bucket[o]
            BY <6>1 DEF Put
          <6> QED BY <3>1, <4>1, <4>4, <6>1, <6>2, <6>3, HoldingKeepsChunks DEF Busy
        <5>5. CASE RemoveFile(w)
          BY <4>4, <5>5, RemoveKeepsChunks
        <5> QED BY <2>8, <3>3, <5>1, <5>2, <5>3, <5>4, <5>5
                DEF WorkerStep, PermissionDenied
      <4> QED BY <2>0, <2>a, <3>1, <4>1, <4>2, <4>3, <4>4
    <3> QED BY <3>1, <3>2, <3>3
  <2>9. CASE UNCHANGED vars \/ Terminating
    <3>1. UNCHANGED vars
      BY <2>9 DEF Terminating
    <3>2. UNCHANGED <<written, pc, round, part, disk, wpc, chunk, tmpObjs, bucket>>
      BY <3>1 DEF vars, writerVars, workerVars, closeVars
    <3>3. ChunksInv => ChunksInv'
      BY <3>2, QuietStep
    <3> QED BY <2>0, <2>a, <3>2, <3>3 DEF Uploading
  <2> QED BY <2>1, <2>2, <2>3, <2>4, <2>5, <2>6, <2>7, <2>8, <2>9
          DEF Next, WriterStep
<1> QED BY <1>1, <1>2, TypeCorrect, PTL DEF Spec

\* When Close starts composing, every slice accepted by Write is in a stored
\* object that it will compose: uploadWorker loses no chunk, whatever fails.
THEOREM NothingLostInUpload == Spec => []AllUploaded
<1>1. TypeOK /\ UploadInv => AllUploaded
  <2> SUFFICES ASSUME TypeOK, UploadInv, pc = "compose", round = 0,
                      NEW k \in 1..Len(written)
               PROVE  \E i \in DOMAIN tmpObjs :
                        tmpObjs[i] \in DOMAIN bucket /\ k \in Range(bucket[tmpObjs[i]])
    BY DEF AllUploaded
  <2>1. PICK p \in 0..(part - 1) : In(k, p)
    BY DEF UploadInv, Uploading
  <2>2. ~Open(p) /\ ~Held(p)
    BY DEF UploadInv, Open, Filling, Held, Busy
  <2>3. /\ Part(p) \in Range(tmpObjs) /\ Part(p) \in DOMAIN bucket
        /\ k \in Range(bucket[Part(p)])
    BY <2>1, <2>2 DEF In
  <2> QED BY <2>3 DEF Range
<1> QED BY <1>1, TypeCorrect, UploadInvariant, PTL

\* Every chunk file on the local disk belongs to a busy worker or is the one
\* being filled, whatever fails except os.Remove.
THEOREM FileInvariant == Spec => []FileInv
<1>1. Init => FileInv
  <2> SUFFICES ASSUME Init PROVE DOMAIN disk = {}
    BY DEF FileInv
  <2> QED BY DEF Init
<1>2. TypeOK /\ FileInv /\ [Next]_vars => FileInv'
  <2> SUFFICES ASSUME TypeOK, FileInv, [Next]_vars, "remove" \notin Faults,
                      NEW p \in DOMAIN disk'
               PROVE  Held(p)' \/ (p = part' - 1 /\ pc' # "newChunk")
    BY DEF FileInv
  <2>0. part \in Nat /\ \A q \in DOMAIN disk : Held(q) \/ (q = part - 1 /\ pc # "newChunk")
    BY DEF TypeOK, FileInv
  <2>1. ASSUME NEW n \in WriteSizes, Write(n) PROVE p = part' - 1 \/ Held(p)'
    <3>1. Held(p) <=> Held(p)'
      BY <2>1 DEF Write, workerVars, Held, Busy
    <3>2. CASE part = 0
      <4>1. DOMAIN disk \subseteq 0..(0 - 1)
        BY <3>2 DEF TypeOK
      <4>2. DOMAIN disk' = DOMAIN disk \cup {0} /\ part' = 1
        BY <2>1, <3>2 DEF Write, Put
      <4> QED BY <4>1, <4>2
    <3>3. CASE part # 0
      BY <2>0, <2>1, <3>1, <3>3 DEF Write
    <3> QED BY <3>2, <3>3
  <2>2. CASE NewChunk
    <3>1. Held(p) <=> Held(p)'
      BY <2>2 DEF NewChunk, workerVars, Held, Busy
    <3>2. DOMAIN disk' = DOMAIN disk \cup {part} /\ part' - 1 = part /\ pc = "newChunk"
      BY <2>0, <2>2 DEF NewChunk, Put
    <3> QED BY <2>0, <2>2, <3>1, <3>2 DEF NewChunk
  <2>3. CASE AppendSlice
    <3>1. Held(p) <=> Held(p)'
      BY <2>3 DEF AppendSlice, workerVars, Held, Busy
    <3> QED BY <2>0, <2>3, <3>1 DEF AppendSlice
  <2>4. CASE DiskFails \/ Close \/ CloseUpload \/ WaitEnds \/ CloseClientFails \/ Fatal
             \/ ComposeBatch \/ CopyLast \/ DeleteSource \/ RoundEnds
             \/ UNCHANGED vars \/ Terminating
    <3>1. UNCHANGED <<part, disk, wpc, chunk>> /\ (pc' = pc \/ pc' # "newChunk")
      BY <2>4 DEF DiskFails, Close, CloseUpload, WaitEnds, CloseClientFails, Fatal,
                  ComposeBatch, ComposeInto, CopyLast, DeleteSource, RoundEnds, Terminating, vars,
                  writerVars, workerVars
    <3>2. Held(p) <=> Held(p)'
      BY <3>1 DEF Held, Busy
    <3> QED BY <2>0, <3>1, <3>2
  <2>5. ASSUME NEW w \in Worker, Send(w) PROVE Held(p)' \/ (p = part' - 1 /\ pc' # "newChunk")
    <3>1. /\ UNCHANGED <<part, disk>> /\ ~Busy(w) /\ Busy(w)' /\ chunk'[w] = part - 1
          /\ \A v \in Worker : v # w => wpc'[v] = wpc[v] /\ chunk'[v] = chunk[v]
      BY <2>5 DEF Send, Busy, TypeOK
    <3>2. Held(p) \/ p = part - 1 => Held(p)'
      BY <3>1 DEF Held, Busy
    <3> QED BY <2>0, <3>1, <3>2
  <2>6. ASSUME NEW w \in Worker, WorkerStep(w), ~Send(w)
        PROVE  Held(p)' \/ (p = part' - 1 /\ pc' # "newChunk")
    <3>1. /\ UNCHANGED <<part, chunk>> /\ pc' \in {pc, "exited"}
          /\ \A v \in Worker : v # w => wpc'[v] = wpc[v]
      <4>1. CASE ConnectFails(w) \/ UploadFails(w)
        <5>1. Retry(w) /\ UNCHANGED <<part, chunk>>
          BY <4>1 DEF ConnectFails, UploadFails
        <5> QED BY <5>1, RetryType DEF TypeOK
      <4>2. CASE WorkerEnds(w) \/ Register(w) \/ Upload(w) \/ PermissionDenied(w)
                   \/ RemoveFile(w)
        BY <4>2 DEF WorkerEnds, Register, Upload, PermissionDenied, RemoveFile,
                    writerVars, workerVars, TypeOK
      <4> QED BY <2>6, <4>1, <4>2 DEF WorkerStep
    <3>2. CASE RemoveFile(w)
      <4>1. p \in DOMAIN disk /\ p # chunk[w]
        BY <3>2 DEF RemoveFile, Drop
      <4>2. Held(p) => Held(p)'
        BY <3>1, <4>1 DEF Held, Busy
      <4> QED BY <2>0, <3>1, <4>1, <4>2
    <3>3. CASE ~RemoveFile(w)
      <4>1. UNCHANGED disk /\ (Busy(w) => Busy(w)')
        <5>1. CASE ConnectFails(w) \/ UploadFails(w)
          <6>1. Retry(w) /\ UNCHANGED disk
            BY <5>1 DEF ConnectFails, UploadFails
          <6> QED BY <6>1, RetryType DEF TypeOK, Busy
        <5>2. CASE WorkerEnds(w) \/ Register(w) \/ Upload(w) \/ PermissionDenied(w)
          BY <5>2 DEF WorkerEnds, Register, Upload, PermissionDenied, workerVars,
                      Busy, TypeOK
        <5> QED BY <2>6, <3>3, <5>1, <5>2 DEF WorkerStep
      <4>2. Held(p) => Held(p)'
        BY <3>1, <4>1 DEF Held, Busy
      <4> QED BY <2>0, <3>1, <4>1, <4>2
    <3> QED BY <3>2, <3>3
  <2>7. ASSUME NEW n \in WriteSizes, Write(n) PROVE pc' # "newChunk"
    BY <2>7 DEF Write
  <2> QED BY <2>1, <2>2, <2>3, <2>4, <2>5, <2>6, <2>7 DEF Next, WriterStep, NewChunk,
             AppendSlice
<1> QED BY <1>1, <1>2, TypeCorrect, PTL DEF Spec

\* The unbuffered channel bounds the local disk: one chunk file for each
\* worker and one for the writer.
THEOREM FewChunkFiles == Spec => []FilesBounded
<1>1. FileInv => FilesBounded
  <2> SUFFICES ASSUME FileInv, "remove" \notin Faults
               PROVE  Cardinality(DOMAIN disk) <= Cardinality(Worker) + 1
    BY DEF FilesBounded
  <2> DEFINE H == {chunk[w] : w \in Worker}
  <2>1. IsFiniteSet(H) /\ Cardinality(H) <= Cardinality(Worker)
    <3>1. [w \in Worker |-> chunk[w]] \in Surjection(Worker, H)
      BY DEF Surjection
    <3> QED BY <3>1, FS_Surjection, WorkerAssumption
  <2>2. /\ IsFiniteSet(H \cup {part - 1})
        /\ Cardinality(H \cup {part - 1}) <= Cardinality(H) + 1
    <3> HIDE DEF H
    <3>1. Cardinality(H) \in Nat
      BY <2>1, FS_CardinalityType
    <3>2. Cardinality(H \cup {part - 1}) =
            IF part - 1 \in H THEN Cardinality(H) ELSE Cardinality(H) + 1
      BY <2>1, FS_AddElement
    <3>3. IsFiniteSet(H \cup {part - 1})
      BY <2>1, FS_AddElement
    <3> QED BY <3>1, <3>2, <3>3
  <2>3. DOMAIN disk \in SUBSET (H \cup {part - 1})
    BY DEF FileInv, Held
  <2>4. Cardinality(DOMAIN disk) <= Cardinality(H \cup {part - 1})
    BY <2>2, <2>3, FS_Subset
  <2>5. /\ Cardinality(H) \in Nat /\ Cardinality(Worker) \in Nat
        /\ Cardinality(H \cup {part - 1}) \in Nat
        /\ IsFiniteSet(DOMAIN disk)
    BY <2>1, <2>2, <2>3, FS_CardinalityType, FS_Subset, WorkerAssumption
  <2>6. Cardinality(DOMAIN disk) \in Nat
    BY <2>5, FS_CardinalityType
  <2> HIDE DEF H
  <2> QED BY <2>1, <2>2, <2>4, <2>5, <2>6
<1> QED BY <1>1, FileInvariant, PTL

(***************************************************************************)
(* What a concatenation of sequences holds, and what FlattenSeq makes of a *)
(* sequence of them: FlattenSeq is a recursive function, unfolded here,    *)
(* and an induction on the natural numbers is an argument about the least  *)
(* number for which a fact fails.                                          *)
(***************************************************************************)

\* f holds the concatenations of the first sequences of s.
Unfolds(f, s, n) ==
    f = [i \in 1..n |-> IF i = 1 THEN s[i] ELSE f[i-1] \o s[i]]

LEMMA FlattenIs ==
  ASSUME NEW s, Len(s) # 0
  PROVE FlattenSeq(s) = (CHOOSE f : Unfolds(f, s, Len(s)))[Len(s)]
BY DEF FlattenSeq, Unfolds

\* Smallest counterexample: the form of induction that is used here.
LEMMA LeastOf ==
  ASSUME NEW T \in SUBSET Nat, T # {}
  PROVE  \E x \in T : \A y \in T : x =< y
<1>1. PICK x \in T : \A y \in T : ~(<<y, x>> \in OpToRel(<, Nat))
  BY NatLessThanWellFounded, WFMin
<1>2. ASSUME NEW y \in T PROVE x =< y
  <2>1. x \in Nat /\ y \in Nat /\ <<y, x>> \in Nat \X Nat
    OBVIOUS
  <2>2. y < x => <<y, x>> \in {ss \in Nat \X Nat : ss[1] < ss[2]}
    BY <2>1
  <2>3. y < x => <<y, x>> \in OpToRel(<, Nat)
    BY <2>2 DEF OpToRel
  <2>4. ~(y < x)
    BY <1>1, <2>3
  <2> QED
    BY <2>1, <2>4
<1> QED
  BY <1>2

LEMMA UnfoldsExists ==
  ASSUME NEW s, NEW n \in Nat
  PROVE  \E f : Unfolds(f, s, n)
<1> DEFINE T == {m \in Nat : ~ \E f : Unfolds(f, s, m)}
<1>1. ASSUME T # {} PROVE FALSE
  <2>1. PICK m \in T : \A y \in T : m =< y
    BY <1>1, LeastOf
  <2>2. CASE m = 0
    <3>1. Unfolds([i \in {} |-> 0], s, 0)
      BY DEF Unfolds
    <3> QED
      BY <2>1, <2>2, <3>1
  <2>3. CASE m # 0
    <3>1. m - 1 \in Nat /\ m - 1 \notin T
      BY <2>1, <2>3
    <3>2. PICK g : Unfolds(g, s, m - 1)
      BY <3>1
    <3> DEFINE f == [i \in 1..m |-> IF i = m THEN IF m = 1 THEN s[1] ELSE g[m-1] \o s[m]
                                    ELSE g[i]]
    <3>3. \A i \in 1..m : f[i] = IF i = 1 THEN s[i] ELSE f[i-1] \o s[i]
      <4> TAKE i \in 1..m
      <4>1. \A j \in 1..(m-1) : g[j] = IF j = 1 THEN s[j] ELSE g[j-1] \o s[j]
        BY <3>2 DEF Unfolds
      <4>2. CASE i = m
        BY <2>3, <4>2
      <4>3. CASE i # m
        <5>1. i \in 1..(m-1) /\ (i # 1 => i - 1 \in 1..(m-1) /\ i - 1 \in 1..m /\ i - 1 # m)
          BY <3>1, <4>3
        <5> QED
          BY <4>1, <4>3, <5>1
      <4> QED
        BY <4>2, <4>3
    <3>4. Unfolds(f, s, m)
      <4>1. f = [i \in 1..m |-> f[i]]
        OBVIOUS
      <4>2. [i \in 1..m |-> f[i]] = [i \in 1..m |-> IF i = 1 THEN s[i] ELSE f[i-1] \o s[i]]
        <5> HIDE DEF f
        <5> QED
          BY <3>3
      <4> QED
        BY <4>1, <4>2 DEF Unfolds
    <3> QED
      BY <2>1, <3>4
  <2> QED
    BY <2>2, <2>3
<1> QED
  BY <1>1

LEMMA FlattenUnfolds ==
  ASSUME NEW s, Len(s) \in Nat \ {0}
  PROVE  \E f : Unfolds(f, s, Len(s)) /\ FlattenSeq(s) = f[Len(s)]
BY FlattenIs, UnfoldsExists

\* What a concatenation holds.
LEMMA RangeOfConcat ==
  ASSUME NEW S, NEW a \in Seq(S), NEW b \in Seq(S)
  PROVE  /\ a \o b \in Seq(S)
         /\ Range(a \o b) = Range(a) \cup Range(b)
         /\ IsInjective(a) /\ IsInjective(b) /\ Range(a) \cap Range(b) = {}
              => IsInjective(a \o b)
<1> DEFINE c == a \o b
<1>1. /\ c \in Seq(S) /\ Len(c) = Len(a) + Len(b)
      /\ Len(a) \in Nat /\ Len(b) \in Nat
      /\ DOMAIN a = 1..Len(a) /\ DOMAIN b = 1..Len(b) /\ DOMAIN c = 1..Len(c)
  BY ConcatProperties, LenProperties
<1>2. \A i \in DOMAIN c : c[i] = IF i <= Len(a) THEN a[i] ELSE b[i - Len(a)]
  BY <1>1, ConcatProperties
<1> HIDE DEF c
<1>3. \A i \in DOMAIN c : \/ i \in DOMAIN a /\ c[i] = a[i]
                          \/ i - Len(a) \in DOMAIN b /\ c[i] = b[i - Len(a)]
                             /\ i \notin DOMAIN a
  BY <1>1, <1>2
<1>4. \A i \in DOMAIN a : i \in DOMAIN c /\ c[i] = a[i]
  BY <1>1, <1>2
<1>5. \A i \in DOMAIN b : i + Len(a) \in DOMAIN c /\ c[i + Len(a)] = b[i]
  <2> TAKE i \in DOMAIN b
  <2>1. i + Len(a) \in DOMAIN c /\ ~(i + Len(a) <= Len(a)) /\ i + Len(a) - Len(a) = i
    BY <1>1
  <2> QED
    BY <1>2, <2>1
<1>6. Range(c) = Range(a) \cup Range(b)
  BY <1>3, <1>4, <1>5 DEF Range
<1>7. ASSUME IsInjective(a), IsInjective(b), Range(a) \cap Range(b) = {},
             NEW i \in DOMAIN c, NEW j \in DOMAIN c, c[i] = c[j]
      PROVE  i = j
  <2>1. CASE i \in DOMAIN a /\ j \in DOMAIN a
    BY <1>4, <1>7, <2>1 DEF IsInjective
  <2>2. CASE i \notin DOMAIN a /\ j \notin DOMAIN a
    <3>1. i - Len(a) = j - Len(a)
      BY <1>3, <1>7, <2>2 DEF IsInjective
    <3> QED
      BY <1>1, <3>1
  <2>3. CASE ~(i \in DOMAIN a <=> j \in DOMAIN a)
    BY <1>3, <1>4, <1>7, <2>3 DEF Range
  <2> QED
    BY <2>1, <2>2, <2>3
<1> QED
  BY <1>1, <1>6, <1>7 DEF c, IsInjective

\* The sequences have no element twice and none in common.
Apart(s) ==
    /\ \A i \in DOMAIN s : IsInjective(s[i])
    /\ \A i, j \in DOMAIN s : i # j => Range(s[i]) \cap Range(s[j]) = {}

\* The numbers grow along each sequence and from each sequence to the next.
Ascends(s) == \A i, j \in DOMAIN s : i < j => s[i] < s[j]
Before(a, b) == \A x \in Range(a), y \in Range(b) : x < y

Rising(s) ==
    /\ \A i \in DOMAIN s : Ascends(s[i])
    /\ \A i, j \in DOMAIN s : i < j => Before(s[i], s[j])

LEMMA ConcatAscends ==
  ASSUME NEW a \in Seq(Nat), NEW b \in Seq(Nat), Ascends(a), Ascends(b), Before(a, b)
  PROVE  Ascends(a \o b)
<1> DEFINE c == a \o b
<1> PICK m \in Nat : m = Len(a)
  BY LenProperties
<1> PICK n \in Nat : n = Len(b)
  BY LenProperties
<1>1. /\ c \in Seq(Nat) /\ Len(c) = m + n
      /\ DOMAIN a = 1..m /\ DOMAIN b = 1..n /\ DOMAIN c = 1..(m + n)
  BY ConcatProperties, LenProperties
<1>2. \A i \in 1..(m + n) : c[i] = IF i <= m THEN a[i] ELSE b[i - m]
  BY ConcatProperties
<1> HIDE DEF c
<1>3. ASSUME NEW i \in 1..(m + n), NEW j \in 1..(m + n), i < j
      PROVE  c[i] < c[j]
  <2>1. CASE j <= m
    <3>1. i \in 1..m /\ j \in 1..m /\ i <= m
      BY <1>3, <2>1
    <3> QED
      BY <1>1, <1>2, <1>3, <2>1, <3>1 DEF Ascends
  <2>2. CASE i <= m /\ ~(j <= m)
    <3>1. i \in 1..m /\ j - m \in 1..n
      BY <2>2
    <3>2. a[i] \in Range(a) /\ b[j - m] \in Range(b)
      BY <1>1, <3>1 DEF Range
    <3> QED
      BY <1>2, <2>2, <3>2 DEF Before
  <2>3. CASE ~(i <= m)
    <3>1. i - m \in 1..n /\ j - m \in 1..n /\ i - m < j - m /\ ~(j <= m)
      BY <1>3, <2>3
    <3> QED
      BY <1>1, <1>2, <2>3, <3>1 DEF Ascends
  <2> QED
    BY <2>1, <2>2, <2>3
<1> QED
  BY <1>1, <1>3 DEF c, Ascends

\* What FlattenSeq returns.
LEMMA FlattenHolds ==
  ASSUME NEW s \in Seq(Seq(Nat))
  PROVE  /\ FlattenSeq(s) \in Seq(Nat)
         /\ Range(FlattenSeq(s)) = UNION {Range(s[i]) : i \in DOMAIN s}
         /\ Apart(s) => IsInjective(FlattenSeq(s))
         /\ Rising(s) => Ascends(FlattenSeq(s))
<1>0. Len(s) \in Nat /\ DOMAIN s = 1..Len(s) /\ \A i \in 1..Len(s) : s[i] \in Seq(Nat)
  BY LenProperties, ElementOfSeq
<1>1. CASE Len(s) = 0
  <2>1. s = <<>> /\ FlattenSeq(s) = s
    BY <1>1, EmptySeq DEF FlattenSeq
  <2>2. DOMAIN s = {} /\ <<>> \in Seq(Nat)
    BY <2>1
  <2>3. /\ Range(FlattenSeq(s)) = {} /\ IsInjective(FlattenSeq(s))
        /\ Ascends(FlattenSeq(s))
    BY <2>1, <2>2 DEF Range, IsInjective, Ascends
  <2> QED
    BY <2>1, <2>2, <2>3
<1>2. CASE Len(s) # 0
  <2> DEFINE n == Len(s)
             First(m) == UNION {Range(s[i]) : i \in 1..m}
  <2>1. PICK f : Unfolds(f, s, n) /\ FlattenSeq(s) = f[n]
    BY <1>0, <1>2, FlattenUnfolds
  <2>2. \A i \in 1..n : f[i] = IF i = 1 THEN s[i] ELSE f[i - 1] \o s[i]
    BY <2>1 DEF Unfolds
  <2> DEFINE T == {m \in 1..n : ~ (/\ f[m] \in Seq(Nat)
                                   /\ Range(f[m]) = First(m)
                                   /\ Apart(s) => IsInjective(f[m])
                                   /\ Rising(s) => Ascends(f[m]))}
  <2>3. ASSUME T # {} PROVE FALSE
    <3>0. T \in SUBSET Nat
      BY <1>0
    <3>1. PICK m \in T : \A k \in T : m =< k
      BY <2>3, <3>0, LeastOf
    <3>a. m \in 1..n /\ n \in Nat
      BY <1>0
    <3>2. CASE m = 1
      <4>1. f[m] = s[1] /\ s[1] \in Seq(Nat) /\ 1 \in DOMAIN s
        BY <1>0, <2>2, <3>a, <3>2
      <4>2. First(1) = Range(s[1])
        OBVIOUS
      <4> QED
        BY <3>2, <4>1, <4>2 DEF Apart, Rising
    <3>3. CASE m # 1
      <4>1. m - 1 \in 1..n /\ ~(m =< m - 1)
        BY <3>a, <3>3
      <4>2. /\ f[m - 1] \in Seq(Nat)
            /\ Range(f[m - 1]) = First(m - 1)
            /\ Apart(s) => IsInjective(f[m - 1])
            /\ Rising(s) => Ascends(f[m - 1])
        BY <3>1, <4>1
      <4>3. f[m] = f[m - 1] \o s[m] /\ s[m] \in Seq(Nat)
        BY <1>0, <2>2, <3>a, <3>3
      <4>4. First(m) = First(m - 1) \cup Range(s[m])
        <5>1. 1..m = 1..(m - 1) \cup {m}
          BY <3>a
        <5> QED
          BY <5>1
      <4>5. Apart(s) => IsInjective(s[m]) /\ First(m - 1) \cap Range(s[m]) = {}
        <5>1. \A i \in 1..(m - 1) : i \in DOMAIN s /\ i # m
          BY <1>0, <3>a
        <5>2. m \in DOMAIN s
          BY <1>0, <3>a
        <5> QED
          BY <5>1, <5>2 DEF Apart
      <4>a. Rising(s) => Ascends(s[m]) /\ \A i \in 1..(m - 1) : Before(s[i], s[m])
        <5>1. m \in DOMAIN s /\ \A i \in 1..(m - 1) : i \in DOMAIN s /\ i < m
          BY <1>0, <3>a
        <5> QED
          BY <5>1 DEF Rising
      <4>b. Rising(s) => Before(f[m - 1], s[m])
        BY <4>2, <4>a DEF Before
      <4> HIDE DEF First
      <4>6. /\ f[m] \in Seq(Nat) /\ Range(f[m]) = First(m)
            /\ Apart(s) => IsInjective(f[m])
        BY <4>2, <4>3, <4>4, <4>5, RangeOfConcat
      <4>7. Rising(s) => Ascends(f[m])
        BY <4>2, <4>3, <4>a, <4>b, ConcatAscends
      <4> QED
        BY <4>6, <4>7
    <3> QED
      BY <3>2, <3>3
  <2>4. n \in 1..n
    BY <1>0, <1>2
  <2>5. /\ f[n] \in Seq(Nat) /\ Range(f[n]) = First(n)
        /\ Apart(s) => IsInjective(f[n])
        /\ Rising(s) => Ascends(f[n])
    BY <2>3, <2>4
  <2> QED
    BY <1>0, <2>1, <2>5
<1> QED
  BY <1>1, <1>2

(***************************************************************************)
(* Where the chunks and the objects are.  The strengthening of NoByteLost: *)
(* a chunk has one keeper and its object holds what its file holds         *)
(* (KeeperInv), the names of composed objects are new (NamesInv), and what *)
(* is being deleted is in the object that was composed of it (DeleteInv).  *)
(***************************************************************************)

\* The keeper of a chunk is the writer or one worker; what is stored of a chunk
\* that still has its file is what the file holds.
KeeperInv ==
    /\ part > 0 /\ pc \in Filling => part - 1 \in DOMAIN disk
    /\ \A w \in Worker : Busy(w) =>
        /\ chunk[w] \in DOMAIN disk /\ chunk[w] < part /\ ~Open(chunk[w])
        /\ \A v \in Worker : Busy(v) /\ chunk[v] = chunk[w] => v = w
    /\ \A w \in Worker : wpc[w] = "remove" => Part(chunk[w]) \in DOMAIN bucket
    /\ \A p \in Nat : Part(p) \in DOMAIN bucket =>
        /\ p < part /\ ~Open(p)
        /\ p \in DOMAIN disk => bucket[Part(p)] = disk[p]
    /\ pc \in {"compose", "delete", "deleteLast", "closed"} =>
        \A w \in Worker : wpc[w] = "done"


\* The writer goes on, the chunks stay where they are.
LEMMA QuietKeeper ==
    ASSUME KeeperInv, UNCHANGED <<part, disk, wpc, chunk, bucket>>,
           pc' \in Filling => pc \in Filling,
           pc' \in {"compose", "delete", "deleteLast", "closed"} =>
               \A w \in Worker : wpc[w] = "done"
    PROVE  KeeperInv'
BY DEF KeeperInv, Busy, Open

\* Another chunk is opened.
LEMMA OpeningKeeper ==
    ASSUME TypeOK, KeeperInv, pc \notin Filling \/ part = 0, pc' \in Filling,
           part' = part + 1, disk' = Put(disk, part, <<>>),
           UNCHANGED <<wpc, chunk, bucket>>
    PROVE  KeeperInv'
<1>1. /\ DOMAIN disk' = DOMAIN disk \cup {part}
      /\ \A p \in DOMAIN disk : p # part => disk'[p] = disk[p]
      /\ part \in Nat
  BY DEF TypeOK, Put
<1>2. \A p : Open(p)' <=> p = part
  BY <1>1 DEF Open
<1>3. \A w \in Worker : Busy(w)' <=> Busy(w)
  BY DEF Busy
<1>4. \A w \in Worker : Busy(w) =>
        chunk[w] \in DOMAIN disk /\ chunk[w] < part /\ chunk[w] # part
  BY <1>1 DEF KeeperInv, TypeOK
<1>5. \A p \in Nat : Part(p) \in DOMAIN bucket => p < part /\ p # part
  BY <1>1 DEF KeeperInv
<1>6. \A p \in Nat : p < part => p < part + 1
  BY <1>1
<1>7. pc' \notin {"compose", "delete", "deleteLast", "closed"} /\ part' - 1 = part
  BY <1>1 DEF Filling
<1>8. ASSUME NEW w \in Worker, Busy(w)'
      PROVE  /\ chunk'[w] \in DOMAIN disk' /\ chunk'[w] < part' /\ ~Open(chunk[w])'
             /\ \A v \in Worker : Busy(v)' /\ chunk'[v] = chunk'[w] => v = w
  BY <1>1, <1>2, <1>3, <1>4, <1>6, <1>8 DEF KeeperInv, TypeOK
<1>9. ASSUME NEW p \in Nat, Part(p) \in DOMAIN bucket'
      PROVE  /\ p < part' /\ ~Open(p)' 
             /\ p \in DOMAIN disk' => bucket'[Part(p)] = disk'[p]
  BY <1>1, <1>2, <1>5, <1>6, <1>9 DEF KeeperInv
<1> QED
  BY <1>1, <1>7, <1>8, <1>9 DEF KeeperInv

\* A worker stores its chunk, whatever it does then.
LEMMA StoringKeeper ==
    ASSUME TypeOK, KeeperInv, NEW w \in Worker, Busy(w),
           UNCHANGED <<part, disk, chunk>>, pc' = pc \/ pc' = "exited",
           wpc' \in {[wpc EXCEPT ![w] = "remove"], [wpc EXCEPT ![w] = "connect"], wpc},
           wpc[w] # "remove",
           \/ bucket' = Put(bucket, Part(chunk[w]), disk[chunk[w]])
           \/ bucket' = bucket /\ wpc' # [wpc EXCEPT ![w] = "remove"]
    PROVE  KeeperInv'
<1>1. chunk[w] \in DOMAIN disk /\ chunk[w] < part /\ ~Open(chunk[w]) /\ chunk[w] \in Nat
  BY DEF KeeperInv, TypeOK
<1>2. /\ DOMAIN bucket \subseteq DOMAIN bucket'
      /\ \A p \in Nat : Part(p) \in DOMAIN bucket' =>
            \/ Part(p) \in DOMAIN bucket /\ bucket'[Part(p)] = bucket[Part(p)]
            \/ p = chunk[w] /\ bucket'[Part(p)] = disk[p]
  BY <1>1, PartInjective DEF Put
<1>3. \A v \in Worker : Busy(v)' <=> Busy(v)
  BY DEF Busy, TypeOK
<1>4. \A p : Open(p)' => Open(p)
  BY DEF Open, Filling
<1>5. pc' \notin {"compose", "delete", "deleteLast", "closed"}
  BY DEF KeeperInv, Busy
<1>6. ASSUME NEW v \in Worker, wpc'[v] = "remove"
      PROVE  Part(chunk'[v]) \in DOMAIN bucket'
  <2>1. CASE wpc[v] = "remove"
    BY <1>2, <2>1 DEF KeeperInv
  <2>2. CASE wpc[v] # "remove"
    <3>1. v = w /\ wpc' = [wpc EXCEPT ![w] = "remove"]
      BY <1>6, <2>2 DEF TypeOK
    <3> QED
      BY <3>1 DEF Put
  <2> QED
    BY <2>1, <2>2
<1>7. ASSUME NEW p \in Nat, Part(p) \in DOMAIN bucket'
      PROVE  /\ p < part' /\ ~Open(p)'
             /\ p \in DOMAIN disk' => bucket'[Part(p)] = disk'[p]
  BY <1>1, <1>2, <1>4, <1>7 DEF KeeperInv
<1>8. part' > 0 /\ pc' \in Filling => part' - 1 \in DOMAIN disk'
  BY DEF KeeperInv, Filling
<1>9. ASSUME NEW v \in Worker, Busy(v)'
      PROVE  /\ chunk'[v] \in DOMAIN disk' /\ chunk'[v] < part' /\ ~Open(chunk[v])'
             /\ \A u \in Worker : Busy(u)' /\ chunk'[u] = chunk'[v] => u = v
  BY <1>3, <1>4, <1>9 DEF KeeperInv
<1> QED
  BY <1>5, <1>6, <1>7, <1>8, <1>9 DEF KeeperInv

\* Every step keeps the keepers.
LEMMA KeeperStep ==
    ASSUME TypeOK, KeeperInv, [Next]_vars
    PROVE  KeeperInv'
<1>1. ASSUME NEW n \in WriteSizes, Write(n) PROVE KeeperInv'
  <2>1. pc \in Filling /\ pc' \in Filling /\ UNCHANGED <<wpc, chunk, bucket>>
    BY <1>1 DEF Write, Filling, workerVars
  <2>2. CASE part = 0
    BY <1>1, <2>1, <2>2, OpeningKeeper DEF Write
  <2>3. CASE part # 0
    BY <1>1, <2>1, <2>3, QuietKeeper DEF Write, Filling
  <2> QED
    BY <2>2, <2>3
<1>2. CASE NewChunk
  BY <1>2, OpeningKeeper DEF NewChunk, Filling, workerVars
<1>3. CASE AppendSlice
  <2>1. /\ pc = "append" /\ pc' = "write" /\ UNCHANGED <<part, wpc, chunk, bucket>>
        /\ disk' = [disk EXCEPT ![part - 1] = Append(@, Len(written) + 1)]
    BY <1>3 DEF AppendSlice, workerVars
  <2>2. /\ DOMAIN disk' = DOMAIN disk
        /\ \A p \in DOMAIN disk : p # part - 1 => disk'[p] = disk[p]
    BY <2>1
  <2>3. Open(part - 1) /\ \A p : Open(p)' <=> Open(p)
    BY <2>1 DEF Open, Filling
  <2> QED
    BY <2>1, <2>2, <2>3 DEF KeeperInv, Busy, Filling
<1>4. CASE DiskFails \/ Close \/ CloseUpload \/ WaitEnds \/ CloseClientFails \/ Fatal
           \/ RoundEnds
  <2>1. UNCHANGED <<part, disk, wpc, chunk, bucket>>
    BY <1>4 DEF DiskFails, Close, CloseUpload, WaitEnds, CloseClientFails, Fatal,
       RoundEnds, workerVars
  <2>2. pc' \in Filling => pc \in Filling
    BY <1>4 DEF DiskFails, Close, CloseUpload, WaitEnds, CloseClientFails, Fatal,
       RoundEnds, Filling
  <2>3. pc' \in {"compose", "delete", "deleteLast", "closed"} =>
               \A w \in Worker : wpc[w] = "done"
    BY <1>4 DEF DiskFails, Close, CloseUpload, WaitEnds, CloseClientFails, Fatal,
       RoundEnds, KeeperInv
  <2> QED
    BY <2>1, <2>2, <2>3, QuietKeeper
<1>5. CASE ComposeBatch \/ CopyLast \/ DeleteSource
  <2>1. /\ UNCHANGED <<part, disk, wpc, chunk>> /\ pc' \notin Filling
        /\ \A w \in Worker : wpc[w] = "done"
    BY <1>5 DEF ComposeBatch, ComposeInto, CopyLast, DeleteSource, workerVars, Filling,
       KeeperInv
  <2>2. \A p : Part(p) \in DOMAIN bucket' =>
            Part(p) \in DOMAIN bucket /\ bucket'[Part(p)] = bucket[Part(p)]
    <3>1. CASE bucket' = bucket
      BY <3>1
    <3>2. CASE ComposeBatch /\ bucket' # bucket
      <4>1. \E v : bucket' = Put(bucket, Composed(round), v)
        BY <3>2 DEF ComposeBatch, ComposeInto
      <4>2. \A p : Part(p) # Composed(round)
        BY DEF Part, Composed
      <4> QED
        BY <4>1, <4>2 DEF Put
    <3>3. CASE CopyLast /\ bucket' # bucket
      BY <3>3 DEF Put, CopyLast, Part, Target
    <3>4. CASE DeleteSource /\ bucket' # bucket
      BY <3>4 DEF Drop, DeleteSource
    <3> QED
      BY <1>5, <3>1, <3>2, <3>3, <3>4
  <2> QED
    BY <2>1, <2>2 DEF KeeperInv, Busy, Open
<1>6. ASSUME NEW w \in Worker, Send(w) PROVE KeeperInv'
  <2>1. /\ part \in Nat /\ part > 0 /\ part - 1 \in Nat
        /\ pc \in Filling /\ pc' \in {"newChunk", "closeUpload"}
        /\ UNCHANGED <<part, disk, bucket>>
    BY <1>6 DEF Send, TypeOK, Filling
  <2>2. /\ ~Busy(w) /\ Busy(w)' /\ chunk'[w] = part - 1 /\ wpc'[w] = "connect"
        /\ \A v \in Worker : v # w => wpc'[v] = wpc[v] /\ chunk'[v] = chunk[v]
    BY <1>6 DEF Send, Busy, TypeOK
  <2>3. part - 1 \in DOMAIN disk /\ part - 1 < part
    BY <2>1 DEF KeeperInv
  <2>4. \A v \in Worker : Busy(v) => chunk[v] # part - 1
    BY <2>1 DEF KeeperInv, Open
  <2>5. \A p : ~Open(p)'
    BY <2>1 DEF Open, Filling
  <2>6. \A v \in Worker : v # w => (Busy(v) <=> Busy(v)')
    BY <2>2 DEF Busy
  <2>7. ASSUME NEW v \in Worker, Busy(v)'
        PROVE  /\ chunk'[v] \in DOMAIN disk' /\ chunk'[v] < part'
               /\ \A u \in Worker : Busy(u)' /\ chunk'[u] = chunk'[v] => u = v
    BY <2>1, <2>2, <2>3, <2>4, <2>6, <2>7 DEF KeeperInv
  <2>8. \A v \in Worker : wpc'[v] = "remove" => Part(chunk'[v]) \in DOMAIN bucket'
    BY <2>1, <2>2 DEF KeeperInv
  <2>9. \A p \in Nat : Part(p) \in DOMAIN bucket' =>
            p < part' /\ (p \in DOMAIN disk' => bucket'[Part(p)] = disk'[p])
    BY <2>1 DEF KeeperInv
  <2> QED
    BY <2>1, <2>5, <2>7, <2>8, <2>9 DEF KeeperInv, Filling
<1>7. ASSUME NEW w \in Worker, WorkerEnds(w) PROVE KeeperInv'
  <2>1. /\ UNCHANGED <<pc, part, disk, chunk, bucket>>
        /\ wpc' = [wpc EXCEPT ![w] = "done"] /\ wpc[w] = "recv"
    BY <1>7 DEF WorkerEnds, writerVars
  <2>2. \A v \in Worker : (Busy(v)' <=> Busy(v)) /\ (wpc'[v] = "remove" <=> wpc[v] = "remove")
                          /\ (wpc[v] = "done" => wpc'[v] = "done")
    BY <2>1 DEF Busy, TypeOK
  <2> QED
    BY <2>1, <2>2 DEF KeeperInv, Open
<1>8. ASSUME NEW w \in Worker, Register(w) PROVE KeeperInv'
  <2>1. /\ UNCHANGED <<pc, part, disk, chunk, bucket>>
        /\ wpc' = [wpc EXCEPT ![w] = "copy"] /\ wpc[w] = "connect"
    BY <1>8 DEF Register, writerVars
  <2>2. \A v \in Worker : (Busy(v)' <=> Busy(v)) /\ (wpc'[v] = "remove" <=> wpc[v] = "remove")
                          /\ (wpc[v] = "done" => wpc'[v] = "done")
    BY <2>1 DEF Busy, TypeOK
  <2> QED
    BY <2>1, <2>2 DEF KeeperInv, Open
<1>9. ASSUME NEW w \in Worker, Upload(w) PROVE KeeperInv'
  BY <1>9, StoringKeeper DEF Upload, writerVars, Busy
<1>10. ASSUME NEW w \in Worker, ConnectFails(w) \/ UploadFails(w) PROVE KeeperInv'
  <2>1. /\ Retry(w) /\ wpc[w] \in {"connect", "copy"}
        /\ UNCHANGED <<part, disk, chunk>>
        /\ \/ bucket' = bucket
           \/ bucket' = Put(bucket, Part(chunk[w]), disk[chunk[w]])
    BY <1>10 DEF ConnectFails, UploadFails
  <2>2. /\ pc' = pc \/ pc' = "exited"
        /\ wpc' \in {wpc, [wpc EXCEPT ![w] = "connect"]}
    BY <2>1, RetryType
  <2>3. wpc' # [wpc EXCEPT ![w] = "remove"]
    BY <2>1, <2>2 DEF TypeOK
  <2> QED
    BY <2>1, <2>2, <2>3, StoringKeeper DEF Busy
<1>11. ASSUME NEW w \in Worker, PermissionDenied(w) PROVE KeeperInv'
  BY <1>11, QuietKeeper DEF PermissionDenied, workerVars, Filling
<1>12. ASSUME NEW w \in Worker, RemoveFile(w) PROVE KeeperInv'
  <2>1. /\ UNCHANGED <<pc, part, chunk, bucket>> /\ wpc[w] = "remove"
        /\ wpc' = [wpc EXCEPT ![w] = "recv"]
        /\ disk' = disk \/ disk' = Drop(disk, chunk[w])
    BY <1>12 DEF RemoveFile, writerVars
  <2>2. /\ ~Busy(w)' /\ Busy(w)
        /\ \A v \in Worker : v # w => (Busy(v)' <=> Busy(v)) /\ wpc'[v] = wpc[v]
        /\ wpc'[w] = "recv"
    BY <2>1 DEF Busy, TypeOK
  <2>3. \A p \in DOMAIN disk : p # chunk[w] => p \in DOMAIN disk' /\ disk'[p] = disk[p]
    BY <2>1 DEF Drop
  <2>4. \A p \in DOMAIN disk' : p \in DOMAIN disk /\ disk'[p] = disk[p]
    BY <2>1 DEF Drop
  <2>5. part > 0 /\ pc \in Filling => part - 1 # chunk[w]
    BY <2>2 DEF KeeperInv, Open
  <2>6. \A v \in Worker : Busy(v)' => Busy(v) /\ chunk[v] # chunk[w]
    BY <2>2 DEF KeeperInv
  <2>7. pc \notin {"compose", "delete", "deleteLast", "closed"}
    BY <2>1 DEF KeeperInv
  <2>8. ASSUME NEW v \in Worker, Busy(v)'
        PROVE  /\ chunk'[v] \in DOMAIN disk' /\ chunk'[v] < part' /\ ~Open(chunk[v])'
               /\ \A u \in Worker : Busy(u)' /\ chunk'[u] = chunk'[v] => u = v
    BY <2>1, <2>2, <2>3, <2>6, <2>8 DEF KeeperInv, Open
  <2>9. \A v \in Worker : wpc'[v] = "remove" => Part(chunk'[v]) \in DOMAIN bucket'
    BY <2>1, <2>2 DEF KeeperInv
  <2>10. \A p \in Nat : Part(p) \in DOMAIN bucket' =>
            /\ p < part' /\ ~Open(p)'
            /\ p \in DOMAIN disk' => bucket'[Part(p)] = disk'[p]
    BY <2>1, <2>4 DEF KeeperInv, Open
  <2> QED
    BY <2>1, <2>3, <2>5, <2>7, <2>8, <2>9, <2>10 DEF KeeperInv
<1>13. CASE UNCHANGED vars
  <2>1. UNCHANGED <<pc, part, disk, wpc, chunk, bucket>>
    BY <1>13 DEF vars, writerVars, workerVars
  <2> QED
    BY <2>1, QuietKeeper DEF KeeperInv
<1> QED
  BY <1>1, <1>2, <1>3, <1>4, <1>5, <1>6, <1>7, <1>8, <1>9, <1>10, <1>11, <1>12, <1>13
     DEF Next, WriterStep, WorkerStep, Terminating

\* A composed object is of an earlier round; the target comes with CopyLast.
NamesInv ==
    /\ \A i \in Nat : Composed(i) \in DOMAIN bucket => i < round
    /\ Target \in DOMAIN bucket => pc \in {"deleteLast", "closed", "failed", "exited"}
    /\ pc \in {"deleteLast", "closed"} => Target \in DOMAIN bucket
    /\ \A o \in Range(tmpObjs) : \/ \E p \in Nat : o = Part(p)
                                 \/ \E i \in Nat : o = Composed(i) /\ i < round

\* The object made of what is being deleted.
Goal == IF pc = "deleteLast" THEN Target ELSE Composed(round - 1)

\* What is to be deleted is in that object.
DeleteInv ==
    /\ \A o \in DOMAIN bucket : bucket[o] \in Seq(Nat)
    /\ pc \in {"delete", "deleteLast"} =>
        /\ round > 0 \/ pc = "deleteLast"
        /\ Goal \in DOMAIN bucket
        /\ \A o \in Range(deleting) :
            /\ o # Goal
            /\ o \in DOMAIN bucket => Range(bucket[o]) \subseteq Range(bucket[Goal])

\* The sources of a compose are the first of the registered objects.
LEMMA BatchIs ==
    ASSUME TypeOK
    PROVE  /\ Len(Batch) \in Nat /\ DOMAIN Batch = 1..Len(Batch)
           /\ Len(Batch) <= Len(tmpObjs)
           /\ Len(tmpObjs) \in Nat /\ DOMAIN tmpObjs = 1..Len(tmpObjs)
           /\ Len(Batch) = 1 => Len(tmpObjs) = 1
           /\ \A i \in 1..Len(Batch) : Batch[i] = tmpObjs[i]
           /\ Batch \in Seq(Name)
<1> DEFINE n == Smaller(MaxComponents, Len(tmpObjs))
<1>1. Len(tmpObjs) \in Nat /\ MaxComponents \in Nat /\ MaxComponents > 1
      /\ DOMAIN tmpObjs = 1..Len(tmpObjs)
  BY SizeAssumption, LenProperties DEF TypeOK
<1>2. n \in 0..Len(tmpObjs) /\ (n = 1 => Len(tmpObjs) = 1)
  BY <1>1 DEF Smaller
<1>3. \A i \in 1..Len(tmpObjs) : tmpObjs[i] \in Name
  BY ElementOfSeq DEF TypeOK
<1> HIDE DEF n
<1>4. /\ SubSeq(tmpObjs, 1, n) \in Seq(Name) /\ Len(SubSeq(tmpObjs, 1, n)) = n
      /\ \A i \in 1..n : SubSeq(tmpObjs, 1, n)[i] = tmpObjs[i]
  <2>1. \A i \in 1..n : tmpObjs[i] \in Name
    BY <1>1, <1>2, <1>3
  <2>2. (IF 1 <= n THEN n - 1 + 1 ELSE 0) = n
    BY <1>2
  <2>3. /\ SubSeq(tmpObjs, 1, n) \in Seq(Name)
        /\ Len(SubSeq(tmpObjs, 1, n)) = IF 1 <= n THEN n - 1 + 1 ELSE 0
        /\ \A i \in 1..(n - 1 + 1) : SubSeq(tmpObjs, 1, n)[i] = tmpObjs[1 + i - 1]
    BY <1>1, <1>2, <2>1, SubSeqProperties
  <2> QED
    BY <1>2, <2>3
<1>5. Batch = SubSeq(tmpObjs, 1, n)
  BY DEF Batch, n
<1>6. DOMAIN Batch = 1..Len(Batch)
  BY <1>4, <1>5, LenProperties
<1>7. Len(Batch) = n /\ Batch \in Seq(Name) /\ \A i \in 1..Len(Batch) : Batch[i] = tmpObjs[i]
  BY <1>4, <1>5
<1>8. Len(Batch) \in Nat /\ Len(Batch) <= Len(tmpObjs)
  BY <1>1, <1>2, <1>7
<1> QED
  BY <1>1, <1>2, <1>6, <1>7, <1>8

\* What composing leaves to compose.
Rest == SubSeq(tmpObjs, Len(Batch) + 1, Len(tmpObjs))

LEMMA RestIs ==
    ASSUME TypeOK
    PROVE  /\ Rest \in Seq(Name) /\ Len(Rest) = Len(tmpObjs) - Len(Batch)
           /\ DOMAIN Rest = 1..Len(Rest)
           /\ \A i \in 1..Len(Rest) : /\ Rest[i] = tmpObjs[i + Len(Batch)]
                                      /\ i + Len(Batch) \in DOMAIN tmpObjs
<1>1. /\ Len(Batch) \in Nat /\ Len(Batch) <= Len(tmpObjs)
      /\ Len(tmpObjs) \in Nat /\ DOMAIN tmpObjs = 1..Len(tmpObjs)
  BY BatchIs
<1>2. \A i \in 1..Len(tmpObjs) : tmpObjs[i] \in Name
  BY ElementOfSeq DEF TypeOK
<1> DEFINE m == Len(Batch) + 1
           n == Len(tmpObjs)
<1>3. m \in Nat /\ n \in Nat /\ m >= 1 /\ \A i \in m..n : tmpObjs[i] \in Name
  BY <1>1, <1>2
<1>4. /\ SubSeq(tmpObjs, m, n) \in Seq(Name)
      /\ Len(SubSeq(tmpObjs, m, n)) = IF m <= n THEN n - m + 1 ELSE 0
      /\ \A i \in 1..(n - m + 1) : SubSeq(tmpObjs, m, n)[i] = tmpObjs[m + i - 1]
  <2> HIDE DEF m, n
  <2> QED
    BY <1>3, SubSeqProperties
<1>5. n - m + 1 = Len(tmpObjs) - Len(Batch) /\ (~(m <= n) => n - m + 1 = 0)
  BY <1>1
<1>6. Len(Rest) = Len(tmpObjs) - Len(Batch) /\ Rest \in Seq(Name)
  BY <1>1, <1>4, <1>5 DEF Rest
<1>7. \A i \in 1..Len(Rest) : Rest[i] = tmpObjs[m + i - 1]
  BY <1>4, <1>5, <1>6 DEF Rest
<1>8. \A i \in 1..Len(Rest) : m + i - 1 = i + Len(Batch) /\ i + Len(Batch) \in DOMAIN tmpObjs
  BY <1>1, <1>6
<1>9. DOMAIN Rest = 1..Len(Rest)
  BY <1>6, LenProperties
<1> QED
  BY <1>6, <1>7, <1>8, <1>9

\* The objects after a compose: the new one first.
LEMMA ComposedIs ==
    ASSUME TypeOK
    PROVE  LET t == <<Composed(round)>> \o Rest IN
           /\ Len(t) = Len(Rest) + 1 /\ DOMAIN t = 1..Len(t) /\ Len(Rest) \in Nat
           /\ t[1] = Composed(round)
           /\ \A i \in 2..Len(t) : t[i] = Rest[i - 1]
<1>1. Composed(round) \in Name
  BY DEF TypeOK, Composed, Name
<1>2. <<Composed(round)>> \in Seq(Name) /\ Len(<<Composed(round)>>) = 1
      /\ <<Composed(round)>>[1] = Composed(round)
  BY <1>1
<1>3. Rest \in Seq(Name) /\ Len(Rest) \in Nat
  BY RestIs, LenProperties
<1>4. LET t == <<Composed(round)>> \o Rest IN
      /\ t \in Seq(Name) /\ Len(t) = 1 + Len(Rest)
      /\ \A i \in 1..(1 + Len(Rest)) :
            t[i] = IF i <= 1 THEN <<Composed(round)>>[i] ELSE Rest[i - 1]
  BY <1>2, <1>3, ConcatProperties
<1>5. \A i \in 2..(1 + Len(Rest)) : i \in 1..(1 + Len(Rest)) /\ ~(i <= 1)
  BY <1>3
<1>6. 1 \in 1..(1 + Len(Rest)) /\ 1 <= 1
  BY <1>3
<1> DEFINE t == <<Composed(round)>> \o Rest
<1>7. t \in Seq(Name) => DOMAIN t = 1..Len(t)
  <2> HIDE DEF t
  <2> QED BY LenProperties
<1> QED
  BY <1>2, <1>3, <1>4, <1>5, <1>6, <1>7

\* The first of a sequence and the others are members of it.
LEMMA HeadTailRange ==
    ASSUME NEW S, NEW s \in Seq(S), s # <<>>
    PROVE  Head(s) \in Range(s) /\ Range(Tail(s)) \subseteq Range(s)
<1>1. /\ Len(s) \in Nat /\ Len(s) > 0 /\ DOMAIN s = 1..Len(s) /\ Head(s) = s[1]
      /\ Tail(s) \in Seq(S) /\ Len(Tail(s)) = Len(s) - 1
      /\ \A i \in 1..Len(Tail(s)) : Tail(s)[i] = s[i + 1]
  BY HeadTailProperties, EmptySeq, LenProperties
<1>2. DOMAIN Tail(s) = 1..Len(Tail(s))
  BY <1>1, LenProperties
<1>3. 1 \in DOMAIN s /\ \A i \in DOMAIN Tail(s) : i + 1 \in DOMAIN s
  BY <1>1, <1>2
<1> QED
  BY <1>1, <1>2, <1>3 DEF Range

\* No name is taken or given back, and the writer stays before or after the
\* copy to the target.
LEMMA QuietNames ==
    ASSUME NamesInv, UNCHANGED <<tmpObjs, bucket, round>>,
           pc \in {"deleteLast", "closed", "failed", "exited"} =>
               pc' \in {"deleteLast", "closed", "failed", "exited"},
           pc' \in {"deleteLast", "closed"} => pc \in {"deleteLast", "closed"}
    PROVE  NamesInv'
BY DEF NamesInv

LEMMA NamesStep ==
    ASSUME TypeOK, NamesInv, DeleteInv, [Next]_vars
    PROVE  NamesInv'
<1>1. ASSUME \/ \E n \in WriteSizes : Write(n)
             \/ NewChunk \/ AppendSlice \/ DiskFails \/ Close \/ CloseUpload \/ WaitEnds
             \/ RoundEnds \/ CloseClientFails \/ Fatal \/ Terminating \/ UNCHANGED vars
      PROVE  NamesInv'
  <2>1. UNCHANGED <<tmpObjs, bucket, round>>
    BY <1>1 DEF Write, NewChunk, AppendSlice, DiskFails, Close, CloseUpload, WaitEnds,
       RoundEnds, CloseClientFails, Fatal, Terminating, vars, closeVars
  <2>2. pc \in {"deleteLast", "closed", "failed", "exited"} =>
               pc' \in {"deleteLast", "closed", "failed", "exited"}
    BY <1>1 DEF Write, NewChunk, AppendSlice, DiskFails, Close, CloseUpload, WaitEnds,
       RoundEnds, CloseClientFails, Fatal, Terminating, vars, writerVars
  <2>3. pc' \in {"deleteLast", "closed"} => pc \in {"deleteLast", "closed"}
    BY <1>1 DEF Write, NewChunk, AppendSlice, DiskFails, Close, CloseUpload, WaitEnds,
       RoundEnds, CloseClientFails, Fatal, Terminating, vars, writerVars
  <2> QED
    BY <2>1, <2>2, <2>3, QuietNames
<1>2. ASSUME NEW w \in Worker,
             Send(w) \/ WorkerEnds(w) \/ ConnectFails(w) \/ PermissionDenied(w) \/ RemoveFile(w)
      PROVE  NamesInv'
  <2>1. UNCHANGED <<tmpObjs, bucket, round>>
    BY <1>2 DEF Send, WorkerEnds, ConnectFails, PermissionDenied, RemoveFile, closeVars
  <2>2. \/ pc' \in {pc, "exited"}
        \/ pc \in {"flush", "closeFlush"} /\ pc' \in {"newChunk", "closeUpload"}
    BY <1>2, RetryType DEF Send, WorkerEnds, ConnectFails, PermissionDenied, RemoveFile,
       writerVars
  <2> QED
    BY <2>1, <2>2, QuietNames
<1>3. ASSUME NEW w \in Worker, Register(w) PROVE NamesInv'
  <2>1. UNCHANGED <<pc, bucket, round>> /\ tmpObjs' = Append(tmpObjs, Part(chunk[w]))
    BY <1>3 DEF Register, writerVars, closeVars
  <2>2. Range(tmpObjs') = Range(tmpObjs) \cup {Part(chunk[w])}
    <3>1. Part(chunk[w]) \in Name /\ chunk[w] \in Nat
      BY DEF TypeOK, Part, Name
    <3> QED BY <2>1, <3>1, RangeOfAppend DEF TypeOK
  <2>3. chunk[w] \in Nat
    BY DEF TypeOK
  <2>4. \A o \in Range(tmpObjs') : \/ \E p \in Nat : o = Part(p)
                                   \/ \E i \in Nat : o = Composed(i) /\ i < round
    BY <2>2, <2>3 DEF NamesInv
  <2> QED
    BY <2>1, <2>4 DEF NamesInv
<1>4. ASSUME NEW w \in Worker, Upload(w) \/ UploadFails(w) PROVE NamesInv'
  <2>1. /\ UNCHANGED <<tmpObjs, round>> /\ pc' \in {pc, "exited"} /\ Alive
        /\ \/ bucket' = bucket
           \/ bucket' = Put(bucket, Part(chunk[w]), disk[chunk[w]])
        /\ wpc[w] = "copy"
    BY <1>4, RetryType DEF Upload, UploadFails, writerVars, closeVars
  <2>2. \A o : (\A p : o # Part(p)) => (o \in DOMAIN bucket' <=> o \in DOMAIN bucket)
    BY <2>1 DEF Put
  <2>3. Target \in DOMAIN bucket' <=> Target \in DOMAIN bucket
    BY <2>2 DEF Target, Part
  <2>4. \A i \in Nat : Composed(i) \in DOMAIN bucket' <=> Composed(i) \in DOMAIN bucket
    BY <2>2 DEF Composed, Part
  <2> QED
    BY <2>1, <2>3, <2>4 DEF NamesInv
<1>5. CASE ComposeBatch
  <2>0. round \in Nat /\ ~ (pc \in {"deleteLast", "closed", "failed", "exited"})
        /\ pc' \in {"delete", "failed"} /\ round' = round + 1
    BY <1>5 DEF ComposeBatch, ComposeInto, TypeOK
  <2>1. /\ tmpObjs' = <<Composed(round)>> \o Rest
        /\ bucket' = bucket \/ \E v : bucket' = Put(bucket, Composed(round), v)
    BY <1>5 DEF ComposeBatch, ComposeInto, Rest
  <2>2. ASSUME NEW o \in Range(tmpObjs')
        PROVE  o = Composed(round) \/ o \in Range(tmpObjs)
    <3>1. PICK i \in DOMAIN tmpObjs' : o = tmpObjs'[i]
      BY DEF Range
    <3>2. CASE i = 1
      BY <2>1, <3>1, <3>2, ComposedIs
    <3>3. CASE i # 1
      <4>1. i \in 2..Len(tmpObjs') /\ i - 1 \in 1..Len(Rest) /\ o = Rest[i - 1]
        BY <2>1, <3>1, <3>3, ComposedIs
      <4> QED
        BY <4>1, RestIs DEF Range
    <3> QED
      BY <3>2, <3>3
  <2>3. \A o \in Range(tmpObjs') : \/ \E p \in Nat : o = Part(p)
                                   \/ \E i \in Nat : o = Composed(i) /\ i < round'
    <3> TAKE o \in Range(tmpObjs')
    <3>1. CASE o = Composed(round)
      BY <2>0, <3>1
    <3>2. CASE o # Composed(round)
      <4>1. \/ \E p \in Nat : o = Part(p)
            \/ \E i \in Nat : o = Composed(i) /\ i < round
        BY <2>2, <3>2 DEF NamesInv
      <4> QED
        BY <2>0, <4>1
    <3> QED
      BY <3>1, <3>2
  <2>4. \A i \in Nat : Composed(i) \in DOMAIN bucket' => i = round \/ Composed(i) \in DOMAIN bucket
    BY <2>1 DEF Put, Composed
  <2>5. \A i \in Nat : Composed(i) \in DOMAIN bucket' => i < round'
    BY <2>0, <2>4 DEF NamesInv
  <2>6. Target \in DOMAIN bucket' => Target \in DOMAIN bucket
    BY <2>1 DEF Put, Composed, Target
  <2> QED
    BY <2>0, <2>3, <2>5, <2>6 DEF NamesInv
<1>6. CASE CopyLast
  <2>1. /\ UNCHANGED <<tmpObjs, round>> /\ pc = "compose"
        /\ \/ pc' = "deleteLast" /\ \E v : bucket' = Put(bucket, Target, v)
           \/ pc' = "failed" /\ bucket' = bucket
    BY <1>6 DEF CopyLast
  <2>2. \A i \in Nat : Composed(i) \in DOMAIN bucket' => Composed(i) \in DOMAIN bucket
    BY <2>1 DEF Put, Composed, Target
  <2>3. /\ Target \in DOMAIN bucket' => pc' \in {"deleteLast", "closed", "failed", "exited"}
        /\ pc' \in {"deleteLast", "closed"} => Target \in DOMAIN bucket'
    BY <2>1 DEF Put
  <2> QED
    BY <2>1, <2>2, <2>3 DEF NamesInv
<1>7. CASE DeleteSource
  <2>1. UNCHANGED <<tmpObjs, round>> /\ DOMAIN bucket' \subseteq DOMAIN bucket
        /\ pc \in {"delete", "deleteLast"} /\ pc' \in {pc, "failed"}
    BY <1>7 DEF DeleteSource, Drop
  <2>2. pc' = "deleteLast" => Target \in DOMAIN bucket'
    <3> SUFFICES ASSUME pc' = "deleteLast" PROVE Target \in DOMAIN bucket'
      OBVIOUS
    <3>1. pc = "deleteLast" /\ Goal = Target /\ Target \in DOMAIN bucket
      BY <2>1 DEF Goal, DeleteInv
    <3>2. Head(deleting) \in Range(deleting)
      <4>1. deleting # <<>> /\ deleting \in Seq(Name)
        BY <1>7 DEF DeleteSource, TypeOK
      <4>2. Head(deleting) = deleting[1] /\ 1 \in DOMAIN deleting
        BY <4>1, HeadTailProperties, EmptySeq, LenProperties
      <4> QED
        BY <4>2 DEF Range
    <3>3. Head(deleting) # Target
      BY <2>1, <3>1, <3>2 DEF DeleteInv
    <3> QED
      BY <1>7, <3>1, <3>3 DEF DeleteSource, Drop
  <2> QED
    BY <2>1, <2>2 DEF NamesInv
<1> QED
  BY <1>1, <1>2, <1>3, <1>4, <1>5, <1>6, <1>7 DEF Next, WriterStep, WorkerStep

\* The sources of a compose that exist, and what FlattenSeq makes of them.
LEMMA ContentsAre ==
    ASSUME TypeOK, DeleteInv, SourcesExist
    PROVE  LET c == [i \in DOMAIN Batch |-> bucket[Batch[i]]] IN
           /\ c \in Seq(Seq(Nat)) /\ DOMAIN c = DOMAIN Batch
           /\ FlattenSeq(c) \in Seq(Nat)
           /\ Range(FlattenSeq(c)) = UNION {Range(c[i]) : i \in DOMAIN c}
           /\ Apart(c) => IsInjective(FlattenSeq(c))
           /\ Rising(c) => Ascends(FlattenSeq(c))
<1> DEFINE c == [i \in DOMAIN Batch |-> bucket[Batch[i]]]
<1>1. DOMAIN Batch = 1..Len(Batch) /\ Len(Batch) \in Nat
  BY BatchIs
<1>2. \A i \in 1..Len(Batch) : bucket[Batch[i]] \in Seq(Nat)
  BY <1>1 DEF SourcesExist, DeleteInv
<1>3. c = [i \in 1..Len(Batch) |-> bucket[Batch[i]]]
  BY <1>1
<1>4. c \in Seq(Seq(Nat))
  BY <1>1, <1>2, <1>3
<1>5. DOMAIN c = DOMAIN Batch
  OBVIOUS
<1> HIDE DEF c
<1>6. /\ FlattenSeq(c) \in Seq(Nat)
      /\ Range(FlattenSeq(c)) = UNION {Range(c[i]) : i \in DOMAIN c}
      /\ Apart(c) => IsInjective(FlattenSeq(c))
      /\ Rising(c) => Ascends(FlattenSeq(c))
  BY <1>4, FlattenHolds
<1> QED
  BY <1>4, <1>5, <1>6 DEF c

LEMMA DeleteStep ==
    ASSUME TypeOK, KeeperInv, NamesInv, DeleteInv, [Next]_vars
    PROVE  DeleteInv'
<1>1. ASSUME UNCHANGED bucket,
             pc' \in {"delete", "deleteLast"} => pc' = pc /\ UNCHANGED <<round, deleting>>
      PROVE  DeleteInv'
  BY <1>1 DEF DeleteInv, Goal
<1>2. ASSUME \/ \E n \in WriteSizes : Write(n)
             \/ NewChunk \/ AppendSlice \/ DiskFails \/ Close \/ CloseUpload \/ WaitEnds
             \/ RoundEnds \/ CloseClientFails \/ Fatal \/ Terminating \/ UNCHANGED vars
      PROVE  DeleteInv'
  <2>1. /\ UNCHANGED bucket
        /\ pc' \in {"delete", "deleteLast"} => pc' = pc /\ UNCHANGED <<round, deleting>>
    BY <1>2 DEF Write, NewChunk, AppendSlice, DiskFails, Close, CloseUpload, WaitEnds,
       RoundEnds, CloseClientFails, Fatal, Terminating, vars, writerVars, closeVars
  <2> QED
    BY <1>1, <2>1
<1>3. ASSUME NEW w \in Worker,
             \/ Send(w) \/ WorkerEnds(w) \/ ConnectFails(w) \/ PermissionDenied(w)
             \/ RemoveFile(w) \/ Register(w)
      PROVE  DeleteInv'
  <2>1. UNCHANGED <<bucket, round, deleting>>
    BY <1>3 DEF Send, WorkerEnds, ConnectFails, PermissionDenied, RemoveFile, Register,
       closeVars
  <2>2. \/ pc' \in {pc, "exited"}
        \/ pc' \in {"newChunk", "closeUpload"}
    BY <1>3, RetryType DEF Send, WorkerEnds, ConnectFails, PermissionDenied, RemoveFile,
       Register, writerVars
  <2> QED
    BY <1>1, <2>1, <2>2
<1>4. ASSUME NEW w \in Worker, Upload(w) \/ UploadFails(w) PROVE DeleteInv'
  <2>1. /\ pc' \in {pc, "exited"}
        /\ \/ bucket' = bucket
           \/ bucket' = Put(bucket, Part(chunk[w]), disk[chunk[w]])
        /\ wpc[w] = "copy"
    BY <1>4, RetryType DEF Upload, UploadFails, writerVars
  <2>2. pc' \notin {"delete", "deleteLast"} /\ chunk[w] \in DOMAIN disk
    BY <2>1 DEF KeeperInv, Busy
  <2>3. disk[chunk[w]] \in Seq(Nat)
    BY <2>2 DEF TypeOK
  <2>4. \A o \in DOMAIN bucket' : bucket'[o] \in Seq(Nat)
    BY <2>1, <2>3 DEF Put, DeleteInv
  <2> QED
    BY <2>2, <2>4 DEF DeleteInv
<1>5. CASE ComposeBatch
  <2>1. CASE pc' = "delete"
    <3> DEFINE c == [i \in DOMAIN Batch |-> bucket[Batch[i]]]
    <3>1. /\ SourcesExist /\ deleting' = Batch /\ round' = round + 1 /\ round \in Nat
          /\ bucket' = Put(bucket, Composed(round), FlattenSeq(c))
      BY <1>5, <2>1 DEF ComposeBatch, ComposeInto, TypeOK
    <3>2. /\ FlattenSeq(c) \in Seq(Nat)
          /\ Range(FlattenSeq(c)) = UNION {Range(bucket[Batch[i]]) : i \in DOMAIN Batch}
      BY <3>1, ContentsAre
    <3> HIDE DEF c
    <3>3. /\ bucket'[Composed(round)] = FlattenSeq(c) /\ Composed(round) \in DOMAIN bucket'
          /\ \A o \in DOMAIN bucket' : o # Composed(round) =>
                 o \in DOMAIN bucket /\ bucket'[o] = bucket[o]
      BY <3>1 DEF Put
    <3>4. \A o \in DOMAIN bucket' : bucket'[o] \in Seq(Nat)
      BY <3>2, <3>3 DEF DeleteInv
    <3>5. Goal' = Composed(round)
      BY <2>1, <3>1 DEF Goal
    <3>6. ASSUME NEW o \in Range(deleting')
          PROVE  o # Composed(round) /\ Range(bucket[o]) \subseteq Range(FlattenSeq(c))
      <4>1. PICK i \in DOMAIN Batch : o = Batch[i]
        BY <3>1, <3>6 DEF Range
      <4>2. Range(bucket[o]) \subseteq Range(FlattenSeq(c))
        BY <3>2, <4>1
      <4>3. o \in Range(tmpObjs)
        <5>1. i \in DOMAIN tmpObjs /\ o = tmpObjs[i]
          BY <4>1, BatchIs
        <5> QED
          BY <5>1 DEF Range
      <4>4. o # Composed(round)
        <5>1. \/ \E p \in Nat : o = Part(p)
              \/ \E j \in Nat : o = Composed(j) /\ j < round
          BY <4>3 DEF NamesInv
        <5> QED
          BY <3>1, <5>1 DEF Part, Composed
      <4> QED
        BY <4>2, <4>4
    <3>7. \A o \in Range(deleting') :
            /\ o # Goal'
            /\ o \in DOMAIN bucket' => Range(bucket'[o]) \subseteq Range(bucket'[Goal'])
      BY <3>3, <3>5, <3>6
    <3> QED
      BY <3>1, <3>3, <3>4, <3>5, <3>7 DEF DeleteInv
  <2>2. CASE pc' # "delete"
    <3>1. pc' = "failed" /\ UNCHANGED bucket
      BY <1>5, <2>2 DEF ComposeBatch, ComposeInto
    <3> QED
      BY <1>1, <3>1
  <2> QED
    BY <2>1, <2>2
<1>6. CASE CopyLast
  <2>1. CASE pc' = "deleteLast"
    <3>1. /\ SourcesExist /\ deleting' = Batch /\ Len(Batch) = 1 /\ pc = "compose"
          /\ bucket' = Put(bucket, Target, bucket[Batch[1]]) /\ round' = round
      BY <1>6, <2>1 DEF CopyLast
    <3>2. DOMAIN Batch = 1..1 /\ Batch[1] \in DOMAIN bucket
      BY <3>1, BatchIs DEF SourcesExist
    <3>3. Batch[1] # Target
      BY <3>1, <3>2 DEF NamesInv
    <3>4. /\ bucket'[Target] = bucket[Batch[1]] /\ Target \in DOMAIN bucket'
          /\ \A o \in DOMAIN bucket' : o # Target => o \in DOMAIN bucket /\ bucket'[o] = bucket[o]
      BY <3>1 DEF Put
    <3>5. \A o \in DOMAIN bucket' : bucket'[o] \in Seq(Nat)
      BY <3>2, <3>4 DEF DeleteInv
    <3>6. \A o \in Range(deleting') : o = Batch[1]
      BY <3>1, <3>2 DEF Range
    <3>7. Goal' = Target
      BY <2>1 DEF Goal
    <3> QED
      BY <2>1, <3>3, <3>4, <3>5, <3>6, <3>7 DEF DeleteInv
  <2>2. CASE pc' # "deleteLast"
    <3>1. pc' = "failed" /\ UNCHANGED bucket
      BY <1>6, <2>2 DEF CopyLast
    <3> QED
      BY <1>1, <3>1
  <2> QED
    BY <2>1, <2>2
<1>7. CASE DeleteSource
  <2>1. CASE pc' = "failed"
    <3>1. UNCHANGED bucket
      BY <1>7, <2>1 DEF DeleteSource
    <3> QED
      BY <1>1, <2>1, <3>1
  <2>2. CASE pc' # "failed"
    <3>1. /\ pc' = pc /\ pc \in {"delete", "deleteLast"} /\ round' = round
          /\ deleting # <<>> /\ deleting \in Seq(Name)
          /\ bucket' = Drop(bucket, Head(deleting)) /\ deleting' = Tail(deleting)
      BY <1>7, <2>2 DEF DeleteSource, TypeOK
    <3>2. Goal' = Goal
      BY <3>1 DEF Goal
    <3>3. Head(deleting) \in Range(deleting) /\ Range(Tail(deleting)) \subseteq Range(deleting)
      BY <3>1, HeadTailRange
    <3>4. /\ \A o \in DOMAIN bucket' : o \in DOMAIN bucket /\ bucket'[o] = bucket[o]
          /\ \A o \in DOMAIN bucket : o # Head(deleting) => o \in DOMAIN bucket'
      BY <3>1 DEF Drop
    <3>5. Goal \in DOMAIN bucket' /\ bucket'[Goal] = bucket[Goal]
      BY <3>1, <3>3, <3>4 DEF DeleteInv
    <3> QED
      BY <3>1, <3>2, <3>3, <3>4, <3>5 DEF DeleteInv
  <2> QED
    BY <2>1, <2>2
<1> QED
  BY <1>2, <1>3, <1>4, <1>5, <1>6, <1>7 DEF Next, WriterStep, WorkerStep

\* No payload goes that is not elsewhere.
LEMMA KeptBytes ==
    ASSUME NoByteLost, UNCHANGED written,
           Payloads(disk) \cup Payloads(bucket) \subseteq Payloads(disk') \cup Payloads(bucket')
    PROVE  NoByteLost'
BY DEF NoByteLost

LEMMA NoByteStep ==
    ASSUME TypeOK, KeeperInv, NamesInv, DeleteInv, NoByteLost, [Next]_vars
    PROVE  NoByteLost'
<1>1. ASSUME UNCHANGED <<written, disk, bucket>> PROVE NoByteLost'
  BY <1>1 DEF NoByteLost
<1>2. ASSUME \/ NewChunk \/ \E n \in WriteSizes : Write(n)
      PROVE  NoByteLost'
  <2>1. /\ UNCHANGED <<written, bucket>>
        /\ disk' \in {disk, Put(disk, part, <<>>)} /\ part \in Nat
    BY <1>2 DEF NewChunk, Write, TypeOK
  <2>2. part \notin DOMAIN disk
    BY DEF TypeOK
  <2>3. DOMAIN disk \subseteq DOMAIN disk' /\ \A x \in DOMAIN disk : disk'[x] = disk[x]
    BY <2>1, <2>2 DEF Put
  <2>4. Payloads(disk) \subseteq Payloads(disk')
    BY <2>3 DEF Payloads
  <2> QED
    BY <2>1, <2>4, KeptBytes
<1>3. CASE AppendSlice
  <2>1. /\ part - 1 \in DOMAIN disk /\ DOMAIN disk' = DOMAIN disk /\ UNCHANGED bucket
        /\ disk' = [disk EXCEPT ![part - 1] = Append(@, Len(written) + 1)]
        /\ written' = Append(written, pending)
    BY <1>3 DEF AppendSlice, KeeperInv, Filling, TypeOK
  <2>2. disk[part - 1] \in Seq(Nat) /\ Len(written) \in Nat /\ Len(written') = Len(written) + 1
    BY <2>1, AppendProperties, LenProperties DEF TypeOK
  <2>3. /\ Range(disk'[part - 1]) = Range(disk[part - 1]) \cup {Len(written')}
        /\ \A x \in DOMAIN disk : Range(disk[x]) \subseteq Range(disk'[x])
    BY <2>1, <2>2, RangeOfAppend
  <2>4. Payloads(disk) \subseteq Payloads(disk') /\ Len(written') \in Payloads(disk')
    BY <2>1, <2>3 DEF Payloads
  <2>5. \A k \in 1..Len(written') : k = Len(written') \/ k \in 1..Len(written)
    BY <2>2
  <2> QED
    BY <2>1, <2>4, <2>5 DEF NoByteLost
<1>4. ASSUME NEW w \in Worker, Upload(w) \/ UploadFails(w) PROVE NoByteLost'
  <2>1. /\ UNCHANGED <<disk, written>>
        /\ \/ bucket' = bucket
           \/ bucket' = Put(bucket, Part(chunk[w]), disk[chunk[w]])
        /\ wpc[w] = "copy"
    BY <1>4 DEF Upload, UploadFails, writerVars
  <2>2. chunk[w] \in DOMAIN disk
    BY <2>1 DEF KeeperInv, Busy
  <2>3. ASSUME NEW x \in DOMAIN bucket
        PROVE  Range(bucket[x]) \subseteq Payloads(disk) \cup Payloads(bucket')
    <3>1. CASE x = Part(chunk[w]) /\ bucket' # bucket
      <4>1. Range(bucket'[x]) = Range(disk[chunk[w]])
        BY <2>1, <3>1 DEF Put
      <4>2. bucket[x] = disk[chunk[w]]
        BY <2>2, <3>1 DEF KeeperInv, TypeOK
      <4> QED
        BY <2>2, <4>2 DEF Payloads
    <3>2. CASE ~(x = Part(chunk[w]) /\ bucket' # bucket)
      <4>1. x \in DOMAIN bucket' /\ bucket'[x] = bucket[x]
        BY <2>1, <3>2 DEF Put
      <4> QED
        BY <4>1 DEF Payloads
    <3> QED
      BY <3>1, <3>2
  <2>4. Payloads(bucket) \subseteq Payloads(disk') \cup Payloads(bucket')
    BY <2>1, <2>3 DEF Payloads
  <2> QED
    BY <2>1, <2>4, KeptBytes
<1>5. ASSUME NEW w \in Worker, RemoveFile(w) PROVE NoByteLost'
  <2>1. /\ UNCHANGED <<written, bucket>> /\ wpc[w] = "remove"
        /\ disk' = disk \/ disk' = Drop(disk, chunk[w])
    BY <1>5 DEF RemoveFile, writerVars
  <2>2. /\ chunk[w] \in DOMAIN disk /\ Part(chunk[w]) \in DOMAIN bucket
        /\ bucket[Part(chunk[w])] = disk[chunk[w]]
    BY <2>1 DEF KeeperInv, Busy, TypeOK
  <2>3. ASSUME NEW x \in DOMAIN disk
        PROVE  Range(disk[x]) \subseteq Payloads(disk') \cup Payloads(bucket)
    <3>1. CASE x = chunk[w]
      BY <2>2, <3>1 DEF Payloads
    <3>2. CASE x # chunk[w]
      <4>1. x \in DOMAIN disk' /\ disk'[x] = disk[x]
        BY <2>1, <3>2 DEF Drop
      <4> QED
        BY <4>1 DEF Payloads
    <3> QED
      BY <3>1, <3>2
  <2>4. Payloads(disk) \subseteq Payloads(disk') \cup Payloads(bucket')
    BY <2>1, <2>3 DEF Payloads
  <2> QED
    BY <2>1, <2>4, KeptBytes
<1>6. CASE ComposeBatch \/ CopyLast
  <2>1. /\ UNCHANGED <<written, disk>> /\ round \in Nat
        /\ \/ bucket' = bucket
           \/ \E v : bucket' = Put(bucket, Composed(round), v)
           \/ \E v : bucket' = Put(bucket, Target, v)
        /\ pc = "compose"
    BY <1>6 DEF ComposeBatch, ComposeInto, CopyLast, TypeOK
  <2>2. Composed(round) \notin DOMAIN bucket /\ Target \notin DOMAIN bucket
    BY <2>1 DEF NamesInv
  <2>3. DOMAIN bucket \subseteq DOMAIN bucket' /\ \A x \in DOMAIN bucket : bucket'[x] = bucket[x]
    BY <2>1, <2>2 DEF Put
  <2>4. Payloads(bucket) \subseteq Payloads(bucket')
    BY <2>3 DEF Payloads
  <2> QED
    BY <2>1, <2>4, KeptBytes
<1>7. CASE DeleteSource
  <2>1. /\ UNCHANGED <<written, disk>> /\ pc \in {"delete", "deleteLast"}
        /\ bucket' = bucket \/ bucket' = Drop(bucket, Head(deleting))
        /\ deleting # <<>> /\ deleting \in Seq(Name)
    BY <1>7 DEF DeleteSource, TypeOK
  <2>2. Head(deleting) \in Range(deleting)
    BY <2>1, HeadTailRange
  <2>3. /\ Goal # Head(deleting) /\ Goal \in DOMAIN bucket
        /\ Head(deleting) \in DOMAIN bucket =>
               Range(bucket[Head(deleting)]) \subseteq Range(bucket[Goal])
    BY <2>1, <2>2 DEF DeleteInv
  <2>4. /\ \A x \in DOMAIN bucket : x # Head(deleting) =>
               x \in DOMAIN bucket' /\ bucket'[x] = bucket[x]
    BY <2>1 DEF Drop
  <2>5. ASSUME NEW x \in DOMAIN bucket
        PROVE  Range(bucket[x]) \subseteq Payloads(bucket')
    <3>1. \A y \in DOMAIN bucket : y # Head(deleting) =>
              Range(bucket[y]) \subseteq Payloads(bucket')
      BY <2>4 DEF Payloads
    <3> QED
      BY <2>3, <3>1
  <2>6. Payloads(bucket) \subseteq Payloads(bucket')
    BY <2>5 DEF Payloads
  <2> QED
    BY <2>1, <2>6, KeptBytes
<1>8. ASSUME \/ DiskFails \/ Close \/ CloseUpload \/ WaitEnds \/ RoundEnds
             \/ CloseClientFails \/ Fatal \/ Terminating \/ UNCHANGED vars
      PROVE  NoByteLost'
  BY <1>1, <1>8 DEF DiskFails, Close, CloseUpload, WaitEnds, RoundEnds, CloseClientFails,
     Fatal, Terminating, vars, writerVars
<1>9. ASSUME NEW w \in Worker,
             \/ Send(w) \/ WorkerEnds(w) \/ ConnectFails(w) \/ PermissionDenied(w) \/ Register(w)
      PROVE  NoByteLost'
  BY <1>1, <1>9 DEF Send, WorkerEnds, ConnectFails, PermissionDenied, Register, writerVars
<1> QED
  BY <1>2, <1>3, <1>4, <1>5, <1>6, <1>7, <1>8, <1>9 DEF Next, WriterStep, WorkerStep

\* Where the slices and the objects are, in every reachable state.
ObjectsInv == KeeperInv /\ NamesInv /\ DeleteInv /\ NoByteLost

LEMMA ObjectsInvariant == Spec => []ObjectsInv
<1>1. Init => ObjectsInv
  <2> SUFFICES ASSUME Init PROVE ObjectsInv
    OBVIOUS
  <2>1. /\ DOMAIN bucket = {} /\ Range(tmpObjs) = {} /\ Len(written) = 0 /\ pc = "write"
        /\ part = 0 /\ \A w \in Worker : wpc[w] = "recv"
    BY DEF Init, Range
  <2>2. KeeperInv
    BY <2>1 DEF KeeperInv, Busy
  <2>3. NamesInv /\ DeleteInv
    BY <2>1 DEF NamesInv, DeleteInv
  <2>4. NoByteLost
    BY <2>1 DEF NoByteLost
  <2> QED
    BY <2>2, <2>3, <2>4 DEF ObjectsInv
<1>2. TypeOK /\ ObjectsInv /\ [Next]_vars => ObjectsInv'
  BY KeeperStep, NamesStep, DeleteStep, NoByteStep DEF ObjectsInv
<1> QED
  BY <1>1, <1>2, TypeCorrect, PTL DEF Spec

\* Every slice that Write has accepted is at every moment in a chunk file or in
\* an object, however many workers, retries, failed calls and repeated
\* registrations there are: uploadWorker removes a file after the upload, Close
\* deletes the sources after the compose.
THEOREM NoSliceIsLost == Spec => []NoByteLost
BY ObjectsInvariant, PTL DEF ObjectsInv

(***************************************************************************)
(* What the chunks and the objects hold.  The slices grow along the chunks *)
(* (ContentInv), a single worker registers the chunks in their order       *)
(* (SortedInv), and the objects that are to be composed hold each slice    *)
(* once (WholeInv).                                                        *)
(***************************************************************************)

\* A chunk is in its file or in its object, and holds what the one holds that
\* is there.
Known(p) == p \in DOMAIN disk \/ Part(p) \in DOMAIN bucket
Content(p) == IF p \in DOMAIN disk THEN disk[p] ELSE bucket[Part(p)]

\* The slices grow along each chunk and from each chunk to the next.
ContentInv ==
    /\ \A p \in Nat : Known(p) =>
        Ascends(Content(p)) /\ Range(Content(p)) \subseteq 1..Len(written)
    /\ \A p, q \in Nat : Known(p) /\ Known(q) /\ p < q => Before(Content(p), Content(q))

\* The chunks that are known hold what they held, or nothing.
LEMMA SameContents ==
    ASSUME ContentInv, UNCHANGED written,
           \A p \in Nat : Known(p)' => \/ Content(p)' = <<>>
                                       \/ Known(p) /\ Content(p)' = Content(p)
    PROVE  ContentInv'
<1>1. Ascends(<<>>) /\ Range(<<>>) = {} /\ \A s : Before(<<>>, s) /\ Before(s, <<>>)
  BY DEF Ascends, Before, Range
<1>2. ASSUME NEW p \in Nat, Known(p)'
      PROVE  Ascends(Content(p)') /\ Range(Content(p)') \subseteq 1..Len(written)
  <2>1. CASE Content(p)' = <<>>
    BY <1>1, <2>1
  <2>2. CASE Content(p)' # <<>>
    <3>1. Known(p) /\ Content(p)' = Content(p)
      BY <1>2, <2>2
    <3> QED
      BY <3>1 DEF ContentInv
  <2> QED
    BY <2>1, <2>2
<1>3. ASSUME NEW p \in Nat, NEW q \in Nat, Known(p)', Known(q)', p < q
      PROVE  Before(Content(p)', Content(q)')
  <2>1. CASE Content(p)' = <<>> \/ Content(q)' = <<>>
    BY <1>1, <2>1
  <2>2. CASE Content(p)' # <<>> /\ Content(q)' # <<>>
    <3>1. Known(p) /\ Content(p)' = Content(p) /\ Known(q) /\ Content(q)' = Content(q)
      BY <1>3, <2>2
    <3> QED
      BY <1>3, <3>1 DEF ContentInv
  <2> QED
    BY <2>1, <2>2
<1>4. \A p, q \in Nat : Before(Content(p), Content(q))' <=> Before(Content(p)', Content(q)')
  BY DEF Before
<1>5. \A p \in Nat : Ascends(Content(p))' <=> Ascends(Content(p)')
  BY DEF Ascends
<1> QED
  BY <1>2, <1>3, <1>4, <1>5 DEF ContentInv

\* Numbers that grow are different.
LEMMA AscendsInjects ==
    ASSUME NEW s \in Seq(Nat), Ascends(s)
    PROVE  IsInjective(s)
<1>1. DOMAIN s = 1..Len(s) /\ Len(s) \in Nat /\ \A i \in 1..Len(s) : s[i] \in Nat
  BY LenProperties, ElementOfSeq
<1>2. ASSUME NEW i \in 1..Len(s), NEW j \in 1..Len(s), s[i] = s[j] PROVE i = j
  <2>1. ~(s[i] < s[j]) /\ ~(s[j] < s[i])
    BY <1>1, <1>2
  <2>2. ~(i < j) /\ ~(j < i)
    BY <1>1, <2>1 DEF Ascends
  <2> QED
    BY <1>1, <2>2
<1> QED
  BY <1>1, <1>2 DEF IsInjective

\* A number above the others goes to the end.
LEMMA AppendAscends ==
    ASSUME NEW s \in Seq(Nat), NEW e \in Nat, Ascends(s), \A x \in Range(s) : x < e
    PROVE  Ascends(Append(s, e))
<1>1. /\ DOMAIN s = 1..Len(s) /\ Len(s) \in Nat
      /\ DOMAIN Append(s, e) = 1..(Len(s) + 1)
      /\ \A i \in 1..Len(s) : Append(s, e)[i] = s[i]
      /\ Append(s, e)[Len(s) + 1] = e
  BY AppendProperties, LenProperties
<1>2. \A i \in 1..Len(s) : s[i] < e
  BY <1>1 DEF Range
<1> DEFINE t == Append(s, e)
<1>3. ASSUME NEW i \in 1..(Len(s) + 1), NEW j \in 1..(Len(s) + 1), i < j
      PROVE  t[i] < t[j]
  <2> HIDE DEF t
  <2>1. i \in 1..Len(s) /\ (j \in 1..Len(s) \/ j = Len(s) + 1)
    BY <1>1, <1>3
  <2>2. t[i] = s[i] /\ (j \in 1..Len(s) => t[j] = s[j]) /\ t[Len(s) + 1] = e
    BY <1>1, <2>1 DEF t
  <2> QED
    BY <1>1, <1>2, <1>3, <2>1, <2>2 DEF Ascends
<1> QED
  BY <1>1, <1>3 DEF Ascends

LEMMA AppendKeepsContents ==
    ASSUME TypeOK, KeeperInv, ContentInv, AppendSlice
    PROVE  ContentInv'
<1> PICK c : c = part - 1
  OBVIOUS
<1> PICK n : n = Len(written)
  OBVIOUS
<1>1. /\ c \in DOMAIN disk /\ c \in Nat /\ DOMAIN disk' = DOMAIN disk /\ UNCHANGED bucket
      /\ disk' = [disk EXCEPT ![c] = Append(@, n + 1)]
      /\ n \in Nat /\ n + 1 \in Nat /\ Len(written') = n + 1 /\ disk[c] \in Seq(Nat)
  <2>1. part - 1 \in DOMAIN disk /\ part \in Nat /\ part # 0
    BY DEF AppendSlice, KeeperInv, Filling, TypeOK
  <2> QED
    BY <2>1, AppendProperties, LenProperties DEF AppendSlice, TypeOK
<1>2. disk'[c] = Append(disk[c], n + 1) /\ \A p \in DOMAIN disk : p # c => disk'[p] = disk[p]
  BY <1>1
<1>3. \A p \in Nat : Known(p)' <=> Known(p)
  BY <1>1 DEF Known
<1>4. \A p \in Nat : p # c => Content(p)' = Content(p)
  BY <1>1, <1>2 DEF Content
<1>5. Known(c) /\ Content(c) = disk[c] /\ Content(c)' = Append(disk[c], n + 1)
  BY <1>1, <1>2 DEF Known, Content
<1>6. Range(Content(c)') = Range(Content(c)) \cup {n + 1}
  <2>1. Range(Append(disk[c], n + 1)) = Range(disk[c]) \cup {n + 1}
    BY <1>1, RangeOfAppend
  <2> QED
    BY <1>5, <2>1
<1>7. \A p \in Nat : Known(p) => Range(Content(p)) \subseteq 1..n
  BY DEF ContentInv
<1>8. \A x \in 1..n : x \in Nat /\ x < n + 1
  BY <1>1
<1>9. Ascends(Content(c)')
  <2>1. Ascends(disk[c]) /\ \A x \in Range(disk[c]) : x < n + 1
    BY <1>1, <1>5, <1>7, <1>8 DEF ContentInv
  <2> QED
    BY <1>1, <1>5, <2>1, AppendAscends
<1>10. 1..n \subseteq 1..(n + 1) /\ n + 1 \in 1..(n + 1)
  BY <1>1
<1>11. ASSUME NEW p \in Nat, Known(p)'
       PROVE  Ascends(Content(p)') /\ Range(Content(p)') \subseteq 1..(n + 1)
  <2>1. CASE p = c
    BY <1>1, <1>5, <1>6, <1>7, <1>9, <1>10, <2>1
  <2>2. CASE p # c
    BY <1>3, <1>4, <1>7, <1>10, <1>11, <2>2 DEF ContentInv
  <2> QED
    BY <2>1, <2>2
<1>12. ASSUME NEW p \in Nat, NEW q \in Nat, Known(p)', Known(q)', p < q
       PROVE  Before(Content(p)', Content(q)')
  <2>1. Known(p) /\ Known(q) /\ Before(Content(p), Content(q))
    BY <1>3, <1>12 DEF ContentInv
  <2>2. q <= c
    BY <2>1 DEF Known, TypeOK, KeeperInv
  <2>3. p # c /\ Content(p)' = Content(p)
    BY <1>1, <1>4, <1>12, <2>2
  <2>4. CASE q = c
    BY <1>6, <1>7, <1>8, <2>1, <2>3, <2>4 DEF Before
  <2>5. CASE q # c
    BY <1>4, <2>1, <2>3, <2>5
  <2> QED
    BY <2>4, <2>5
<1>13. \A p, q \in Nat : Before(Content(p), Content(q))' <=> Before(Content(p)', Content(q)')
  BY DEF Before
<1>14. \A p \in Nat : Ascends(Content(p))' <=> Ascends(Content(p)')
  BY DEF Ascends
<1> QED
  BY <1>1, <1>11, <1>12, <1>13, <1>14 DEF ContentInv

LEMMA ContentStep ==
    ASSUME TypeOK, KeeperInv, ContentInv, [Next]_vars
    PROVE  ContentInv'
<1>1. ASSUME UNCHANGED <<written, disk>>,
             \A p \in Nat : Part(p) \in DOMAIN bucket' =>
                Part(p) \in DOMAIN bucket /\ bucket'[Part(p)] = bucket[Part(p)]
      PROVE  ContentInv'
  BY <1>1, SameContents DEF Known, Content
<1>2. ASSUME \/ NewChunk \/ \E n \in WriteSizes : Write(n)
      PROVE  ContentInv'
  <2>1. /\ UNCHANGED <<written, bucket>>
        /\ disk' \in {disk, Put(disk, part, <<>>)} /\ part \in Nat
    BY <1>2 DEF NewChunk, Write, TypeOK
  <2>2. ASSUME NEW p \in Nat, Known(p)'
        PROVE  Content(p)' = <<>> \/ (Known(p) /\ Content(p)' = Content(p))
    <3>1. CASE disk' = disk
      BY <2>1, <2>2, <3>1 DEF Known, Content
    <3>2. CASE disk' = Put(disk, part, <<>>)
      BY <2>1, <2>2, <3>2 DEF Known, Content, Put
    <3> QED
      BY <2>1, <3>1, <3>2
  <2> QED
    BY <2>1, <2>2, SameContents
<1>3. CASE AppendSlice
  BY <1>3, AppendKeepsContents
<1>4. ASSUME NEW w \in Worker, Upload(w) \/ UploadFails(w) PROVE ContentInv'
  <2>1. /\ UNCHANGED <<disk, written>>
        /\ \/ bucket' = bucket
           \/ bucket' = Put(bucket, Part(chunk[w]), disk[chunk[w]])
        /\ wpc[w] = "copy"
    BY <1>4 DEF Upload, UploadFails, writerVars
  <2>2. chunk[w] \in DOMAIN disk
    BY <2>1 DEF KeeperInv, Busy
  <2>3. \A p \in Nat : p # chunk[w] =>
            /\ Part(p) \in DOMAIN bucket' <=> Part(p) \in DOMAIN bucket
            /\ Part(p) \in DOMAIN bucket => bucket'[Part(p)] = bucket[Part(p)]
    BY <2>1, PartInjective DEF Put
  <2>4. \A p \in Nat : Known(p)' => Known(p) /\ Content(p)' = Content(p)
    BY <2>1, <2>2, <2>3 DEF Known, Content
  <2> QED
    BY <2>1, <2>4, SameContents
<1>5. ASSUME NEW w \in Worker, RemoveFile(w) PROVE ContentInv'
  <2>1. /\ UNCHANGED <<written, bucket>> /\ wpc[w] = "remove"
        /\ disk' = disk \/ disk' = Drop(disk, chunk[w])
    BY <1>5 DEF RemoveFile, writerVars
  <2>2. /\ chunk[w] \in DOMAIN disk /\ Part(chunk[w]) \in DOMAIN bucket
        /\ bucket[Part(chunk[w])] = disk[chunk[w]]
    BY <2>1 DEF KeeperInv, Busy, TypeOK
  <2>3. /\ \A p \in DOMAIN disk : p # chunk[w] => p \in DOMAIN disk'
        /\ \A p \in DOMAIN disk' : p \in DOMAIN disk /\ disk'[p] = disk[p]
    BY <2>1 DEF Drop
  <2>4. ASSUME NEW p \in Nat, Known(p)'
        PROVE  Known(p) /\ Content(p)' = Content(p)
    <3>1. CASE p = chunk[w]
      BY <2>1, <2>2, <2>3, <3>1 DEF Known, Content
    <3>2. CASE p # chunk[w]
      BY <2>1, <2>3, <2>4, <3>2 DEF Known, Content
    <3> QED
      BY <3>1, <3>2
  <2> QED
    BY <2>1, <2>4, SameContents
<1>6. CASE ComposeBatch \/ CopyLast
  <2>1. /\ UNCHANGED <<written, disk>>
        /\ \/ bucket' = bucket
           \/ \E v : bucket' = Put(bucket, Composed(round), v)
           \/ \E v : bucket' = Put(bucket, Target, v)
    BY <1>6 DEF ComposeBatch, ComposeInto, CopyLast
  <2>2. \A p : Part(p) # Composed(round) /\ Part(p) # Target
    BY DEF Part, Composed, Target
  <2>3. \A p \in Nat : Part(p) \in DOMAIN bucket' =>
            Part(p) \in DOMAIN bucket /\ bucket'[Part(p)] = bucket[Part(p)]
    BY <2>1, <2>2 DEF Put
  <2> QED
    BY <1>1, <2>1, <2>3
<1>7. CASE DeleteSource
  <2>1. /\ UNCHANGED <<written, disk>>
        /\ bucket' = bucket \/ bucket' = Drop(bucket, Head(deleting))
    BY <1>7 DEF DeleteSource
  <2>2. \A p \in Nat : Part(p) \in DOMAIN bucket' =>
            Part(p) \in DOMAIN bucket /\ bucket'[Part(p)] = bucket[Part(p)]
    BY <2>1 DEF Drop
  <2> QED
    BY <1>1, <2>1, <2>2
<1>8. ASSUME \/ DiskFails \/ Close \/ CloseUpload \/ WaitEnds \/ RoundEnds
             \/ CloseClientFails \/ Fatal \/ Terminating \/ UNCHANGED vars
      PROVE  ContentInv'
  <2>1. UNCHANGED <<written, disk, bucket>>
    BY <1>8 DEF DiskFails, Close, CloseUpload, WaitEnds, RoundEnds, CloseClientFails,
     Fatal, Terminating, vars, writerVars
  <2> QED
    BY <1>1, <2>1
<1>9. ASSUME NEW w \in Worker,
             \/ Send(w) \/ WorkerEnds(w) \/ ConnectFails(w) \/ PermissionDenied(w) \/ Register(w)
      PROVE  ContentInv'
  <2>1. UNCHANGED <<written, disk, bucket>>
    BY <1>9 DEF Send, WorkerEnds, ConnectFails, PermissionDenied, Register, writerVars
  <2> QED
    BY <1>1, <2>1
<1> QED
  BY <1>2, <1>3, <1>4, <1>5, <1>6, <1>7, <1>8, <1>9 DEF Next, WriterStep, WorkerStep

OneWorker == \A v, w \in Worker : v = w

\* A single worker registers the chunks in the order in which it gets them.
SortedInv ==
    OneWorker /\ round = 0 =>
        \A w \in Worker :
            /\ chunk[w] < part \/ chunk[w] = 0
            /\ \A i \in DOMAIN tmpObjs, p \in Nat : tmpObjs[i] = Part(p) => p <= chunk[w]
            /\ \A i, j \in DOMAIN tmpObjs, p, q \in Nat :
                i < j /\ tmpObjs[i] = Part(p) /\ tmpObjs[j] = Part(q) => p <= q

LEMMA SortedStep ==
    ASSUME TypeOK, SortedInv, [Next]_vars
    PROVE  SortedInv'
<1> SUFFICES ASSUME OneWorker, round' = 0, NEW w \in Worker
             PROVE  /\ chunk'[w] < part' \/ chunk'[w] = 0
                    /\ \A i \in DOMAIN tmpObjs', p \in Nat : tmpObjs'[i] = Part(p) => p <= chunk'[w]
                    /\ \A i, j \in DOMAIN tmpObjs', p, q \in Nat :
                        i < j /\ tmpObjs'[i] = Part(p) /\ tmpObjs'[j] = Part(q) => p <= q
  BY DEF SortedInv, OneWorker
<1> DEFINE Q == /\ chunk'[w] < part' \/ chunk'[w] = 0
                /\ \A i \in DOMAIN tmpObjs', p \in Nat : tmpObjs'[i] = Part(p) => p <= chunk'[w]
                /\ \A i, j \in DOMAIN tmpObjs', p, q \in Nat :
                    i < j /\ tmpObjs'[i] = Part(p) /\ tmpObjs'[j] = Part(q) => p <= q
<1>1. part \in Nat /\ round \in Nat /\ chunk[w] \in Nat
  BY DEF TypeOK
<1>2. round = 0 /\ ~ComposeBatch
  <2>1. round' = round \/ round' = round + 1
    BY RetryType DEF Next, WriterStep, WorkerStep, Write, NewChunk, AppendSlice, DiskFails,
       Close, CloseUpload, WaitEnds, ComposeBatch, ComposeInto, CopyLast, DeleteSource,
       RoundEnds, CloseClientFails, Fatal, Terminating, Send, WorkerEnds, Register, Upload,
       ConnectFails, UploadFails, PermissionDenied, RemoveFile, vars, closeVars
  <2>2. ComposeBatch => round' = round + 1
    BY DEF ComposeBatch, ComposeInto
  <2>3. round + 1 # 0
    BY <1>1
  <2> QED
    BY <2>1, <2>2, <2>3
<1>3. /\ chunk[w] < part \/ chunk[w] = 0
      /\ \A i \in DOMAIN tmpObjs, p \in Nat : tmpObjs[i] = Part(p) => p <= chunk[w]
      /\ \A i, j \in DOMAIN tmpObjs, p, q \in Nat :
            i < j /\ tmpObjs[i] = Part(p) /\ tmpObjs[j] = Part(q) => p <= q
  BY <1>2 DEF SortedInv
<1>4. ASSUME UNCHANGED <<tmpObjs, chunk>>, part' = part \/ part' = part + 1 PROVE Q
  BY <1>1, <1>3, <1>4
<1>5. CASE \E n \in WriteSizes : Write(n)
  BY <1>1, <1>4, <1>5 DEF Write, workerVars
<1>6. CASE NewChunk
  BY <1>1, <1>4, <1>6 DEF NewChunk, workerVars
<1>7. ASSUME \/ AppendSlice \/ DiskFails \/ Close \/ CloseUpload \/ WaitEnds \/ CopyLast
             \/ DeleteSource \/ RoundEnds \/ CloseClientFails \/ Fatal \/ Terminating
             \/ UNCHANGED vars
      PROVE  Q
  BY <1>4, <1>7 DEF AppendSlice, DiskFails, Close, CloseUpload, WaitEnds, CopyLast,
     DeleteSource, RoundEnds, CloseClientFails, Fatal, Terminating, vars, writerVars,
     workerVars
<1>8. ASSUME NEW v \in Worker,
             \/ WorkerEnds(v) \/ Upload(v) \/ ConnectFails(v) \/ UploadFails(v)
             \/ PermissionDenied(v) \/ RemoveFile(v)
      PROVE  Q
  BY <1>4, <1>8 DEF WorkerEnds, Upload, ConnectFails, UploadFails, PermissionDenied,
     RemoveFile, writerVars, workerVars
<1>9. ASSUME NEW v \in Worker, Send(v) PROVE Q
  <2>1. v = w
    BY DEF OneWorker
  <2>2. /\ part' = part /\ tmpObjs' = tmpObjs /\ chunk'[w] = part - 1 /\ part # 0
    BY <1>9, <2>1 DEF Send, TypeOK
  <2>3. chunk[w] <= part - 1 /\ part - 1 \in Nat /\ part - 1 < part
    BY <1>1, <1>3, <2>2
  <2>4. \A p \in Nat : p <= chunk[w] => p <= part - 1
    BY <1>1, <2>3
  <2> QED
    BY <1>3, <2>2, <2>3, <2>4
<1>10. ASSUME NEW v \in Worker, Register(v) PROVE Q
  <2>1. v = w
    BY DEF OneWorker
  <2>2. /\ UNCHANGED <<part, chunk>> /\ tmpObjs' = Append(tmpObjs, Part(chunk[w]))
    BY <1>10, <2>1 DEF Register, writerVars
  <2>3. Part(chunk[w]) \in Name
    BY <1>1 DEF Part, Name
  <2> PICK m \in Nat : m = Len(tmpObjs)
    BY LenProperties DEF TypeOK
  <2>4. /\ DOMAIN tmpObjs = 1..m /\ DOMAIN tmpObjs' = 1..(m + 1)
        /\ \A i \in 1..m : tmpObjs'[i] = tmpObjs[i]
        /\ tmpObjs'[m + 1] = Part(chunk[w])
    BY <2>2, <2>3, AppendProperties, LenProperties DEF TypeOK
  <2>5. ASSUME NEW i \in DOMAIN tmpObjs', NEW p \in Nat, tmpObjs'[i] = Part(p)
        PROVE  p <= chunk'[w]
    <3>1. CASE i = m + 1
      BY <1>1, <2>2, <2>4, <2>5, <3>1, PartInjective
    <3>2. CASE i # m + 1
      <4>1. i \in DOMAIN tmpObjs /\ tmpObjs[i] = Part(p)
        BY <2>4, <2>5, <3>2
      <4> QED
        BY <1>3, <2>2, <4>1
    <3> QED
      BY <3>1, <3>2
  <2>6. ASSUME NEW i \in DOMAIN tmpObjs', NEW j \in DOMAIN tmpObjs', NEW p \in Nat,
               NEW q \in Nat, i < j, tmpObjs'[i] = Part(p), tmpObjs'[j] = Part(q)
        PROVE  p <= q
    <3>1. i \in DOMAIN tmpObjs /\ tmpObjs[i] = Part(p)
      BY <2>4, <2>6
    <3>2. CASE j = m + 1
      <4>1. q = chunk[w]
        BY <2>4, <2>6, <3>2, PartInjective
      <4> QED
        BY <1>3, <3>1, <4>1
    <3>3. CASE j # m + 1
      <4>1. j \in DOMAIN tmpObjs /\ tmpObjs[j] = Part(q)
        BY <2>4, <2>6, <3>3
      <4> QED
        BY <1>3, <2>6, <3>1, <4>1
    <3> QED
      BY <3>2, <3>3
  <2> QED
    BY <1>3, <2>2, <2>5, <2>6
<1> QED
  BY <1>2, <1>5, <1>6, <1>7, <1>8, <1>9, <1>10 DEF Next, WriterStep, WorkerStep

\* The listed objects are stored and none is listed twice.
There(t) == IsInjective(t) /\ Range(t) \subseteq DOMAIN bucket

\* Together they hold each slice once; with one worker, in the order of the
\* Writes.
Whole(t) ==
    /\ \A i \in DOMAIN t : /\ IsInjective(bucket[t[i]])
                           /\ Range(bucket[t[i]]) \subseteq 1..Len(written)
    /\ \A i, j \in DOMAIN t : i # j => Range(bucket[t[i]]) \cap Range(bucket[t[j]]) = {}
    /\ \A k \in 1..Len(written) : \E i \in DOMAIN t : k \in Range(bucket[t[i]])
    /\ OneWorker =>
        /\ \A i \in DOMAIN t : Ascends(bucket[t[i]])
        /\ \A i, j \in DOMAIN t : i < j => Before(bucket[t[i]], bucket[t[j]])

FreshInv == pc = "compose" /\ round = 0 /\ There(tmpObjs) => Whole(tmpObjs)

\* A chunk that was registered twice fails the export at the latest when its
\* object is deleted for the second time: what is composed is whole only if
\* all that is listed is there.
WholeInv ==
    /\ pc = "compose" /\ There(tmpObjs) => Whole(tmpObjs)
    /\ pc = "delete" /\ There(tmpObjs) /\ There(deleting)
         /\ Range(tmpObjs) \cap Range(deleting) = {} => Whole(tmpObjs)

\* When the workers have ended, the registered objects are the chunks.
LEMMA Fresh ==
    ASSUME TypeOK, KeeperInv, NamesInv, DeleteInv, ContentInv, SortedInv, AllUploaded
    PROVE  FreshInv
<1> SUFFICES ASSUME pc = "compose", round = 0, There(tmpObjs) PROVE Whole(tmpObjs)
  BY DEF FreshInv
<1>1. ASSUME NEW i \in DOMAIN tmpObjs
      PROVE  \E p \in Nat : /\ tmpObjs[i] = Part(p) /\ Known(p)
                            /\ bucket[tmpObjs[i]] = Content(p) /\ Content(p) \in Seq(Nat)
  <2>1. tmpObjs[i] \in Range(tmpObjs) /\ tmpObjs[i] \in DOMAIN bucket
    BY DEF Range, There
  <2>2. PICK p \in Nat : tmpObjs[i] = Part(p)
    BY <2>1 DEF NamesInv
  <2>3. Known(p) /\ bucket[tmpObjs[i]] = Content(p)
    BY <2>1, <2>2 DEF Known, Content, KeeperInv
  <2>4. bucket[tmpObjs[i]] \in Seq(Nat)
    BY <2>1 DEF DeleteInv
  <2> QED
    BY <2>2, <2>3, <2>4
<1>2. ASSUME NEW i \in DOMAIN tmpObjs
      PROVE  /\ IsInjective(bucket[tmpObjs[i]]) /\ Ascends(bucket[tmpObjs[i]])
             /\ Range(bucket[tmpObjs[i]]) \subseteq 1..Len(written)
  <2>1. PICK p \in Nat : /\ Known(p) /\ bucket[tmpObjs[i]] = Content(p)
                         /\ Content(p) \in Seq(Nat)
    BY <1>1
  <2>2. Ascends(Content(p)) /\ Range(Content(p)) \subseteq 1..Len(written)
    BY <2>1 DEF ContentInv
  <2> QED
    BY <2>1, <2>2, AscendsInjects
<1>3. \A p, q \in Nat : Known(p) /\ Known(q) /\ p # q =>
        Range(Content(p)) \cap Range(Content(q)) = {}
  <2> SUFFICES ASSUME NEW p \in Nat, NEW q \in Nat, Known(p), Known(q), p # q, NEW x,
                      x \in Range(Content(p)), x \in Range(Content(q))
               PROVE  FALSE
    OBVIOUS
  <2>1. x < x
    BY DEF ContentInv, Before
  <2>2. x \in 1..Len(written) /\ Len(written) \in Nat
    BY LenProperties DEF ContentInv, TypeOK
  <2> QED
    BY <2>1, <2>2
<1>4. ASSUME NEW i \in DOMAIN tmpObjs, NEW j \in DOMAIN tmpObjs, i # j
      PROVE  /\ Range(bucket[tmpObjs[i]]) \cap Range(bucket[tmpObjs[j]]) = {}
             /\ OneWorker /\ i < j => Before(bucket[tmpObjs[i]], bucket[tmpObjs[j]])
  <2>1. PICK p \in Nat : tmpObjs[i] = Part(p) /\ Known(p) /\ bucket[tmpObjs[i]] = Content(p)
    BY <1>1
  <2>2. PICK q \in Nat : tmpObjs[j] = Part(q) /\ Known(q) /\ bucket[tmpObjs[j]] = Content(q)
    BY <1>1
  <2>3. p # q
    BY <1>4, <2>1, <2>2 DEF There, IsInjective
  <2>4. ASSUME OneWorker, i < j PROVE Before(Content(p), Content(q))
    <3>1. PICK w \in Worker : TRUE
      BY WorkerAssumption
    <3>2. p <= q
      BY <2>1, <2>2, <2>4, <3>1 DEF SortedInv
    <3> QED
      BY <2>1, <2>2, <2>3, <3>2 DEF ContentInv
  <2> QED
    BY <1>3, <2>1, <2>2, <2>3, <2>4
<1>5. \A k \in 1..Len(written) : \E i \in DOMAIN tmpObjs : k \in Range(bucket[tmpObjs[i]])
  BY DEF AllUploaded
<1>6. \A i, j \in DOMAIN tmpObjs : i < j => i # j
  BY BatchIs
<1> QED
  BY <1>2, <1>4, <1>5, <1>6 DEF Whole

\* The members of what is composed and of what is left.
LEMMA SplitOfObjects ==
    ASSUME TypeOK, NEW i \in DOMAIN tmpObjs
    PROVE  \/ i \in DOMAIN Batch /\ tmpObjs[i] = Batch[i]
           \/ i > Len(Batch) /\ i - Len(Batch) \in DOMAIN Rest /\ tmpObjs[i] = Rest[i - Len(Batch)]
<1>1. i \in 1..Len(tmpObjs) /\ Len(tmpObjs) \in Nat /\ Len(Batch) \in Nat
  BY BatchIs
<1>2. CASE i <= Len(Batch)
  <2>1. i \in 1..Len(Batch)
    BY <1>1, <1>2
  <2> QED
    BY <2>1, BatchIs
<1>3. CASE ~(i <= Len(Batch))
  <2>1. i - Len(Batch) \in 1..Len(Rest) /\ i - Len(Batch) + Len(Batch) = i
    BY <1>1, <1>3, RestIs
  <2> QED
    BY <1>1, <1>3, <2>1, RestIs
<1> QED
  BY <1>2, <1>3

\* A compose keeps the slices whole.
LEMMA ComposeKeepsWhole ==
    ASSUME TypeOK, NamesInv, DeleteInv, WholeInv, ComposeBatch, pc' = "delete",
           There(tmpObjs)', There(deleting)', Range(tmpObjs') \cap Range(deleting') = {}
    PROVE  Whole(tmpObjs)'
<1> PICK c : c = [i \in DOMAIN Batch |-> bucket[Batch[i]]]
  OBVIOUS
<1>1. /\ SourcesExist /\ deleting' = Batch /\ tmpObjs' = <<Composed(round)>> \o Rest
      /\ bucket' = Put(bucket, Composed(round), FlattenSeq(c)) /\ pc = "compose"
      /\ UNCHANGED written
  BY DEF ComposeBatch, ComposeInto, Rest
<1>2. /\ DOMAIN c = DOMAIN Batch
      /\ Range(FlattenSeq(c)) = UNION {Range(c[i]) : i \in DOMAIN c}
      /\ Apart(c) => IsInjective(FlattenSeq(c))
      /\ Rising(c) => Ascends(FlattenSeq(c))
  BY <1>1, ContentsAre
<1> PICK x : x = FlattenSeq(c)
  OBVIOUS
<1>3. /\ bucket'[Composed(round)] = x /\ Composed(round) \in DOMAIN bucket'
      /\ \A o \in DOMAIN bucket' : o # Composed(round) =>
             o \in DOMAIN bucket /\ bucket'[o] = bucket[o]
  BY <1>1 DEF Put
<1>4. /\ DOMAIN tmpObjs' = 1..(Len(Rest) + 1) /\ Len(Rest) \in Nat /\ DOMAIN Rest = 1..Len(Rest)
      /\ tmpObjs'[1] = Composed(round)
      /\ \A i \in 2..(Len(Rest) + 1) : tmpObjs'[i] = Rest[i - 1]
  <2>1. \A i \in 2..(Len(Rest) + 1) : tmpObjs'[i] = Rest[i - 1]
    BY <1>1, ComposedIs
  <2> QED
    BY <1>1, <2>1, ComposedIs, RestIs
<1>5. ASSUME NEW r \in DOMAIN Rest
      PROVE  /\ Rest[r] # Composed(round) /\ Rest[r] \in DOMAIN bucket
             /\ r + 1 \in DOMAIN tmpObjs' /\ tmpObjs'[r + 1] = Rest[r] /\ r + 1 # 1
             /\ bucket'[Rest[r]] = bucket[Rest[r]]
             /\ Rest[r] \in Range(tmpObjs')
  <2>1. r + 1 \in 2..(Len(Rest) + 1) /\ r + 1 - 1 = r /\ 1 \in DOMAIN tmpObjs' /\ r + 1 # 1
        /\ r + 1 \in DOMAIN tmpObjs'
    BY <1>4
  <2>2. tmpObjs'[r + 1] = Rest[r]
    BY <1>4, <2>1
  <2>3. tmpObjs'[r + 1] # tmpObjs'[1]
    BY <2>1 DEF There, IsInjective
  <2>4. Rest[r] \in DOMAIN bucket' /\ Rest[r] \in Range(tmpObjs')
    BY <2>1, <2>2 DEF There, Range
  <2> QED
    BY <1>3, <1>4, <2>1, <2>2, <2>3, <2>4
<1>6. There(tmpObjs)
  <2>1. Range(tmpObjs) \subseteq DOMAIN bucket
    <3>1. ASSUME NEW i \in DOMAIN tmpObjs PROVE tmpObjs[i] \in DOMAIN bucket
      BY <1>1, <1>5, SplitOfObjects DEF SourcesExist
    <3> QED
      BY <3>1 DEF Range
  <2>2. ASSUME NEW i \in DOMAIN tmpObjs, NEW j \in DOMAIN tmpObjs, tmpObjs[i] = tmpObjs[j]
        PROVE  i = j
    <3>0. i \in Nat /\ j \in Nat /\ Len(Batch) \in Nat /\ DOMAIN Batch = 1..Len(Batch)
      BY BatchIs
    <3>1. CASE i \in DOMAIN Batch /\ j \in DOMAIN Batch
      <4>1. Batch[i] = tmpObjs[i] /\ Batch[j] = tmpObjs[j]
        BY <3>1, BatchIs
      <4> QED
        BY <1>1, <2>2, <3>1, <4>1 DEF There, IsInjective
    <3>2. CASE i \notin DOMAIN Batch /\ j \notin DOMAIN Batch
      <4>1. /\ i - Len(Batch) \in DOMAIN Rest /\ tmpObjs[i] = Rest[i - Len(Batch)]
            /\ j - Len(Batch) \in DOMAIN Rest /\ tmpObjs[j] = Rest[j - Len(Batch)]
        BY <3>2, SplitOfObjects
      <4>2. ASSUME NEW r \in DOMAIN Rest, NEW q \in DOMAIN Rest, Rest[r] = Rest[q]
            PROVE  r = q
        <5>1. r + 1 = q + 1 /\ r \in Nat /\ q \in Nat
          BY <1>4, <1>5, <4>2 DEF There, IsInjective
        <5> QED
          BY <5>1
      <4>3. i - Len(Batch) = j - Len(Batch)
        BY <2>2, <4>1, <4>2
      <4> QED
        BY <3>0, <4>3
    <3>3. \A a, b \in DOMAIN tmpObjs : a \in DOMAIN Batch /\ b \notin DOMAIN Batch
              => tmpObjs[a] # tmpObjs[b]
      <4> SUFFICES ASSUME NEW a \in DOMAIN tmpObjs, NEW b \in DOMAIN tmpObjs,
                          a \in DOMAIN Batch, b \notin DOMAIN Batch
                   PROVE  tmpObjs[a] # tmpObjs[b]
        OBVIOUS
      <4>1. tmpObjs[a] = Batch[a] /\ Batch[a] \in Range(deleting')
        BY <1>1, BatchIs DEF Range
      <4>2. tmpObjs[b] \in Range(tmpObjs')
        BY <1>5, SplitOfObjects
      <4> QED
        BY <4>1, <4>2
    <3> QED
      BY <2>2, <3>1, <3>2, <3>3
  <2> QED
    BY <2>1, <2>2 DEF There, IsInjective
<1>7. Whole(tmpObjs)
  BY <1>1, <1>6 DEF WholeInv
<1>8. \A i \in DOMAIN Batch : i \in DOMAIN tmpObjs /\ Batch[i] = tmpObjs[i] /\
          c[i] = bucket[tmpObjs[i]]
  BY BatchIs
<1>9. \A r \in DOMAIN Rest : r + Len(Batch) \in DOMAIN tmpObjs /\ tmpObjs[r + Len(Batch)] = Rest[r]
        /\ r + Len(Batch) \notin DOMAIN Batch /\ r + Len(Batch) - Len(Batch) = r
  BY RestIs, BatchIs
<1>10. IsInjective(x) /\ Range(x) \subseteq 1..Len(written)
  <2>1. Apart(c)
    BY <1>2, <1>7, <1>8 DEF Apart, Whole
  <2>2. \A i \in DOMAIN c : Range(c[i]) \subseteq 1..Len(written)
    BY <1>2, <1>7, <1>8 DEF Whole
  <2> QED
    BY <1>2, <2>1, <2>2
<1>11. ASSUME NEW r \in DOMAIN Rest
       PROVE  /\ IsInjective(bucket[Rest[r]]) /\ Range(bucket[Rest[r]]) \subseteq 1..Len(written)
              /\ Range(bucket[Rest[r]]) \cap Range(x) = {}
              /\ \A q \in DOMAIN Rest : q # r =>
                     Range(bucket[Rest[r]]) \cap Range(bucket[Rest[q]]) = {}
  <2>1. IsInjective(bucket[Rest[r]]) /\ Range(bucket[Rest[r]]) \subseteq 1..Len(written)
    BY <1>7, <1>9 DEF Whole
  <2>2. \A i \in DOMAIN Batch : Range(bucket[Rest[r]]) \cap Range(c[i]) = {}
    BY <1>7, <1>8, <1>9 DEF Whole
  <2>3. ASSUME NEW q \in DOMAIN Rest, q # r
        PROVE  Range(bucket[Rest[r]]) \cap Range(bucket[Rest[q]]) = {}
    <3>0. q \in Nat /\ r \in Nat /\ Len(Batch) \in Nat
      BY <1>4, BatchIs
    <3>1. q + Len(Batch) # r + Len(Batch)
      BY <2>3, <3>0
    <3> QED
      BY <1>7, <1>9, <3>1 DEF Whole
  <2> QED
    BY <1>2, <2>1, <2>2, <2>3
<1>12. \A i \in DOMAIN tmpObjs' : i = 1 \/ (i - 1 \in DOMAIN Rest /\ tmpObjs'[i] = Rest[i - 1])
  BY <1>4
<1>13. bucket'[tmpObjs'[1]] = x /\ \A i \in DOMAIN tmpObjs' : i # 1 =>
          i - 1 \in DOMAIN Rest /\ bucket'[tmpObjs'[i]] = bucket[Rest[i - 1]]
  BY <1>3, <1>4, <1>5, <1>12
<1>14. ASSUME NEW i \in DOMAIN tmpObjs'
       PROVE  IsInjective(bucket'[tmpObjs'[i]]) /\ Range(bucket'[tmpObjs'[i]]) \subseteq
           1..Len(written')
  BY <1>1, <1>10, <1>11, <1>13
<1>15. ASSUME NEW i \in DOMAIN tmpObjs', NEW j \in DOMAIN tmpObjs', i # j
       PROVE  Range(bucket'[tmpObjs'[i]]) \cap Range(bucket'[tmpObjs'[j]]) = {}
  <2>1. CASE i = 1
    BY <1>11, <1>13, <1>15, <2>1
  <2>2. CASE j = 1
    BY <1>11, <1>13, <1>15, <2>2
  <2>3. CASE i # 1 /\ j # 1
    <3>1. i - 1 # j - 1
      BY <1>4, <1>15
    <3> QED
      BY <1>11, <1>13, <2>3, <3>1
  <2> QED
    BY <2>1, <2>2, <2>3
<1>16. ASSUME NEW k \in 1..Len(written')
       PROVE  \E i \in DOMAIN tmpObjs' : k \in Range(bucket'[tmpObjs'[i]])
  <2>1. PICK i \in DOMAIN tmpObjs : k \in Range(bucket[tmpObjs[i]])
    BY <1>1, <1>7 DEF Whole
  <2>2. CASE i \in DOMAIN Batch
    <3>1. k \in Range(x)
      BY <1>2, <1>8, <2>1, <2>2
    <3>2. 1 \in 1..(Len(Rest) + 1)
      BY <1>4
    <3> QED
      BY <1>4, <1>13, <3>1, <3>2
  <2>3. CASE i \notin DOMAIN Batch
    <3>1. i - Len(Batch) \in DOMAIN Rest /\ tmpObjs[i] = Rest[i - Len(Batch)]
      BY <2>3, SplitOfObjects
    <3> QED
      BY <1>5, <2>1, <3>1
  <2> QED
    BY <2>2, <2>3
<1>17. ASSUME OneWorker
       PROVE  /\ Ascends(x)
              /\ \A r \in DOMAIN Rest : Ascends(bucket[Rest[r]]) /\ Before(x, bucket[Rest[r]])
              /\ \A r, q \in DOMAIN Rest : r < q => Before(bucket[Rest[r]], bucket[Rest[q]])
  <2>0. Len(Batch) \in Nat /\ DOMAIN Batch = 1..Len(Batch) /\
            \A r \in DOMAIN Rest : r \in Nat /\ r > 0
    BY <1>4, BatchIs
  <2>1. Rising(c)
    BY <1>2, <1>7, <1>8, <1>17 DEF Rising, Whole
  <2>2. ASSUME NEW r \in DOMAIN Rest, NEW i \in DOMAIN Batch
        PROVE  Before(c[i], bucket[Rest[r]])
    <3>1. i < r + Len(Batch)
      BY <2>0, <2>2
    <3> QED
      BY <1>7, <1>8, <1>9, <1>17, <3>1 DEF Whole
  <2>3. ASSUME NEW r \in DOMAIN Rest PROVE Ascends(bucket[Rest[r]]) /\ Before(x, bucket[Rest[r]])
    <3>1. Ascends(bucket[Rest[r]])
      BY <1>7, <1>9, <1>17 DEF Whole
    <3>2. Before(x, bucket[Rest[r]])
      BY <1>2, <2>2 DEF Before
    <3> QED
      BY <3>1, <3>2
  <2>4. ASSUME NEW r \in DOMAIN Rest, NEW q \in DOMAIN Rest, r < q
        PROVE  Before(bucket[Rest[r]], bucket[Rest[q]])
    <3>1. r + Len(Batch) < q + Len(Batch)
      BY <2>0, <2>4
    <3> QED
      BY <1>7, <1>9, <1>17, <3>1 DEF Whole
  <2> QED
    BY <1>2, <2>1, <2>3, <2>4
<1>18. ASSUME OneWorker
       PROVE  /\ \A i \in DOMAIN tmpObjs' : Ascends(bucket'[tmpObjs'[i]])
              /\ \A i, j \in DOMAIN tmpObjs' : i < j =>
                     Before(bucket'[tmpObjs'[i]], bucket'[tmpObjs'[j]])
  <2>1. \A i \in DOMAIN tmpObjs' : Ascends(bucket'[tmpObjs'[i]])
    BY <1>13, <1>17, <1>18
  <2>2. ASSUME NEW i \in DOMAIN tmpObjs', NEW j \in DOMAIN tmpObjs', i < j
        PROVE  Before(bucket'[tmpObjs'[i]], bucket'[tmpObjs'[j]])
    <3>1. j # 1 /\ (i # 1 => i - 1 < j - 1)
      BY <1>4, <2>2
    <3>2. CASE i = 1
      BY <1>13, <1>17, <1>18, <3>1, <3>2
    <3>3. CASE i # 1
      BY <1>13, <1>17, <1>18, <3>1, <3>3
    <3> QED
      BY <3>2, <3>3
  <2> QED
    BY <2>1, <2>2
<1>19. /\ \A i \in DOMAIN tmpObjs' : Ascends(bucket[tmpObjs[i]])' <=> Ascends(bucket'[tmpObjs'[i]])
       /\ \A i, j \in DOMAIN tmpObjs' :
            Before(bucket[tmpObjs[i]], bucket[tmpObjs[j]])' <=>
                Before(bucket'[tmpObjs'[i]], bucket'[tmpObjs'[j]])
  BY DEF Ascends, Before
<1>20. OneWorker' <=> OneWorker
  BY DEF OneWorker
<1> QED
  BY <1>14, <1>15, <1>16, <1>18, <1>19, <1>20 DEF Whole

\* What is listed holds what it held.
LEMMA SameWhole ==
    ASSUME Whole(tmpObjs), UNCHANGED <<tmpObjs, written>>,
           \A i \in DOMAIN tmpObjs : bucket'[tmpObjs[i]] = bucket[tmpObjs[i]]
    PROVE  Whole(tmpObjs)'
<1>1. OneWorker' <=> OneWorker
  BY DEF OneWorker
<1>2. /\ \A i \in DOMAIN tmpObjs : Ascends(bucket[tmpObjs[i]])' <=> Ascends(bucket[tmpObjs[i]])
      /\ \A i, j \in DOMAIN tmpObjs :
            Before(bucket[tmpObjs[i]], bucket[tmpObjs[j]])' <=>
                Before(bucket[tmpObjs[i]], bucket[tmpObjs[j]])
  BY DEF Ascends, Before
<1> QED
  BY <1>1, <1>2 DEF Whole

LEMMA WholeStep ==
    ASSUME TypeOK, KeeperInv, NamesInv, DeleteInv, UploadInv, WholeInv, FreshInv',
           [Next]_vars
    PROVE  WholeInv'
<1>1. ASSUME pc' \notin {"compose", "delete"} PROVE WholeInv'
  BY <1>1 DEF WholeInv
<1>2. ASSUME UNCHANGED <<pc, tmpObjs, bucket, deleting, written>> PROVE WholeInv'
  <2>1. There(tmpObjs)' <=> There(tmpObjs)
    BY <1>2 DEF There
  <2>2. There(deleting)' <=> There(deleting)
    BY <1>2 DEF There
  <2>3. Whole(tmpObjs) => Whole(tmpObjs)'
    BY <1>2, SameWhole
  <2> QED
    BY <1>2, <2>1, <2>2, <2>3 DEF WholeInv
<1>3. ASSUME \/ \E n \in WriteSizes : Write(n)
             \/ NewChunk \/ AppendSlice \/ DiskFails \/ Close \/ CloseUpload
             \/ CopyLast \/ CloseClientFails \/ Fatal
      PROVE  WholeInv'
  BY <1>1, <1>3 DEF Write, NewChunk, AppendSlice, DiskFails, Close, CloseUpload, CopyLast,
     CloseClientFails, Fatal
<1>4. CASE Terminating \/ UNCHANGED vars
  BY <1>2, <1>4 DEF Terminating, vars, writerVars, closeVars
<1>5. ASSUME NEW w \in Worker, WorkerStep(w) PROVE WholeInv'
  <2>1. pc \notin {"compose", "delete"}
    BY <1>5 DEF WorkerStep, Send, WorkerEnds, Register, Upload, ConnectFails, UploadFails,
       PermissionDenied, RemoveFile, KeeperInv
  <2>2. pc' \in {pc, "exited", "newChunk", "closeUpload"}
    BY <1>5, RetryType DEF WorkerStep, Send, WorkerEnds, Register, Upload, ConnectFails,
       UploadFails, PermissionDenied, RemoveFile, writerVars
  <2> QED
    BY <1>1, <2>1, <2>2
<1>6. CASE WaitEnds
  <2>1. pc' = "compose" /\ round' = 0
    BY <1>6 DEF WaitEnds, UploadInv, closeVars
  <2> QED
    BY <2>1 DEF FreshInv, WholeInv
<1>7. CASE RoundEnds
  <2>1. CASE pc = "delete"
    <3>1. /\ pc' = "compose" /\ deleting = <<>> /\ UNCHANGED <<tmpObjs, bucket, written>>
      BY <1>7, <2>1 DEF RoundEnds
    <3>2. There(tmpObjs)' => There(tmpObjs)
      BY <3>1 DEF There
    <3>3. There(deleting) /\ Range(deleting) = {}
      BY <3>1 DEF There, Range, IsInjective
    <3>4. There(tmpObjs) => Whole(tmpObjs)
      BY <2>1, <3>3 DEF WholeInv
    <3> QED
      BY <3>1, <3>2, <3>4, SameWhole DEF WholeInv
  <2>2. CASE pc # "delete"
    BY <1>1, <1>7, <2>2 DEF RoundEnds
  <2> QED
    BY <2>1, <2>2
<1>8. CASE ComposeBatch
  <2>1. CASE pc' = "delete"
    BY <1>8, <2>1, ComposeKeepsWhole DEF WholeInv
  <2>2. CASE pc' # "delete"
    BY <1>1, <1>8, <2>2 DEF ComposeBatch, ComposeInto
  <2> QED
    BY <2>1, <2>2
<1>9. CASE DeleteSource
  <2>1. CASE pc' = "delete"
    <3> SUFFICES ASSUME There(tmpObjs)', There(deleting)',
                        Range(tmpObjs') \cap Range(deleting') = {}
                 PROVE  Whole(tmpObjs)'
      BY <2>1 DEF WholeInv
    <3>1. /\ pc = "delete" /\ deleting # <<>> /\ deleting \in Seq(Name)
          /\ Head(deleting) \in DOMAIN bucket
          /\ bucket' = Drop(bucket, Head(deleting)) /\ deleting' = Tail(deleting)
          /\ UNCHANGED <<tmpObjs, written>>
      BY <1>9, <2>1 DEF DeleteSource, TypeOK
    <3>2. /\ DOMAIN bucket' = DOMAIN bucket \ {Head(deleting)}
          /\ \A o \in DOMAIN bucket' : bucket'[o] = bucket[o]
      BY <3>1 DEF Drop
    <3>3. There(tmpObjs) /\ Head(deleting) \notin Range(tmpObjs)
      BY <3>1, <3>2 DEF There
    <3>4. /\ Head(deleting) \notin Range(deleting')
          /\ Range(deleting') \subseteq DOMAIN bucket
      BY <3>2 DEF There
    <3>5. /\ Len(deleting) \in Nat /\ DOMAIN deleting = 1..Len(deleting)
          /\ DOMAIN deleting' = 1..(Len(deleting) - 1) /\ deleting[1] = Head(deleting)
          /\ \A i \in DOMAIN deleting' : deleting'[i] = deleting[i + 1]
      <4>1. /\ Len(deleting) \in Nat /\ DOMAIN deleting = 1..Len(deleting)
            /\ Tail(deleting) \in Seq(Name)
            /\ Len(Tail(deleting)) = Len(deleting) - 1
            /\ \A i \in 1..Len(Tail(deleting)) : Tail(deleting)[i] = deleting[i + 1]
            /\ deleting[1] = Head(deleting)
        BY <3>1, HeadTailProperties, LenProperties
      <4>2. DOMAIN Tail(deleting) = 1..Len(Tail(deleting))
        BY <4>1, LenProperties
      <4> QED
        BY <3>1, <4>1, <4>2
    <3>6. \A i \in DOMAIN deleting : i = 1 \/ (i - 1 \in DOMAIN deleting' /\
              deleting'[i - 1] = deleting[i])
      <4> TAKE i \in DOMAIN deleting
      <4>1. i = 1 \/ (i - 1 \in DOMAIN deleting' /\ i - 1 + 1 = i)
        BY <3>5
      <4> QED
        BY <3>5, <4>1
    <3>7. \A o \in Range(deleting) : o = Head(deleting) \/ o \in Range(deleting')
      BY <3>5, <3>6 DEF Range
    <3>8. ASSUME NEW i \in DOMAIN deleting, NEW j \in DOMAIN deleting, deleting[i] = deleting[j]
          PROVE  i = j
      <4>0. i \in Nat /\ j \in Nat
        BY <3>5
      <4>1. CASE i # 1 /\ j # 1
        <5>1. i - 1 = j - 1
          BY <3>6, <3>8, <4>1 DEF There, IsInjective
        <5> QED
          BY <4>0, <5>1
      <4>2. ASSUME NEW k \in DOMAIN deleting, k # 1 PROVE deleting[k] # Head(deleting)
        BY <3>4, <3>6, <4>2 DEF Range
      <4> QED
        BY <3>5, <3>8, <4>1, <4>2
    <3>9. There(deleting) /\ Range(tmpObjs) \cap Range(deleting) = {}
      BY <3>1, <3>3, <3>4, <3>7, <3>8 DEF There, IsInjective
    <3>10. Whole(tmpObjs)
      BY <3>1, <3>3, <3>9 DEF WholeInv
    <3>11. \A i \in DOMAIN tmpObjs : bucket'[tmpObjs[i]] = bucket[tmpObjs[i]]
      BY <3>1, <3>2 DEF There, Range
    <3> QED
      BY <3>1, <3>10, <3>11, SameWhole
  <2>2. CASE pc' # "delete"
    BY <1>1, <1>9, <2>2 DEF DeleteSource
  <2> QED
    BY <2>1, <2>2
<1> QED
  BY <1>3, <1>4, <1>5, <1>6, <1>7, <1>8, <1>9 DEF Next, WriterStep

\* What the chunks and the objects hold, in every reachable state.
LEMMA ContentsInvariant == Spec => [](ContentInv /\ SortedInv /\ WholeInv)
<1>1. Init => ContentInv /\ SortedInv /\ WholeInv
  <2> SUFFICES ASSUME Init PROVE ContentInv /\ SortedInv /\ WholeInv
    OBVIOUS
  <2>1. /\ DOMAIN disk = {} /\ DOMAIN bucket = {} /\ pc = "write" /\ DOMAIN tmpObjs = {}
        /\ \A w \in Worker : chunk[w] = 0
    BY DEF Init
  <2> QED
    BY <2>1 DEF ContentInv, Known, SortedInv, WholeInv
<1>2. TypeOK /\ ObjectsInv /\ ContentInv /\ [Next]_vars => ContentInv'
  BY ContentStep DEF ObjectsInv
<1>3. TypeOK /\ SortedInv /\ [Next]_vars => SortedInv'
  BY SortedStep
<1>4. TypeOK /\ ObjectsInv /\ ContentInv /\ SortedInv /\ AllUploaded => FreshInv
  BY Fresh DEF ObjectsInv
<1>5. TypeOK /\ ObjectsInv /\ UploadInv /\ WholeInv /\ FreshInv' /\ [Next]_vars => WholeInv'
  BY WholeStep DEF ObjectsInv
<1> QED
  BY <1>1, <1>2, <1>3, <1>4, <1>5, TypeCorrect, ObjectsInvariant, UploadInvariant,
     NothingLostInUpload, PTL DEF Spec

\* A sequence that holds each of the first n numbers once has length n.
LEMMA EachOnceIsLength ==
    ASSUME NEW s \in Seq(Nat), NEW n \in Nat, IsInjective(s), Range(s) = 1..n
    PROVE  Len(s) = n
<1>1. Len(s) \in Nat /\ DOMAIN s = 1..Len(s)
  BY LenProperties
<1>2. s \in Bijection(1..Len(s), 1..n)
  <2>1. s \in [1..Len(s) -> 1..n]
    <3>1. \A i \in 1..Len(s) : s[i] \in 1..n
      BY <1>1 DEF Range
    <3>2. s = [i \in 1..Len(s) |-> s[i]]
      BY <1>1
    <3> QED
      BY <3>1, <3>2
  <2>2. \A v \in 1..n : \E i \in 1..Len(s) : s[i] = v
    BY <1>1 DEF Range
  <2>3. \A i, j \in 1..Len(s) : s[i] = s[j] => i = j
    BY <1>1 DEF IsInjective
  <2> QED
    BY <2>1, <2>2, <2>3 DEF Bijection, Injection, Surjection
<1>3. ASSUME NEW m \in Nat PROVE IsFiniteSet(1..m) /\ Cardinality(1..m) = m
  <2>1. 1 \in Int /\ m \in Int /\ (IF 1 > m THEN 0 ELSE m - 1 + 1) = m
    OBVIOUS
  <2>2. IsFiniteSet(1..m) /\ Cardinality(1..m) = IF 1 > m THEN 0 ELSE m - 1 + 1
    BY <2>1, FS_Interval
  <2> QED
    BY <2>1, <2>2
<1>4. Cardinality(1..n) = Cardinality(1..Len(s))
  BY <1>1, <1>2, <1>3, FS_Bijection DEF ExistsBijection
<1> QED
  BY <1>1, <1>3, <1>4

\* If the numbers also grow, the i-th of them is i.
LEMMA GrowingIsIdentity ==
    ASSUME NEW n \in Nat, NEW s \in Seq(Nat), Len(s) = n, Range(s) = 1..n, Ascends(s)
    PROVE  \A i \in 1..n : s[i] = i
<1>1. DOMAIN s = 1..n /\ \A i \in 1..n : s[i] \in 1..n
  BY LenProperties DEF Range
<1> DEFINE T == {i \in 1..n : s[i] # i}
<1>2. ASSUME T # {} PROVE FALSE
  <2>1. T \in SUBSET Nat
    OBVIOUS
  <2>2. PICK i \in T : \A j \in T : i =< j
    BY <1>2, <2>1, LeastOf
  <2>3. i \in 1..n /\ s[i] # i /\ s[i] \in 1..n /\ i \in Nat /\ s[i] \in Nat
    BY <1>1
  <2>4. \A j \in 1..n : j < i => s[j] = j
    BY <2>2, <2>3
  <2>5. CASE s[i] < i
    BY <1>1, <2>3, <2>4, <2>5 DEF Ascends
  <2>6. CASE i < s[i]
    <3>1. PICK k \in 1..n : s[k] = i
      BY <1>1, <2>3 DEF Range
    <3>2. k # i /\ ~(k < i)
      BY <2>3, <2>4, <3>1
    <3>3. i < k
      BY <2>3, <3>2
    <3>4. s[i] < s[k]
      BY <1>1, <2>3, <3>3 DEF Ascends
    <3> QED
      BY <2>3, <2>6, <3>1, <3>4
  <2> QED
    BY <2>3, <2>5, <2>6
<1> QED
  BY <1>2

(***************************************************************************)
(* The refinement of StreamExport.                                         *)
(***************************************************************************)

\* Only CopyLast touches the target.
LEMMA TargetKept ==
    ASSUME TypeOK, NamesInv, DeleteInv, [Next]_vars, ~CopyLast
    PROVE  /\ Target \in DOMAIN bucket' <=> Target \in DOMAIN bucket
           /\ Target \in DOMAIN bucket => bucket'[Target] = bucket[Target]
<1> DEFINE Kept == /\ Target \in DOMAIN bucket' <=> Target \in DOMAIN bucket
                   /\ Target \in DOMAIN bucket => bucket'[Target] = bucket[Target]
<1>1. ASSUME UNCHANGED bucket PROVE Kept
  BY <1>1
<1>2. ASSUME \/ \E n \in WriteSizes : Write(n)
             \/ NewChunk \/ AppendSlice \/ DiskFails \/ Close \/ CloseUpload \/ WaitEnds
             \/ RoundEnds \/ CloseClientFails \/ Fatal \/ Terminating \/ UNCHANGED vars
      PROVE  Kept
  BY <1>2 DEF Write, NewChunk, AppendSlice, DiskFails, Close, CloseUpload, WaitEnds,
     RoundEnds, CloseClientFails, Fatal, Terminating, vars
<1>3. ASSUME NEW w \in Worker, WorkerStep(w) PROVE Kept
  <2>1. \/ bucket' = bucket
        \/ \E v : bucket' = Put(bucket, Part(chunk[w]), v)
    BY <1>3 DEF WorkerStep, Send, WorkerEnds, Register, Upload, ConnectFails, UploadFails,
       PermissionDenied, RemoveFile
  <2>2. Part(chunk[w]) # Target
    BY DEF Part, Target
  <2> QED
    BY <2>1, <2>2 DEF Put
<1>4. CASE ComposeBatch
  <2>1. \/ bucket' = bucket
        \/ \E v : bucket' = Put(bucket, Composed(round), v)
    BY <1>4 DEF ComposeBatch, ComposeInto
  <2>2. Composed(round) # Target
    BY DEF Composed, Target
  <2> QED
    BY <2>1, <2>2 DEF Put
<1>5. CASE DeleteSource
  <2>1. /\ pc \in {"delete", "deleteLast"} /\ deleting # <<>> /\ deleting \in Seq(Name)
        /\ bucket' = bucket \/ bucket' = Drop(bucket, Head(deleting))
    BY <1>5 DEF DeleteSource, TypeOK
  <2>2. Head(deleting) \in Range(deleting)
    BY <2>1, HeadTailRange
  <2>3. Target \in DOMAIN bucket => Head(deleting) # Target
    BY <2>1, <2>2 DEF DeleteInv, NamesInv, Goal
  <2> QED
    BY <2>1, <2>3 DEF Drop
<1> QED
  BY <1>2, <1>3, <1>4, <1>5 DEF Next, WriterStep

\* The single object that is copied holds every slice once.
LEMMA LastIsWhole ==
    ASSUME TypeOK, DeleteInv, WholeInv, CopyLast, SourcesExist
    PROVE  /\ Len(bucket[Batch[1]]) = Len(written)
           /\ Range(bucket[Batch[1]]) = 1..Len(written)
           /\ OneWorker => \A i \in DOMAIN bucket[Batch[1]] : bucket[Batch[1]][i] = i
<1>1. pc = "compose" /\ DOMAIN tmpObjs = 1..1 /\ DOMAIN Batch = 1..1 /\ Batch[1] = tmpObjs[1]
  <2>1. Len(Batch) = 1 /\ pc = "compose"
    BY DEF CopyLast
  <2>2. Len(tmpObjs) = 1
    BY <2>1, BatchIs
  <2>3. 1 \in 1..1
    OBVIOUS
  <2> QED
    BY <2>1, <2>2, <2>3, BatchIs
<1>2. tmpObjs[1] \in DOMAIN bucket
  BY <1>1 DEF SourcesExist
<1>3. There(tmpObjs)
  BY <1>1, <1>2 DEF There, IsInjective, Range
<1>4. Whole(tmpObjs)
  BY <1>1, <1>3 DEF WholeInv
<1>5. 1 \in DOMAIN tmpObjs /\ \A i \in DOMAIN tmpObjs : i = 1
  BY <1>1
<1> PICK s : s = bucket[tmpObjs[1]]
  OBVIOUS
<1>6. s \in Seq(Nat) /\ Len(written) \in Nat
  BY <1>2, LenProperties DEF DeleteInv, TypeOK
<1>7. IsInjective(s) /\ Range(s) = 1..Len(written)
  BY <1>4, <1>5 DEF Whole
<1>8. Len(s) = Len(written)
  BY <1>6, <1>7, EachOnceIsLength
<1>9. OneWorker => \A i \in DOMAIN s : s[i] = i
  <2>1. OneWorker => Ascends(s)
    BY <1>4, <1>5 DEF Whole
  <2>2. DOMAIN s = 1..Len(written)
    BY <1>6, <1>8, LenProperties
  <2> QED
    BY <1>6, <1>7, <1>8, <2>1, <2>2, GrowingIsIdentity
<1> QED
  BY <1>1, <1>7, <1>8, <1>9

\* A step of the upload is a step of StreamExport or changes nothing it sees.
LEMMA StepRefines ==
    ASSUME TypeOK, KeeperInv, NamesInv, DeleteInv, WholeInv, [Next]_vars
    PROVE  AnyOrder!Next \/ UNCHANGED <<Len(written), published, object, outcome>>
<1>1. ASSUME ~CopyLast PROVE UNCHANGED <<published, object>>
  <2>1. /\ Target \in DOMAIN bucket' <=> Target \in DOMAIN bucket
        /\ Target \in DOMAIN bucket => bucket'[Target] = bucket[Target]
    BY <1>1, TargetKept
  <2>2. published' = published
    <3>1. (Target \in DOMAIN bucket') = (Target \in DOMAIN bucket)
      BY <2>1
    <3> QED
      BY <3>1 DEF published
  <2>3. object' = object
    BY <2>1 DEF published, object
  <2> QED
    BY <2>2, <2>3
<1>2. CASE CopyLast
  <2>1. /\ pc = "compose" /\ UNCHANGED written
    BY <1>2 DEF CopyLast
  <2>2. Target \notin DOMAIN bucket
    BY <2>1 DEF NamesInv
  <2>3. published = FALSE /\ outcome = "open"
    BY <2>1, <2>2 DEF published, outcome
  <2>4. CASE pc' = "failed"
    <3>1. UNCHANGED bucket
      BY <1>2, <2>4 DEF CopyLast
    <3>2. UNCHANGED <<published, object>> /\ outcome' = "abandoned"
      BY <2>4, <3>1 DEF published, object, outcome
    <3> QED
      BY <2>1, <2>3, <3>2 DEF AnyOrder!Next, AnyOrder!Abandon
  <2>5. CASE pc' # "failed"
    <3>1. SourcesExist /\ pc' = "deleteLast" /\ bucket' = Put(bucket, Target, bucket[Batch[1]])
      BY <1>2, <2>5 DEF CopyLast
    <3>2. Target \in DOMAIN bucket' /\ bucket'[Target] = bucket[Batch[1]]
      BY <3>1 DEF Put
    <3>3. published' = TRUE /\ object' = bucket[Batch[1]] /\ outcome' = "open"
      BY <3>1, <3>2 DEF published, object, outcome
    <3>4. Len(object') = Len(written) /\ {object'[i] : i \in DOMAIN object'} = 1..Len(written)
      BY <1>2, <3>1, <3>3, LastIsWhole DEF Range
    <3>5. AnyOrder!Complete(object', Len(written))
      BY <3>4 DEF AnyOrder!Complete
    <3> QED
      BY <2>1, <2>3, <3>3, <3>5 DEF AnyOrder!Next, AnyOrder!Publish
  <2> QED
    BY <2>4, <2>5
<1>3. CASE AppendSlice
  <2>1. /\ pc = "append" /\ pc' = "write" /\ Len(written') = Len(written) + 1
    BY <1>3, AppendProperties DEF AppendSlice, TypeOK
  <2>2. published = FALSE
    BY <2>1 DEF NamesInv, published
  <2>3. outcome = "open" /\ outcome' = "open"
    BY <2>1 DEF outcome
  <2>4. UNCHANGED <<published, object>>
    BY <1>3 DEF AppendSlice, published, object
  <2> QED
    BY <2>1, <2>2, <2>3, <2>4 DEF AnyOrder!Next, AnyOrder!Accept
<1>4. CASE RoundEnds /\ pc = "deleteLast"
  <2>1. pc' = "closed" /\ UNCHANGED written /\ ~CopyLast
    BY <1>4 DEF RoundEnds, CopyLast
  <2>2. published = TRUE
    BY <1>4 DEF NamesInv, published
  <2>3. outcome = "open" /\ outcome' = "closed"
    BY <1>4, <2>1 DEF outcome
  <2> QED
    BY <1>1, <2>1, <2>2, <2>3 DEF AnyOrder!Next, AnyOrder!Succeed
<1>5. ASSUME ~CopyLast, UNCHANGED written,
             \/ pc' = pc
             \/ pc' \in {"failed", "exited"} /\ pc # "closed"
             \/ pc' \notin {"closed", "failed", "exited"} /\
                    pc \notin {"closed", "failed", "exited"}
      PROVE  AnyOrder!Next \/ UNCHANGED <<Len(written), published, object, outcome>>
  <2>1. CASE outcome' = outcome
    BY <1>1, <1>5, <2>1
  <2>2. CASE outcome' # outcome
    <3>1. outcome = "open" /\ outcome' = "abandoned"
      BY <1>5, <2>2 DEF outcome
    <3> QED
      BY <1>1, <1>5, <3>1 DEF AnyOrder!Next, AnyOrder!Abandon
  <2> QED
    BY <2>1, <2>2
<1>6. ASSUME NEW w \in Worker, WorkerStep(w)
      PROVE  AnyOrder!Next \/ UNCHANGED <<Len(written), published, object, outcome>>
  <2>1. UNCHANGED written /\ ~CopyLast
    BY <1>6 DEF WorkerStep, Send, WorkerEnds, Register, Upload, ConnectFails, UploadFails,
       PermissionDenied, RemoveFile, writerVars, CopyLast, KeeperInv
  <2>2. pc # "closed"
    BY <1>6 DEF WorkerStep, Send, WorkerEnds, Register, Upload, ConnectFails, UploadFails,
       PermissionDenied, RemoveFile, KeeperInv
  <2>3. \/ pc' \in {pc, "exited"}
        \/ pc' \in {"newChunk", "closeUpload"} /\ pc \in {"flush", "closeFlush"}
    BY <1>6, RetryType DEF WorkerStep, Send, WorkerEnds, Register, Upload, ConnectFails,
       UploadFails, PermissionDenied, RemoveFile, writerVars
  <2> QED
    BY <1>5, <2>1, <2>2, <2>3
<1>7. ASSUME \/ \E n \in WriteSizes : Write(n)
             \/ NewChunk \/ DiskFails \/ Close \/ CloseUpload \/ WaitEnds \/ ComposeBatch
             \/ DeleteSource \/ (RoundEnds /\ pc # "deleteLast") \/ CloseClientFails \/ Fatal
             \/ Terminating \/ UNCHANGED vars
      PROVE  AnyOrder!Next \/ UNCHANGED <<Len(written), published, object, outcome>>
  <2>1. UNCHANGED written
    BY <1>7 DEF Write, NewChunk, DiskFails, Close, CloseUpload, WaitEnds, ComposeBatch,
       ComposeInto, DeleteSource, RoundEnds, CloseClientFails, Fatal, Terminating, vars,
       writerVars
  <2>2. \/ pc' = pc
        \/ pc' \in {"failed", "exited"} /\ pc # "closed"
        \/ pc' \notin {"closed", "failed", "exited"} /\ pc \notin {"closed", "failed", "exited"}
    BY <1>7 DEF Write, NewChunk, DiskFails, Close, CloseUpload, WaitEnds, ComposeBatch,
       ComposeInto, DeleteSource, RoundEnds, CloseClientFails, Fatal, Terminating, vars,
       writerVars
  <2> QED
    BY <1>2, <1>5, <2>1, <2>2
<1> QED
  BY <1>2, <1>3, <1>4, <1>6, <1>7 DEF Next, WriterStep

\* With one worker the step that publishes also keeps the order.
LEMMA StepKeepsOrder ==
    ASSUME TypeOK, NamesInv, DeleteInv, WholeInv, [Next]_vars, OneWorker, AnyOrder!Next
    PROVE  InOrder!Next
<1>1. CASE AnyOrder!Accept
  BY <1>1 DEF AnyOrder!Accept, InOrder!Next, InOrder!Accept
<1>2. CASE AnyOrder!Succeed
  BY <1>2 DEF AnyOrder!Succeed, InOrder!Next, InOrder!Succeed
<1>3. CASE AnyOrder!Abandon
  BY <1>3 DEF AnyOrder!Abandon, InOrder!Next, InOrder!Abandon
<1>4. CASE AnyOrder!Publish
  <2>1. Target \notin DOMAIN bucket /\ Target \in DOMAIN bucket'
    BY <1>4 DEF AnyOrder!Publish, published
  <2>2. CopyLast
    BY <2>1, TargetKept
  <2>3. SourcesExist /\ bucket' = Put(bucket, Target, bucket[Batch[1]])
    BY <2>1, <2>2 DEF CopyLast
  <2>4. object' = bucket[Batch[1]]
    BY <2>3 DEF object, published, Put
  <2>5. \A i \in DOMAIN object' : object'[i] = i
    BY <2>2, <2>3, <2>4, LastIsWhole
  <2>6. /\ outcome = "open" /\ ~published /\ published' = TRUE
        /\ Len(object') = Len(written) /\ {object'[i] : i \in DOMAIN object'} = 1..Len(written)
        /\ UNCHANGED <<Len(written), outcome>>
    BY <1>4 DEF AnyOrder!Publish, AnyOrder!Complete
  <2>7. InOrder!Complete(object', Len(written))
    BY <2>5, <2>6 DEF InOrder!Complete
  <2> QED
    BY <2>6, <2>7 DEF InOrder!Next, InOrder!Publish
<1> QED
  BY <1>1, <1>2, <1>3, <1>4 DEF AnyOrder!Next

LEMMA StartRefines ==
    ASSUME Init
    PROVE  Len(written) = 0 /\ published = FALSE /\ object = <<>> /\ outcome = "open"
<1>1. Len(written) = 0 /\ DOMAIN bucket = {} /\ pc = "write"
  BY DEF Init
<1> QED
  BY <1>1 DEF published, object, outcome

\* For every number of workers, every size of a compose and every combination
\* of faults, the target appears in one step and holds every slice once, and
\* Close succeeds only after that.
THEOREM UploadKeepsItsPromise == Spec => ImplementsAnyOrder
<1>1. Init => AnyOrder!Init
  BY StartRefines DEF AnyOrder!Init
<1>2. TypeOK /\ ObjectsInv /\ WholeInv /\ [Next]_vars => [AnyOrder!Next]_(AnyOrder!vars)
  BY StepRefines DEF ObjectsInv, AnyOrder!vars
<1> QED
  BY <1>1, <1>2, TypeCorrect, ObjectsInvariant, ContentsInvariant, PTL
     DEF Spec, ImplementsAnyOrder, AnyOrder!Spec

\* With one worker the target also holds the slices in the order of the Writes:
\* what -workers of gce_export trades for speed.
THEOREM OneWorkerKeepsOrder == ASSUME OneWorker PROVE Spec => ImplementsInOrder
<1>1. Init => InOrder!Init
  BY StartRefines DEF InOrder!Init
<1>2. TypeOK /\ ObjectsInv /\ WholeInv /\ [Next]_vars => [InOrder!Next]_(InOrder!vars)
  <2> SUFFICES ASSUME TypeOK, ObjectsInv, WholeInv, [Next]_vars
               PROVE  [InOrder!Next]_(InOrder!vars)
    OBVIOUS
  <2>1. AnyOrder!Next \/ UNCHANGED <<Len(written), published, object, outcome>>
    BY StepRefines DEF ObjectsInv
  <2>2. AnyOrder!Next => InOrder!Next
    BY StepKeepsOrder DEF ObjectsInv
  <2> QED
    BY <2>1, <2>2 DEF InOrder!vars
<1> QED
  BY <1>1, <1>2, TypeCorrect, ObjectsInvariant, ContentsInvariant, PTL
     DEF Spec, ImplementsInOrder, InOrder!Spec
=============================================================================
