-------------------------- MODULE KnowledgeBaseProofs --------------------------
(***************************************************************************)
(* Proofs about KnowledgeBaseProcessing, for any number of servers and     *)
(* files.  That a deleted file stays deleted rests on one fact: its job    *)
(* has gone with it, for good (JobGoesWithFile).  Then the update of the   *)
(* job makes every late transaction of a worker roll back.  A row could    *)
(* only come back by an upload, and no worker knows a file before its      *)
(* upload is done (WorkersKnowRows).                                       *)
(***************************************************************************)
EXTENDS KnowledgeBaseProcessing, FiniteSetTheorems, TLAPS

\* A file without a row, or whose row says DELETED, has no job.
JobGoesWithFile ==
    \A f \in Files : file[f] \in {"none", "DELETED"} => job[f] = "none"

\* An upload that is not done has no row yet, and no worker has its file.
WorkersKnowRows ==
    \A f \in Files :
        request[f].pc \in {"none", "stored"} =>
            file[f] = "none" /\ \A s \in Servers : f \notin worker[s].batch /\ worker[s].cur # f

\* A worker has a file in hand from the lookup on.
InHand == \A s \in Servers : worker[s].pc \notin {"idle", "next"} => worker[s].cur \in Files

\* A worker that found no file to process finds no job either.
OrphansHaveNoJob ==
    \A s \in Servers : worker[s].pc = "orphan" => job[worker[s].cur] = "none"

Inv == TypeOK /\ JobGoesWithFile /\ WorkersKnowRows /\ InHand /\ OrphansHaveNoJob

-----------------------------------------------------------------------------
(* Types.                                                                  *)

LEMMA InitTypeOK == Init => TypeOK
BY KnowledgeBaseAssumption DEF Init, TypeOK, IdleTick, NoRequest, TickRecord, RequestRecord, Files

LEMMA ServeTypeOK ==
    ASSUME TypeOK, NEW f \in Files, Serve(f)
    PROVE  TypeOK'
<1>0. request[f] \in RequestRecord
  BY DEF TypeOK
<1>1. ASSUME NEW pc \in {"stored", "live", "chunks", "done", "died"}, Reaches(f, pc)
      PROVE  request' \in [Files -> RequestRecord]
  BY <1>0, <1>1 DEF Reaches, TypeOK, RequestRecord
<1>2. CASE StoreObject(f)
  BY <1>1, <1>2 DEF StoreObject, TypeOK
<1>3. CASE CreateRow(f)
  <2>1. request' \in [Files -> RequestRecord]
    BY <1>1, <1>3 DEF CreateRow
  <2>2. file' \in [Files -> FileStatus \cup {"none"}] /\ job' \in [Files -> JobStatus \cup {"none"}]
    BY <1>3 DEF CreateRow, TypeOK, FileStatus, JobStatus
  <2> QED BY <1>3, <2>1, <2>2 DEF CreateRow, TypeOK
<1>4. CASE DeleteObject(f)
  BY <1>1, <1>4 DEF DeleteObject, TypeOK
<1>5. CASE DeleteChunks(f)
  <2>1. [pc |-> "rows", rows |-> chunks[f]] \in RequestRecord
    BY DEF TypeOK, RequestRecord
  <2> QED BY <1>5, <2>1 DEF DeleteChunks, TypeOK
<1>6. CASE DeleteRows(f)
  <2>1. request' \in [Files -> RequestRecord]
    BY <1>1, <1>6 DEF DeleteRows
  <2>2. file' \in [Files -> FileStatus \cup {"none"}] /\ job' \in [Files -> JobStatus \cup {"none"}]
    BY <1>6 DEF DeleteRows, TypeOK, FileStatus
  <2>3. chunks' \in [Files -> SUBSET Servers]
    BY <1>6 DEF DeleteRows, TypeOK
  <2> QED BY <1>6, <2>1, <2>2, <2>3 DEF DeleteRows, TypeOK
<1>7. CASE RequestDies(f)
  <2>1. request' \in [Files -> RequestRecord]
    BY <1>1, <1>7 DEF RequestDies
  <2>2. mishaps' \in 0..MaxMishaps
    BY <1>7, KnowledgeBaseAssumption DEF RequestDies, Mishap, TypeOK
  <2> QED BY <1>7, <2>1, <2>2 DEF RequestDies, TypeOK
<1> QED BY <1>2, <1>3, <1>4, <1>5, <1>6, <1>7 DEF Serve

LEMMA RemoveBaseTypeOK ==
    ASSUME TypeOK, RemoveBase
    PROVE  TypeOK'
BY KnowledgeBaseAssumption
DEF TypeOK, RemoveBase, RemoveBaseObjects, RemoveBaseRows, RemoveBaseDies, Mishap

\* Every step of a tick changes the record of its server only.
LEMMA TickTypeOK ==
    ASSUME TypeOK, InHand, NEW s \in Servers, Tick(s) \/ TickDies(s)
    PROVE  TypeOK'
<1>0. worker[s] \in TickRecord /\ IdleTick \in TickRecord
  BY DEF TypeOK, TickRecord, IdleTick
<1>1. AfterJob(s) \in TickRecord /\ AfterThrow \in TickRecord
  BY <1>0 DEF AfterJob, AfterThrow, IdleTick, TickRecord
<1>2. \A pc \in {"embed", "store", "commit", "fail"}, rows \in SUBSET Servers :
        [worker[s] EXCEPT !.pc = pc, !.rows = rows] \in TickRecord
  BY <1>0 DEF TickRecord
<1>3. ASSUME NEW r \in TickRecord, worker' = [worker EXCEPT ![s] = r]
      PROVE  worker' \in [Servers -> TickRecord]
  BY <1>3 DEF TypeOK
<1>4. CASE ListQueued(s)
  <2>1. PICK batch \in SUBSET Queued :
          worker' = [worker EXCEPT ![s].pc = "next", ![s].batch = batch]
    BY <1>4 DEF ListQueued
  <2>2. batch \subseteq Files
    BY DEF Queued
  <2>3. worker' \in [Servers -> TickRecord]
    BY <1>0, <2>1, <2>2 DEF TypeOK, TickRecord
  <2> QED BY <1>4, <2>3 DEF ListQueued, TypeOK
<1>5. CASE LookUpFile(s)
  <2>1. PICK f \in worker[s].batch :
          worker' = [worker EXCEPT
                        ![s].pc = IF file[f] \in {"none", "DELETED"} THEN "orphan" ELSE "begin",
                        ![s].cur = f, ![s].batch = @ \ {f}]
    BY <1>5 DEF LookUpFile
  <2>2. worker' \in [Servers -> TickRecord]
    BY <1>0, <2>1 DEF TypeOK, TickRecord
  <2> QED BY <1>5, <2>2 DEF LookUpFile, TypeOK
<1>6. CASE FailOrphan(s)
  <2>1. worker' \in [Servers -> TickRecord]
    BY <1>1, <1>3, <1>6 DEF FailOrphan
  <2> QED BY <1>6, <2>1 DEF FailOrphan, TypeOK, JobStatus
<1>7. CASE BeginJob(s)
  <2>1. worker' \in [Servers -> TickRecord]
    <3> DEFINE after == [worker[s] EXCEPT !.pc = "embed"]
    <3>1. after \in TickRecord
      BY <1>0 DEF TickRecord
    <3> QED BY <1>1, <1>3, <1>7, <3>1 DEF BeginJob, SettleOrThrow
  <2> QED BY <1>7, <2>1 DEF BeginJob, SettleOrThrow, TypeOK, JobStatus, FileStatus
<1>8. CASE EmbedFile(s)
  <2>1. worker' \in [Servers -> TickRecord]
    BY <1>0, <1>8 DEF EmbedFile, TypeOK, TickRecord
  <2> QED BY <1>8, <2>1 DEF EmbedFile, TypeOK
<1>9. CASE OpenStore(s)
  <2>1. worker[s].cur \in Files
    BY <1>9 DEF OpenStore, InHand
  <2>2. worker' \in [Servers -> TickRecord]
    BY <1>0, <1>9, <2>1 DEF OpenStore, TypeOK, TickRecord
  <2> QED BY <1>9, <2>2 DEF OpenStore, TypeOK
<1>10. CASE CommitStore(s)
  <2>1. worker' \in [Servers -> TickRecord]
    <3> DEFINE retry == [worker EXCEPT ![s].pc = "fail", ![s].rows = {}]
    <3>1. retry \in [Servers -> TickRecord]
      BY <1>0 DEF TypeOK, TickRecord
    <3> QED BY <1>1, <1>3, <1>10, <3>1 DEF CommitStore
  <2>2. chunks' \in [Files -> SUBSET Servers]
    BY <1>10 DEF CommitStore, TypeOK, ChunksStored
  <2> QED BY <1>10, <2>1, <2>2 DEF CommitStore, TypeOK, JobStatus, FileStatus
<1>11. CASE RecordFailure(s)
  <2>1. worker' \in [Servers -> TickRecord]
    BY <1>1, <1>3, <1>11 DEF RecordFailure, SettleOrThrow
  <2> QED BY <1>11, <2>1 DEF RecordFailure, SettleOrThrow, TypeOK, JobStatus, FileStatus
<1>12. CASE TickDies(s)
  <2>1. worker' \in [Servers -> TickRecord]
    BY <1>1, <1>3, <1>12 DEF TickDies
  <2>2. stranded' \subseteq Files
    BY <1>12 DEF TickDies, TypeOK, InHand
  <2> QED BY <1>12, <2>1, <2>2, KnowledgeBaseAssumption DEF TickDies, TypeOK, Mishap
<1> QED
  BY <1>4, <1>5, <1>6, <1>7, <1>8, <1>9, <1>10, <1>11, <1>12 DEF Tick

LEMMA StepTypeOK == TypeOK /\ InHand /\ [Next]_vars => TypeOK'
<1> SUFFICES ASSUME TypeOK, InHand, [Next]_vars PROVE TypeOK' OBVIOUS
<1>1. CASE UNCHANGED vars
  BY <1>1 DEF vars, TypeOK
<1> QED BY <1>1, ServeTypeOK, RemoveBaseTypeOK, TickTypeOK DEF Next

-----------------------------------------------------------------------------
(* What a step of a tick does to rows, chunks and worker records.          *)

\* Rows change only for the file in hand, and only when both are there.
LEMMA TickRows ==
    ASSUME Inv, NEW s \in Servers, Tick(s) \/ TickDies(s)
    PROVE  /\ request' = request
           /\ \A f \in Files :
                \/ file'[f] = file[f] /\ job'[f] = job[f] /\ chunks'[f] = chunks[f]
                \/ /\ RowsAreThere(f) /\ job'[f] # "none"
                   /\ file'[f] \notin {"none", "DELETED"}
                   /\ file'[f] = "COMPLETED" => job'[f] = "COMPLETED" /\ chunks'[f] = {s}
<1> USE DEF Inv, TypeOK
<1>1. CASE ListQueued(s) \/ LookUpFile(s) \/ EmbedFile(s) \/ OpenStore(s) \/ TickDies(s)
  BY <1>1 DEF ListQueued, LookUpFile, EmbedFile, OpenStore, TickDies
<1>2. CASE FailOrphan(s)
  BY <1>2 DEF FailOrphan, OrphansHaveNoJob
<1>3. ASSUME NEW jobStatus \in JobStatus, NEW fileStatus \in {"PROCESSING", "FAILED"}, NEW after,
             SettleOrThrow(s, jobStatus, fileStatus, after), request' = request, chunks' = chunks
      PROVE  /\ request' = request
             /\ \A f \in Files :
                  \/ file'[f] = file[f] /\ job'[f] = job[f] /\ chunks'[f] = chunks[f]
                  \/ /\ RowsAreThere(f) /\ job'[f] # "none"
                     /\ file'[f] \notin {"none", "DELETED", "COMPLETED"}
  BY <1>3 DEF SettleOrThrow, JobStatus
<1>4. CASE BeginJob(s)
  BY <1>3, <1>4 DEF BeginJob, JobStatus
<1>5. CASE RecordFailure(s)
  BY <1>3, <1>5 DEF RecordFailure, JobStatus
<1>6. CASE CommitStore(s)
  BY <1>6 DEF CommitStore, ChunksStored
<1> QED BY <1>1, <1>2, <1>4, <1>5, <1>6 DEF Tick

\* The record of the server changes: it takes queued files into its batch, and
\* files of its batch into its hand.
LEMMA TickWorkers ==
    ASSUME Inv, NEW s \in Servers, Tick(s) \/ TickDies(s)
    PROVE  /\ \A t \in Servers \ {s} : worker'[t] = worker[t]
           /\ worker'[s].batch \subseteq worker[s].batch \cup Queued
           /\ worker'[s].cur \in {0, worker[s].cur} \cup worker[s].batch
           /\ worker'[s].pc \notin {"idle", "next"} => worker'[s].cur \in Files
           /\ worker'[s].pc = "orphan" =>
                /\ worker'[s].cur \in Files /\ file[worker'[s].cur] \in {"none", "DELETED"}
                /\ UNCHANGED <<file, job>>
<1>0. /\ worker \in [Servers -> TickRecord] /\ worker[s] \in TickRecord
      /\ worker[s].batch \subseteq Files
      /\ worker[s].pc \notin {"idle", "next"} => worker[s].cur \in Files
  BY DEF Inv, TypeOK, InHand, TickRecord
<1>1. AfterThrow.pc = "idle" /\ AfterThrow.batch = {} /\ AfterThrow.cur = 0
  BY DEF AfterThrow, IdleTick
<1>2. /\ AfterJob(s).pc \in {"idle", "next"}
      /\ AfterJob(s).batch = worker[s].batch /\ AfterJob(s).cur = 0
  BY DEF AfterJob, IdleTick
<1>3. CASE ListQueued(s)
  <2>1. PICK batch \in SUBSET Queued :
          worker' = [worker EXCEPT ![s].pc = "next", ![s].batch = batch]
    BY <1>3 DEF ListQueued
  <2>2. /\ worker'[s].pc = "next" /\ worker'[s].batch = batch /\ worker'[s].cur = worker[s].cur
        /\ \A t \in Servers \ {s} : worker'[t] = worker[t]
    BY <1>0, <2>1 DEF TickRecord
  <2> QED BY <2>2
<1>4. CASE LookUpFile(s)
  <2>1. PICK f \in worker[s].batch :
          worker' = [worker EXCEPT
                        ![s].pc = IF file[f] \in {"none", "DELETED"} THEN "orphan" ELSE "begin",
                        ![s].cur = f, ![s].batch = @ \ {f}]
    BY <1>4 DEF LookUpFile
  <2>2. /\ worker'[s].pc = "orphan" => file[f] \in {"none", "DELETED"}
        /\ worker'[s].batch \subseteq worker[s].batch /\ worker'[s].cur = f
        /\ \A t \in Servers \ {s} : worker'[t] = worker[t]
    BY <1>0, <2>1 DEF TickRecord
  <2>3. UNCHANGED <<file, job>>
    BY <1>4 DEF LookUpFile
  <2> QED BY <1>0, <2>2, <2>3
<1>5. ASSUME NEW r, worker' = [worker EXCEPT ![s] = r],
             r.pc # "orphan", r.batch \subseteq worker[s].batch,
             r.cur \in {0, worker[s].cur},
             r.pc \notin {"idle", "next"} => r.cur \in Files
      PROVE  /\ \A t \in Servers \ {s} : worker'[t] = worker[t]
             /\ worker'[s].batch \subseteq worker[s].batch
             /\ worker'[s].cur \in {0, worker[s].cur}
             /\ worker'[s].pc # "orphan"
             /\ worker'[s].pc \notin {"idle", "next"} => worker'[s].cur \in Files
  BY <1>0, <1>5
<1>6. CASE FailOrphan(s)
  BY <1>1, <1>2, <1>5, <1>6 DEF FailOrphan
<1>7. CASE BeginJob(s)
  <2> DEFINE r == [worker[s] EXCEPT !.pc = "embed"]
  <2>1. /\ r.pc = "embed" /\ r.batch = worker[s].batch /\ r.cur = worker[s].cur
        /\ worker[s].cur \in Files
    BY <1>0, <1>7 DEF TickRecord, BeginJob
  <2>2. worker' = [worker EXCEPT ![s] = r] \/ worker' = [worker EXCEPT ![s] = AfterThrow]
    BY <1>7 DEF BeginJob, SettleOrThrow
  <2> QED BY <1>1, <1>5, <2>1, <2>2
<1>8. CASE EmbedFile(s) \/ OpenStore(s)
  <2>1. PICK pc \in {"store", "fail", "commit"}, rows \in SUBSET Servers :
          worker' = [worker EXCEPT ![s] = [worker[s] EXCEPT !.pc = pc, !.rows = rows]]
    <3>1. CASE EmbedFile(s)
      <4>1. PICK pc \in {"store", "fail"} : worker' = [worker EXCEPT ![s].pc = pc]
        BY <3>1 DEF EmbedFile
      <4>2. [worker[s] EXCEPT !.pc = pc] = [worker[s] EXCEPT !.pc = pc, !.rows = worker[s].rows]
        BY <1>0 DEF TickRecord
      <4>3. worker[s].rows \in SUBSET Servers
        BY <1>0 DEF TickRecord
      <4> QED BY <4>1, <4>2, <4>3
    <3>2. CASE OpenStore(s)
      <4>1. CASE file[worker[s].cur] = "none"
        <5>1. worker' = [worker EXCEPT ![s].pc = "fail"]
          BY <3>2, <4>1 DEF OpenStore
        <5>2. [worker[s] EXCEPT !.pc = "fail"] = [worker[s] EXCEPT !.pc = "fail", !.rows = worker[s].rows]
          BY <1>0 DEF TickRecord
        <5>3. worker[s].rows \in SUBSET Servers
          BY <1>0 DEF TickRecord
        <5> QED BY <5>1, <5>2, <5>3
      <4>2. CASE file[worker[s].cur] # "none"
        <5>1. worker' = [worker EXCEPT ![s].pc = "commit", ![s].rows = chunks[worker[s].cur]]
          BY <3>2, <4>2 DEF OpenStore
        <5>2. chunks[worker[s].cur] \in SUBSET Servers
          BY <1>0, <3>2 DEF Inv, TypeOK, OpenStore
        <5> QED BY <5>1, <5>2
      <4> QED BY <4>1, <4>2
    <3> QED BY <1>8, <3>1, <3>2
  <2> DEFINE r == [worker[s] EXCEPT !.pc = pc, !.rows = rows]
  <2>2. r.pc = pc /\ r.batch = worker[s].batch /\ r.cur = worker[s].cur
    BY <1>0 DEF TickRecord
  <2>3. worker[s].cur \in Files
    BY <1>0, <1>8 DEF EmbedFile, OpenStore
  <2> QED BY <1>5, <2>1, <2>2, <2>3
<1>9. CASE CommitStore(s)
  <2> DEFINE r == [worker[s] EXCEPT !.pc = "fail", !.rows = {}]
  <2>1. /\ r.pc = "fail" /\ r.batch = worker[s].batch /\ r.cur = worker[s].cur
        /\ worker[s].cur \in Files
    BY <1>0, <1>9 DEF TickRecord, CommitStore
  <2>2. worker' = [worker EXCEPT ![s] = r] \/ worker' = [worker EXCEPT ![s] = AfterJob(s)]
    BY <1>9 DEF CommitStore
  <2> QED BY <1>2, <1>5, <2>1, <2>2
<1>10. CASE RecordFailure(s) \/ TickDies(s)
  BY <1>1, <1>2, <1>5, <1>10 DEF RecordFailure, SettleOrThrow, TickDies
<1> QED
  BY <1>3, <1>4, <1>6, <1>7, <1>8, <1>9, <1>10 DEF Tick

-----------------------------------------------------------------------------
(* The invariant.                                                          *)

LEMMA InitInv == Init => Inv /\ SearchableIsWhole
<1> SUFFICES ASSUME Init PROVE Inv /\ SearchableIsWhole OBVIOUS
<1>1. TypeOK
  BY InitTypeOK
<1>2. JobGoesWithFile /\ WorkersKnowRows /\ InHand /\ OrphansHaveNoJob /\ SearchableIsWhole
  BY DEF Init, JobGoesWithFile, WorkersKnowRows, InHand, OrphansHaveNoJob, SearchableIsWhole, Search,
         IdleTick, Files
<1> QED BY <1>1, <1>2 DEF Inv

\* What a request does: a new row comes with its upload, and any other row that
\* changes is deleted together with its job.
LEMMA ServeRows ==
    ASSUME Inv, NEW f \in Files, Serve(f)
    PROVE  /\ worker' = worker
           /\ \A g \in Files :
                /\ request'[g].pc \in {"none", "stored"} =>
                     request[g].pc \in {"none", "stored"} /\ file'[g] = file[g]
                /\ \/ file'[g] = file[g] /\ job'[g] = job[g] /\ chunks'[g] = chunks[g]
                   \/ file'[g] = "DELETED" /\ job'[g] = "none" /\ chunks'[g] \subseteq chunks[g]
                   \/ request[g].pc = "stored" /\ file'[g] = "QUEUED"
<1> USE DEF Inv, TypeOK
<1>0. request[f] \in RequestRecord
  OBVIOUS
<1>1. ASSUME NEW pc \in {"stored", "live", "chunks", "done", "died"}, Reaches(f, pc)
      PROVE  /\ request'[f].pc = pc
             /\ \A g \in Files \ {f} : request'[g] = request[g]
  BY <1>0, <1>1 DEF Reaches, RequestRecord
<1>2. CASE StoreObject(f)
  BY <1>1, <1>2 DEF StoreObject
<1>3. CASE CreateRow(f)
  <2>1. request'[f].pc \notin {"none", "stored"} /\ \A g \in Files \ {f} : request'[g] = request[g]
    BY <1>1, <1>3 DEF CreateRow
  <2> QED BY <1>3, <2>1 DEF CreateRow
<1>4. CASE DeleteObject(f)
  BY <1>1, <1>4 DEF DeleteObject
<1>5. CASE DeleteChunks(f)
  <2>1. request'[f].pc = "rows" /\ \A g \in Files \ {f} : request'[g] = request[g]
    BY <1>5 DEF DeleteChunks
  <2> QED BY <1>5, <2>1 DEF DeleteChunks
<1>6. CASE DeleteRows(f)
  <2>1. request'[f].pc = "done" /\ \A g \in Files \ {f} : request'[g] = request[g]
    BY <1>1, <1>6 DEF DeleteRows
  <2> QED BY <1>6, <2>1 DEF DeleteRows
<1>7. CASE RequestDies(f)
  BY <1>1, <1>7 DEF RequestDies
<1> QED BY <1>2, <1>3, <1>4, <1>5, <1>6, <1>7 DEF Serve

LEMMA ServeInv ==
    ASSUME Inv, SearchableIsWhole, NEW f \in Files, Serve(f)
    PROVE  Inv' /\ SearchableIsWhole'
<1>1. TypeOK'
  BY ServeTypeOK DEF Inv
<1>2. JobGoesWithFile'
  BY ServeRows DEF Inv, JobGoesWithFile
<1>3. WorkersKnowRows'
  BY ServeRows DEF Inv, WorkersKnowRows
<1>4. InHand'
  BY ServeRows DEF Inv, InHand
<1>5. OrphansHaveNoJob'
  <2> SUFFICES ASSUME NEW s \in Servers, worker[s].pc = "orphan"
               PROVE  job'[worker[s].cur] = "none"
    BY ServeRows DEF OrphansHaveNoJob
  <2>1. /\ worker[s].cur \in Files /\ job[worker[s].cur] = "none"
        /\ request[worker[s].cur].pc # "stored"
    BY DEF Inv, InHand, OrphansHaveNoJob, WorkersKnowRows
  <2> QED BY <2>1, ServeRows
<1>6. SearchableIsWhole'
  <2>1. \A g \in Files : file[g] = "COMPLETED" => Cardinality(chunks[g]) = 1 /\ job[g] = "COMPLETED"
    BY DEF SearchableIsWhole, Search
  <2>2. \A g \in Files : file'[g] = "COMPLETED" =>
           file[g] = "COMPLETED" /\ job'[g] = job[g] /\ chunks'[g] = chunks[g]
    BY ServeRows
  <2>3. \A g \in Files : file'[g] = "COMPLETED" =>
           Cardinality(chunks'[g]) = 1 /\ job'[g] = "COMPLETED"
    BY <2>1, <2>2
  <2> QED BY <2>3 DEF SearchableIsWhole, Search
<1> QED BY <1>1, <1>2, <1>3, <1>4, <1>5, <1>6 DEF Inv

LEMMA RemoveBaseInv ==
    ASSUME Inv, SearchableIsWhole, RemoveBase
    PROVE  Inv' /\ SearchableIsWhole'
<1>1. TypeOK'
  BY RemoveBaseTypeOK DEF Inv
<1>2. /\ worker' = worker /\ request' = request
      /\ \/ UNCHANGED <<file, job, chunks>>
         \/ file' = [f \in Files |-> "none"] /\ job' = [f \in Files |-> "none"]
  BY DEF RemoveBase, RemoveBaseObjects, RemoveBaseRows, RemoveBaseDies
<1>3. JobGoesWithFile' /\ WorkersKnowRows' /\ InHand' /\ SearchableIsWhole'
  BY <1>2 DEF Inv, JobGoesWithFile, WorkersKnowRows, InHand, SearchableIsWhole, Search
<1>4. OrphansHaveNoJob'
  BY <1>2 DEF Inv, InHand, OrphansHaveNoJob
<1> QED BY <1>1, <1>3, <1>4 DEF Inv

LEMMA TickInv ==
    ASSUME Inv, SearchableIsWhole, NEW s \in Servers, Tick(s) \/ TickDies(s)
    PROVE  Inv' /\ SearchableIsWhole'
<1>1. TypeOK'
  BY TickTypeOK DEF Inv
<1>2. JobGoesWithFile'
  BY TickRows DEF Inv, JobGoesWithFile
<1>3. WorkersKnowRows'
  <2> SUFFICES ASSUME NEW f \in Files, request[f].pc \in {"none", "stored"}, NEW t \in Servers
               PROVE  file'[f] = "none" /\ f \notin worker'[t].batch /\ worker'[t].cur # f
    BY TickRows DEF WorkersKnowRows
  <2>1. file[f] = "none" /\ job[f] = "none" /\ f \notin worker[t].batch /\ worker[t].cur # f
    BY DEF Inv, WorkersKnowRows, JobGoesWithFile
  <2>2. f \notin Queued /\ f # 0
    BY <2>1 DEF Queued, Files
  <2>3. file'[f] = "none"
    BY <2>1, TickRows DEF RowsAreThere
  <2>4. CASE t = s
    BY <2>1, <2>2, <2>3, <2>4, TickWorkers
  <2>5. CASE t # s
    BY <2>1, <2>3, <2>5, TickWorkers
  <2> QED BY <2>4, <2>5
<1>4. InHand'
  BY TickWorkers DEF Inv, InHand
<1>5. OrphansHaveNoJob'
  <2> SUFFICES ASSUME NEW t \in Servers, worker'[t].pc = "orphan"
               PROVE  job'[worker'[t].cur] = "none"
    BY DEF OrphansHaveNoJob
  <2>1. CASE t = s
    BY <2>1, TickWorkers DEF Inv, JobGoesWithFile
  <2>2. CASE t # s
    <3>1. worker'[t] = worker[t] /\ worker[t].cur \in Files /\ job[worker[t].cur] = "none"
      BY <2>2, TickWorkers DEF Inv, InHand, OrphansHaveNoJob
    <3> QED BY <3>1, TickRows DEF RowsAreThere
  <2> QED BY <2>1, <2>2
<1>6. SearchableIsWhole'
  <2>1. Cardinality({s}) = 1
    BY FS_Singleton
  <2> QED BY <2>1, TickRows DEF SearchableIsWhole, Search
<1> QED BY <1>1, <1>2, <1>3, <1>4, <1>5, <1>6 DEF Inv

LEMMA StepInv == Inv /\ SearchableIsWhole /\ [Next]_vars => Inv' /\ SearchableIsWhole'
<1> SUFFICES ASSUME Inv, SearchableIsWhole, [Next]_vars PROVE Inv' /\ SearchableIsWhole' OBVIOUS
<1>1. CASE UNCHANGED vars
  BY <1>1 DEF vars, Inv, TypeOK, JobGoesWithFile, WorkersKnowRows, InHand, OrphansHaveNoJob,
              SearchableIsWhole, Search
<1> QED BY <1>1, ServeInv, RemoveBaseInv, TickInv DEF Next

LEMMA SpecInv == Spec => [](Inv /\ SearchableIsWhole)
<1>1. Init => Inv /\ SearchableIsWhole
  BY InitInv
<1>2. (Inv /\ SearchableIsWhole) /\ [Next]_vars => (Inv /\ SearchableIsWhole)'
  BY StepInv
<1> QED BY <1>1, <1>2, PTL DEF Spec

-----------------------------------------------------------------------------
(* The theorems.                                                           *)

\* Type correctness.  It includes that no tick ends with the draining flag set,
\* which would stop the runtime of its server for good.
THEOREM KnowledgeBaseTypes == Spec => []TypeOK
<1>1. Inv /\ SearchableIsWhole => TypeOK
  BY DEF Inv
<1> QED BY <1>1, SpecInv, PTL

\* Whatever number of servers works on a file, and wherever they die, what
\* search returns of it is the work of one of them, and whole.
THEOREM SearchSeesWholeFiles == Spec => []SearchableIsWhole
BY SpecInv, PTL

\* No worker brings a deleted file back, however late its transaction commits:
\* the update of the job, which went with the file, rolls it back.
THEOREM DeletionIsFinal == Spec => DeletedStaysDeleted
<1>1. (Inv /\ SearchableIsWhole) /\ [Next]_vars =>
        [\A f \in Files :
           file[f] = "DELETED" =>
             file'[f] \in {"DELETED", "none"} /\ chunks'[f] \subseteq chunks[f]]_vars
  <2> SUFFICES ASSUME Inv, Next, NEW f \in Files, file[f] = "DELETED"
               PROVE  file'[f] \in {"DELETED", "none"} /\ chunks'[f] \subseteq chunks[f]
    OBVIOUS
  <2>1. ASSUME NEW g \in Files, Serve(g)
        PROVE  file'[f] \in {"DELETED", "none"} /\ chunks'[f] \subseteq chunks[f]
    <3>1. request[f].pc # "stored"
      BY DEF Inv, WorkersKnowRows
    <3> QED BY <2>1, <3>1, ServeRows
  <2>2. CASE RemoveBase
    BY <2>2 DEF RemoveBase, RemoveBaseObjects, RemoveBaseRows, RemoveBaseDies
  <2>3. ASSUME NEW s \in Servers, Tick(s) \/ TickDies(s)
        PROVE  file'[f] \in {"DELETED", "none"} /\ chunks'[f] \subseteq chunks[f]
    <3>1. ~RowsAreThere(f)
      BY DEF Inv, JobGoesWithFile, RowsAreThere
    <3> QED BY <2>3, <3>1, TickRows
  <2> QED BY <2>1, <2>2, <2>3 DEF Next
<1> QED BY <1>1, SpecInv, PTL DEF Spec, DeletedStaysDeleted
==============================================================================
