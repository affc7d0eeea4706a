------------------------ MODULE KnowledgeBaseProcessing ------------------------
(***************************************************************************)
(* The files of a knowledge base, from upload to deletion                  *)
(* (services/knowledge-base-processing.service.js).  An upload stores an   *)
(* object and queues a job; the processing runtime of each server lists    *)
(* queued jobs, embeds their files and stores the embedding rows, here     *)
(* called chunks; a file, or the whole knowledge base, may be deleted at   *)
(* any time.                                                               *)
(*                                                                         *)
(* Object storage is not part of a database transaction.  Transactions run *)
(* at READ COMMITTED: a statement sees what was committed when it began,   *)
(* so a transaction that deletes chunks and one that stores them are two   *)
(* steps each, the first statement and the rest with the commit.           *)
(***************************************************************************)
EXTENDS Naturals, FiniteSets

CONSTANTS
    Servers,      \* processes that run the knowledge base runtime
    FileCount,    \* files, numbered in the order of their jobs' createdAt
    BatchSize,    \* queueBatchSize
    MaxMishaps    \* bound: requests and ticks that die (throwing statement, crash)

ASSUME KnowledgeBaseAssumption ==
    /\ {FileCount, MaxMishaps} \subseteq Nat
    /\ BatchSize \in Nat \ {0}

VARIABLES
    base,      \* the knowledge base row and the request that removes it
    file,      \* file[f]: processing_status of the row of f, "none" without a row
    job,       \* job[f]: status of its job, "none" without a row
    chunks,    \* chunks[f]: the servers whose embedding rows for f are stored
    objects,   \* the files whose object is in storage
    request,   \* request[f]: the upload or deletion of f under way
    worker,    \* worker[s]: draining flag and local variables of the tick of s
    stranded,  \* files whose job was running in a tick that died
    mishaps

vars == <<base, file, job, chunks, objects, request, worker, stranded, mishaps>>

-----------------------------------------------------------------------------
Files == 1..FileCount

IdleTick == [pc |-> "idle", batch |-> {}, cur |-> 0, rows |-> {}]

NoRequest == [pc |-> "none", rows |-> {}]

Init ==
    /\ base = "live"
    /\ file = [f \in Files |-> "none"] /\ job = [f \in Files |-> "none"]
    /\ chunks = [f \in Files |-> {}] /\ objects = {}
    /\ request = [f \in Files |-> NoRequest]
    /\ worker = [s \in Servers |-> IdleTick]
    /\ stranded = {} /\ mishaps = 0

BaseExists == base # "gone"

Mishap == mishaps < MaxMishaps /\ mishaps' = mishaps + 1

Reaches(f, pc) == request' = [request EXCEPT ![f].pc = pc, ![f].rows = {}]

-----------------------------------------------------------------------------
(* Requests.                                                               *)

\* The upload finds the knowledge base and stores the object.
StoreObject(f) ==
    /\ request[f].pc = "none" /\ BaseExists
    /\ objects' = objects \cup {f}
    /\ Reaches(f, "stored")
    /\ UNCHANGED <<base, file, job, chunks, worker, stranded, mishaps>>

\* File and job are created in one statement; a knowledge base that was removed
\* meanwhile makes it throw, and the object stays.
CreateRow(f) ==
    /\ request[f].pc = "stored"
    /\ \A g \in 1..(f - 1) : request[g].pc \notin {"none", "stored"}
    /\ Reaches(f, IF BaseExists THEN "live" ELSE "died")
    /\ IF BaseExists
       THEN file' = [file EXCEPT ![f] = "QUEUED"] /\ job' = [job EXCEPT ![f] = "QUEUED"]
       ELSE UNCHANGED <<file, job>>
    /\ UNCHANGED <<base, chunks, objects, worker, stranded, mishaps>>

\* A deletion finds the row, whatever its status, and deletes the object.
DeleteObject(f) ==
    /\ request[f].pc \in {"live", "done", "died"} /\ file[f] # "none"
    /\ objects' = objects \ {f}
    /\ Reaches(f, "chunks")
    /\ UNCHANGED <<base, file, job, chunks, worker, stranded, mishaps>>

\* First statement of the transaction: the chunks committed by now.
DeleteChunks(f) ==
    /\ request[f].pc = "chunks"
    /\ request' = [request EXCEPT ![f] = [pc |-> "rows", rows |-> chunks[f]]]
    /\ UNCHANGED <<base, file, job, chunks, objects, worker, stranded, mishaps>>

\* Its other statements and the commit, or a rollback when the row has gone.
DeleteRows(f) ==
    /\ request[f].pc = "rows"
    /\ Reaches(f, "done")
    /\ IF file[f] = "none" THEN UNCHANGED <<file, job, chunks>>
       ELSE /\ file' = [file EXCEPT ![f] = "DELETED"]
            /\ job' = [job EXCEPT ![f] = "none"]
            /\ chunks' = [chunks EXCEPT ![f] = @ \ request[f].rows]
    /\ UNCHANGED <<base, objects, worker, stranded, mishaps>>

RequestDies(f) ==
    /\ request[f].pc \in {"stored", "chunks", "rows"}
    /\ Mishap
    /\ Reaches(f, "died")
    /\ UNCHANGED <<base, file, job, chunks, objects, worker, stranded>>

\* Removing the knowledge base deletes the objects of the rows it lists ...
RemoveBaseObjects ==
    /\ base \in {"live", "died"}
    /\ base' = "removing"
    /\ objects' = {f \in objects : file[f] = "none"}
    /\ UNCHANGED <<file, job, chunks, request, worker, stranded, mishaps>>

\* ... and then its row, with every row that refers to it.  It waits for
\* transactions that have inserted chunks.
RemoveBaseRows ==
    /\ base = "removing" /\ \A s \in Servers : worker[s].pc # "commit"
    /\ base' = "gone"
    /\ file' = [f \in Files |-> "none"] /\ job' = [f \in Files |-> "none"]
    /\ chunks' = [f \in Files |-> {}]
    /\ UNCHANGED <<objects, request, worker, stranded, mishaps>>

RemoveBaseDies ==
    /\ base = "removing" /\ Mishap
    /\ base' = "died"
    /\ UNCHANGED <<file, job, chunks, objects, request, worker, stranded>>

-----------------------------------------------------------------------------
(* The processing runtime: a tick lists a batch and works through it.      *)

Queued == {f \in Files : job[f] = "QUEUED"}

\* The oldest queued jobs make a batch.  The draining flag is set until the tick ends.
ListQueued(s) ==
    /\ worker[s].pc = "idle" /\ Queued # {}
    /\ \E batch \in SUBSET Queued :
        /\ batch = Queued \/ Cardinality(batch) = BatchSize
        /\ Cardinality(batch) <= BatchSize
        /\ \A f \in batch, g \in Queued \ batch : f < g
        /\ worker' = [worker EXCEPT ![s].pc = "next", ![s].batch = batch]
    /\ UNCHANGED <<base, file, job, chunks, objects, request, stranded, mishaps>>

\* Processing a job begins with a look at its file.
LookUpFile(s) ==
    /\ worker[s].pc = "next"
    /\ \E f \in worker[s].batch :
        /\ \A g \in worker[s].batch : f <= g
        /\ worker' = [worker EXCEPT
                        ![s].pc = IF file[f] \in {"none", "DELETED"} THEN "orphan" ELSE "begin",
                        ![s].cur = f, ![s].batch = @ \ {f}]
    /\ UNCHANGED <<base, file, job, chunks, objects, request, stranded, mishaps>>

\* The draining flag after the loop, or after a throw that leaves it.
AfterJob(s) ==
    [IdleTick EXCEPT !.pc = IF worker[s].batch = {} THEN "idle" ELSE "next",
                     !.batch = worker[s].batch]

\* Faulty: the flag is reset behind the loop, not in a finally block.
ThrowStaysDraining == [IdleTick EXCEPT !.pc = "draining"]

AfterThrow == IdleTick

\* Faulty: jobs that are no longer there are skipped (updateMany).
JobOrFileIsThere(f) == file[f] # "none"

\* The update statements of a transaction find both rows; else it is rolled
\* back.
RowsAreThere(f) == job[f] # "none" /\ file[f] # "none"

\* A transaction that gives job and file their status, or throws out of the tick.
SettleOrThrow(s, jobStatus, fileStatus, after) ==
    LET f == worker[s].cur IN
    IF RowsAreThere(f)
    THEN /\ job' = [job EXCEPT ![f] = jobStatus]
         /\ file' = [file EXCEPT ![f] = fileStatus]
         /\ worker' = [worker EXCEPT ![s] = after]
    ELSE worker' = [worker EXCEPT ![s] = AfterThrow] /\ UNCHANGED <<job, file>>

\* The file has gone, and its job with it: the update throws.
FailOrphan(s) ==
    /\ worker[s].pc = "orphan"
    /\ LET f == worker[s].cur IN
       IF job[f] = "none"
       THEN worker' = [worker EXCEPT ![s] = AfterThrow] /\ UNCHANGED job
       ELSE worker' = [worker EXCEPT ![s] = AfterJob(s)] /\ job' = [job EXCEPT ![f] = "FAILED"]
    /\ UNCHANGED <<base, file, chunks, objects, request, stranded, mishaps>>

BeginJob(s) ==
    /\ worker[s].pc = "begin"
    /\ SettleOrThrow(s, "RUNNING", "PROCESSING", [worker[s] EXCEPT !.pc = "embed"])
    /\ UNCHANGED <<base, chunks, objects, request, stranded, mishaps>>

\* Extracting, chunking and embedding a file may fail, and reading it does when
\* the object has gone.
EmbeddingEnds(f) == IF f \in objects THEN BOOLEAN ELSE {FALSE}

EmbedFile(s) ==
    /\ worker[s].pc = "embed"
    /\ \E embedded \in EmbeddingEnds(worker[s].cur) :
        worker' = [worker EXCEPT ![s].pc = IF embedded THEN "store" ELSE "fail"]
    /\ UNCHANGED <<base, file, job, chunks, objects, request, stranded, mishaps>>

\* First statements of the transaction that stores the chunks: the committed
\* ones are deleted (a deletion that holds them goes first) and the new ones
\* inserted, which needs the row of the file.
OpenStore(s) ==
    LET f == worker[s].cur IN
    /\ worker[s].pc = "store"
    /\ ~(request[f].pc = "rows" /\ request[f].rows # {})
    /\ worker' = IF file[f] = "none" THEN [worker EXCEPT ![s].pc = "fail"]
                 ELSE [worker EXCEPT ![s].pc = "commit", ![s].rows = chunks[f]]
    /\ UNCHANGED <<base, file, job, chunks, objects, request, stranded, mishaps>>

\* Faulty: old chunks are left beside the new ones.
ChunksAdded(s) == chunks[worker[s].cur] \cup {s}

\* The chunks of the file after the commit.
ChunksStored(s) == {s}

\* The key (file_id, chunk_index): chunks another server committed since the
\* delete statement make the insert fail.
KeyConflict(s) == ~(chunks[worker[s].cur] \subseteq worker[s].rows)

\* The other statements and the commit.  Any error rolls back and is caught.
CommitStore(s) ==
    LET f == worker[s].cur IN
    /\ worker[s].pc = "commit"
    /\ IF RowsAreThere(f) /\ ~KeyConflict(s)
       THEN /\ job' = [job EXCEPT ![f] = "COMPLETED"]
            /\ file' = [file EXCEPT ![f] = "COMPLETED"]
            /\ chunks' = [chunks EXCEPT ![f] = ChunksStored(s)]
            /\ worker' = [worker EXCEPT ![s] = AfterJob(s)]
       ELSE /\ worker' = [worker EXCEPT ![s].pc = "fail", ![s].rows = {}]
            /\ UNCHANGED <<file, job, chunks>>
    /\ UNCHANGED <<base, objects, request, stranded, mishaps>>

\* The catch block: its own transaction throws when the rows have gone.
RecordFailure(s) ==
    /\ worker[s].pc = "fail"
    /\ SettleOrThrow(s, "FAILED", "FAILED", AfterJob(s))
    /\ UNCHANGED <<base, chunks, objects, request, stranded, mishaps>>

\* A statement outside the try block throws, or the process dies and restarts.
TickDies(s) ==
    /\ worker[s].pc # "idle" /\ Mishap
    /\ stranded' = IF worker[s].pc \in {"embed", "store", "commit", "fail"}
                   THEN stranded \cup {worker[s].cur} ELSE stranded
    /\ worker' = [worker EXCEPT ![s] = AfterThrow]
    /\ UNCHANGED <<base, file, job, chunks, objects, request>>

-----------------------------------------------------------------------------
Serve(f) ==
    \/ StoreObject(f) \/ CreateRow(f)
    \/ DeleteObject(f) \/ DeleteChunks(f) \/ DeleteRows(f) \/ RequestDies(f)

RemoveBase == RemoveBaseObjects \/ RemoveBaseRows \/ RemoveBaseDies

Tick(s) ==
    \/ ListQueued(s) \/ LookUpFile(s) \/ FailOrphan(s) \/ BeginJob(s)
    \/ EmbedFile(s) \/ OpenStore(s) \/ CommitStore(s) \/ RecordFailure(s)

Next ==
    \/ \E f \in Files : Serve(f)
    \/ RemoveBase
    \/ \E s \in Servers : Tick(s) \/ TickDies(s)

Spec == Init /\ [][Next]_vars

\* The timer starts a tick again and again, and awaits in a tick return: the
\* requests to storage, provider and database end in an answer or an error.  A
\* deletion that has opened its transaction ends it.
FairSpec ==
    /\ Spec
    /\ \A s \in Servers : WF_vars(Tick(s))
    /\ \A f \in Files : WF_vars(DeleteRows(f))

-----------------------------------------------------------------------------
(* Properties.                                                             *)

JobStatus == {"QUEUED", "RUNNING", "COMPLETED", "FAILED"}

FileStatus == {"QUEUED", "PROCESSING", "COMPLETED", "FAILED", "DELETED"}

TickRecord ==
    [pc : {"idle", "next", "orphan", "begin", "embed", "store", "commit", "fail"},
     batch : SUBSET Files, cur : Files \cup {0}, rows : SUBSET Servers]

RequestRecord ==
    [pc : {"none", "stored", "live", "chunks", "rows", "done", "died"}, rows : SUBSET Servers]

\* Every variable holds values of its type; a tick that ended left the
\* draining flag reset, however it ended.
TypeOK ==
    /\ base \in {"live", "removing", "died", "gone"}
    /\ file \in [Files -> FileStatus \cup {"none"}]
    /\ job \in [Files -> JobStatus \cup {"none"}]
    /\ chunks \in [Files -> SUBSET Servers] /\ objects \subseteq Files
    /\ request \in [Files -> RequestRecord]
    /\ worker \in [Servers -> TickRecord]
    /\ stranded \subseteq Files /\ mishaps \in 0..MaxMishaps

\* A deleted file stays deleted: a worker that was embedding it meanwhile
\* neither gives it another status nor adds chunks to it.
DeletedStaysDeleted ==
    [][\A f \in Files :
        file[f] = "DELETED" => file'[f] \in {"DELETED", "none"} /\ chunks'[f] \subseteq chunks[f]]_vars

\* KnowledgeBaseSearchService.search(): the chunks of the files that are
\* COMPLETED and not deleted, nearest first; filters and limit only drop some.
Search == [f \in {g \in Files : file[g] = "COMPLETED"} |-> chunks[f]]

\* What search returns of a file is the work of one worker, complete, although
\* two may have worked on it; and the file's job agrees.
SearchableIsWhole ==
    \A f \in DOMAIN Search : Cardinality(Search[f]) = 1 /\ job[f] = "COMPLETED"

\* Every job is settled: files deleted under a tick, which drop the rest of its
\* batch, do not keep the others waiting for ever.  Only the job a dying tick
\* was running may be left behind.
JobsSettle ==
    \A f \in Files : []<>(job[f] \notin {"QUEUED", "RUNNING"} \/ f \in stranded)

\* A deleted file has no chunks ("Deleting a file removes associated embeddings
\* and stored object", docs/knowledge_base.md).
DeletedHasNoChunks == \A f \in Files : file[f] = "DELETED" => chunks[f] = {}
==============================================================================
