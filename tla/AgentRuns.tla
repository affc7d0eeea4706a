-------------------------------- MODULE AgentRuns --------------------------------
(***************************************************************************)
(* Runs of the agent gateway (api/routers/runs.py, api/routers/            *)
(* approvals.py, workers/tasks.py, orchestration/runtime.py): a run is     *)
(* started, may stop for an approver's decision, is resumed after it, and  *)
(* may be cancelled at any time.                                           *)
(*                                                                         *)
(* A request reads, awaits, and writes what it decided on; no write checks *)
(* that what was read still holds.  Starting and resuming go on in a       *)
(* background task of the request.  The task is one transaction: from its  *)
(* first UPDATE of the run it holds the row's lock, its writes are seen    *)
(* when it commits, and the writes of others wait for it.                  *)
(***************************************************************************)
EXTENDS Naturals, FiniteSets

CONSTANTS
    Runs,         \* ids of runs
    Clients,      \* each makes one request after the other
    Nobody,       \* neither a client nor a run: no lock holder, no request
    MaxMishaps    \* bound: tasks that die (database error, process restart)

ASSUME AgentRunsAssumption ==
    /\ IsFiniteSet(Clients) /\ Nobody \notin Clients \cup Runs
    /\ MaxMishaps \in Nat

VARIABLES
    status,       \* status[r]: committed status of the run, "none" without a row
    approval,     \* approval[r]: status of its approval request, "none" without one
    artifacts,    \* artifacts[r]: how many artifacts it has
    holder,       \* holder[r]: the client whose task holds the lock of its row
    request,      \* request[c]: what the request of c has read, and where it is
    verdicts,     \* history: verdicts[r], the decisions recorded for r
    stranded,     \* history: runs whose task died
    mishaps

vars == <<status, approval, artifacts, holder, request, verdicts, stranded, mishaps>>

-----------------------------------------------------------------------------
Terminal == {"COMPLETED", "FAILED", "CANCELLED"}

Decisions == {"APPROVED", "REJECTED"}

NoRequest == [pc |-> "idle", run |-> Nobody, value |-> "none"]

Init ==
    /\ status = [r \in Runs |-> "none"] /\ approval = [r \in Runs |-> "none"]
    /\ artifacts = [r \in Runs |-> 0] /\ holder = [r \in Runs |-> Nobody]
    /\ request = [c \in Clients |-> NoRequest]
    /\ verdicts = [r \in Runs |-> {}] /\ stranded = {} /\ mishaps = 0

Goes(c, pc) == request' = [request EXCEPT ![c].pc = pc]

Ends(c) == request' = [request EXCEPT ![c] = NoRequest]

\* The request of c goes on with r, remembering a value it has read or was given.
Asks(c, r, pc, value) ==
    request' = [request EXCEPT ![c] = [pc |-> pc, run |-> r, value |-> value]]

Free(r) == holder[r] = Nobody

-----------------------------------------------------------------------------
(* Requests.  One that is refused changes nothing and is not a step.       *)

StartRun(c, r) ==
    /\ request[c].pc = "idle" /\ status[r] = "none"
    /\ status' = [status EXCEPT ![r] = "PENDING"]
    /\ Asks(c, r, "begin", "none")
    /\ UNCHANGED <<approval, artifacts, holder, verdicts, stranded, mishaps>>

ReadToCancel(c, r) ==
    /\ request[c].pc = "idle" /\ status[r] \notin Terminal \cup {"none"}
    /\ Asks(c, r, "cancel", "none")
    /\ UNCHANGED <<status, approval, artifacts, holder, verdicts, stranded, mishaps>>

CancelRun(c) ==
    LET r == request[c].run IN
    /\ request[c].pc = "cancel" /\ Free(r)
    /\ status' = [status EXCEPT ![r] = "CANCELLED"]
    /\ Ends(c)
    /\ UNCHANGED <<approval, artifacts, holder, verdicts, stranded, mishaps>>

ReadToDecide(c, r) ==
    /\ request[c].pc = "idle" /\ approval[r] = "PENDING"
    /\ \E verdict \in Decisions : Asks(c, r, "decide", verdict)
    /\ UNCHANGED <<status, approval, artifacts, holder, verdicts, stranded, mishaps>>

\* Faulty: a rejection leaves the run as it is.
ApprovalOnly(c) == status

StatusAfterDecision(c) ==
    IF request[c].value = "REJECTED"
    THEN [status EXCEPT ![request[c].run] = "CANCELLED"] ELSE status

Decide(c) ==
    LET r == request[c].run IN
    /\ request[c].pc = "decide" /\ (request[c].value = "REJECTED" => Free(r))
    /\ approval' = [approval EXCEPT ![r] = request[c].value]
    /\ verdicts' = [verdicts EXCEPT ![r] = @ \cup {request[c].value}]
    /\ status' = StatusAfterDecision(c)
    /\ Ends(c)
    /\ UNCHANGED <<artifacts, holder, stranded, mishaps>>

\* Faulty: a run that was resumed already is resumed again.
WaitingOrRunning == {"WAITING_FOR_APPROVAL", "RUNNING"}

Resumable == {"WAITING_FOR_APPROVAL"}

\* The run is read together with its approvals ...
ReadToResume(c, r) ==
    /\ request[c].pc = "idle" /\ status[r] \in Resumable
    /\ Asks(c, r, "pending", approval[r])
    /\ UNCHANGED <<status, approval, artifacts, holder, verdicts, stranded, mishaps>>

\* Faulty: that no decision is pending is taken for an approval.
NonePending(c) == approval[request[c].run] # "PENDING"

\* ... then the pending approvals; an approval must be among the ones read first.
MayResume(c) == approval[request[c].run] # "PENDING" /\ request[c].value = "APPROVED"

CheckApprovals(c) ==
    /\ request[c].pc = "pending"
    /\ IF MayResume(c) THEN Goes(c, "resume") ELSE Ends(c)
    /\ UNCHANGED <<status, approval, artifacts, holder, verdicts, stranded, mishaps>>

ResumeRun(c) ==
    LET r == request[c].run IN
    /\ request[c].pc = "resume" /\ Free(r)
    /\ status' = [status EXCEPT ![r] = "RUNNING"]
    /\ Goes(c, "load")
    /\ UNCHANGED <<approval, artifacts, holder, verdicts, stranded, mishaps>>

-----------------------------------------------------------------------------
(* Background tasks.                                                       *)

\* A new run is set RUNNING, whatever its status is by now: uncommitted, with
\* the lock held from here on.
BeginTask(c) ==
    LET r == request[c].run IN
    /\ request[c].pc = "begin" /\ Free(r)
    /\ holder' = [holder EXCEPT ![r] = c]
    /\ Goes(c, "work")
    /\ UNCHANGED <<status, approval, artifacts, verdicts, stranded, mishaps>>

\* The task commits: the run gets a status, its row is free, the request is over.
Commits(c, newStatus) ==
    /\ status' = [status EXCEPT ![request[c].run] = newStatus]
    /\ holder' = [holder EXCEPT ![request[c].run] = Nobody]
    /\ Ends(c)

\* Run to the end, artifact and status in one transaction.
Finalize(c) ==
    /\ artifacts' = [artifacts EXCEPT ![request[c].run] = @ + 1]
    /\ Commits(c, "COMPLETED")
    /\ UNCHANGED approval

\* The policy wants the output reviewed: checkpoint, approval request and status
\* in one transaction.
PauseForApproval(c) ==
    /\ approval' = [approval EXCEPT ![request[c].run] = "PENDING"]
    /\ Commits(c, "WAITING_FOR_APPROVAL")
    /\ UNCHANGED artifacts

\* Faulty: the error is logged and the transaction rolled back.
ErrorSwallowed(c) ==
    /\ Commits(c, status[request[c].run])
    /\ UNCHANGED <<approval, artifacts>>

\* An agent or the policy threw, and the database did not: the catch block.
FailRun(c) ==
    /\ Commits(c, "FAILED")
    /\ UNCHANGED <<approval, artifacts>>

ExecuteRun(c) ==
    /\ request[c].pc = "work"
    /\ Finalize(c) \/ PauseForApproval(c) \/ FailRun(c)
    /\ UNCHANGED <<verdicts, stranded, mishaps>>

\* A resumed run is read again and set RUNNING.  That is an UPDATE, which takes
\* the lock, only when another request has changed the status meanwhile.
LoadCheckpoint(c) ==
    LET r == request[c].run IN
    /\ request[c].pc = "load" /\ (status[r] = "RUNNING" \/ Free(r))
    /\ holder' = IF status[r] = "RUNNING" THEN holder ELSE [holder EXCEPT ![r] = c]
    /\ Goes(c, "final")
    /\ UNCHANGED <<status, approval, artifacts, verdicts, stranded, mishaps>>

FinishResumed(c) ==
    /\ request[c].pc = "final" /\ holder[request[c].run] \in {c, Nobody}
    /\ Finalize(c)
    /\ UNCHANGED <<verdicts, stranded, mishaps>>

\* A database error, which the catch block meets again, or a restart: rolled back.
TaskDies(c) ==
    LET r == request[c].run IN
    /\ request[c].pc \in {"begin", "work", "load", "final"}
    /\ mishaps < MaxMishaps /\ mishaps' = mishaps + 1
    /\ holder' = IF holder[r] = c THEN [holder EXCEPT ![r] = Nobody] ELSE holder
    /\ stranded' = stranded \cup {r}
    /\ Ends(c)
    /\ UNCHANGED <<status, approval, artifacts, verdicts>>

-----------------------------------------------------------------------------
Task(c) == BeginTask(c) \/ ExecuteRun(c) \/ LoadCheckpoint(c) \/ FinishResumed(c)

Handle(c) ==
    \/ \E r \in Runs : StartRun(c, r) \/ ReadToCancel(c, r) \/ ReadToDecide(c, r) \/ ReadToResume(c, r)
    \/ CancelRun(c) \/ Decide(c) \/ CheckApprovals(c) \/ ResumeRun(c)

Next == \E c \in Clients : Handle(c) \/ Task(c) \/ TaskDies(c)

Spec == Init /\ [][Next]_vars

\* The event loop runs a background task to its end: the calls of models and
\* tools have timeouts, and a lock is held by a task that commits.
FairSpec == Spec /\ \A c \in Clients : WF_vars(Task(c))

-----------------------------------------------------------------------------
(* Properties.                                                             *)

RunStatus == {"PENDING", "RUNNING", "WAITING_FOR_APPROVAL"} \cup Terminal

RequestRecord ==
    [pc : {"idle", "cancel", "decide", "pending", "resume", "begin", "work", "load", "final"},
     run : Runs \cup {Nobody}, value : {"none", "PENDING"} \cup Decisions]

\* Every variable holds values of its type; a run gets no more artifacts than
\* there are requests that can have found it waiting at one time.
TypeOK ==
    /\ status \in [Runs -> RunStatus \cup {"none"}]
    /\ approval \in [Runs -> {"none", "PENDING"} \cup Decisions]
    /\ artifacts \in [Runs -> 0..Cardinality(Clients)]
    /\ holder \in [Runs -> Clients \cup {Nobody}]
    /\ request \in [Clients -> RequestRecord]
    /\ verdicts \in [Runs -> SUBSET Decisions]
    /\ stranded \subseteq Runs /\ mishaps \in 0..MaxMishaps

\* An output the policy wants reviewed is released only after an approver said
\* yes, however requests to decide, resume and cancel interleave; and a run that
\* says COMPLETED has something to show.
ReleaseIsReviewed ==
    \A r \in Runs :
        /\ artifacts[r] > 0 => approval[r] = "none" \/ "APPROVED" \in verdicts[r]
        /\ status[r] = "COMPLETED" => artifacts[r] > 0

\* A run that waits for approval can still go on: its request is open or
\* approved, never rejected, and nobody works on it.
WaitingCanGoOn ==
    \A r \in Runs :
        status[r] = "WAITING_FOR_APPROVAL" => approval[r] \in {"PENDING", "APPROVED"} /\ Free(r)

\* A run that was started or resumed comes to an end or to an approver, unless
\* its task died.
RunsSettle ==
    \A r \in Runs :
        []<>(status[r] \notin {"PENDING", "RUNNING"} \/ r \in stranded)

\* Cancelling leaves a completed run alone ("Cancel a run if it has not already
\* completed.", cancel_run).
CompletedIsNotCancelled ==
    [][\A r \in Runs : status[r] = "COMPLETED" => status'[r] # "CANCELLED"]_vars
==============================================================================
