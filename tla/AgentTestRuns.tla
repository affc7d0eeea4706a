----------------------------- MODULE AgentTestRuns -----------------------------
(***************************************************************************)
(* Agent test runs of the Agent Gateway (api/routers/agent_tests.py,       *)
(* workers/agent_test_tasks.py, services/agent_test_execution.py): an      *)
(* operator configures a run, asks for its execution, stops, resumes and   *)
(* deletes it; one background worker executes the queued ones.             *)
(*                                                                         *)
(* Everything runs on one event loop: an action is what happens between    *)
(* two awaits.  The worker keeps one database session per poll, whose      *)
(* objects are read once: the rest of the batch is judged by the status it *)
(* had when it was listed.  An UPDATE writes the attributes that differ    *)
(* from the ones the session loaded, and fails when the row is gone.       *)
(***************************************************************************)
EXTENDS Naturals, FiniteSets, FiniteSetsExt

CONSTANTS
    RunCount,     \* how many runs may be created, numbered by created_at
    Requests,     \* requests that may be under way at the same time
    BatchSize,    \* runs listed per poll (limit=5)
    MaxCalls,     \* agent calls an execution makes at most (from max_turns)
    MaxMishaps    \* bound: statements that throw and restarts of the gateway

VARIABLES
    row,      \* row[r]: status of the agent_test_runs row r
    stored,   \* stored[r]: how many transcripts the turns, annotations and scores of r hold
    event,    \* event[r]: agent_test_control_events[r]
    worker,   \* the local variables of the worker
    request,  \* request[q]: the local variables of a request
    mishaps   \* how many of them happened

vars == <<row, stored, event, worker, request, mishaps>>

-----------------------------------------------------------------------------
TestRuns == 1..RunCount

Status == {"draft", "queued", "running", "stopping", "stopped", "completed", "failed"}

Exists(r) == row[r] \in Status

Polling == [pc |-> "poll", batch |-> {}, cur |-> 0, calls |-> 0]

NoRequest == [pc |-> "idle", kind |-> "none", run |-> 0, seen |-> "none"]

Init ==
    /\ row = [r \in TestRuns |-> "none"]
    /\ stored = [r \in TestRuns |-> 0]
    /\ event = [r \in TestRuns |-> "none"]
    /\ worker = Polling
    /\ request = [q \in Requests |-> NoRequest]
    /\ mishaps = 0

-----------------------------------------------------------------------------
(* Requests.  Each reads the row, refuses statuses it has no use for, and  *)
(* writes after further awaits.                                            *)

\* create_agent_test_run: the row and its first snapshots, in one transaction.
Create(r) ==
    /\ row[r] = "none" /\ \A s \in TestRuns : s < r => row[s] # "none"
    /\ row' = [row EXCEPT ![r] = "draft"]
    /\ UNCHANGED <<stored, event, worker, request, mishaps>>

\* evaluate_agent_transcript: a transcript that came with the request is scored
\* and stored with its run, whose status is the column's default.
Evaluate(r) ==
    /\ row[r] = "none" /\ \A s \in TestRuns : s < r => row[s] # "none"
    /\ row' = [row EXCEPT ![r] = "completed"]
    /\ stored' = [stored EXCEPT ![r] = 1]
    /\ UNCHANGED <<event, worker, request, mishaps>>

Accepts(kind, status) ==
    CASE kind = "execute" -> status \in {"draft", "failed", "queued"}
      [] kind = "stop" -> status \in {"queued", "running", "stopping"}
      [] kind = "resume" -> status \in {"stopped", "failed"}
      [] kind = "delete" -> status \in Status \ {"running"}

\* The row is read; a stop of a running run sets its event at once.
BeginRequest(q, kind, r) ==
    /\ request[q].pc = "idle"
    /\ Accepts(kind, row[r])
    /\ request' = [request EXCEPT ![q] =
                    [pc |-> "commit", kind |-> kind, run |-> r, seen |-> row[r]]]
    /\ event' = [event EXCEPT ![r] =
                    IF kind = "stop" /\ row[r] = "running" /\ @ # "none" THEN "set" ELSE @]
    /\ UNCHANGED <<row, stored, worker, mishaps>>

\* What a request leaves in the status column.
Requested(kind, seen) ==
    CASE kind = "delete" -> "deleted"
      [] kind \in {"execute", "resume"} -> "queued"
      [] kind = "stop" -> IF seen = "queued" THEN "stopped" ELSE "stopping"

\* The request commits.  A status it does not change is not written.
CommitRequest(q) ==
    /\ request[q].pc = "commit"
    /\ LET r == request[q].run
           status == Requested(request[q].kind, request[q].seen)
           writes == Exists(r) /\ status # request[q].seen
       IN /\ row' = IF writes THEN [row EXCEPT ![r] = status] ELSE row
          /\ stored' = [stored EXCEPT ![r] = IF status = "deleted" THEN 0 ELSE @]
    /\ request' = [request EXCEPT ![q] = NoRequest]
    /\ UNCHANGED <<event, worker, mishaps>>

\* The request fails before its commit.
RequestThrows(q) ==
    /\ request[q].pc = "commit"
    /\ mishaps < MaxMishaps /\ mishaps' = mishaps + 1
    /\ request' = [request EXCEPT ![q] = NoRequest]
    /\ UNCHANGED <<row, stored, event, worker>>

-----------------------------------------------------------------------------
(* The worker.                                                             *)

Listable(status) == status = "queued"

\* list_runs_by_status: the oldest queued runs.
Poll ==
    /\ worker.pc = "poll"
    /\ LET queued == {r \in TestRuns : Listable(row[r])} IN
       /\ queued # {}
       /\ worker' = [worker EXCEPT
            !.pc = "take",
            !.batch = {r \in queued : Cardinality({s \in queued : s < r}) < BatchSize}]
    /\ UNCHANGED <<row, stored, event, request, mishaps>>

\* The next run of the batch gets its stop event.  Its status is the listed
\* one, so that it is never skipped.
TakeNext ==
    /\ worker.pc = "take"
    /\ IF worker.batch = {}
       THEN worker' = Polling /\ UNCHANGED event
       ELSE LET r == Min(worker.batch) IN
            /\ worker' = [worker EXCEPT !.pc = "start", !.cur = r, !.batch = @ \ {r}]
            /\ event' = [event EXCEPT ![r] = "clear"]
    /\ UNCHANGED <<row, stored, request, mishaps>>

\* An exception leaves process_agent_test_run_with_control: the rest of the
\* batch is dropped, and the worker polls again.
AfterAbort == Polling

Abort ==
    /\ worker' = AfterAbort
    /\ event' = [event EXCEPT ![worker.cur] = "none"]
    /\ UNCHANGED <<row, stored>>

\* The definition, fixture and prompts are loaded and the missing snapshots
\* taken; the agent is found and the run is marked as running, or it is not.
StartRun(known) ==
    /\ worker.pc = "start"
    /\ LET r == worker.cur IN
       IF ~Exists(r) THEN Abort
       ELSE /\ row' = [row EXCEPT ![r] = IF known THEN "running" ELSE "failed"]
            /\ IF known
               THEN worker' = [worker EXCEPT !.pc = "turn"] /\ UNCHANGED event
               ELSE /\ worker' = [worker EXCEPT !.pc = "take", !.cur = 0]
                    /\ event' = [event EXCEPT ![r] = "none"]
            /\ UNCHANGED stored
    /\ UNCHANGED <<request, mishaps>>

\* _raise_if_stopped before a call.
GoesOn == event[worker.cur] # "set"

\* The loop of execute: a call begins unless the run was stopped.
BeginCall ==
    /\ worker.pc = "turn"
    /\ worker' = IF GoesOn THEN [worker EXCEPT !.pc = "call", !.calls = @ + 1]
                 ELSE [worker EXCEPT !.pc = "stopped"]
    /\ UNCHANGED <<row, stored, event, request, mishaps>>

MayContinue == worker.calls < MaxCalls

\* A call returns: the run was stopped meanwhile, the conversation has come to
\* its end, or the simulated user answers.
CallReturns ==
    /\ worker.pc = "call"
    /\ \E next \in (IF event[worker.cur] = "set" THEN {"stopped"}
                    ELSE IF MayContinue THEN {"completed", "turn"} ELSE {"completed"}) :
        worker' = [worker EXCEPT !.pc = next]
    /\ UNCHANGED <<row, stored, event, request, mishaps>>

\* The agent, the scoring or the report throws.
CallThrows ==
    /\ worker.pc = "call"
    /\ worker' = [worker EXCEPT !.pc = "failed"]
    /\ UNCHANGED <<row, stored, event, request, mishaps>>

\* Faulty: the transcript of an earlier execution is not cleared.
TranscriptsKept(r, end) == IF end = "completed" THEN stored[r] + 1 ELSE stored[r]

\* clear_execution_artifacts and add_turn, add_annotation, add_score: one
\* transaction, which the final commit ends.
Transcripts(r, end) == IF end = "completed" THEN 1 ELSE 0

FinalStatus(end) == end

\* The final commit of an execution that completed, was stopped or failed.
EndRun ==
    /\ worker.pc \in {"completed", "stopped", "failed"}
    /\ LET r == worker.cur
           end == worker.pc
       IN IF ~Exists(r) THEN Abort
          ELSE /\ row' = [row EXCEPT ![r] = FinalStatus(end)]
               /\ stored' = [stored EXCEPT ![r] = Transcripts(r, end)]
               /\ worker' = [worker EXCEPT !.pc = "take", !.cur = 0, !.calls = 0]
               /\ event' = [event EXCEPT ![r] = "none"]
    /\ UNCHANGED <<request, mishaps>>

\* A statement of the worker throws, also the commit that should record it.
WorkerThrows ==
    /\ worker.pc \in {"start", "completed", "stopped", "failed"}
    /\ mishaps < MaxMishaps /\ mishaps' = mishaps + 1
    /\ Abort
    /\ UNCHANGED <<request>>

\* The gateway is stopped or dies, and starts again.
Restart ==
    /\ mishaps < MaxMishaps /\ mishaps' = mishaps + 1
    /\ worker' = Polling
    /\ event' = [r \in TestRuns |-> "none"]
    /\ request' = [q \in Requests |-> NoRequest]
    /\ UNCHANGED <<row, stored>>

Work ==
    \/ Poll
    \/ TakeNext
    \/ \E known \in BOOLEAN : StartRun(known)
    \/ BeginCall
    \/ CallReturns
    \/ CallThrows
    \/ EndRun

Next ==
    \/ \E r \in TestRuns : Create(r) \/ Evaluate(r)
    \/ \E q \in Requests :
        \/ \E kind \in {"execute", "stop", "resume", "delete"}, r \in TestRuns :
            Exists(r) /\ BeginRequest(q, kind, r)
        \/ CommitRequest(q)
        \/ RequestThrows(q)
    \/ Work
    \/ WorkerThrows
    \/ Restart

Spec == Init /\ [][Next]_vars

\* The worker's task is scheduled again and again, agent calls end within the
\* gateway's time limit; nobody is obliged to make a request.
FairSpec == Spec /\ WF_vars(Work)

-----------------------------------------------------------------------------
(* Properties.                                                             *)

\* Every variable holds values of its type; an execution makes at most
\* MaxCalls agent calls.
TypeOK ==
    /\ row \in [TestRuns -> Status \cup {"none", "deleted"}]
    /\ stored \in [TestRuns -> 0..2]
    /\ event \in [TestRuns -> {"none", "clear", "set"}]
    /\ worker \in [pc : {"poll", "take", "start", "turn", "call", "completed", "stopped", "failed"},
                   batch : SUBSET TestRuns, cur : TestRuns \cup {0}, calls : 0..MaxCalls]
    /\ request \in [Requests -> [pc : {"idle", "commit"},
                                 kind : {"none", "execute", "stop", "resume", "delete"},
                                 run : TestRuns \cup {0}, seen : Status \cup {"none"}]]
    /\ mishaps \in 0..MaxMishaps

\* A completed run shows the transcript of exactly one execution, also when it
\* was executed before or requested twice.
CompletedIsWhole == \A r \in TestRuns : row[r] = "completed" => stored[r] = 1

\* A run stopped while it was queued is not started ("Execution stopped before
\* the worker started the run.", agent_tests.py): it leaves that status only
\* by being resumed or deleted.
StoppedStaysStopped ==
    [][\A r \in TestRuns : row[r] = "stopped" => row'[r] \in {"stopped", "queued", "deleted"}]_vars
==============================================================================
