------------------------- MODULE IdeaFoundryPipeline -------------------------
(***************************************************************************)
(* The Idea Foundry pipeline: the asynchronous runtime every Node process  *)
(* keeps in memory (createIdeaFoundryPipelineRuntime), the executor it     *)
(* starts for each run (createIdeaFoundryPipelineExecutor) and the         *)
(* history screen that is rebuilt from durable log entries                 *)
(* (idea-foundry-pipeline-history.service.js).                             *)
(*                                                                         *)
(* Each action is what the process does between two awaits: everything up  *)
(* to the next await runs without interruption on the event loop, and any  *)
(* other request, run or process may act in between.  A stage pass (the    *)
(* agent work of one stage) is seen only through what it returns.          *)
(***************************************************************************)
EXTENDS Naturals, FiniteSets

CONSTANTS
    Servers,            \* Node processes, each with a runsByOwner map of its own
    Owners,             \* the operators whose pipelines are run
    RunIds,             \* randomUUID() values; finite in a checked instance
    StageCount,         \* length of the executor's list of stages (default 4)
    MaxStageIterations, \* passes of one stage in one run (default 100)
    MaxCrashes,         \* bound: process crashes in a behaviour
    MaxLost,            \* bound: log writes that fail in a behaviour
    NoOne               \* no run id, no process, no owner

ASSUME PipelineAssumption ==
    /\ StageCount \in Nat \ {0}
    /\ MaxStageIterations \in Nat \ {0}
    /\ MaxCrashes \in Nat
    /\ MaxLost \in Nat
    /\ NoOne \notin RunIds \cup Servers \cup Owners

VARIABLES
    runs,    \* runs[s][o]: the entry of owner o in the runsByOwner map of s
    exec,    \* exec[r]: the local variables of the execution of run r
    log,     \* the log_entries rows of scope "idea-foundry"
    crashes, \* how many crashes happened
    lost     \* how many log writes failed

vars == <<runs, exec, log, crashes, lost>>

-----------------------------------------------------------------------------
(* Stages are numbered in the order of PIPELINE_STAGE_KEYS.                *)

Stages == 1..StageCount
Sources == 1

StageState == {"pending", "running", "completed", "failed"}
Verdict == {"COMPLETED", "FAILED", "HALTED"}
NoResults == [k \in Stages |-> "none"]
PendingStates == [k \in Stages |-> "pending"]

\* sources is the one stage with repeatWhileProgress: false.
SinglePass(k) == k = Sources

IdleRun == [runId |-> NoOne, status |-> "IDLE",
            states |-> PendingStates, results |-> NoResults]

NoExec == [pc |-> "unused", server |-> NoOne, owner |-> NoOne,
           first |-> Sources, stage |-> Sources, iteration |-> 0,
           verdict |-> "none", results |-> NoResults, final |-> PendingStates]

\* The colour of every stage, once a run's stage results are known.  Sources
\* is coloured completed when it is still pending and any result exists.
DeriveStageStates(results, base) ==
    [k \in Stages |->
        CASE results[k] = "COMPLETED" -> "completed"
          [] results[k] \in {"FAILED", "HALTED"} -> "failed"
          [] OTHER -> IF /\ k = Sources
                         /\ base[k] = "pending"
                         /\ \E j \in Stages : results[j] # "none"
                      THEN "completed"
                      ELSE base[k]]

GetStatus(s, o) ==
    [runs[s][o] EXCEPT !.states = DeriveStageStates(runs[s][o].results, @)]

-----------------------------------------------------------------------------
(* Durable log entries.  createLogEntry never throws: a write that fails   *)
(* is dropped without a trace.                                             *)

LogEvent == {"run_started", "stage", "run_completed", "run_failed"}

LogEntry == [runId : RunIds, owner : Owners, event : LogEvent,
             stage : Stages, status : {"RUNNING"} \cup Verdict,
             states : [Stages -> StageState]]

Entry(r, event, k, status, states) ==
    [runId |-> r, owner |-> exec[r].owner, event |-> event, stage |-> k,
     status |-> status, states |-> states]

WriteLog(entry) ==
    \/ log' = log \cup {entry} /\ UNCHANGED lost
    \/ lost < MaxLost /\ lost' = lost + 1 /\ UNCHANGED log

\* A run as the history screen shows it, rebuilt from its log entries.
\* Faulty: the entries are not grouped by run.
EndEntriesOfAnyRun(r) == {e \in log : e.event \in {"run_completed", "run_failed"}}

EndEntries(r) ==
    {e \in log : e.runId = r /\ e.event \in {"run_completed", "run_failed"}}

HistoryStatuses(r) ==
    IF EndEntries(r) = {} THEN {"RUNNING"} ELSE {e.status : e \in EndEntries(r)}

HistoryStages(r) ==
    {<<e.stage, e.status>> : e \in {x \in log : x.runId = r /\ x.event = "stage"}}

-----------------------------------------------------------------------------
Init ==
    /\ runs = [s \in Servers |-> [o \in Owners |-> IdleRun]]
    /\ exec = [r \in RunIds |-> NoExec]
    /\ log = {}
    /\ crashes = 0
    /\ lost = 0

\* The run is still the one its owner's map entry holds.
IsLatest(r) == runs[exec[r].server][exec[r].owner].runId = r

\* Change the map entry of run r, unless a later run took its place.
UpdateLatest(r, run) ==
    runs' = IF IsLatest(r)
            THEN [runs EXCEPT ![exec[r].server][exec[r].owner] = run]
            ELSE runs

LatestRun(r) == runs[exec[r].server][exec[r].owner]

\* onStageStateChange: recolour one stage of the run that is still current.
StageEvent(r, k, state) ==
    UpdateLatest(r, [LatestRun(r) EXCEPT !.states[k] = state])

MayStart(s, o) == runs[s][o].status # "RUNNING"

\* start(): refused while the owner's run is RUNNING in this process; else a
\* fresh run replaces the entry before the first await (the start log entry).
Start(s, o, k) ==
    /\ MayStart(s, o)
    /\ \E r \in RunIds :
        /\ exec[r].pc = "unused"
        /\ runs' = [runs EXCEPT ![s][o] =
                        [runId |-> r, status |-> "RUNNING",
                         states |-> PendingStates, results |-> NoResults]]
        /\ exec' = [exec EXCEPT ![r] =
                        [NoExec EXCEPT !.pc = "logStart", !.server = s,
                                       !.owner = o, !.first = k, !.stage = k]]
    /\ UNCHANGED <<log, crashes, lost>>

\* The start entry is written; execute() is called and takes its first snapshot.
LogRunStarted(r) ==
    /\ exec[r].pc = "logStart"
    /\ WriteLog(Entry(r, "run_started", exec[r].first, "RUNNING", PendingStates))
    /\ exec' = [exec EXCEPT ![r].pc = "before"]
    /\ UNCHANGED <<runs, crashes>>

\* The stage's "before" snapshot is loaded: the stage turns "running" and its
\* first pass is called.
BeginStage(r) ==
    /\ exec[r].pc = "before"
    /\ StageEvent(r, exec[r].stage, "running")
    /\ exec' = [exec EXCEPT ![r].pc = "pass", ![r].iteration = 1]
    /\ UNCHANGED <<log, crashes, lost>>

\* What becomes of a stage after a pass with this outcome: "none" means that
\* another pass is called.
PassVerdict(k, iteration, outcome) ==
    CASE outcome = "failed" -> "FAILED"
      [] outcome = "idle" -> "COMPLETED"
      [] outcome = "progress" /\ SinglePass(k) -> "COMPLETED"
      [] outcome = "progress" /\ iteration = MaxStageIterations /\ ~SinglePass(k) -> "HALTED"
      [] OTHER -> "none"

\* A pass returned: failedCount > 0 ("failed"), nothing processed ("idle") or
\* items processed without a failure ("progress").  The sources stage maps its
\* result to failedCount 0: it fails by throwing only.
PassReturns(r, outcome) ==
    /\ exec[r].pc = "pass"
    /\ outcome = "failed" => exec[r].stage # Sources
    /\ LET verdict == PassVerdict(exec[r].stage, exec[r].iteration, outcome) IN
       exec' = IF verdict = "none"
               THEN [exec EXCEPT ![r].iteration = @ + 1]
               ELSE [exec EXCEPT ![r].pc = "after", ![r].verdict = verdict]
    /\ UNCHANGED <<runs, log, crashes, lost>>

\* Faulty: the catch handler leaves the stage states alone.
FailRunningNothing(states) == states

\* The first running stage turns "failed".
FailRunning(states) ==
    LET active == {k \in Stages : states[k] = "running"} IN
    [k \in Stages |-> IF k \in active /\ \A j \in active : k <= j
                      THEN "failed" ELSE states[k]]

\* Faulty: the catch handler forgets the status.
RejectedStillRunning(run) == [run EXCEPT !.states = FailRunning(@)]

\* The entry of a run whose execution rejected; the results of the stages
\* that did complete are not published.
Rejected(run) == [run EXCEPT !.status = "FAILED", !.states = FailRunning(@)]

AfterThrow(r) == IF IsLatest(r) THEN "logFailed" ELSE "done"

\* A pass threw: execute() rejects and the catch handler ends the run.
PassThrows(r) ==
    /\ exec[r].pc = "pass"
    /\ UpdateLatest(r, Rejected(LatestRun(r)))
    /\ exec' = [exec EXCEPT ![r].pc = AfterThrow(r),
                            ![r].final = Rejected(LatestRun(r)).states]
    /\ UNCHANGED <<log, crashes, lost>>

\* The "after" snapshot is loaded: the stage result is recorded and the stage
\* recoloured; a HALTED stage goes back to "pending".
EndStage(r) ==
    /\ exec[r].pc = "after"
    /\ LET k == exec[r].stage
           verdict == exec[r].verdict
       IN /\ StageEvent(r, k, CASE verdict = "FAILED" -> "failed"
                                [] verdict = "COMPLETED" -> "completed"
                                [] OTHER -> "pending")
          /\ exec' = [exec EXCEPT ![r].pc = "logStage", ![r].results[k] = verdict]
    /\ UNCHANGED <<log, crashes, lost>>

GoesOn(r) == exec[r].verdict = "COMPLETED" /\ exec[r].stage < StageCount

\* Faulty: the loop never moves on.
StageAgain(r) == exec[r].stage

NextStage(r) == exec[r].stage + 1

\* Faulty: whatever did not fail is reported as a success.
PublishedOptimistic(r) ==
    [LatestRun(r) EXCEPT
        !.status = IF exec[r].verdict = "FAILED" THEN "FAILED" ELSE "COMPLETED",
        !.results = exec[r].results,
        !.states = DeriveStageStates(exec[r].results, @)]

\* The entry of a run whose execution returned.
Published(r) ==
    [LatestRun(r) EXCEPT !.status = exec[r].verdict,
                         !.results = exec[r].results,
                         !.states = DeriveStageStates(exec[r].results, @)]

\* The stage entry is written.  A stage that did not complete, or the last
\* one, ends the run: execute() returns and the then handler publishes it.
\* Otherwise the next stage's snapshot is taken.
LogStage(r) ==
    /\ exec[r].pc = "logStage"
    /\ WriteLog(Entry(r, "stage", exec[r].stage, exec[r].verdict, PendingStates))
    /\ IF GoesOn(r)
       THEN /\ exec' = [exec EXCEPT ![r].pc = "before", ![r].stage = NextStage(r),
                                    ![r].verdict = "none"]
            /\ UNCHANGED runs
       ELSE /\ UpdateLatest(r, Published(r))
            /\ exec' = [exec EXCEPT ![r].pc = IF IsLatest(r) THEN "logEnd" ELSE "done",
                                    ![r].final = Published(r).states]
    /\ UNCHANGED crashes

\* The end entry is written, with the status and stage states just published.
LogRunEnded(r) ==
    /\ \/ /\ exec[r].pc = "logEnd"
          /\ WriteLog(Entry(r, "run_completed", exec[r].stage, exec[r].verdict,
                            exec[r].final))
       \/ /\ exec[r].pc = "logFailed"
          /\ WriteLog(Entry(r, "run_failed", exec[r].stage, "FAILED", exec[r].final))
    /\ exec' = [exec EXCEPT ![r].pc = "done"]
    /\ UNCHANGED <<runs, crashes>>

\* The process dies and is started again: its map is empty and its
\* executions are gone; log entries survive.
Crash(s) ==
    /\ crashes < MaxCrashes
    /\ crashes' = crashes + 1
    /\ runs' = [runs EXCEPT ![s] = [o \in Owners |-> IdleRun]]
    /\ exec' = [r \in RunIds |->
                  IF exec[r].server = s /\ exec[r].pc \notin {"unused", "done"}
                  THEN [exec[r] EXCEPT !.pc = "dead"] ELSE exec[r]]
    /\ UNCHANGED <<log, lost>>

Execute(r) ==
    \/ LogRunStarted(r)
    \/ BeginStage(r)
    \/ \E outcome \in {"failed", "idle", "progress"} : PassReturns(r, outcome)
    \/ PassThrows(r)
    \/ EndStage(r)
    \/ LogStage(r)
    \/ LogRunEnded(r)

Next ==
    \/ \E s \in Servers, o \in Owners, k \in Stages : Start(s, o, k)
    \/ \E r \in RunIds : Execute(r)
    \/ \E s \in Servers : Crash(s)

Spec == Init /\ [][Next]_vars

\* Every await of the executor settles: gateway calls and log polling are
\* bounded by timeouts and attempt limits, log writes never throw.  Nobody is
\* obliged to start a run, and a process need not crash.
FairSpec == Spec /\ \A r \in RunIds : WF_vars(Execute(r))

-----------------------------------------------------------------------------
(* Properties.                                                             *)

Pc == {"unused", "logStart", "before", "pass", "after", "logStage",
       "logEnd", "logFailed", "done", "dead"}

RunRecord == [runId : RunIds \cup {NoOne}, status : {"IDLE", "RUNNING"} \cup Verdict,
              states : [Stages -> StageState],
              results : [Stages -> {"none"} \cup Verdict]]

ExecRecord == [pc : Pc, server : Servers \cup {NoOne}, owner : Owners \cup {NoOne},
               first : Stages, stage : Stages, iteration : 0..MaxStageIterations,
               verdict : {"none"} \cup Verdict,
               results : [Stages -> {"none"} \cup Verdict],
               final : [Stages -> StageState]]

\* Every variable holds values of its type; in particular no execution counts
\* more passes of a stage than the limit.
TypeOK ==
    /\ runs \in [Servers -> [Owners -> RunRecord]]
    /\ exec \in [RunIds -> ExecRecord]
    /\ log \subseteq LogEntry
    /\ crashes \in 0..MaxCrashes
    /\ lost \in 0..MaxLost

Live(r) == exec[r].pc \in {"logStart", "before", "pass", "after", "logStage"}

\* An owner's entry is RUNNING exactly while an execution works for it, and it
\* is the entry of that one execution: no run is left RUNNING with nobody to
\* end it (start would refuse for ever), and none works unseen beside another.
RunningIffExecuting ==
    /\ \A s \in Servers, o \in Owners :
        runs[s][o].status = "RUNNING" =>
            \E r \in RunIds : /\ Live(r) /\ runs[s][o].runId = r
                              /\ exec[r].server = s /\ exec[r].owner = o
    /\ \A r \in RunIds :
        Live(r) => LatestRun(r).status = "RUNNING" /\ IsLatest(r)

\* Within a process, two executions never work for the same owner at a time.
OneExecutionPerOwner ==
    \A r1, r2 \in RunIds :
        /\ Live(r1) /\ Live(r2)
        /\ exec[r1].server = exec[r2].server /\ exec[r1].owner = exec[r2].owner
        => r1 = r2

\* What the status screen shows of an ended run: nothing still "running";
\* success means every stage from the start on is "completed"; otherwise one
\* stage is "failed", those the run did before it are "completed" and those
\* after it still "pending".
EndedRunReport ==
    \A s \in Servers, o \in Owners :
        LET run == GetStatus(s, o)
            first == exec[run.runId].first
            state == run.states
        IN run.status \in Verdict =>
            /\ \A k \in Stages : state[k] # "running"
            /\ IF run.status = "COMPLETED"
               THEN \A k \in first..StageCount : state[k] = "completed"
               ELSE \E k \in first..StageCount :
                        /\ state[k] = "failed"
                        /\ \A j \in first..(k - 1) : state[j] = "completed"
                        /\ \A j \in (k + 1)..StageCount : state[j] = "pending"

\* The history rebuilt from the log never contradicts the executions: a run
\* has one status there, an end status is the one its entry was given, and
\* every stage line is a result the execution had.  With no failed log write
\* the history of a run that ended by itself also lacks nothing.
HistorySound ==
    \A r \in RunIds :
        /\ Cardinality(HistoryStatuses(r)) = 1
        /\ \A status \in HistoryStatuses(r) \ {"RUNNING"} :
            /\ exec[r].pc \in {"done", "dead"}
            /\ IsLatest(r) => LatestRun(r).status = status
            /\ status = "COMPLETED" =>
                \A k \in exec[r].first..StageCount : exec[r].results[k] = "COMPLETED"
        /\ \A line \in HistoryStages(r) : exec[r].results[line[1]] = line[2]
        /\ lost = 0 /\ exec[r].pc = "done" =>
            /\ HistoryStatuses(r) # {"RUNNING"}
            /\ HistoryStages(r) =
                {<<k, exec[r].results[k]>> : k \in {j \in Stages : exec[r].results[j] # "none"}}

\* A started run ends: every stage stops within its iteration limit.
RunsEnd == \A r \in RunIds : []<>~Live(r)

\* The slots of OwnerPipeline, as the runtime implements them: the phase of a
\* slot is read off the status of its entry, the stage reached off the execution
\* of the run it holds.
PhaseOf(run) ==
    CASE run.status = "IDLE" -> "idle"
      [] run.status = "RUNNING" -> "running"
      [] run.status = "COMPLETED" -> "success"
      [] OTHER -> "stopped"

StageOf(run) == IF run.status = "IDLE" THEN 1 ELSE exec[run.runId].stage

SlotPhase == [s \in Servers |-> [o \in Owners |-> PhaseOf(runs[s][o])]]
SlotStage == [s \in Servers |-> [o \in Owners |-> StageOf(runs[s][o])]]

Slots == INSTANCE OwnerPipeline WITH phase <- SlotPhase, at <- SlotStage

\* The runtime keeps the promise of OwnerPipeline.
ImplementsOwnerPipeline == Slots!SlotSpec
==============================================================================
