------------------------ MODULE PipelineHistoryScreen ------------------------
(***************************************************************************)
(* The screen with the executions of the pipeline (webapp                  *)
(* .../admin/pipeline-history-screen.component.ts): the list of runs, the  *)
(* detail of the selected one and the poll that follows it while it is     *)
(* under way.  Every answer is applied when it arrives, whatever has been  *)
(* selected or started since it was asked for.                             *)
(***************************************************************************)
EXTENDS Naturals

CONSTANTS
    Calls,       \* bound: 1 .. n, calls of the screen's under way at once
    MaxRuns,     \* bound: runs of the pipeline
    MaxEvents    \* bound: clicks on a run or "Refresh", failed requests, restarts

VARIABLES
    runs,     \* runs[i]: the status of the i-th run in the history
    memory,   \* the backend process still knows its latest run
    open,     \* the component is on the screen
    listed,   \* how many runs the list shows, the newest first
    selectedRunId,
    loading,  \* the flag that disables "Refresh" and "Run Pipeline"
    selectedRun, \* the detail on the screen: [id, status]
    timer,    \* pollTimer is set
    call,     \* call[k]: an asynchronous method that has not ended
    crossed,  \* a poll was answered about a run that was no longer selected
    events    \* how many of these events there were

server == <<runs, memory>>
screen == <<open, listed, selectedRunId, loading, selectedRun, timer>>
vars == <<server, screen, call, crossed, events>>

Runs == 1 .. MaxRuns

(* COMPLETED, FAILED and HALTED are one to this screen.                    *)
Ended == "ENDED"
Newest == CHOOSE n \in 0 .. MaxRuns : \A i \in Runs : runs[i] # "none" <=> i <= n

NoRun == [id |-> 0, status |-> "IDLE"]
Free == [kind |-> "free", at |-> "none", run |-> NoRun, own |-> 0]
Load == [Free EXCEPT !.kind = "load", !.at = "list"]

Init ==
    /\ runs = [i \in Runs |-> "none"] /\ memory = TRUE
    /\ open = TRUE /\ listed = 0 /\ selectedRunId = 0 /\ loading = TRUE
    /\ selectedRun = NoRun /\ timer = FALSE
    /\ call = [k \in Calls |-> IF k = 1 THEN Load ELSE Free]
    /\ crossed = FALSE /\ events = 0

Detail(i) == [id |-> i, status |-> runs[i]]

(* GET status answers from the memory of the process; the history, from    *)
(* the log entries, which survive it.                                      *)
LiveStatus == IF memory /\ Newest # 0 THEN Detail(Newest) ELSE NoRun

Event == events < MaxEvents /\ events' = events + 1

Idle(k) == call[k] = Free /\ \A j \in Calls : j < k => call[j] # Free
Become(k, c) == call' = [call EXCEPT ![k] = c]
At(k, place) == call[k].at = place

(* syncPolling(): a timer exactly while the detail is that of a run under  *)
(* way.                                                                    *)
SyncPolling(run) == timer' = (run.status = "RUNNING")

-----------------------------------------------------------------------------
(* The backend.                                                            *)

Busy == memory /\ Newest # 0 /\ runs[Newest] = "RUNNING"

StartRun ==
    /\ ~ Busy /\ Newest < MaxRuns
    /\ runs' = [runs EXCEPT ![Newest + 1] = "RUNNING"]
    /\ memory' = TRUE

RunStarts ==
    /\ StartRun
    /\ UNCHANGED <<screen, call, crossed, events>>

RunEnds ==
    /\ Busy
    /\ runs' = [runs EXCEPT ![Newest] = Ended]
    /\ UNCHANGED <<memory, screen, call, crossed, events>>

Restart ==
    /\ memory /\ Newest # 0
    /\ Event
    /\ memory' = FALSE
    /\ UNCHANGED <<runs, screen, call, crossed>>

-----------------------------------------------------------------------------
(* loadHistory(): on its own, as the end of a poll or within runPipeline().*)

(* What a method does when its part of loading the history is over.        *)
AfterLoad(c) ==
    IF c.kind = "run" THEN [c EXCEPT !.at = "detail", !.run = [NoRun EXCEPT !.id = c.own],
                                     !.kind = "own"]
    ELSE Free

ListArrives(k) ==
    LET next == IF selectedRunId \in 1 .. Newest THEN selectedRunId ELSE Newest IN
    /\ At(k, "list")
    /\ listed' = Newest
    /\ selectedRunId' = next
    /\ IF next = 0
       THEN /\ selectedRun' = NoRun /\ SyncPolling(NoRun)
            /\ loading' = FALSE
            /\ Become(k, AfterLoad(call[k]))
       ELSE /\ Become(k, [call[k] EXCEPT !.at = "detail", !.run.id = next])
            /\ UNCHANGED <<loading, selectedRun, timer>>
    /\ UNCHANGED <<server, open, crossed, events>>

ReadDetail(k) ==
    /\ At(k, "detail")
    /\ Become(k, [call[k] EXCEPT !.at = "detailed", !.run = Detail(@.id)])
    /\ UNCHANGED <<server, screen, crossed, events>>

DetailArrives(k) ==
    /\ At(k, "detailed")
    /\ selectedRun' = call[k].run
    /\ selectedRunId' = IF call[k].kind = "own" THEN call[k].own ELSE selectedRunId
    /\ loading' = (loading /\ call[k].kind \in {"select", "own"})
    /\ SyncPolling(call[k].run)
    /\ Become(k, AfterLoad(call[k]))
    /\ UNCHANGED <<server, open, listed, crossed, events>>

(* A request fails.  loadHistory() empties the detail and stops the poll;  *)
(* what selectRun() and runPipeline() ask for themselves stays as it is; a *)
(* poll tries again.                                                       *)
RequestFails(k) ==
    /\ Event
    /\ \/ /\ call[k].kind \in {"load", "run"}
          /\ call[k].at \in {"list", "detail"}
          /\ selectedRun' = NoRun /\ timer' = FALSE /\ loading' = FALSE
          /\ Become(k, AfterLoad(call[k]))
       \/ /\ (call[k].kind \in {"select", "own"} /\ At(k, "detail")) \/ At(k, "post")
          /\ Become(k, Free)
          /\ UNCHANGED <<loading, selectedRun, timer>>
       \/ /\ At(k, "status")
          /\ SyncPolling(selectedRun)
          /\ Become(k, Free)
          /\ UNCHANGED <<loading, selectedRun>>
    /\ UNCHANGED <<server, open, listed, selectedRunId, crossed>>

-----------------------------------------------------------------------------
(* The poll.                                                               *)

TimerFires(k) ==
    /\ timer
    /\ Idle(k)
    /\ timer' = FALSE
    /\ Become(k, IF selectedRun.id = 0 THEN Free
                 ELSE [Free EXCEPT !.kind = "poll", !.at = "status"])
    /\ UNCHANGED <<server, open, listed, selectedRunId, loading, selectedRun, crossed, events>>

ReadStatus(k) ==
    /\ At(k, "status")
    /\ Become(k, [call[k] EXCEPT !.at = "live", !.run = LiveStatus])
    /\ UNCHANGED <<server, screen, crossed, events>>

(* pollSelectedRun() compares the answer with the run selected by now;     *)
(* with none selected the comparison throws and the poll ends.             *)
StatusArrives(k) ==
    LET live == call[k].run IN
    /\ At(k, "live")
    /\ IF live.id # selectedRun.id \/ selectedRun = NoRun
       THEN /\ timer' = FALSE
            /\ crossed' = (crossed \/ selectedRun # NoRun)
            /\ Become(k, Free)
            /\ UNCHANGED <<loading, selectedRun>>
       ELSE /\ selectedRun' = live
            /\ timer' = IF live.status = "RUNNING" THEN TRUE ELSE timer
            /\ loading' = (loading \/ live.status # "RUNNING")
            /\ Become(k, IF live.status = "RUNNING" THEN Free ELSE Load)
            /\ UNCHANGED crossed
    /\ UNCHANGED <<server, open, listed, selectedRunId, events>>

-----------------------------------------------------------------------------
(* The user.                                                               *)

(* "Refresh", and "Retry" after a failed load.                             *)
Refresh(k) ==
    /\ open /\ Idle(k) /\ ~ loading
    /\ \A j \in Calls : call[j].kind \notin {"run", "own"}
    /\ Event
    /\ Become(k, Load)
    /\ loading' = TRUE
    /\ UNCHANGED <<server, open, listed, selectedRunId, selectedRun, timer, crossed>>

RunPipeline(k) ==
    /\ open /\ Idle(k) /\ ~ loading
    /\ \A j \in Calls : call[j].kind \notin {"run", "own"}
    /\ Busy \/ Newest < MaxRuns
    /\ Become(k, [Free EXCEPT !.kind = "run", !.at = "post"])
    /\ UNCHANGED <<server, screen, crossed, events>>

(* POST run: a new run, or the one under way.                              *)
RunAccepted(k) ==
    /\ At(k, "post")
    /\ IF Busy THEN UNCHANGED server ELSE StartRun
    /\ Become(k, [call[k] EXCEPT !.at = "list", !.own = IF Busy THEN Newest ELSE Newest + 1])
    /\ loading' = TRUE
    /\ UNCHANGED <<open, listed, selectedRunId, selectedRun, timer, crossed, events>>

SelectRun(k, i) ==
    /\ open /\ Idle(k)
    /\ Event
    /\ i \in 1 .. listed /\ i # selectedRunId
    /\ selectedRunId' = i
    /\ Become(k, [Free EXCEPT !.kind = "select", !.at = "detail", !.run.id = i])
    /\ UNCHANGED <<server, open, listed, loading, selectedRun, timer, crossed>>

Leave ==
    /\ open
    /\ open' = FALSE /\ timer' = FALSE
    /\ UNCHANGED <<server, listed, selectedRunId, loading, selectedRun, call, crossed, events>>

Answer(k) ==
    \/ ListArrives(k) \/ ReadDetail(k) \/ DetailArrives(k)
    \/ ReadStatus(k) \/ StatusArrives(k) \/ RunAccepted(k)

Poll == \E k \in Calls : TimerFires(k)

Next ==
    \/ RunStarts \/ RunEnds \/ Restart \/ Leave
    \/ \E k \in Calls :
          \/ Answer(k) \/ RequestFails(k) \/ TimerFires(k) \/ Refresh(k) \/ RunPipeline(k)
          \/ \E i \in Runs : SelectRun(k, i)

Spec == Init /\ [][Next]_vars /\ WF_vars(RunEnds) /\ WF_vars(Poll)
             /\ \A k \in Calls : WF_vars(Answer(k))

-----------------------------------------------------------------------------
TypeOK ==
    /\ listed \in 0 .. MaxRuns /\ selectedRunId \in 0 .. MaxRuns
    /\ selectedRun.id \in 0 .. MaxRuns

(* A run shown as under way is in the end shown as ended or replaced.  The *)
(* one thing that can leave it there is a poll whose answer is about       *)
(* another run (or about none, after a restart): it ends the polling.      *)
HistoryFollowsRun ==
    \A i \in Runs :
        []<>(selectedRun # [id |-> i, status |-> "RUNNING"] \/ crossed \/ ~ open)
=============================================================================
