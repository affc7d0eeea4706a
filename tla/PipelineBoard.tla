---------------------------- MODULE PipelineBoard ----------------------------
(***************************************************************************)
(* The board of the Idea Foundry (webapp                                   *)
(* .../idea-foundry/idea-foundry-overview.component.ts): four columns, the *)
(* button that starts a run and the poll that follows the run.  Status and *)
(* contents are two requests; their answers come back in any order, those  *)
(* of different polls too, because a poll cycle ends as soon as one of its *)
(* requests fails and the next one begins while the other is outstanding.  *)
(***************************************************************************)
EXTENDS Naturals

CONSTANTS
    Slots,       \* bound: 1 .. n, requests of the screen under way at once
    MaxRuns,     \* bound: runs of the pipeline
    MaxToggles,  \* bound: clicks on the checkbox
    MaxFailures  \* bound: requests that fail

VARIABLES
    run,       \* the status the backend keeps of the owner's latest run
    started,   \* how many runs there were
    open,      \* the component is on the screen
    running,   \* isPipelineRunning
    timer,     \* pipelinePollTimer is set
    processed, \* showProcessedItems
    columns,   \* the columns: "empty", or built with or without processed items
    slot,      \* slot[k]: a call of the screen's, with its two requests
    toggles,   \* how many clicks on the checkbox there were
    failures   \* how many requests have failed

vars == <<run, started, open, running, timer, processed, columns, slot, toggles, failures>>

Verdict == {"COMPLETED", "FAILED"}

Free == [kind |-> "free", status |-> "none", contents |-> "none"]

(* refreshOverviewFromBackend() and a poll ask for both; a click on the    *)
(* checkbox for the contents only; a run for the contents afterwards.      *)
Call(kind) ==
    [kind |-> kind,
     status |-> IF kind = "toggle" THEN "none" ELSE "asked",
     contents |-> IF kind = "run" THEN "none" ELSE "asked"]

Init ==
    /\ run = "IDLE" /\ started = 0
    /\ open = TRUE /\ running = FALSE /\ timer = FALSE
    /\ processed = FALSE /\ columns = "empty"
    /\ slot = [k \in Slots |-> IF k = 1 THEN Call("load") ELSE Free]
    /\ toggles = 0 /\ failures = 0

server == <<run, started>>
screen == <<open, running, timer, processed, columns>>

NextFree(k) == /\ slot[k] = Free
               /\ \A j \in Slots : j < k => slot[j] # Free

Begin(k, kind) ==
    /\ NextFree(k)
    /\ slot' = [slot EXCEPT ![k] = Call(kind)]

Settled(call) ==
    /\ call.status \in {"none", "done"}
    /\ call.contents \in {"none", "done", "failed"}

Put(k, call) == slot' = [slot EXCEPT ![k] = IF Settled(call) THEN Free ELSE call]

-----------------------------------------------------------------------------
(* The backend: a run starts on the schedule or on request and ends.       *)

RunStarts ==
    /\ run # "RUNNING"
    /\ started < MaxRuns
    /\ run' = "RUNNING" /\ started' = started + 1
    /\ UNCHANGED <<screen, slot, toggles, failures>>

RunEnds ==
    /\ run = "RUNNING"
    /\ run' \in Verdict
    /\ UNCHANGED <<started, screen, slot, toggles, failures>>

(* GET status reads the latest run, POST run starts one unless one is      *)
(* under way and answers with it either way.                               *)
ReadStatus(k) ==
    /\ slot[k].status = "asked"
    /\ IF slot[k].kind = "run"
       THEN /\ run = "RUNNING" \/ started < MaxRuns
            /\ run' = "RUNNING"
            /\ started' = IF run = "RUNNING" THEN started ELSE started + 1
       ELSE UNCHANGED server
    /\ slot' = [slot EXCEPT ![k].status = run']
    /\ UNCHANGED <<screen, toggles, failures>>

-----------------------------------------------------------------------------
(* The screen.                                                             *)

(* applyPipelineStatus(): a timer exactly while the run is under way.      *)
ApplyPipelineStatus(status) ==
    /\ running' = (status = "RUNNING")
    /\ timer' = (status = "RUNNING")

(* The status arrives.  After POST run the contents are loaded next.  The  *)
(* finally of a poll runs when its last answer is in.                      *)
StatusArrives(k) ==
    LET call == slot[k] IN
    /\ call.status \in Verdict \cup {"IDLE", "RUNNING"}
    /\ ApplyPipelineStatus(call.status)
    /\ Put(k, [call EXCEPT !.status = "done",
                           !.contents = IF call.kind = "run" THEN "asked" ELSE @])
    /\ UNCHANGED <<server, open, processed, columns, toggles, failures>>

(* The status request fails: refreshPipelineStatus() shows the error and   *)
(* goes on, runPipeline() gives up.                                        *)
StatusFails(k) ==
    LET call == [slot[k] EXCEPT !.status = "done"] IN
    /\ slot[k].status = "asked"
    /\ failures < MaxFailures
    /\ failures' = failures + 1
    /\ Put(k, call)
    /\ timer' = (timer \/ (call.kind = "poll" /\ call.contents = "done" /\ running))
    /\ UNCHANGED <<server, open, running, processed, columns, toggles>>

(* The columns are built from one answer, with the checkbox as it is then. *)
BuildColumns == columns' = IF processed THEN "all" ELSE "unprocessed"

PollGoesOn(call) == call.kind = "poll" /\ running

(* The contents arrive.  A run then makes sure of the poll; the finally of *)
(* a poll does so while the run is shown as under way.                     *)
ContentsArrive(k) ==
    LET call == [slot[k] EXCEPT !.contents = "done"] IN
    /\ slot[k].contents = "asked"
    /\ BuildColumns
    /\ Put(k, call)
    /\ timer' = (timer \/ call.kind = "run" \/ (Settled(call) /\ PollGoesOn(call)))
    /\ UNCHANGED <<server, open, running, processed, toggles, failures>>

(* loadPipelineContents() empties the columns and rethrows: a poll cycle   *)
(* is over although its status may still be on its way.                    *)
ContentsFail(k) ==
    LET call == [slot[k] EXCEPT !.contents = "failed"] IN
    /\ slot[k].contents = "asked"
    /\ failures < MaxFailures
    /\ failures' = failures + 1
    /\ columns' = "empty"
    /\ Put(k, call)
    /\ timer' = (timer \/ PollGoesOn(call))
    /\ UNCHANGED <<server, open, running, processed, toggles>>

(* pollPipelineStatusCycle().                                              *)
TimerFires(k) ==
    /\ timer
    /\ Begin(k, "poll")
    /\ timer' = FALSE
    /\ UNCHANGED <<server, open, running, processed, columns, toggles, failures>>

(* runPipeline(): refused while a run is shown as under way, not while the *)
(* answer to an earlier click is.                                          *)
RunPipeline(k) ==
    /\ open /\ ~ running
    /\ started < MaxRuns
    /\ Begin(k, "run")
    /\ UNCHANGED <<server, screen, toggles, failures>>

ToggleProcessedVisibility(k) ==
    /\ open
    /\ toggles < MaxToggles
    /\ toggles' = toggles + 1
    /\ processed' = ~ processed
    /\ Begin(k, "toggle")
    /\ UNCHANGED <<server, open, running, timer, columns, failures>>

(* ngOnDestroy() stops the timer; requests under way still end.            *)
Leave ==
    /\ open
    /\ open' = FALSE /\ timer' = FALSE
    /\ UNCHANGED <<server, running, processed, columns, slot, toggles, failures>>

Answer(k) == ReadStatus(k) \/ StatusArrives(k) \/ ContentsArrive(k)

Next ==
    \/ RunStarts \/ RunEnds \/ Leave
    \/ \E k \in Slots :
          \/ Answer(k) \/ StatusFails(k) \/ ContentsFail(k)
          \/ TimerFires(k) \/ RunPipeline(k) \/ ToggleProcessedVisibility(k)

Poll == \E k \in Slots : TimerFires(k)

Spec == Init /\ [][Next]_vars /\ WF_vars(RunEnds) /\ WF_vars(Poll)
             /\ \A k \in Slots : WF_vars(Answer(k))

-----------------------------------------------------------------------------
TypeOK ==
    /\ run \in Verdict \cup {"IDLE", "RUNNING"}
    /\ columns \in {"empty", "unprocessed", "all"}
    /\ \A k \in Slots : slot[k].kind \in {"free", "load", "poll", "toggle", "run"}

(* A run shown as under way is in the end shown as ended, whatever order   *)
(* the answers of overlapping polls arrive in and whichever of them fail;  *)
(* on a board that was left the poll has nothing to follow any more.       *)
BoardFollowsRun == []<>(~ running \/ ~ open)

(* The columns come to agree with the checkbox, or are empty because a     *)
(* load failed.                                                            *)
BoardFollowsCheckbox ==
    []<>(columns \in {"empty", IF processed THEN "all" ELSE "unprocessed"} \/ ~ open)
=============================================================================
