-------------------------- MODULE IdeaFoundryConsole --------------------------
(***************************************************************************)
(* What surrounds the pipeline executor: the schedule that starts it and   *)
(* the screens from which operators start and watch it.  The parts share   *)
(* no variable, they meet only in the runs and rows that each of them      *)
(* describes for itself, so an interleaving of two parts shows nothing     *)
(* that neither shows alone: a behaviour of this module is a behaviour of  *)
(* one part, chosen at the start, with the others at rest.                 *)
(***************************************************************************)
EXTENDS Naturals, FiniteSets, Sequences

CONSTANTS
    Servers, Owners, Intervals, DefaultInterval, MaxTime, MaxSaves,
    MaxManual, MaxFaults, MaxCrashes, User,              \* PipelineSchedule
    Operators, Callers, MaxAsks,                         \* StagePolicy
    Slots, MaxRuns, MaxToggles, MaxFailures,             \* PipelineBoard
    MaxRequests, Unread,                                 \* BoardContents
    Calls, MaxEvents,                                    \* PipelineHistoryScreen
    TitleCount, LabelCount, MaxQueries, MaxRepairs, MaxEdits, MaxCalls

ASSUME ConsoleAssumption ==
    /\ Intervals \subseteq Nat \ {0}
    /\ DefaultInterval \in Intervals
    /\ User \notin Servers /\ Operators \cap Callers = {}
    /\ {MaxTime, MaxSaves, MaxManual, MaxFaults, MaxCrashes, MaxAsks, MaxRuns, MaxToggles,
        MaxFailures, MaxRequests, MaxEvents, TitleCount, LabelCount, MaxQueries, MaxRepairs,
        MaxEdits, MaxCalls} \subseteq Nat
    /\ MaxTime # 0
    /\ IsFiniteSet(Slots) /\ Slots = 1 .. Cardinality(Slots)
    /\ IsFiniteSet(Calls) /\ Calls = 1 .. Cardinality(Calls)

VARIABLES
    part,                                            \* the part that moves
    now, row, tick, phase, at, fired, chosen, used,  \* PipelineSchedule
    policy, pass, display, busy, asks, faults,       \* StagePolicy
    run, started, shown, running, pollTimer,         \* PipelineBoard
    processed, columns, slot, toggles, failures,
    db, request, asked, board, ever, always,         \* BoardContents
    runs, memory, open, listed, selectedRunId,       \* PipelineHistoryScreen
    loading, selectedRun, timer, call, crossed, events,
    stored, searched, snapshot, baseline, load,      \* ProspectingStrategy
    agentCall, edits, calls

scheduleVars == <<now, row, tick, phase, at, fired, chosen, used>>
policyVars   == <<policy, pass, display, busy, asks, faults>>
boardVars    == <<run, started, shown, running, pollTimer, processed, columns, slot, toggles,
                  failures>>
contentsVars == <<db, request, asked, board, ever, always>>
historyVars  == <<runs, memory, open, listed, selectedRunId, loading, selectedRun, timer,
                  call, crossed, events>>
strategyVars == <<stored, searched, snapshot, baseline, load, agentCall, edits, calls>>

vars == <<part, scheduleVars, policyVars, boardVars, contentsVars, historyVars, strategyVars>>

Schedule == INSTANCE PipelineSchedule
Policy   == INSTANCE StagePolicy WITH row <- policy, screen <- display
Board    == INSTANCE PipelineBoard WITH open <- shown, timer <- pollTimer
Contents == INSTANCE BoardContents
History  == INSTANCE PipelineHistoryScreen
Strategy == INSTANCE ProspectingStrategy WITH call <- agentCall

ASSUME UnreadAssumption ==
    /\ Unread \notin BOOLEAN
    /\ Unread \notin {"none"} \cup Contents!Processing \cup Contents!Workflow

Parts == {"schedule", "policy", "board", "contents", "history", "strategy"}

(* It is the turn of p: the other parts stand still.                       *)
Only(p) ==
    /\ part = p
    /\ UNCHANGED part
    /\ IF p = "schedule" THEN TRUE ELSE UNCHANGED scheduleVars
    /\ IF p = "policy"   THEN TRUE ELSE UNCHANGED policyVars
    /\ IF p = "board"    THEN TRUE ELSE UNCHANGED boardVars
    /\ IF p = "contents" THEN TRUE ELSE UNCHANGED contentsVars
    /\ IF p = "history"  THEN TRUE ELSE UNCHANGED historyVars
    /\ IF p = "strategy" THEN TRUE ELSE UNCHANGED strategyVars

Init ==
    /\ part \in Parts
    /\ Schedule!Init /\ Policy!Init /\ Board!Init /\ Contents!Init /\ History!Init
    /\ Strategy!Init
    /\ part # "strategy" => stored.families[1].status = "Active"

Next ==
    \/ Only("schedule") /\ Schedule!Next
    \/ Only("policy") /\ Policy!Next
    \/ Only("board") /\ Board!Next
    \/ Only("contents") /\ Contents!Next
    \/ Only("history") /\ History!Next
    \/ Only("strategy") /\ Strategy!Next

(* What the parts assume of the timers and of the backend, see each of     *)
(* them: ticks go on, runs and passes end, polls and requests are served.  *)
Fairness ==
    /\ \A s \in Servers :
          /\ WF_vars(Only("schedule") /\ Schedule!Tick(s))
          /\ \A o \in Owners : WF_vars(Only("schedule") /\ Schedule!RunEnds(s, o))
    /\ \A o \in Operators : WF_vars(Only("policy") /\ Policy!Serve(o))
    /\ WF_vars(Only("board") /\ Board!RunEnds)
    /\ WF_vars(Only("board") /\ Board!Poll)
    /\ \A k \in Slots : WF_vars(Only("board") /\ Board!Answer(k))
    /\ WF_vars(Only("history") /\ History!RunEnds)
    /\ WF_vars(Only("history") /\ History!Poll)
    /\ \A k \in Calls : WF_vars(Only("history") /\ History!Answer(k))

Spec == Init /\ [][Next]_vars /\ Fairness

-----------------------------------------------------------------------------
(* The variables of every part hold values of their types.                 *)
TypeOK ==
    /\ Schedule!TypeOK /\ Policy!TypeOK /\ Board!TypeOK
    /\ Contents!TypeOK /\ History!TypeOK /\ Strategy!TypeOK

(* With no crash and no failed statement, no slot of a schedule is run     *)
(* twice (idea-foundry-pipeline-schedule.service.js).                      *)
OneRunPerSlot == Schedule!OneRunPerSlot

(* A slot of a schedule is passed over only by a save or with a run that   *)
(* was really started.                                                     *)
SlotsMoveWithRuns == Schedule!SlotsMoveWithRuns

(* A stage says RUNNING for a pass that runs, or for one that threw where  *)
(* nobody records it, whatever is saved and started at the same time.      *)
RunningIsTrue == Policy!RunningIsTrue

(* What is waited for comes: a due slot is run or replaced by a save, the  *)
(* board and the history show in the end that a run ended, whatever order  *)
(* overlapping polls are answered in and whichever fail, the columns come  *)
(* to agree with the checkbox, and the buttons of the stages are released. *)
WaitingEnds ==
    /\ Schedule!DueServed
    /\ Board!BoardFollowsRun
    /\ Board!BoardFollowsCheckbox
    /\ History!HistoryFollowsRun
    /\ \A o \in Operators : []<>(part = "policy" => busy[o] = Policy!Free)

(* The board shows an item as waiting only where it waited at some moment  *)
(* since the request began, and leaves out nothing that waited all along.  *)
BoardIsRecent == Contents!BoardIsRecent

(* The order of the query families is the order of their ranks, on the     *)
(* page, in the answers and in the row.                                    *)
RanksFollowOrder == Strategy!RanksFollowOrder

(* A review whose answer cannot be used changes nothing that the execution *)
(* after it searches for.                                                  *)
UnusableReviewKeepsSearch == Strategy!UnusableReviewKeepsSearch
=============================================================================
