------------------------------- MODULE Workplace -------------------------------
(***************************************************************************)
(* What administrators and users work with beside the Idea Foundry: agent  *)
(* runs and their approvals, the tests of agents and their screen, the     *)
(* administration of agents, the help desk with the review of its tickets, *)
(* and the log.  The parts share no variable, so an interleaving of two    *)
(* parts shows nothing that neither shows alone: a behaviour of this       *)
(* module is a behaviour of one part, chosen at the start, with the others *)
(* at rest.  AgentRuns is extended, the other parts are instances.         *)
(***************************************************************************)
EXTENDS AgentRuns

CONSTANTS
    RunCount, Requests, BatchSize, MaxCalls,             \* AgentTestRuns
    MaxDetails, MaxActions, MaxSelects, None,            \* AgentTestingScreen
    Admins, MaxKey, LegacyKeys, MaxVersion, MaxWrites,   \* AgentAdministration
    MaxEvents,
    Tabs, MaxTurns, MaxFailures,                         \* HelpDesk
    MaxInvestigations, MaxReviews, MaxPatches,           \* TicketReview
    Blank, Typed,
    MaxRequests, MaxRefreshes                            \* OperationLog

ASSUME WorkplaceAssumption ==
    /\ {RunCount, MaxDetails, MaxActions, MaxSelects, MaxWrites, MaxEvents,
        MaxTurns, MaxFailures, MaxInvestigations, MaxReviews, MaxPatches, MaxRequests,
        MaxRefreshes} \subseteq Nat
    /\ {BatchSize, MaxCalls, MaxKey, MaxVersion} \subseteq Nat \ {0}
    /\ LegacyKeys \subseteq 2 .. MaxKey
    /\ Blank # Typed

VARIABLES
    part,                                                            \* the part that moves
    testRow, stored, event, worker, testRequest, testMishaps,        \* AgentTestRuns
    run, agent, key, detail, list, timer, details, listing, action,  \* AgentTestingScreen
    spent,
    agentRow, prompts, clock, last, boot, tx, adminScreen,           \* AgentAdministration
    agentDetail,
    promptWrites, events,
    thread, conversation, tickets, turn, widget, failures,           \* HelpDesk
    ticket, recommendations, dashboard, call, reviewed, sent,        \* TicketReview
    table, response, writes, entries, reads, logScreen, evidence     \* OperationLog

runVars     == <<status, approval, artifacts, holder, request, verdicts, stranded, mishaps>>
testVars    == <<testRow, stored, event, worker, testRequest, testMishaps>>
screenVars  == <<run, agent, key, detail, list, timer, details, listing, action, spent>>
adminVars   == <<agentRow, prompts, clock, last, boot, tx, adminScreen, agentDetail,
                 promptWrites, events>>
helpVars    == <<thread, conversation, tickets, turn, widget, failures>>
reviewVars  == <<ticket, recommendations, dashboard, call, reviewed, sent>>
logVars     == <<table, response, writes, entries, reads, logScreen, evidence>>

allVars == <<part, runVars, testVars, screenVars, adminVars, helpVars, reviewVars, logVars>>

Tests  == INSTANCE AgentTestRuns WITH
              row <- testRow, request <- testRequest, mishaps <- testMishaps
Screen == INSTANCE AgentTestingScreen
Admin  == INSTANCE AgentAdministration WITH
              agent <- agentRow, screen <- adminScreen, detail <- agentDetail,
              writes <- promptWrites
Help   == INSTANCE HelpDesk
Review == INSTANCE TicketReview WITH screen <- dashboard, spent <- reviewed
Log    == INSTANCE OperationLog WITH request <- response, screen <- logScreen

Parts == {"runs", "tests", "screen", "admin", "help", "review", "log"}

(* It is the turn of p: the other parts stand still.                       *)
Only(p) ==
    /\ part = p
    /\ UNCHANGED part
    /\ IF p = "runs"   THEN TRUE ELSE UNCHANGED runVars
    /\ IF p = "tests"  THEN TRUE ELSE UNCHANGED testVars
    /\ IF p = "screen" THEN TRUE ELSE UNCHANGED screenVars
    /\ IF p = "admin"  THEN TRUE ELSE UNCHANGED adminVars
    /\ IF p = "help"   THEN TRUE ELSE UNCHANGED helpVars
    /\ IF p = "review" THEN TRUE ELSE UNCHANGED reviewVars
    /\ IF p = "log"    THEN TRUE ELSE UNCHANGED logVars

AllInit ==
    /\ part \in Parts
    /\ Init /\ Tests!Init /\ Screen!Init /\ Admin!Init /\ Help!Init /\ Review!Init /\ Log!Init
    /\ part # "screen" => run[1] = "draft"

AllNext ==
    \/ Only("runs") /\ Next
    \/ Only("tests") /\ Tests!Next
    \/ Only("screen") /\ Screen!Next
    \/ Only("admin") /\ Admin!Next
    \/ Only("help") /\ Help!Next
    \/ Only("review") /\ Review!Next
    \/ Only("log") /\ Log!Next

(* What the parts assume of the servers, see each of them: tasks, requests *)
(* and the worker of the tests go on, and the timer of the screen ticks.   *)
Fairness ==
    /\ \A c \in Clients : WF_allVars(Only("runs") /\ Task(c))
    /\ WF_allVars(Only("tests") /\ Tests!Work)
    /\ WF_allVars(Only("screen") /\ Screen!ActionStep)
    /\ WF_allVars(Only("screen") /\ Screen!ListStep)
    /\ WF_allVars(Only("screen") /\ Screen!ReadStep)
    /\ WF_allVars(Only("screen") /\ Screen!ApplyStep)
    /\ WF_allVars(Only("screen") /\ Screen!Tick)
    /\ \A r \in Screen!TestRuns : WF_allVars(Only("screen") /\ Screen!WorkerStep(r))
    /\ \A a \in Admins : WF_allVars(Only("admin") /\ Admin!Write(a))
    /\ WF_allVars(Only("help") /\ Help!Progress)
    /\ WF_allVars(Only("review") /\ Review!Progress)
    /\ WF_allVars(Only("log") /\ Log!Progress)

AllSpec == AllInit /\ [][AllNext]_allVars /\ Fairness

-----------------------------------------------------------------------------
(* The variables of every part hold values of their types.                 *)
AllTypeOK ==
    /\ TypeOK /\ Tests!TypeOK /\ Screen!TypeOK /\ Admin!TypeOK
    /\ Help!TypeOK /\ Review!TypeOK /\ Log!TypeOK

(* A completed test run shows the transcript of exactly one execution      *)
(* (agent_test_tasks.py).                                                 *)
CompletedIsWhole == Tests!CompletedIsWhole

(* Of the prompts in force for an agent the one written last wins, and it  *)
(* is the only one where no start of the backend interfered                *)
(* (agent-admin.service.js, support-bootstrap.service.js).                 *)
RunsTheLastSave == Admin!RunsTheLastSave

(* The thread of a help session reads as a conversation whatever two tabs  *)
(* do at once (support.service.js).                                        *)
ThreadIsWhole == Help!ThreadIsWhole

(* The fix of an approved ticket is a text an administrator approved or    *)
(* wrote (support-admin.service.js).                                       *)
ApprovedFixWasSent == Review!ApprovedFixWasSent

(* A response is logged at most once although it passes two hooks.         *)
OneEntryPerResponse == Log!OneEntryPerResponse

(* Nothing that was asked for stays open: an agent run comes to an end or  *)
(* to an approver unless its task died, a queued test is executed, stopped *)
(* or deleted, the screen shows in the end that a selected run ended, a    *)
(* save gets its turn, and the widget, the dashboard and the log come to   *)
(* rest.                                                                   *)
RequestsSettle ==
    /\ RunsSettle
    /\ \A r \in Tests!TestRuns : []<>(testRow[r] # "queued")
    /\ Screen!CatchesUp
    /\ Admin!WritesSettle
    /\ []<>(part = "help" => Help!Quiet)
    /\ []<>(part = "review" => Review!Quiet)
    /\ []<>(part = "log" => Log!Quiet)
=============================================================================
