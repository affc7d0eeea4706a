------------------------- MODULE AgentTestingScreen -------------------------
(***************************************************************************)
(* The screen on which administrators start, stop and follow test runs of  *)
(* an agent (webapp .../admin/agent-testing-screen.component.ts and        *)
(* .../agent-testing.service.ts).  The runs themselves live in the agent   *)
(* gateway (module AgentTestRuns); here they are a status that moves on    *)
(* its own.  The screen keeps a list, the key of the selected run and the  *)
(* detail it shows; requests overlap: two details asked for one after the  *)
(* other, the list of an agent that is no longer selected, a refresh every *)
(* 2.5 seconds that was answered before a run ended and arrives after it.  *)
(***************************************************************************)
EXTENDS Naturals, FiniteSets

CONSTANTS
    MaxDetails,  \* bound: details on their way at once
    MaxActions,  \* bound: actions on runs
    MaxSelects,  \* bound: selections of an agent or a run
    None         \* no run, no agent

VARIABLES
    run,      \* run[r]: the status of test run r in the gateway
    agent,    \* the agent selected on the screen
    key,      \* selectedRunKey
    detail,   \* selectedRun: [id, status]
    list,     \* the runs listed
    timer,    \* whether the refresh timer is on
    details,  \* details on their way: [id, by, got]
    listing,  \* lists on their way: the agents asked for
    action,   \* the action under way: [kind, id, at]
    spent     \* [actions, selects]

vars == <<run, agent, key, detail, list, timer, details, listing, action, spent>>

(* Run 1 exists when the screen opens, run 2 is the draft it may create;   *)
(* both are runs of agent "a", agent "b" has none.                         *)
TestRuns == {1, 2}
Agents == {"a", "b"}
Live == {"queued", "running", "stopping"}
Status == Live \cup {"absent", "draft", "stopped", "completed", "failed"}

RunsOf(g) == {r \in TestRuns : g = "a" /\ run[r] # "absent"}

NoDetail == [id |-> None, status |-> "absent"]
NoAction == [kind |-> "none", id |-> None, at |-> "none"]

Init ==
    /\ run \in {[r \in TestRuns |-> IF r = 1 THEN s ELSE "absent"] : s \in {"draft", "running"}}
    /\ agent = "a"
    /\ key = None
    /\ detail = NoDetail
    /\ list = {}
    /\ timer = FALSE
    /\ details = {}
    /\ listing = {"a"}
    /\ action = NoAction
    /\ spent = [actions |-> 0, selects |-> 0]

(* syncRunRefreshTimer(): on exactly while the detail shows a live run.    *)
Sync(shown) == timer' = (shown.status \in Live)

Ask(r, by) == details \cup {[id |-> r, by |-> by, got |-> "asked"]}

-----------------------------------------------------------------------------
(* The administrator.                                                      *)

SelectAgent(g) ==
    /\ g # agent
    /\ spent.selects < MaxSelects
    /\ spent' = [spent EXCEPT !.selects = @ + 1]
    /\ agent' = g
    /\ key' = None
    /\ detail' = NoDetail
    /\ listing' = listing \cup {g}
    /\ UNCHANGED <<run, list, timer, details, action>>

SelectRun(r) ==
    /\ r \in list
    /\ Cardinality(details) < MaxDetails
    /\ spent.selects < MaxSelects
    /\ spent' = [spent EXCEPT !.selects = @ + 1]
    /\ key' = r
    /\ details' = Ask(r, "select")
    /\ UNCHANGED <<run, agent, detail, list, timer, listing, action>>

(* createDraftRun(): the summary that comes back stands for the detail     *)
(* until the detail has been read; the modal closes, the timer waits.      *)
CreateDraftRun ==
    /\ run[2] = "absent"
    /\ agent = "a"
    /\ Cardinality(details) < MaxDetails
    /\ spent.actions < MaxActions
    /\ spent' = [spent EXCEPT !.actions = @ + 1]
    /\ run' = [run EXCEPT ![2] = "draft"]
    /\ list' = list \cup {2}
    /\ key' = 2
    /\ detail' = [id |-> 2, status |-> "draft"]
    /\ details' = Ask(2, "refresh")
    /\ UNCHANGED <<agent, timer, listing, action>>

(* What the buttons allow, by the status shown.                            *)
Allowed(kind) ==
    CASE kind = "execute" -> detail.status = "draft"
      [] kind = "stop" -> detail.status \in Live
      [] kind = "resume" -> detail.status \in {"stopped", "failed"}
      [] OTHER -> detail.status \notin Live

(* One action at a time: every button is disabled while one is under way.  *)
StartAction(kind) ==
    /\ detail.id # None
    /\ action = NoAction
    /\ Allowed(kind)
    /\ spent.actions < MaxActions
    /\ spent' = [spent EXCEPT !.actions = @ + 1]
    /\ action' = [kind |-> kind, id |-> detail.id, at |-> "asked"]
    /\ UNCHANGED <<run, agent, key, detail, list, timer, details, listing>>

-----------------------------------------------------------------------------
(* The gateway, as far as the screen sees it.                              *)

Accepts(kind, status) ==
    CASE kind = "execute" -> status \in {"draft", "failed", "queued"}
      [] kind = "stop" -> status \in Live
      [] kind = "resume" -> status \in {"stopped", "failed"}
      [] OTHER -> status \notin {"running", "absent"}

After(kind, status) ==
    CASE kind = "stop" -> IF status = "queued" THEN "stopped" ELSE "stopping"
      [] kind = "delete" -> "absent"
      [] OTHER -> "queued"

(* The worker takes, ends and stops runs.                                  *)
WorkerStep(r) ==
    /\ \/ run[r] = "queued" /\ run' = [run EXCEPT ![r] = "running"]
       \/ run[r] = "running" /\ \E s \in {"completed", "failed"} : run' = [run EXCEPT ![r] = s]
       \/ run[r] = "stopping" /\ run' = [run EXCEPT ![r] = "stopped"]
    /\ UNCHANGED <<agent, key, detail, list, timer, details, listing, action, spent>>

(* The gateway refuses the action, by the status the run has by now; the   *)
(* screen keeps what it shows and releases the buttons.                    *)
RefuseAction ==
    /\ action.at = "asked"
    /\ ~ Accepts(action.kind, run[action.id])
    /\ action' = NoAction
    /\ IF action.kind = "delete" THEN timer' = timer ELSE Sync(detail)
    /\ UNCHANGED <<run, agent, key, detail, list, details, listing, spent>>

(* The gateway performs the action; the answer replaces what is shown, of  *)
(* whatever run that was by then, and after a deletion nothing is shown.   *)
PerformAction ==
    LET r == action.id
        deleted == action.kind = "delete"
    IN  /\ action.at = "asked"
        /\ Accepts(action.kind, run[r])
        /\ run' = [run EXCEPT ![r] = After(action.kind, @)]
        /\ list' = IF deleted THEN list \ {r} ELSE list
        /\ key' = IF deleted THEN None ELSE r
        /\ detail' = IF deleted THEN NoDetail ELSE [id |-> r, status |-> run'[r]]
        /\ action' = IF deleted THEN NoAction ELSE [action EXCEPT !.at = "list"]
        /\ UNCHANGED <<agent, timer, details, listing, spent>>

(* The end of loadRuns(): with the wanted run in the list it stays         *)
(* selected (and its detail is asked for when another one is shown),       *)
(* without it nothing is.                                                  *)
ListLoaded(g, wanted) ==
    /\ list' = RunsOf(g)
    /\ IF wanted \in RunsOf(g)
       THEN /\ key' = wanted
            /\ detail' = detail
            /\ details' = IF detail.id = wanted THEN details ELSE Ask(wanted, "refresh")
       ELSE /\ key' = None
            /\ detail' = NoDetail
            /\ details' = details
    /\ Sync(detail')

LoadRuns(g) ==
    /\ g \in listing
    /\ listing' = listing \ {g}
    /\ ListLoaded(g, key)
    /\ UNCHANGED <<run, agent, action, spent>>

(* After an action the runs are listed again ...                           *)
ListAfterAction ==
    /\ action.at = "list"
    /\ ListLoaded(agent, action.id)
    /\ action' = [action EXCEPT !.at = "detail"]
    /\ UNCHANGED <<run, agent, listing, spent>>

(* ... and the detail is read again; only then are the buttons released.   *)
DetailAfterAction ==
    LET r == action.id
        fresh == run[r] # "absent" /\ key = r
    IN  /\ action.at = "detail"
        /\ action' = NoAction
        /\ detail' = IF fresh THEN [id |-> r, status |-> run[r]] ELSE detail
        /\ Sync(detail')
        /\ UNCHANGED <<run, agent, key, list, details, listing, spent>>

-----------------------------------------------------------------------------
(* Details on their way.                                                   *)

(* A tick of the refresh timer; the next one is 2.5 seconds later, so that *)
(* few are ever under way.                                                 *)
Tick ==
    /\ timer
    /\ key # None
    /\ Cardinality(details) < MaxDetails
    /\ [id |-> key, by |-> "refresh", got |-> "asked"] \notin details
    /\ details' = Ask(key, "refresh")
    /\ UNCHANGED <<run, agent, key, detail, list, timer, listing, action, spent>>

ReadRun(d) ==
    /\ d.got = "asked"
    /\ details' = (details \ {d}) \cup {[d EXCEPT !.got = run[d.id]]}
    /\ UNCHANGED <<run, agent, key, detail, list, timer, listing, action, spent>>

(* selectRun() shows whatever comes back, hydrateSelectedRunDetail() only  *)
(* the detail of the run that is still selected.                           *)
ApplyDetail(d) ==
    LET shown == d.got # "absent" /\ (d.by = "select" \/ key = d.id)
    IN  /\ d.got # "asked"
        /\ details' = details \ {d}
        /\ detail' = IF shown THEN [id |-> d.id, status |-> d.got] ELSE detail
        /\ IF d.by = "select" /\ d.got = "absent" THEN timer' = timer ELSE Sync(detail')
        /\ UNCHANGED <<run, agent, key, list, listing, action, spent>>

-----------------------------------------------------------------------------
ActionStep == RefuseAction \/ PerformAction \/ ListAfterAction \/ DetailAfterAction
ListStep == \E g \in Agents : LoadRuns(g)
ReadStep == \E d \in details : ReadRun(d)
ApplyStep == \E d \in details : ApplyDetail(d)

Next ==
    \/ \E g \in Agents : SelectAgent(g)
    \/ \E r \in TestRuns : SelectRun(r) \/ WorkerStep(r)
    \/ CreateDraftRun
    \/ \E kind \in {"execute", "stop", "resume", "delete"} : StartAction(kind)
    \/ Tick
    \/ ActionStep \/ ListStep \/ ReadStep \/ ApplyStep

(* Requests are answered, the timer ticks and the gateway ends its runs.   *)
Fairness ==
    /\ WF_vars(ActionStep) /\ WF_vars(ListStep)
    /\ WF_vars(ReadStep) /\ WF_vars(ApplyStep)
    /\ WF_vars(Tick)
    /\ \A r \in TestRuns : WF_vars(WorkerStep(r))

Spec == Init /\ [][Next]_vars /\ Fairness

-----------------------------------------------------------------------------
TypeOK ==
    /\ run \in [TestRuns -> Status]
    /\ agent \in Agents /\ key \in TestRuns \cup {None}
    /\ detail \in [id : TestRuns \cup {None}, status : Status]
    /\ list \subseteq TestRuns
    /\ timer \in BOOLEAN

(* The screen catches up with a run that has ended: a live status does not *)
(* stay on the screen as long as the run it belongs to is the one that is  *)
(* selected, whatever order refreshes and selections are answered in.      *)
CatchesUp == []<>(detail.status \notin Live \/ key # detail.id)
=============================================================================
