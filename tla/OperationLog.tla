---------------------------- MODULE OperationLog ----------------------------
(***************************************************************************)
(* The operational log: every response of the API leaves an entry          *)
(* (backend .../request-log-middleware.js, .../log-entry.service.js), the  *)
(* administrators read the entries on a screen that refreshes itself       *)
(* (webapp .../admin/admin-logs-screen.component.ts) and the support       *)
(* service looks for evidence in them (.../support-log-analysis.service.js)*)
(* An entry is written behind the response, nobody waits for it; its table *)
(* may not exist yet, and then the first writers create it.                *)
(***************************************************************************)
EXTENDS Naturals, FiniteSets

CONSTANTS
    MaxRequests,  \* bound: requests to the server
    MaxRefreshes  \* bound: refreshes of the screen

VARIABLES
    table,     \* whether log_entries exists
    request,   \* request[i]: [kind, status, at]
    writes,    \* the entries being written, with the stage of the write
    entries,   \* the rows of log_entries
    reads,     \* the refreshes under way: [n, levels]
    screen,    \* what the screen holds
    evidence   \* the summary of the last analysis

vars == <<table, request, writes, entries, reads, screen, evidence>>

Responses == 1 .. MaxRequests
SupportedLevels == {"info", "error"}

(* The log page reads itself through the API; that request is not logged   *)
(* (and neither is what is served outside /api).                           *)
Kinds == {"api", "logs"}
ShouldSuppressRequestLog(kind) == kind # "api"

BuildLevel(status) == IF status >= 400 THEN "error" ELSE "info"

Init ==
    /\ table = FALSE
    /\ request = [i \in Responses |-> [kind |-> "api", status |-> 200, at |-> "none"]]
    /\ writes = {}
    /\ entries = {}
    /\ reads = {}
    /\ screen = [open |-> FALSE, loading |-> FALSE, levels |-> SupportedLevels,
                 refreshes |-> 0, logs |-> {}, expanded |-> {},
                 timer |-> FALSE]
    /\ evidence = [matches |-> 0, repeated |-> FALSE]

logVars == <<table, writes, entries>>
screenVars == <<reads, screen>>

-----------------------------------------------------------------------------
(* The server.                                                             *)

Arrive(i, kind) ==
    /\ request[i].at = "none"
    /\ \A j \in 1 .. i - 1 : request[j].at # "none"
    /\ request' = [request EXCEPT ![i].at = "open", ![i].kind = kind]
    /\ UNCHANGED <<logVars, screenVars, evidence>>

(* Faulty: the closure's flag is not looked at.                            *)
PersistAtEachHook(i, status, body, s) ==
    IF ShouldSuppressRequestLog(request[i].kind)
    THEN s
    ELSE [logged |-> TRUE,
          writes |-> s.writes \cup
            {[entry |-> [request |-> i, level |-> BuildLevel(status), body |-> body],
              at |-> "create"]}]

(* persistLogEntry(): s is the closure's flag and the writes it started.   *)
PersistLogEntry(i, status, body, s) ==
    IF s.logged \/ ShouldSuppressRequestLog(request[i].kind)
    THEN s
    ELSE [logged |-> TRUE,
          writes |-> s.writes \cup
            {[entry |-> [request |-> i, level |-> BuildLevel(status), body |-> body],
              at |-> "create"]}]

(* res.json() and res.send() are both patched, and Express answers a json  *)
(* by a send of the text: a json response passes the hook twice.           *)
Respond(i, status, json) ==
    LET start == [logged |-> FALSE, writes |-> writes]
        first == IF json THEN PersistLogEntry(i, status, "object", start) ELSE start
        second == PersistLogEntry(i, status, "text", first)
    IN  /\ request[i].at = "open"
        /\ request' = [request EXCEPT ![i].at = IF json THEN "json" ELSE "sent",
                                      ![i].status = status]
        /\ writes' = second.writes
        /\ UNCHANGED <<table, entries, screenVars, evidence>>

(* createLogEntry(): the insert, which fails when there is no table ...    *)
CreateLogEntry(w) ==
    /\ w.at = "create"
    /\ IF table
       THEN entries' = entries \cup {w.entry} /\ writes' = writes \ {w}
       ELSE entries' = entries /\ writes' = (writes \ {w}) \cup {[w EXCEPT !.at = "ensure"]}
    /\ UNCHANGED <<table, request, screenVars, evidence>>

(* ... the statements that create it if it does not exist ...              *)
EnsureLogEntriesTable(w) ==
    /\ w.at = "ensure"
    /\ table' = TRUE
    /\ writes' = (writes \ {w}) \cup {[w EXCEPT !.at = "retry"]}
    /\ UNCHANGED <<request, entries, screenVars, evidence>>

(* ... and the second and last insert.                                     *)
RetryLogEntry(w) ==
    /\ w.at = "retry"
    /\ entries' = entries \cup {w.entry}
    /\ writes' = writes \ {w}
    /\ UNCHANGED <<table, request, screenVars, evidence>>

(* Any other failure of the database loses the entry and nothing else.     *)
LoseLogEntry(w) ==
    /\ w.at \in {"create", "retry"}
    /\ writes' = writes \ {w}
    /\ UNCHANGED <<table, request, entries, screenVars, evidence>>

WriteStep(w) == CreateLogEntry(w) \/ EnsureLogEntriesTable(w) \/ RetryLogEntry(w)

(* searchLogEntries(); without a table the search finds nothing.           *)
SearchLogEntries(levels) == {e \in entries : e.level \in levels}

(* Entries with the same scope, event and normalised message fall into one *)
(* group; what tells them apart here is their level.                       *)
Groups(logs) == {{e \in logs : e.level = level} : level \in {e.level : e \in logs}}

BuildIncidentSummary(logs) ==
    [matches |-> Cardinality(logs),
     repeated |-> \E group \in Groups(logs) : Cardinality(group) > 1]

(* analyze(), with the severity the words of the report ask for, if any.   *)
Analyze(levels) ==
    /\ evidence' = BuildIncidentSummary(SearchLogEntries(levels))
    /\ UNCHANGED <<request, logVars, screenVars>>

-----------------------------------------------------------------------------
(* The screen.                                                             *)

(* refresh(): loading until the first answer, whatever else is under way.  *)
Refreshing(s) == [s EXCEPT !.loading = TRUE, !.refreshes = @ + 1]

StartRead(levels) ==
    /\ screen.refreshes < MaxRefreshes
    /\ reads' = reads \cup {[n |-> screen.refreshes + 1, levels |-> levels]}

NgOnInit ==
    /\ ~ screen.open
    /\ screen.refreshes = 0
    /\ screen' = Refreshing([screen EXCEPT !.open = TRUE])
    /\ StartRead(screen.levels)
    /\ UNCHANGED <<request, logVars, evidence>>

(* toggleLevel(): the last level cannot be switched off.                   *)
ToggleLevel(level) ==
    LET levels == IF level \in screen.levels THEN screen.levels \ {level}
                                             ELSE screen.levels \cup {level}
    IN  /\ screen.open
        /\ levels # {}
        /\ screen' = Refreshing([screen EXCEPT !.levels = levels])
        /\ StartRead(levels)
        /\ UNCHANGED <<request, logVars, evidence>>

SetAutoRefresh(enabled) ==
    /\ screen.open
    /\ screen.timer # enabled
    /\ screen' = [screen EXCEPT !.timer = enabled]
    /\ UNCHANGED <<request, logVars, reads, evidence>>

AutoRefresh ==
    /\ screen.timer
    /\ screen' = Refreshing(screen)
    /\ StartRead(screen.levels)
    /\ UNCHANGED <<request, logVars, evidence>>

(* The answers are applied in the order in which they come.                *)
ApplySnapshot(read) ==
    LET logs == SearchLogEntries(read.levels)
    IN  /\ reads' = reads \ {read}
        /\ screen' = [screen EXCEPT !.loading = FALSE, !.logs = logs,
                                    !.expanded = @ \cap logs]
        /\ UNCHANGED <<request, logVars, evidence>>

RefreshFails(read) ==
    /\ reads' = reads \ {read}
    /\ screen' = [screen EXCEPT !.loading = FALSE, !.logs = {}]
    /\ UNCHANGED <<request, logVars, evidence>>

ToggleContext(e) ==
    /\ screen.open
    /\ screen' = [screen EXCEPT !.expanded = IF e \in @ THEN @ \ {e} ELSE @ \cup {e}]
    /\ UNCHANGED <<request, logVars, reads, evidence>>

NgOnDestroy ==
    /\ screen.open
    /\ screen' = [screen EXCEPT !.open = FALSE, !.timer = FALSE]
    /\ UNCHANGED <<request, logVars, reads, evidence>>

-----------------------------------------------------------------------------
Next ==
    \/ \E i \in Responses :
          \/ \E kind \in Kinds : Arrive(i, kind)
          \/ \E status \in {200, 500}, json \in BOOLEAN : Respond(i, status, json)
    \/ \E w \in writes : WriteStep(w) \/ LoseLogEntry(w)
    \/ \E levels \in {SupportedLevels, {"error"}} : Analyze(levels)
    \/ NgOnInit \/ AutoRefresh \/ NgOnDestroy
    \/ \E level \in SupportedLevels : ToggleLevel(level)
    \/ \E enabled \in BOOLEAN : SetAutoRefresh(enabled)
    \/ \E read \in reads : ApplySnapshot(read) \/ RefreshFails(read)
    \/ \E e \in screen.logs : ToggleContext(e)

Progress ==
    \/ \E w \in writes : WriteStep(w)
    \/ \E read \in reads : ApplySnapshot(read)

Spec == Init /\ [][Next]_vars /\ WF_vars(Progress)

-----------------------------------------------------------------------------
Entry == [request : Responses, level : SupportedLevels, body : {"object", "text"}]

TypeOK ==
    /\ table \in BOOLEAN
    /\ entries \subseteq Entry
    /\ \A w \in writes : w.entry \in Entry /\ w.at \in {"create", "ensure", "retry"}
    /\ screen.levels \in (SUBSET SupportedLevels) \ {{}}

(* A response is logged at most once although it passes two hooks, the     *)
(* entry of a json response is the one that still has the error text, and  *)
(* reading the log adds nothing to it.                                     *)
OneEntryPerResponse ==
    LET known == entries \cup {w.entry : w \in writes}
    IN  /\ \A e, f \in known : e.request = f.request => e = f
        /\ \A e \in known : /\ request[e.request].kind = "api"
                            /\ request[e.request].at = "json" => e.body = "object"
                            /\ e.level = BuildLevel(request[e.request].status)

(* Every write ends, and the screen stops loading.                         *)
Quiet == writes = {} /\ ~ screen.loading
=============================================================================
