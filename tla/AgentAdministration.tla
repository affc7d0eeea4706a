------------------------- MODULE AgentAdministration -------------------------
(***************************************************************************)
(* The registry of agents and prompts: the screen on which administrators  *)
(* edit it (webapp .../admin/agent-admin-screen.component.ts), the         *)
(* transactions of agent-admin.service.js, what a start of the backend     *)
(* writes into it (support-bootstrap.service.js) and what the agent        *)
(* gateway runs from it (agents/registry.py).                              *)
(*                                                                         *)
(* A key has many prompt versions.  The screen shows the active one of the *)
(* agent's own key that was written last; the gateway also looks at those  *)
(* of the key with "-agent" behind it.  A transaction sees committed rows  *)
(* only, statement by statement, and waits for rows another one has        *)
(* changed; the statements of a start are no transaction.                  *)
(***************************************************************************)
EXTENDS Naturals, FiniteSets

CONSTANTS
    Admins,
    MaxKey,    \* bound: agent keys; 1 is an agent of the scaffolding
    MaxVersion,\* bound: versions of a prompt
    LegacyKeys,\* those that are the key of agent 1 with "-agent" behind it
    MaxWrites, \* bound: saves and creations
    MaxEvents  \* bound: selections, reloads, failed writes and starts of the
               \* backend

VARIABLES
    agent,   \* agent[k]: "none", "active" or "inactive"
    prompts, \* the rows: [key, version, text, active, updated]
    clock,   \* the time at which a prompt was last written
    last,    \* last[k]: the text last written for k, 0 if none
    boot,    \* the start: [at, version it brings, how many there were]
    tx,      \* tx[a]: the request of a that writes
    screen,  \* screen[a]: [agents, selected]
    detail,  \* detail[a]: the detail asked for: [key, at, got]
    writes,  \* how many writes were asked for; numbers their texts
    events   \* how many of those events there were

vars == <<agent, prompts, clock, last, boot, tx, screen, detail, writes, events>>

Keys == 1 .. MaxKey
Versions == 1 .. MaxVersion

NoTx == [at |-> "none", key |-> 0, version |-> 1, text |-> 0, active |-> TRUE, rows |-> {}]
NoDetail == [key |-> 0, at |-> "none", got |-> [version |-> 1, text |-> 0]]
Unknown == [version |-> 1, text |-> 0]  \* the screen does not list it
Bare == [version |-> 0, text |-> 0]     \* an agent without an active prompt

-----------------------------------------------------------------------------
(* The registry.                                                           *)

Registered == {k \in Keys : agent[k] # "none"}

Id(p) == <<p.key, p.version>>

Active(k) == {p \in prompts : p.key = k /\ p.active}

Newest(rows) == CHOOSE p \in rows : \A q \in rows : q.updated <= p.updated

(* The prompt the control plane finds for an agent, by its own key.        *)
Shown(k) == Newest(Active(k))

(* build_prompt_key_prefixes(): a key with "-agent" behind it is taken for *)
(* an older name of the same agent.                                        *)
Prefixes(k) == {k} \cup (IF k = 1 THEN LegacyKeys ELSE {})

Matching(k) == UNION {Active(j) : j \in Prefixes(k)}

(* The prompt the gateway runs, or none: then its default text.            *)
GetPromptConfigForAgent(k) == Newest(Matching(k))

(* The fields of the form that are taken out of a prompt: its version, and *)
(* the text that stands for the sections and settings found in it.         *)
ExtractFields(p) == [version |-> p.version, text |-> p.text]

(* mapAdminAgent() and toEditableRecord(): what the screen has of an agent.*)
Editable(k) ==
    IF k \notin Registered THEN Unknown
    ELSE IF Active(k) = {} THEN Bare
    ELSE ExtractFields(Shown(k))

(* loadAgentAdminSnapshot().                                               *)
Snapshot == [k \in Keys |-> Editable(k)]

(* The text of the prompt the scaffolding brings in its version v.         *)
Brought(v) == MaxWrites + v

(* The scaffolding has been set up.                                        *)
Init ==
    /\ agent = [k \in Keys |-> IF k = 1 THEN "active" ELSE "none"]
    /\ prompts = {[key |-> 1, version |-> 1, text |-> Brought(1), active |-> TRUE, updated |-> 1]}
    /\ clock = 1
    /\ last = [k \in Keys |-> IF k = 1 THEN Brought(1) ELSE 0]
    /\ boot = [at |-> "up", version |-> 1, starts |-> 0]
    /\ tx = [a \in Admins |-> NoTx]
    /\ screen = [a \in Admins |-> [agents |-> Snapshot, selected |-> 1]]
    /\ detail = [a \in Admins |-> NoDetail]
    /\ writes = 0 /\ events = 0

Written(rows, key, version, text) ==
    {p \in rows : Id(p) # <<key, version>>}
        \cup {[key |-> key, version |-> version, text |-> text, active |-> TRUE, updated |-> clock + 1]}

Off(rows, ids) == {IF Id(p) \in ids THEN [p EXCEPT !.active = FALSE] ELSE p : p \in rows}

Event == events < MaxEvents /\ events' = events + 1

-----------------------------------------------------------------------------
(* ensureSupportScaffolding(), at every start of the backend; it serves    *)
(* requests meanwhile.                                                     *)

Boot(place) == boot' = [boot EXCEPT !.at = place]

(* ensureAgentDefinition(): the agent is active again.  The prompt is that *)
(* of the version that is started, a newer or an older one.                *)
StartBackend(v) ==
    /\ boot.at = "up"
    /\ Event
    /\ \A a \in Admins : ~ (tx[a].at = "hold" /\ tx[a].key = 1)
    /\ boot' = [at |-> "find", version |-> v, starts |-> boot.starts + 1]
    /\ agent' = [agent EXCEPT ![1] = "active"]
    /\ UNCHANGED <<prompts, clock, last, tx, screen, detail, writes>>

Brings(p) == Id(p) = <<1, boot.version>>

(* ensurePromptConfig() has nothing to do if its version is there.  A      *)
(* query that fails is taken for one that found nothing.                   *)
FindPrompt ==
    /\ boot.at = "find"
    /\ \/ (\E p \in prompts : Brings(p)) /\ Boot("up")
       \/ Boot("absent")
    /\ UNCHANGED <<agent, prompts, clock, last, tx, screen, detail, writes, events>>

(* updateMany(), which waits for rows that a transaction has put out of    *)
(* force.                                                                  *)
PutOff ==
    /\ boot.at = "absent"
    /\ \A a \in Admins : ~ (tx[a].at = "hold" /\ tx[a].key = 1 /\ tx[a].rows # {})
    /\ Boot("put off")
    /\ prompts' = Off(prompts, {Id(p) : p \in Active(1)})
    /\ UNCHANGED <<agent, clock, last, tx, screen, detail, writes, events>>

(* create(), which the database refuses if there is a row of that version. *)
EnsurePromptConfig ==
    /\ boot.at = "put off"
    /\ Boot("up")
    /\ IF \E p \in prompts : Brings(p)
       THEN UNCHANGED <<prompts, clock, last>>
       ELSE /\ prompts' = Written(prompts, 1, boot.version, Brought(boot.version))
            /\ clock' = clock + 1
            /\ last' = [last EXCEPT ![1] = Brought(boot.version)]
    /\ UNCHANGED <<agent, tx, screen, detail, writes, events>>

(* The process dies or a statement fails: the rest is left undone.         *)
StartFails ==
    /\ boot.at # "up"
    /\ Boot("up")
    /\ UNCHANGED <<agent, prompts, clock, last, tx, screen, detail, writes, events>>

-----------------------------------------------------------------------------
(* The screen.                                                             *)

(* loadAgents(), at the beginning and on "Retry": applySnapshot() asks for *)
(* the detail of the selected agent.                                       *)
LoadAgents(a) ==
    /\ detail[a] = NoDetail
    /\ Event
    /\ screen[a].agents # Snapshot
    /\ screen' = [screen EXCEPT ![a].agents = Snapshot]
    /\ detail' = [detail EXCEPT ![a] = [NoDetail EXCEPT !.key = screen[a].selected, !.at = "asked"]]
    /\ UNCHANGED <<agent, prompts, clock, last, boot, tx, writes>>

(* selectAgent(): details are asked for one at a time here.                *)
SelectAgent(a, k) ==
    /\ detail[a] = NoDetail
    /\ Event
    /\ screen[a].agents[k] # Unknown
    /\ screen' = [screen EXCEPT ![a].selected = k]
    /\ detail' = [detail EXCEPT ![a] = [NoDetail EXCEPT !.key = k, !.at = "asked"]]
    /\ UNCHANGED <<agent, prompts, clock, last, boot, tx, writes>>

ReadDetail(a) ==
    /\ detail[a].at = "asked"
    /\ detail' = [detail EXCEPT ![a].at = "read", ![a].got = Editable(detail[a].key)]
    /\ UNCHANGED <<agent, prompts, clock, last, boot, tx, screen, writes, events>>

(* hydrateSelectedAgent(): only the agent that is still selected.          *)
HydrateSelectedAgent(a) ==
    /\ detail[a].at = "read"
    /\ detail' = [detail EXCEPT ![a] = NoDetail]
    /\ screen' = IF screen[a].selected = detail[a].key
                 THEN [screen EXCEPT ![a].agents[detail[a].key] = detail[a].got]
                 ELSE screen
    /\ UNCHANGED <<agent, prompts, clock, last, boot, tx, writes, events>>

Ask(a, request) ==
    /\ tx[a] = NoTx
    /\ writes < MaxWrites
    /\ writes' = writes + 1
    /\ tx' = [tx EXCEPT ![a] = request]
    /\ UNCHANGED <<agent, prompts, clock, last, boot, detail, events>>

(* The template and settings composed from the fields of the form are told *)
(* apart by the write they belong to.                                      *)
ComposedText == writes + 1

(* buildUpdatePayload(): every field of the record, as loaded or as edited,*)
(* and a prompt unless its version is empty (0).                           *)
BuildUpdatePayload(key, version, active) ==
    [NoTx EXCEPT !.at = "update", !.key = key, !.version = version,
                 !.text = ComposedText, !.active = active]

SaveAgent(a, version, active) ==
    LET k == screen[a].selected
    IN  /\ screen[a].agents[k] # Unknown
        /\ Ask(a, BuildUpdatePayload(k, version, active))
        /\ UNCHANGED screen

(* The key asked for is that of agent 1 or one with "-agent" behind it:    *)
(* "help_agent" is made "help-agent".  active tells "Register" from "Save   *)
(* draft".                                                                 *)
BuildCreatePayload(key, active) ==
    [NoTx EXCEPT !.at = "create", !.key = key, !.text = ComposedText, !.active = active]

CreateAgent(a, key, active) ==
    /\ Ask(a, BuildCreatePayload(key, active))
    /\ UNCHANGED screen

-----------------------------------------------------------------------------
(* The transactions.                                                       *)

(* Faulty: an update that brings a prompt does not touch the agent's row.  *)
NoRowLock(a) == TRUE

(* An update begins with the row of the agent, for the payload names all of *)
(* its fields, and holds it to the end.                                    *)
AgentRowIsFree(a) ==
    \A b \in Admins \ {a} : ~ (tx[b].at = "hold" /\ tx[b].key = tx[a].key)

(* Then it sees which versions are active ...                              *)
FindActive(a) ==
    /\ tx[a].at = "update"
    /\ AgentRowIsFree(a)
    /\ tx' = [tx EXCEPT ![a].at = "hold", ![a].rows = {Id(p) : p \in Active(tx[a].key)}]
    /\ UNCHANGED <<agent, prompts, clock, last, boot, screen, detail, writes, events>>

Saved(a, key, place) ==
    /\ agent' = [agent EXCEPT ![key] = IF tx[a].active THEN "active" ELSE "inactive"]
    /\ tx' = [tx EXCEPT ![a].at = place, ![a].rows = {}]

(* ... puts them out of force, writes the version it was given, if any,    *)
(* over the row that has it or into a new one, and commits.                *)
CommitUpdate(a) ==
    LET t == tx[a]
    IN  /\ t.at = "hold"
        /\ IF t.version = 0
           THEN UNCHANGED <<prompts, clock, last>>
           ELSE /\ prompts' = Written(Off(prompts, t.rows), t.key, t.version, t.text)
                /\ clock' = clock + 1
                /\ last' = [last EXCEPT ![t.key] = t.text]
        /\ Saved(a, t.key, "saved")
        /\ UNCHANGED <<boot, screen, detail, writes, events>>

(* resolvePromptKey(): the prompt goes to the agent's own key, whatever    *)
(* key the payload names.                                                  *)
ResolvePromptKey(requested, key) == IF requested = key THEN requested ELSE key

(* The keys made of the one asked for: itself, then with 2, 3, ... behind. *)
Candidates(key) == IF key \in LegacyKeys THEN {key} ELSE Keys \ LegacyKeys

Free(a) == Candidates(tx[a].key) \ Registered

(* generateAgentKey() finds the first free key ...                         *)
GenerateAgentKey(a) ==
    LET free == Free(a)
    IN  /\ tx[a].at = "create"
        /\ free # {}
        /\ tx' = [tx EXCEPT ![a].at = "keyed",
                            ![a].key = CHOOSE k \in free : \A j \in free : k <= j]
        /\ UNCHANGED <<agent, prompts, clock, last, boot, screen, detail, writes, events>>

(* ... which is taken unless another creation was faster.                  *)
CommitCreate(a) ==
    LET t == tx[a]
        asked == IF t.key \in LegacyKeys THEN t.key ELSE 1
        key == ResolvePromptKey(asked, t.key)
    IN  /\ t.at = "keyed"
        /\ agent[t.key] = "none"
        /\ prompts' = Written(Off(prompts, {Id(p) : p \in Active(key)}), key, 1, t.text)
        /\ clock' = clock + 1
        /\ last' = [last EXCEPT ![t.key] = t.text]
        /\ Saved(a, t.key, "created")
        /\ UNCHANGED <<boot, screen, detail, writes, events>>

(* A transaction fails: the database refuses a row (another transaction    *)
(* was faster), no key is left, a mishap, or its answer is lost.  The       *)
(* screen shows the error.                                                 *)
Refused(a) ==
    \/ tx[a].at = "create" /\ Free(a) = {}
    \/ tx[a].at = "keyed" /\ agent[tx[a].key] # "none"

Rollback(a) ==
    /\ tx' = [tx EXCEPT ![a] = NoTx]
    /\ UNCHANGED <<agent, prompts, clock, last, boot, screen, detail, writes>>

RefuseWrite(a) == Refused(a) /\ Rollback(a) /\ UNCHANGED events

WriteFails(a) ==
    /\ tx[a] # NoTx
    /\ Event
    /\ Rollback(a)

(* The answer is what the registry says by then; its agent is selected,    *)
(* whichever was.                                                           *)
Answer(a) ==
    LET k == tx[a].key
    IN  /\ tx[a].at \in {"saved", "created"}
        /\ tx' = [tx EXCEPT ![a] = NoTx]
        /\ screen' = [screen EXCEPT ![a].agents[k] = Editable(k), ![a].selected = k]
        /\ UNCHANGED <<agent, prompts, clock, last, boot, detail, writes, events>>

-----------------------------------------------------------------------------
Write(a) ==
    \/ FindActive(a) \/ CommitUpdate(a)
    \/ GenerateAgentKey(a) \/ CommitCreate(a) \/ RefuseWrite(a) \/ Answer(a)

Next ==
    \/ \E v \in Versions : StartBackend(v)
    \/ FindPrompt \/ PutOff \/ EnsurePromptConfig \/ StartFails
    \/ \E a \in Admins :
          \/ LoadAgents(a) \/ ReadDetail(a) \/ HydrateSelectedAgent(a)
          \/ \E k \in Keys : SelectAgent(a, k)
          \/ \E version \in Versions \cup {0}, active \in BOOLEAN : SaveAgent(a, version, active)
          \/ \E key \in {1} \cup LegacyKeys, active \in BOOLEAN : CreateAgent(a, key, active)
          \/ Write(a) \/ WriteFails(a)

(* A transaction goes on as long as it can.                                *)
Fairness == \A a \in Admins : WF_vars(Write(a))

Spec == Init /\ [][Next]_vars /\ Fairness

-----------------------------------------------------------------------------
TypeOK ==
    /\ agent \in [Keys -> {"none", "active", "inactive"}]
    /\ \A p \in prompts : p.key \in Keys /\ p.version \in Versions /\ p.active \in BOOLEAN
    /\ \A p, q \in prompts : Id(p) = Id(q) => p = q
    /\ \A a \in Admins : screen[a].selected \in Keys

(* Whatever saves, creations and starts overlap, of the versions in force  *)
(* the one that was last written for an agent wins, on the screen and, if  *)
(* no other agent bears its name with "-agent" behind it, in the gateway.  *)
(* It is the only one, except that a start may leave an agent of the       *)
(* scaffolding with none, or with one more that was saved meanwhile.       *)
RunsTheLastSave ==
    \A k \in Registered :
        /\ Active(k) # {} => Shown(k).text = last[k]
        /\ k # 1 \/ boot.starts = 0 => Cardinality(Active(k)) = 1
        /\ Registered \cap Prefixes(k) = {k} /\ Matching(k) # {} =>
               GetPromptConfigForAgent(k).text = last[k]

(* "the LLM-facing system prompt should reflect the rich prompt            *)
(* configuration shown in Agent Admin"                                     *)
(* (docs/backend_agentic_layer_overview.md): what the gateway runs for an  *)
(* active agent is what the control plane shows for it.                    *)
ShownIsRun ==
    \A k \in Registered :
        agent[k] = "active" /\ Matching(k) # {} => GetPromptConfigForAgent(k) \in Active(k)

(* A save that waits for another one's rows gets its turn.                 *)
WritesSettle == \A a \in Admins : []<>(tx[a].at = "none")
=============================================================================
