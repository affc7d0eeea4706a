------------------------------ MODULE StrategyChat ------------------------------
(***************************************************************************)
(* The chat of a business idea with its agents                             *)
(* (services/business-ideas.service.js over agent-gateway-client.js): a    *)
(* message of the founder starts a run of the agent gateway, and the run's *)
(* output is written into the sections of the document, the document's     *)
(* completeness, the unlocking of further tools and the thread.            *)
(*                                                                         *)
(* A request waits for the gateway between two transactions, for longer    *)
(* than the two minutes after which its run counts as stalled, so requests *)
(* of one thread overlap: two tabs, or a retry of a run that lives on.     *)
(* Every statement reads what is committed when it starts: the second      *)
(* transaction takes the sections and the messages from two snapshots and  *)
(* writes later.  What stops a stale request is only that two messages of  *)
(* a thread, or two versions of a section, may not have the same number.   *)
(*                                                                         *)
(* The two tools differ in what their second transaction writes.  They     *)
(* share no row that either decides on, so a behaviour is of one tool.     *)
(***************************************************************************)
EXTENDS Naturals, Sequences, FiniteSets, FiniteSetsExt

CONSTANTS
    RequestCount,  \* bound: requests of founders, numbered in the order they are made
    Sections,      \* IDEATION_SECTION_BLUEPRINTS: the sections of the document
    Seeded,        \* the sections a new document has (IDEATION_SECTION_SEEDS)
    Labels,        \* bound: the status labels an output gives to sections
    MaxUpdates,    \* bound: sections an output of the ideation updates
    MaxCrashes     \* bound: how often the server dies

ASSUME ChatAssumption ==
    /\ IsFiniteSet(Sections) /\ Sections # {} /\ Seeded \subseteq Sections
    /\ Labels \subseteq {"strong", "needs refinement", "draft", "too vague"} /\ Labels # {}
    /\ MaxUpdates \in Nat /\ MaxCrashes \in Nat /\ RequestCount \in Nat

VARIABLES
    tool,          \* the tool whose thread this is
    messages,      \* chat_messages of the thread, by message_index
    runs,          \* agent_runs of the thread, in the order of started_at
    stale,         \* the first so many runs started two minutes ago or earlier
    sections,      \* strategy_sections: version, completion, the run that wrote it
    versions,      \* section_versions, each with the agent_run_effects row stored
                   \* beside it: rows [section, version, percent]
    completeness,  \* completeness_percent of the document
    unlocked,      \* feature_unlocks.strategyTools.enabled of the workspace
    request,       \* request[q]: where it is and what it has read
    crashes        \* how often the server died

vars == <<tool, messages, runs, stale, sections, versions, completeness, unlocked,
          request, crashes>>

document == <<sections, versions, completeness, unlocked>>

rows == <<messages, runs, document>>

-----------------------------------------------------------------------------
Requests == 1 .. RequestCount

Tools == {"ideation", "value-proposition"}

\* STRATEGY_TOOLS: what the ideation must reach before the other tools open.
UnlockAt == 80

\* The output of a run that has none: every field is empty.
NoOutput == [completed |-> FALSE, updates |-> <<>>]

NoRequest == [pc |-> "new", retry |-> FALSE, message |-> 0, run |-> 0, last |-> 0,
              output |-> NoOutput, read |-> <<>>]

\* A new idea: an opening message of the agent, empty sections, tools locked.
CreateBusinessIdea ==
    /\ messages = << [from |-> "AGENT", status |-> "SENT"] >>
    /\ sections = [s \in Sections |-> [version |-> IF s \in Seeded \/ tool # "ideation" THEN 1 ELSE 0,
                                      percent |-> 0, status |-> "NOT_STARTED", refinement |-> "EMPTY",
                                      by |-> 0]]
    /\ versions = {} /\ completeness = 0 /\ unlocked = FALSE

Init ==
    /\ tool \in Tools /\ CreateBusinessIdea
    /\ runs = <<>> /\ stale = 0 /\ crashes = 0
    /\ request = [q \in Requests |-> NoRequest]

Goes(q, pc) == request' = [request EXCEPT ![q].pc = pc]

Ends(q) == request' = [request EXCEPT ![q] = [NoRequest EXCEPT !.pc = "done"]]

MessageStatus(i, status) == [messages EXCEPT ![i].status = status]

RunStatus(n, status) == [runs EXCEPT ![n].status = status]

-----------------------------------------------------------------------------
(* Whether the latest message may be sent again.                           *)

RunsOf(i) == {n \in DOMAIN runs : runs[n].message = i}

\* findLatestRunForMessage, 0 when there is none.
LatestRun(i) == IF RunsOf(i) = {} THEN 0 ELSE Max(RunsOf(i))

HasAgentMessageAfter(i) == \E j \in DOMAIN messages : j > i /\ messages[j].from = "AGENT"

\* Faulty: a run that is under way is never given up.
RetryableUnlessRunning ==
    LET i == Len(messages) n == LatestRun(i) IN
    /\ messages[i].from = "USER"
    /\ \/ n = 0
       \/ runs[n].status = "FAILED"

IsRetryableLatestUserMessage ==
    LET i == Len(messages) n == LatestRun(i) IN
    /\ messages[i].from = "USER"
    /\ \/ messages[i].status = "FAILED"
       \/ n = 0
       \/ runs[n].status = "FAILED"
       \/ runs[n].status = "COMPLETED" /\ ~HasAgentMessageAfter(i)
       \/ runs[n].status = "RUNNING" /\ n <= stale

-----------------------------------------------------------------------------
(* A message is sent, or the latest one is sent again.                     *)

\* The first transaction reads the thread.
SendIdeationMessage(q) ==
    /\ tool = "ideation" /\ request[q].pc = "new"
    /\ request' = [request EXCEPT ![q].pc = "starting", ![q].last = Len(messages)]
    /\ UNCHANGED <<tool, rows, stale, crashes>>

SendValuePropositionMessage(q) ==
    /\ tool = "value-proposition" /\ request[q].pc = "new"
    /\ request' = [request EXCEPT ![q].pc = "starting", ![q].last = Len(messages)]
    /\ UNCHANGED <<tool, rows, stale, crashes>>

\* resendLastValuePropositionMessage: a stalled run is left as it is.
ResendLastValuePropositionMessage(q) ==
    /\ tool = "value-proposition" /\ request[q].pc = "new" /\ IsRetryableLatestUserMessage
    /\ request' = [request EXCEPT ![q].pc = "starting", ![q].retry = TRUE,
                                  ![q].message = Len(messages)]
    /\ UNCHANGED <<tool, rows, stale, crashes>>

\* resendLastIdeationMessage: a stalled run is closed before the message is sent again.
ResendLastIdeationMessage(q) ==
    LET n == LatestRun(Len(messages)) stalled == n # 0 /\ runs[n].status = "RUNNING" IN
    /\ tool = "ideation" /\ request[q].pc = "new" /\ IsRetryableLatestUserMessage
    /\ request' = [request EXCEPT ![q].pc = IF stalled /\ n <= stale THEN "closing" ELSE "starting",
                                  ![q].retry = TRUE, ![q].message = Len(messages), ![q].run = n]
    /\ UNCHANGED <<tool, rows, stale, crashes>>

\* The run is written by its id alone, whatever has become of it.
CloseStalledRun(q) ==
    /\ request[q].pc = "closing"
    /\ runs' = RunStatus(request[q].run, "FAILED")
    /\ Goes(q, "starting")
    /\ UNCHANGED <<tool, messages, stale, document, crashes>>

NewRun(i) == Append(runs, [message |-> i, status |-> "RUNNING"])

\* The message is stored after the last one that was read, with a run.  It is refused when
\* another request has stored one there: nothing of this request remains.
StoreNewMessage(q) ==
    LET i == request[q].last + 1 IN
    IF i \in DOMAIN messages
    THEN Ends(q) /\ UNCHANGED <<messages, runs>>
    ELSE /\ messages' = Append(messages, [from |-> "USER", status |-> "PENDING"])
         /\ runs' = NewRun(i)
         /\ request' = [request EXCEPT ![q].pc = "waiting", ![q].message = i, ![q].run = Len(runs) + 1]

StoreRetry(q) ==
    LET i == request[q].message IN
    /\ messages' = MessageStatus(i, "PENDING") /\ runs' = NewRun(i)
    /\ request' = [request EXCEPT ![q].pc = "waiting", ![q].run = Len(runs) + 1]

StartIdeation(q) ==
    /\ tool = "ideation" /\ request[q].pc = "starting"
    /\ IF request[q].retry THEN StoreRetry(q) ELSE StoreNewMessage(q)
    /\ UNCHANGED <<tool, stale, document, crashes>>

StartValueProposition(q) ==
    /\ tool = "value-proposition" /\ request[q].pc = "starting"
    /\ IF request[q].retry THEN StoreRetry(q) ELSE StoreNewMessage(q)
    /\ UNCHANGED <<tool, stale, document, crashes>>

-----------------------------------------------------------------------------
(* The gateway (agent-gateway-client.js): a run is polled until it is      *)
(* terminal, at most 91 times.                                             *)

\* The outputs of a terminal run.  A run that was not completed has none.
Outputs ==
    LET domains == IF tool = "ideation" THEN {d \in SUBSET Sections : Cardinality(d) <= MaxUpdates}
                   ELSE {Sections}
        updates == {[s \in d |-> l] : d \in domains, l \in Labels}
    IN [completed : {TRUE}, updates : updates] \cup {NoOutput}

\* One transaction marks the run and the message it was for.
StoreFailure(q) ==
    /\ runs' = RunStatus(request[q].run, "FAILED")
    /\ messages' = MessageStatus(request[q].message, "FAILED")

\* A call of the client fails, is timed out, or the attempts are used up.
IdeationGatewayFails(q) ==
    /\ tool = "ideation" /\ request[q].pc = "waiting"
    /\ StoreFailure(q) /\ Ends(q)
    /\ UNCHANGED <<tool, stale, document, crashes>>

ValuePropositionGatewayFails(q) ==
    /\ tool = "value-proposition" /\ request[q].pc = "waiting"
    /\ StoreFailure(q) /\ Ends(q)
    /\ UNCHANGED <<tool, stale, document, crashes>>

-----------------------------------------------------------------------------
(* What an output means for the sections.                                  *)

LabelToCompletionPercent(label, hasContent) ==
    CASE label = "strong" -> 86
      [] label = "needs refinement" -> 61
      [] label = "draft" -> 45
      [] label = "too vague" -> IF hasContent THEN 20 ELSE 0
      [] OTHER -> IF hasContent THEN 40 ELSE 0

MapStatusLabelToRefinementState(label, hasContent) ==
    CASE label = "strong" -> "STRONG"
      [] label = "needs refinement" \/ (label = "too vague" /\ hasContent) -> "NEEDS_REFINEMENT"
      [] label = "draft" \/ (label = "none" /\ hasContent) -> "DRAFT"
      [] OTHER -> "EMPTY"

MapCompletionToSectionStatus(percent, hasContent) ==
    IF ~hasContent \/ percent = 0 THEN "NOT_STARTED"
    ELSE IF percent >= 85 THEN "COMPLETE" ELSE "IN_PROGRESS"

\* The canvas is normalised: a field without an entry becomes a text that says so, and
\* a section without a score is at its lowest one.
NormalizeValuePropositionPayload(output) ==
    [s \in Sections |-> IF output.completed THEN output.updates[s] ELSE "too vague"]

\* The completion the scores of the canvas stand for.
ScoreToCompletionPercent(label) ==
    CASE label = "strong" -> 86 [] label = "needs refinement" -> 58 [] OTHER -> 32

\* value_proposition_overview: completeness_percent by the overall score.
OverallCompleteness(output) ==
    CASE ~output.completed -> 0
      [] "strong" \in {output.updates[s] : s \in Sections} -> 85
      [] OTHER -> 30

ExtractSectionUpdates(output) == output.updates

ExtractValuePropositionSectionUpdates(output) == NormalizeValuePropositionPayload(output)

Updates(q) ==
    IF tool = "ideation" THEN ExtractSectionUpdates(request[q].output)
    ELSE ExtractValuePropositionSectionUpdates(request[q].output)

NewPercent(q, s) ==
    IF tool = "ideation" THEN LabelToCompletionPercent(Updates(q)[s], TRUE)
    ELSE ScoreToCompletionPercent(Updates(q)[s])

-----------------------------------------------------------------------------
(* The second transaction: what it reads, and what it writes.              *)

\* The ideation has nothing to say about a run without output ...
IdeationReply(output) == output.completed

\* ... the canvas always has.
BuildValuePropositionReply(output) == TRUE

HasReply(q) ==
    IF tool = "ideation" THEN IdeationReply(request[q].output)
    ELSE BuildValuePropositionReply(request[q].output)

\* One query of the client, but a SELECT per table: first the sections of the document ...
ReadSections(q) == request' = [request EXCEPT ![q].pc = "reading", ![q].read = sections]

\* The run is terminal, and the second transaction begins to read.
IdeationGatewayAnswers(q) ==
    /\ tool = "ideation" /\ request[q].pc = "waiting"
    /\ ReadSections(q)
    /\ UNCHANGED <<tool, rows, stale, crashes>>

ValuePropositionGatewayAnswers(q) ==
    /\ tool = "value-proposition" /\ request[q].pc = "waiting"
    /\ ReadSections(q)
    /\ UNCHANGED <<tool, rows, stale, crashes>>

\* ... and then the messages of its thread.  The output is chosen here, where it begins to matter.
ReadMessages(q) ==
    /\ request[q].pc = "reading"
    /\ \E out \in Outputs :
          request' = [request EXCEPT ![q].pc = "writing", ![q].last = Len(messages),
                                     ![q].output = out]
    /\ UNCHANGED <<tool, rows, stale, crashes>>

\* The mean over the sections, rounded.
RoundedMean(percents) ==
    LET n == Cardinality(Sections)
    IN (2 * MapThenSumSet(LAMBDA s : percents[s], Sections) + n) \div (2 * n)

CalculateIdeationCompleteness(read, updates) ==
    RoundedMean([s \in Sections |-> IF s \in DOMAIN updates
                                    THEN LabelToCompletionPercent(updates[s], TRUE)
                                    ELSE read[s].percent])

\* Unique (thread_id, message_index).
MessageTaken(q) == HasReply(q) /\ request[q].last + 1 \in DOMAIN messages

\* Faulty: two versions of a section may have the same number.
VersionsAreNotNumbered(q) == FALSE

\* Unique (section_id, version_no), and (document_id, section_key) for a new section.
VersionTaken(q) ==
    \E s \in DOMAIN Updates(q), v \in versions :
        v.section = s /\ v.version = request[q].read[s].version + 1

WriteSections(q) ==
    sections' = [s \in Sections |->
        IF s \in DOMAIN Updates(q)
        THEN [version |-> request[q].read[s].version + 1, percent |-> NewPercent(q, s),
              status |-> MapCompletionToSectionStatus(NewPercent(q, s), TRUE),
              refinement |-> MapStatusLabelToRefinementState(Updates(q)[s], TRUE),
              by |-> request[q].run]
        ELSE sections[s]]

\* The reply, the message it answers, and the end of the run.
WriteReply(q) ==
    LET answered == MessageStatus(request[q].message, "SENT") IN
    /\ messages' = IF HasReply(q)
                   THEN Append(answered, [from |-> "AGENT", status |-> "SENT"])
                   ELSE answered
    /\ runs' = RunStatus(request[q].run, IF request[q].output.completed THEN "COMPLETED" ELSE "FAILED")

\* Faulty: the new value alone decides, and it locks the tools again.
NewCompletenessOnly(computed) == computed >= UnlockAt

\* A workspace that was read as locked is written only when the value decides, so the
\* moment of that read makes no difference.
ShouldUnlockStrategyTools(computed) == computed >= UnlockAt \/ unlocked

UpdateIdeation(q) ==
    LET computed == CalculateIdeationCompleteness(request[q].read, Updates(q)) IN
    /\ tool = "ideation" /\ request[q].pc = "writing" /\ ~MessageTaken(q) /\ ~VersionTaken(q)
    /\ WriteSections(q) /\ WriteReply(q)
    /\ versions' = versions \cup {[section |-> s, version |-> request[q].read[s].version + 1,
                                    percent |-> NewPercent(q, s)] : s \in DOMAIN Updates(q)}
    /\ completeness' = computed
    /\ unlocked' = (ShouldUnlockStrategyTools(computed))
    /\ Ends(q)
    /\ UNCHANGED <<tool, stale, crashes>>

\* The sections are written by their ids and keep no versions.
UpdateValueProposition(q) ==
    /\ tool = "value-proposition" /\ request[q].pc = "writing" /\ ~MessageTaken(q)
    /\ WriteSections(q) /\ WriteReply(q)
    /\ completeness' = OverallCompleteness(request[q].output)
    /\ Ends(q)
    /\ UNCHANGED <<tool, stale, versions, unlocked, crashes>>

\* The transaction is rolled back; the message, and then the run, are marked.
RefuseIdeation(q) ==
    /\ tool = "ideation" /\ request[q].pc = "writing" /\ (MessageTaken(q) \/ VersionTaken(q))
    /\ messages' = MessageStatus(request[q].message, "FAILED")
    /\ Goes(q, "refused")
    /\ UNCHANGED <<tool, runs, stale, document, crashes>>

RefuseValueProposition(q) ==
    /\ tool = "value-proposition" /\ request[q].pc = "writing" /\ MessageTaken(q)
    /\ messages' = MessageStatus(request[q].message, "FAILED")
    /\ Goes(q, "refused")
    /\ UNCHANGED <<tool, runs, stale, document, crashes>>

FailRefusedRun(q) ==
    /\ request[q].pc = "refused"
    /\ runs' = RunStatus(request[q].run, "FAILED")
    /\ Ends(q)
    /\ UNCHANGED <<tool, messages, stale, document, crashes>>

-----------------------------------------------------------------------------
(* The environment.                                                        *)

TwoMinutesPass ==
    /\ stale < Len(runs)
    /\ stale' = Len(runs)
    /\ UNCHANGED <<tool, rows, request, crashes>>

\* The requests under way are gone, their rows stay.  Without one nothing is lost.
Crash ==
    /\ crashes < MaxCrashes /\ \E q \in Requests : request[q].pc \notin {"new", "done"}
    /\ request' = [q \in Requests |->
           IF request[q].pc = "new" THEN request[q] ELSE [NoRequest EXCEPT !.pc = "done"]]
    /\ crashes' = crashes + 1
    /\ UNCHANGED <<tool, rows, stale>>

Ask(q) ==
    /\ \A earlier \in 1 .. q - 1 : request[earlier].pc # "new"
    /\ \/ SendIdeationMessage(q) \/ SendValuePropositionMessage(q)
       \/ ResendLastIdeationMessage(q) \/ ResendLastValuePropositionMessage(q)

Work(q) ==
    \/ CloseStalledRun(q) \/ StartIdeation(q) \/ StartValueProposition(q)
    \/ IdeationGatewayAnswers(q) \/ IdeationGatewayFails(q)
    \/ ValuePropositionGatewayAnswers(q) \/ ValuePropositionGatewayFails(q) \/ ReadMessages(q)
    \/ UpdateIdeation(q) \/ UpdateValueProposition(q)
    \/ RefuseIdeation(q) \/ RefuseValueProposition(q) \/ FailRefusedRun(q)

Next == (\E q \in Requests : Ask(q) \/ Work(q)) \/ TwoMinutesPass \/ Crash

Spec == Init /\ [][Next]_vars

\* A request under way goes on: every call of the client has a timeout, the polls are
\* counted, and the database answers.  Time passes.  Founders need not ask.
FairSpec == Spec /\ (\A q \in Requests : WF_vars(Work(q))) /\ WF_vars(TwoMinutesPass)

-----------------------------------------------------------------------------
(* What the page shows and offers (every request answers with it).         *)

AvailableToolIds == IF unlocked THEN Tools ELSE {"ideation"}

MapStrategyCopilot ==
    [workspace |-> [completeness |-> completeness, availableToolIds |-> AvailableToolIds,
                    sections |-> [s \in Sections |-> sections[s].refinement]],
     chat |-> [messages |-> [i \in DOMAIN messages |-> messages[i].from],
               resendAvailable |-> IsRetryableLatestUserMessage]]

-----------------------------------------------------------------------------
(* Properties.                                                             *)

\* A section of the ideation is written over the version that is stored, although the
\* sections may have been read long before the number of the reply (1512-1538): no update
\* of it is lost.  The canvas keeps no versions and has no such guard.
SectionsBuildOnTheLatest ==
    [][tool = "ideation" =>
          \A s \in Sections :
              sections'[s].by # sections[s].by => sections'[s].version = sections[s].version + 1]_vars

\* A message that is pending has a request that will settle it, however retries and
\* their originals overlap (1334, 1467-1490, 1744-1750); only a crash leaves it alone.
PendingHasRequest ==
    \A i \in DOMAIN messages : messages[i].status = "PENDING" =>
        \/ crashes > 0
        \/ \E q \in Requests :
              request[q].message = i /\ request[q].pc \in {"waiting", "reading", "writing"}

\* The percentages the runs' effects record for a section, and that of an empty one.
OnRecord(s, recorded) == {0} \cup {v.percent : v \in {v \in recorded : v.section = s}}

\* Complete enough by what is on record, one percentage for each section.
EarnedBy(recorded) ==
    \E p \in [Sections -> UNION {OnRecord(s, recorded) : s \in Sections}] :
        (\A s \in Sections : p[s] \in OnRecord(s, recorded)) /\ RoundedMean(p) >= UnlockAt

\* The tools open on evaluations that are on record, each stored with the section it is
\* about, however old the sections are that the mean takes the others from; and nobody
\* who has read a lower one locks them again (1637-1677).
UnlocksAreEarned ==
    [][AvailableToolIds' # AvailableToolIds =>
          AvailableToolIds \subseteq AvailableToolIds' /\ EarnedBy(versions')]_vars

\* No thread is stuck: when the latest message is the founder's, it is answered or may be
\* sent again in the end, after a crash too (isRetryableLatestUserMessage, 1204-1233), and
\* a message is never pending without a request that will settle it.
ThreadGoesOn ==
    /\ []PendingHasRequest
    /\ []<>(LET chat == MapStrategyCopilot.chat IN
             chat.messages[Len(chat.messages)] = "AGENT" \/ chat.resendAvailable)

=================================================================================
