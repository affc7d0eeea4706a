------------------------- MODULE ProspectingStrategy -------------------------
(***************************************************************************)
(* The prospecting strategy between the operator, the agent that reviews   *)
(* it and the search that runs it: the form of the configuration page      *)
(* (webapp .../idea-foundry/prospecting-configuration.component.ts) and    *)
(* the functions of prospecting-configuration.service.js that turn a       *)
(* strategy into an agent's answer and back and into a plan of queries.    *)
(* Prospecting models when reviews run; this module, what they do to the   *)
(* strategy.  Of a strategy it keeps the two lists that steer the search:  *)
(* the themes and the query families with their order.                     *)
(***************************************************************************)
EXTENDS Naturals, Sequences, FiniteSets

CONSTANTS
    TitleCount, \* bound: titles of query families
    LabelCount, \* bound: labels of themes
    MaxQueries, \* MAX_EXECUTION_QUERIES, counted in families
    MaxRepairs, \* MAX_PROSPECTING_REPAIR_ATTEMPTS
    MaxEdits,   \* bound: changes the operator makes
    MaxCalls    \* bound: reviews and executions the operator asks for

VARIABLES
    stored,   \* uiSnapshotJson
    searched, \* the families the last execution searched for, in order
    snapshot, \* the draft on the page
    baseline, \* what the page takes for saved
    load,     \* the first request of the page: [at, got]
    call,     \* the request under way: [at, sent, repairs]
    edits,    \* how many changes there were
    calls     \* how many requests there were

vars == <<stored, searched, snapshot, baseline, load, call, edits, calls>>

Titles == 1 .. TitleCount
Labels == 1 .. LabelCount
Status == {"Active", "Paused", "Watch"}

Family(title, status, rank) == [title |-> title, status |-> status, priorityRank |-> rank]

Empty == [themes |-> <<>>, families |-> <<>>]

NoCall == [at |-> "none", sent |-> Empty, repairs |-> 0]

-----------------------------------------------------------------------------
(* The service's conversions.                                              *)

(* An agent's answer names the families in order of priority, without      *)
(* ranks; ranks are given by position.                                     *)
Ranked(families) ==
    [i \in DOMAIN families |-> Family(families[i].title, families[i].status, i)]

(* buildUiSnapshotFromAgentReview().                                       *)
BuildUiSnapshotFromAgentReview(update) ==
    [themes |-> update.themes, families |-> Ranked(update.families)]

(* Faulty: the status of a family is not handed on.                        *)
NormalizeToActive(status) == "Active"

(* normalizeQueryFamilyStatus().                                           *)
NormalizeQueryFamilyStatus(status) == IF status = "Paused" THEN "Paused" ELSE "Active"

(* buildFallbackProspectingUpdate(): the strategy in the form of an        *)
(* agent's answer, for a review whose answer cannot be used.               *)
BuildFallbackProspectingUpdate(current) ==
    [themes |-> current.themes,
     families |-> [i \in DOMAIN current.families |->
        [title |-> current.families[i].title,
         status |-> NormalizeQueryFamilyStatus(current.families[i].status)]]]

(* Where a stable sort by rank puts family i of the families S.            *)
Place(families, S, i) ==
    Cardinality({j \in S :
        \/ families[j].priorityRank < families[i].priorityRank
        \/ families[j].priorityRank = families[i].priorityRank /\ j <= i})

AtPlace(families, S, p) == CHOOSE i \in S : Place(families, S, i) = p

SortedByRank(families) ==
    [p \in DOMAIN families |-> families[AtPlace(families, DOMAIN families, p)]]

(* buildProspectingExecutionPlan(): what is not paused, in order of rank.  *)
BuildProspectingExecutionPlan(strategy) ==
    LET families == strategy.families
        active == {i \in DOMAIN families : families[i].status # "Paused"}
        count == IF Cardinality(active) < MaxQueries THEN Cardinality(active) ELSE MaxQueries
    IN [p \in 1 .. count |-> families[AtPlace(families, active, p)].title]

(* The answers an agent may give: any order of the titles, any status.     *)
Answers ==
    [themes : {<<>>, <<1>>},
     families : {<<>>} \cup {<<[title |-> t, status |-> s]>> : t \in Titles, s \in Status}]

-----------------------------------------------------------------------------
(* The page.                                                               *)

(* normalizeIncomingSnapshot(): a list that is empty leaves the one the    *)
(* page has.                                                               *)
NormalizeIncomingSnapshot(incoming, fallback) ==
    [themes |-> IF incoming.themes = <<>> THEN fallback.themes ELSE incoming.themes,
     families |-> IF incoming.families = <<>> THEN fallback.families ELSE incoming.families]

(* A row from an earlier review; the page has asked for it and shows an    *)
(* empty draft until the answer comes.                                     *)
Init ==
    /\ stored \in {[themes |-> <<1>>,
                    families |-> <<Family(1, status, 1), Family(2, "Active", 2)>>] :
                      status \in {"Active", "Watch"}}
    /\ searched = <<>>
    /\ snapshot = Empty /\ baseline = Empty
    /\ load = [at |-> "asked", got |-> Empty]
    /\ call = NoCall
    /\ edits = 0 /\ calls = 0

page == <<snapshot, baseline>>

TakeOver(incoming) ==
    /\ snapshot' = NormalizeIncomingSnapshot(incoming, snapshot)
    /\ baseline' = snapshot'

(* ngOnInit(): the row is read, and replaces the draft when the answer is  *)
(* there, or the request fails.                                            *)
ReadConfiguration ==
    /\ load.at = "asked"
    /\ load' = [at |-> "read", got |-> stored]
    /\ UNCHANGED <<stored, searched, page, call, edits, calls>>

Loaded ==
    /\ load.at = "read"
    /\ load' = [at |-> "done", got |-> Empty]
    /\ TakeOver(load.got)
    /\ UNCHANGED <<stored, searched, call, edits, calls>>

LoadFails ==
    /\ load.at # "done"
    /\ load' = [at |-> "done", got |-> Empty]
    /\ UNCHANGED <<stored, searched, page, call, edits, calls>>

Edit(strategy) ==
    /\ edits < MaxEdits
    /\ edits' = edits + 1
    /\ snapshot' = strategy
    /\ UNCHANGED <<stored, searched, baseline, load, call, calls>>

(* addTheme() appends, removeTheme() filters.                              *)
AddTheme(label) ==
    /\ label \notin {snapshot.themes[i] : i \in DOMAIN snapshot.themes}
    /\ Edit([snapshot EXCEPT !.themes = Append(snapshot.themes, label)])

RemoveTheme(label) ==
    Edit([snapshot EXCEPT !.themes = SelectSeq(snapshot.themes, LAMBDA l : l # label)])

(* moveTheme() by one place.                                               *)
MoveTheme(i) ==
    /\ i + 1 \in DOMAIN snapshot.themes
    /\ LET themes == snapshot.themes IN
       Edit([snapshot EXCEPT !.themes = [themes EXCEPT ![i] = themes[i + 1], ![i + 1] = themes[i]]])

(* Faulty: the copy takes the rank of its original.                        *)
CopyRankOfOriginal(i) == snapshot.families[i].priorityRank

(* duplicateQueryFamily(): the copy comes last.                            *)
CopyRank(i) == Len(snapshot.families) + 1

DuplicateQueryFamily(i) ==
    /\ i \in DOMAIN snapshot.families
    /\ LET copy == [snapshot.families[i] EXCEPT !.priorityRank = CopyRank(i)]
       IN Edit([snapshot EXCEPT !.families = Append(snapshot.families, copy)])

ToggleQueryPause(i) ==
    /\ i \in DOMAIN snapshot.families
    /\ Edit([snapshot EXCEPT !.families[i].status =
                IF @ = "Paused" THEN "Active" ELSE "Paused"])

(* adjustQueryPriority(): the rank is changed by one, the list is sorted   *)
(* by rank, equal ranks as they stood, and renumbered.                     *)
Boosted(families, i) ==
    [families EXCEPT ![i].priorityRank = IF @ > 1 THEN @ - 1 ELSE 1]

Demoted(families, i) == [families EXCEPT ![i].priorityRank = @ + 1]

BoostQueryPriority(i) ==
    /\ i \in DOMAIN snapshot.families
    /\ Edit([snapshot EXCEPT !.families = Ranked(SortedByRank(Boosted(snapshot.families, i)))])

DemoteQueryPriority(i) ==
    /\ i \in DOMAIN snapshot.families
    /\ Edit([snapshot EXCEPT !.families = Ranked(SortedByRank(Demoted(snapshot.families, i)))])

(* saveChanges() only moves the baseline of the page.                      *)
SaveChanges ==
    /\ load.at = "done" /\ baseline # snapshot
    /\ baseline' = snapshot
    /\ UNCHANGED <<stored, searched, snapshot, load, call, edits, calls>>

ResetChanges ==
    /\ baseline # snapshot
    /\ snapshot' = baseline
    /\ UNCHANGED <<stored, searched, baseline, load, call, edits, calls>>

-----------------------------------------------------------------------------
(* Reviews and executions; the buttons are disabled while one is under     *)
(* way, but not while the page loads.                                      *)

Ask(place) ==
    /\ call = NoCall
    /\ calls < MaxCalls
    /\ calls' = calls + 1
    /\ call' = [at |-> place, sent |-> snapshot, repairs |-> 0]

(* handleAgentAction(): the draft becomes the stored strategy at once.     *)
HandleAgentAction ==
    /\ Ask("review")
    /\ stored' = snapshot
    /\ UNCHANGED <<searched, page, load, edits>>

(* runNow() runs what is stored, whatever the draft says.                  *)
RunNow ==
    /\ Ask("execute")
    /\ UNCHANGED <<stored, searched, page, load, edits>>

(* An answer that satisfies the schema, at once or after a repair.         *)
ReviewComplies(update) ==
    /\ call.at = "review"
    /\ stored' = BuildUiSnapshotFromAgentReview(update)
    /\ call' = [call EXCEPT !.at = "execute"]
    /\ UNCHANGED <<searched, page, load, edits, calls>>

AskForRepair ==
    /\ call.at = "review"
    /\ call.repairs < MaxRepairs
    /\ call' = [call EXCEPT !.repairs = @ + 1]
    /\ UNCHANGED <<stored, searched, page, load, edits, calls>>

(* buildFallbackProspectingReview().                                       *)
ReviewFallsBack ==
    /\ call.at = "review"
    /\ call.repairs = MaxRepairs
    /\ stored' = BuildUiSnapshotFromAgentReview(BuildFallbackProspectingUpdate(call.sent))
    /\ call' = [call EXCEPT !.at = "execute"]
    /\ UNCHANGED <<searched, page, load, edits, calls>>

Execute ==
    /\ call.at = "execute"
    /\ searched' = BuildProspectingExecutionPlan(stored)
    /\ call' = [call EXCEPT !.at = "done"]
    /\ UNCHANGED <<stored, page, load, edits, calls>>

Answered ==
    /\ call.at = "done"
    /\ call' = NoCall
    /\ TakeOver(stored)
    /\ UNCHANGED <<stored, searched, load, edits, calls>>

(* The run fails or is refused; the page keeps its draft.                  *)
CallFails ==
    /\ call.at \in {"review", "execute"}
    /\ call' = NoCall
    /\ UNCHANGED <<stored, searched, page, load, edits, calls>>

Next ==
    \/ ReadConfiguration \/ Loaded \/ LoadFails \/ SaveChanges \/ ResetChanges
    \/ \E l \in Labels : AddTheme(l) \/ RemoveTheme(l)
    \/ \E i \in 1 .. 4 :
          \/ MoveTheme(i) \/ DuplicateQueryFamily(i) \/ ToggleQueryPause(i)
          \/ BoostQueryPriority(i) \/ DemoteQueryPriority(i)
    \/ HandleAgentAction \/ RunNow
    \/ \E update \in Answers : ReviewComplies(update)
    \/ AskForRepair \/ ReviewFallsBack \/ Execute \/ Answered \/ CallFails

Spec == Init /\ [][Next]_vars

-----------------------------------------------------------------------------
TypeOK ==
    /\ call.at \in {"none", "review", "execute", "done"}
    /\ call.repairs \in 0 .. MaxRepairs
    /\ \A i \in DOMAIN snapshot.families : snapshot.families[i].status \in Status

(* The order of the list is the order of the ranks, 1, 2, ..., on the page *)
(* and in the row, after any edits and reviews.  The fallback drops the    *)
(* ranks and counts on it to search in the operator's order.               *)
InRankOrder(families) == \A i \in DOMAIN families : families[i].priorityRank = i

RanksFollowOrder ==
    \A s \in {stored, snapshot, baseline, call.sent} : InRankOrder(s.families)

(* A review whose answer cannot be used, even repaired, leaves the themes  *)
(* and the families with their order, and what the operator has paused is  *)
(* not searched for by the execution that follows.                         *)
FallbackKeeps(before, after) ==
    /\ after.themes = before.themes
    /\ Len(after.families) = Len(before.families)
    /\ BuildProspectingExecutionPlan(after) = BuildProspectingExecutionPlan(before)

UnusableReviewKeepsSearch == [][ReviewFallsBack => FallbackKeeps(call.sent, stored')]_vars
=============================================================================
