-------------------------- MODULE ProtoIdeaExtraction --------------------------
(***************************************************************************)
(* The proto-idea stage (proto-idea-extraction.service.js): a pass reads    *)
(* the operator's prospecting results, claims unprocessed sources one by    *)
(* one, has an agent extract proto-ideas from each, and stores them.        *)
(*                                                                         *)
(* Passes run concurrently: the pipeline, the stage's own endpoint and a    *)
(* command-line script all call runProtoIdeaExtractionPass.  An action is   *)
(* one awaited call, so the row a pass read may change before it writes.    *)
(* Transactions are READ COMMITTED: a statement sees what other             *)
(* transactions have committed, and inserted rows appear at the commit.     *)
(***************************************************************************)
EXTENDS IdeaRecords

CONSTANTS
    Passes,      \* callers of runProtoIdeaExtractionPass
    Retriers,    \* the passes that may be called with retryFailed
    Staged,      \* the passes called through the stage's endpoint
    SourceCount, \* records prospecting may return, the oldest first
    BatchSize,   \* sources a pass may claim (default 1)
    MaxIdeas,    \* ideas a policy allows per source
    MaxFaults,   \* bound: database statements that throw
    MaxCrashes   \* bound: passes that die with their process

VARIABLES
    results,  \* the sources in the operator's lastResultRecords
    source,   \* source[k]: status of the proto_idea_sources row of k, or "none"
    protos,   \* protos[i]: the proto_ideas row i
    xpass,    \* xpass[p]: the local variables of pass p
    policy,   \* latestRunStatus of the policy row
    xfaults, xcrashes

vars == <<results, source, protos, xpass, policy, xfaults, xcrashes>>

-----------------------------------------------------------------------------
Sources == 1..SourceCount

\* The ideas of a source that an observer can see.
IdeasOf(k) == {i \in LiveProtos(protos) : protos[i].source = k}

IdlePass == [pc |-> "idle", retry |-> FALSE, todo |-> {}, cur |-> 0,
             exists |-> FALSE, doomed |-> {}, processed |-> 0, completed |-> 0, failed |-> 0]

\* Faulty: a source being processed may be taken over.
ShouldSkipDone(status, retry) ==
    status = "COMPLETED" \/ (status = "FAILED" /\ ~retry)

\* Faulty: whatever is not being processed may be retried.
ShouldSkipBusy(status, retry) ==
    status = "PROCESSING" \/ (status # "none" /\ ~retry)

ShouldSkipExistingSource(status, retry) ==
    status \in {"COMPLETED", "PROCESSING"} \/ (status = "FAILED" /\ ~retry)

\* The loop turns to the next candidate.
ToLoop(local) == [local EXCEPT !.pc = "next", !.cur = 0, !.exists = FALSE, !.doomed = {}]

NothingExtracted ==
    /\ results = {}
    /\ source = [k \in Sources |-> "none"]
    /\ xpass = [p \in Passes |-> IdlePass]
    /\ policy = "NONE"
    /\ xfaults = 0 /\ xcrashes = 0

Init ==
    /\ protos = [i \in ProtoIds |-> UnbornProto]
    /\ NothingExtracted

\* A prospecting execution replaces the operator's result records.
Prospect(found) ==
    /\ found # results
    /\ results' = found
    /\ UNCHANGED <<source, protos, xpass, policy, xfaults, xcrashes>>

\* The policy is loaded and marked as running.
BeginPass(p, retry) ==
    /\ xpass[p].pc = "idle"
    /\ retry => p \in Retriers
    /\ xpass' = [xpass EXCEPT ![p] =
                    [IdlePass EXCEPT !.pc = "list", !.retry = retry]]
    /\ policy' = "RUNNING"
    /\ UNCHANGED <<results, source, protos, xfaults, xcrashes>>

ListPendingCandidates(p) ==
    /\ xpass[p].pc = "list"
    /\ xpass' = [xpass EXCEPT ![p].pc = "next", ![p].todo = results]
    /\ UNCHANGED <<results, source, protos, policy, xfaults, xcrashes>>

NextCandidate(todo) == CHOOSE k \in todo : \A j \in todo : k <= j

WithinBatch(p) == xpass[p].processed < BatchSize

\* claimProtoIdeaSource, first statement: the row is looked up and skipped
\* unless it is missing or may be retried.
FindSource(p) ==
    /\ xpass[p].pc = "next" /\ WithinBatch(p) /\ xpass[p].todo # {}
    /\ LET k == NextCandidate(xpass[p].todo)
           skip == ShouldSkipExistingSource(source[k], xpass[p].retry)
           rest == [xpass[p] EXCEPT !.todo = @ \ {k}]
       IN xpass' = [xpass EXCEPT ![p] =
                        IF skip THEN rest
                        ELSE [rest EXCEPT !.pc = "claim", !.cur = k,
                                          !.exists = (source[k] # "none")]]
    /\ UNCHANGED <<results, source, protos, policy, xfaults, xcrashes>>

\* The insert fails on the unique key when another pass inserted first; the
\* update of an existing row has no condition on its status.
ClaimSucceeds(p) == xpass[p].exists \/ source[xpass[p].cur] = "none"

\* claimProtoIdeaSource, second statement.
ClaimSource(p) ==
    /\ xpass[p].pc = "claim"
    /\ IF ClaimSucceeds(p)
       THEN /\ source' = [source EXCEPT ![xpass[p].cur] = "PROCESSING"]
            /\ xpass' = [xpass EXCEPT ![p].pc = "extract", ![p].processed = @ + 1]
       ELSE /\ xpass' = [xpass EXCEPT ![p] = ToLoop(@)]
            /\ UNCHANGED source
    /\ UNCHANGED <<results, protos, policy, xfaults, xcrashes>>

\* Faulty: an output that fails validation is only counted.
OnInvalidCountOnly(p) == ToLoop([xpass[p] EXCEPT !.failed = @ + 1])

\* An output that does not validate is recorded in the try block.
OnInvalid(p) == [xpass[p] EXCEPT !.pc = "reject"]

\* validateProtoIdeaExtractionOutput: the answer, found in one of several
\* places of the gateway's summary, parses and fits the schema, or not.
Validations == BOOLEAN

\* The agent answered, with valid ideas or not.
ExtractReturns(p, valid) ==
    /\ xpass[p].pc = "extract"
    /\ xpass' = [xpass EXCEPT ![p] =
                    IF valid THEN [@ EXCEPT !.pc = "delete"] ELSE OnInvalid(p)]
    /\ UNCHANGED <<results, source, protos, policy, xfaults, xcrashes>>

\* The agent is unavailable, the gateway reports an error or times out.
ExtractThrows(p) ==
    /\ xpass[p].pc = "extract"
    /\ xpass' = [xpass EXCEPT ![p].pc = "fail"]
    /\ UNCHANGED <<results, source, protos, policy, xfaults, xcrashes>>

\* persistProtoIdeaSuccess, deleteMany: the transaction sees and locks the
\* rows that are committed now.
DeleteOldIdeas(p) ==
    /\ xpass[p].pc = "delete"
    /\ xpass' = [xpass EXCEPT ![p].pc = "commit", ![p].doomed = IdeasOf(xpass[p].cur)]
    /\ UNCHANGED <<results, source, protos, policy, xfaults, xcrashes>>

\* How many ideas are left when repeated ones and those over the limit of the
\* policy are dropped.
IdeasKept == 0..MaxIdeas

\* The inserts, the update of the source row and the commit.
CommitIdeas(p) ==
    /\ xpass[p].pc = "commit"
    /\ \E n \in IdeasKept :
        LET new == FreshProtos(protos, n) IN
        /\ Cardinality(new) = n
        /\ protos' = [i \in ProtoIds |->
                        IF i \in new
                        THEN [status |-> "PENDING", source |-> xpass[p].cur, by |-> p]
                        ELSE IF i \in xpass[p].doomed THEN DeletedProto ELSE protos[i]]
    /\ source' = [source EXCEPT ![xpass[p].cur] = "COMPLETED"]
    /\ xpass' = [xpass EXCEPT ![p] = ToLoop([xpass[p] EXCEPT !.completed = @ + 1])]
    /\ UNCHANGED <<results, policy, xfaults, xcrashes>>

\* A statement of the try block throws: the transaction is rolled back, and
\* the catch handler records a failure.
CallThrows(p) ==
    /\ xpass[p].pc \in {"delete", "commit", "reject"}
    /\ xfaults < MaxFaults /\ xfaults' = xfaults + 1
    /\ xpass' = [xpass EXCEPT ![p].pc = "fail", ![p].doomed = {}]
    /\ UNCHANGED <<results, source, protos, policy, xcrashes>>

\* persistProtoIdeaFailure, in the try block (reject) or the catch handler (fail).
PersistFailure(p) ==
    /\ xpass[p].pc \in {"reject", "fail"}
    /\ source' = [source EXCEPT ![xpass[p].cur] = "FAILED"]
    /\ xpass' = [xpass EXCEPT ![p] = ToLoop([xpass[p] EXCEPT !.failed = @ + 1])]
    /\ UNCHANGED <<results, protos, policy, xfaults, xcrashes>>

FinalStatus(p) ==
    IF xpass[p].failed > 0 /\ xpass[p].completed = 0 THEN "FAILED" ELSE "COMPLETED"

EndPass(p) ==
    /\ xpass[p].pc = "next"
    /\ ~WithinBatch(p) \/ xpass[p].todo = {}
    /\ policy' = FinalStatus(p)
    /\ xpass' = [xpass EXCEPT ![p] = IdlePass]
    /\ UNCHANGED <<results, source, protos, xfaults, xcrashes>>

\* A statement outside the try, or the one that records a failure, throws:
\* the pass rejects.  Only the stage wrapper settles the policy row then.
PassThrows(p) ==
    /\ xpass[p].pc \in {"list", "next", "claim", "fail"}
    /\ xfaults < MaxFaults /\ xfaults' = xfaults + 1
    /\ policy' = IF p \in Staged THEN "FAILED" ELSE policy
    /\ xpass' = [xpass EXCEPT ![p] = IdlePass]
    /\ UNCHANGED <<results, source, protos, xcrashes>>

Crash(p) ==
    /\ xpass[p].pc # "idle"
    /\ xcrashes < MaxCrashes /\ xcrashes' = xcrashes + 1
    /\ xpass' = [xpass EXCEPT ![p] = IdlePass]
    /\ UNCHANGED <<results, source, protos, policy, xfaults>>

Step(p) ==
    \/ ListPendingCandidates(p)
    \/ FindSource(p)
    \/ ClaimSource(p)
    \/ \E valid \in Validations : ExtractReturns(p, valid)
    \/ ExtractThrows(p)
    \/ DeleteOldIdeas(p)
    \/ CommitIdeas(p)
    \/ PersistFailure(p)
    \/ EndPass(p)

Next ==
    \/ \E found \in SUBSET Sources : Prospect(found)
    \/ \E p \in Passes :
        \/ \E retry \in BOOLEAN : BeginPass(p, retry)
        \/ Step(p)
        \/ CallThrows(p)
        \/ PassThrows(p)
        \/ Crash(p)

Spec == Init /\ [][Next]_vars

-----------------------------------------------------------------------------
(* Properties.                                                             *)

PassRecord ==
    [pc : {"idle", "list", "next", "claim", "extract", "delete", "commit", "reject", "fail"},
     retry : BOOLEAN, todo : SUBSET Sources, cur : Sources \cup {0},
     exists : BOOLEAN, doomed : SUBSET ProtoIds,
     processed : 0..BatchSize, completed : 0..BatchSize, failed : 0..BatchSize]

\* Every variable holds values of its type; no pass claims more than a batch.
TypeOK ==
    /\ results \subseteq Sources
    /\ source \in [Sources -> {"none", "PROCESSING", "COMPLETED", "FAILED"}]
    /\ protos \in [ProtoIds -> [status : {"unborn", "deleted", "PENDING"},
                                source : Sources \cup {0}, by : Passes \cup {Nobody}]]
    /\ xpass \in [Passes -> PassRecord]
    /\ policy \in {"NONE", "RUNNING", "COMPLETED", "FAILED"}
    /\ xfaults \in 0..MaxFaults /\ xcrashes \in 0..MaxCrashes

Working(p) == xpass[p].pc \in {"extract", "delete", "commit", "reject", "fail"}

\* A source is worked on by one pass at a time, and is PROCESSING meanwhile.
OneWorkerPerSource ==
    /\ \A p, q \in Passes :
        Working(p) /\ Working(q) /\ xpass[p].cur = xpass[q].cur => p = q
    /\ \A p \in Passes : Working(p) => source[xpass[p].cur] = "PROCESSING"

\* Proto-ideas can be seen only of a COMPLETED source: neither half an
\* extraction, nor what a failed or repeated one left behind.
IdeasOnlyOfCompleted == \A i \in LiveProtos(protos) : source[protos[i].source] = "COMPLETED"

\* A claimed source is settled, unless something died or threw.
ClaimedIsSettled ==
    \A k \in Sources : []<>(source[k] # "PROCESSING" \/ xfaults + xcrashes > 0)

==============================================================================
