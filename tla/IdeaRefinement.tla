---------------------------- MODULE IdeaRefinement ----------------------------
(***************************************************************************)
(* The refinement stage (idea-refinement.service.js): a pass lists the     *)
(* proto-ideas, claims eligible ones, has an agent refine each, and stores *)
(* the result as a candidate, or as a new version of the latest one when   *)
(* the fingerprint says it is the same idea.                               *)
(*                                                                         *)
(* An action is one awaited call of one pass; passes run concurrently.     *)
(* The list is read once, so a pass judges eligibility by rows that may    *)
(* have changed long since.                                                *)
(***************************************************************************)
EXTENDS IdeaRecords

CONSTANTS
    Passes,      \* callers of runIdeaRefinementPass
    Retriers,    \* the passes called with retryFailed
    Askers,      \* the passes that may be called for one proto-idea by its id
    Staged,      \* the passes called through the stage's endpoint
    Prints,      \* fingerprints: the ideas an agent may come up with
    BatchSize,   \* proto-ideas a pass may claim (default 1)
    MaxFaults,   \* bound: database statements that throw
    MaxCrashes   \* bound: passes that die with their process

VARIABLES
    protos,      \* protos[i]: the proto_ideas row i
    candidates,  \* candidates[c]: the idea_candidates row c
    rpass,       \* rpass[p]: the local variables of pass p
    rpolicy,     \* latestRunStatus of the policy row
    rfaults, rcrashes

vars == <<protos, candidates, rpass, rpolicy, rfaults, rcrashes>>

-----------------------------------------------------------------------------
NoCandidate == [id |-> 0, iteration |-> 0, print |-> Nobody]

IdlePass == [pc |-> "idle", asked |-> 0, todo |-> {}, cur |-> 0, print |-> Nobody, latest |-> NoCandidate,
             processed |-> 0, created |-> 0, updated |-> 0, failed |-> 0]

ToLoop(local) == [local EXCEPT !.pc = "next", !.cur = 0, !.print = Nobody, !.latest = NoCandidate]

\* Faulty: a failed proto-idea is always tried again.
IsEligibleAlwaysRetry(status, retry) == status \in {"PENDING", "FAILED"}

IsEligibleProtoIdea(status, retry) ==
    status = "PENDING" \/ (status = "FAILED" /\ retry)

NothingRefined ==
    /\ candidates = [c \in CandidateIds |-> UnbornCandidate]
    /\ rpass = [p \in Passes |-> IdlePass]
    /\ rpolicy = "NONE"
    /\ rfaults = 0 /\ rcrashes = 0

\* The rows as extraction left them.
Init ==
    /\ protos = [i \in ProtoIds |-> [UnbornProto EXCEPT !.status = "PENDING", !.source = 1]]
    /\ NothingRefined

\* The policy is loaded and marked as running; asked = 0 asks for no one in
\* particular.
BeginPass(p, asked) ==
    /\ rpass[p].pc = "idle"
    /\ asked # 0 => p \in Askers
    /\ rpass' = [rpass EXCEPT ![p] = [IdlePass EXCEPT !.pc = "list", !.asked = asked]]
    /\ rpolicy' = "RUNNING"
    /\ UNCHANGED <<protos, candidates, rfaults, rcrashes>>

\* listEligibleProtoIdeas: rows with the status they have now; the ones that
\* are not eligible are passed over without a further call.
ListEligible(p) ==
    /\ rpass[p].pc = "list"
    /\ rpass' = [rpass EXCEPT
            ![p].pc = "next", ![p].asked = 0,
            ![p].todo = {i \in LiveProtos(protos) :
                            /\ rpass[p].asked \in {0, i}
                            /\ IsEligibleProtoIdea(protos[i].status, p \in Retriers)}]
    /\ UNCHANGED <<protos, candidates, rpolicy, rfaults, rcrashes>>

WithinBatch(p) == rpass[p].processed < BatchSize

\* claimProtoIdeaForRefinement: the update has no condition but the id; a row
\* deleted meanwhile is passed over.
ClaimProtoIdea(p) ==
    /\ rpass[p].pc = "next" /\ rpass[p].todo # {} /\ WithinBatch(p)
    /\ LET i == Min(rpass[p].todo)
           rest == [rpass[p] EXCEPT !.todo = @ \ {i}]
       IN IF i \in LiveProtos(protos)
          THEN /\ protos' = [protos EXCEPT ![i].status = "PROCESSING"]
               /\ rpass' = [rpass EXCEPT ![p] = [rest EXCEPT !.pc = "refine", !.cur = i,
                                                             !.processed = @ + 1]]
          ELSE /\ rpass' = [rpass EXCEPT ![p] = rest]
               /\ UNCHANGED protos
    /\ UNCHANGED <<candidates, rpolicy, rfaults, rcrashes>>

\* validateIdeaRefinementOutput: what is not a JSON object of the schema, or
\* leaves a required text empty, is no idea.
Unusable == {Nobody}

\* What a run of the agent may come to: an idea that passes the quality check,
\* told from others by its fingerprint, or nothing to store.
Outcomes == Prints \cup Unusable

\* An output that is invalid or of low quality is recorded in the try block.
OnRejected(p) == [rpass[p] EXCEPT !.pc = "reject"]

\* The agent came up with an idea, which is valid and passes the quality check
\* or is not (Nobody); or the run failed.
RefineReturns(p, print) ==
    /\ rpass[p].pc = "refine"
    /\ rpass' = [rpass EXCEPT ![p] =
                    IF print \in Unusable THEN OnRejected(p)
                    ELSE [@ EXCEPT !.pc = "latest", !.print = print]]
    /\ UNCHANGED <<protos, candidates, rpolicy, rfaults, rcrashes>>

\* The agent is unavailable, the gateway reports an error or times out.
RefineThrows(p) ==
    /\ rpass[p].pc = "refine"
    /\ rpass' = [rpass EXCEPT ![p].pc = "fail"]
    /\ UNCHANGED <<protos, candidates, rpolicy, rfaults, rcrashes>>

\* loadLatestCandidate, outside the transaction.
LoadLatestCandidate(p) ==
    /\ rpass[p].pc = "latest"
    /\ LET mine == CandidatesOf(candidates, rpass[p].cur) IN
       \/ /\ mine = {}
          /\ rpass' = [rpass EXCEPT ![p].pc = "commit"]
       \/ \E c \in mine :
            /\ \A d \in mine : candidates[d].iteration <= candidates[c].iteration
            /\ rpass' = [rpass EXCEPT
                    ![p].pc = "commit",
                    ![p].latest = [id |-> c, iteration |-> candidates[c].iteration,
                                   print |-> candidates[c].print]]
    /\ UNCHANGED <<protos, candidates, rpolicy, rfaults, rcrashes>>

\* Faulty: whatever the agent came up with replaces the latest candidate.
SameIdeaAlways(p) == rpass[p].latest.id # 0

SameIdea(p) == rpass[p].latest.id # 0 /\ rpass[p].latest.print = rpass[p].print

\* Faulty: iterations are counted from the latest one.
NextIterationSkips(p) == rpass[p].latest.iteration + 2

NextIteration(p) == rpass[p].latest.iteration + 1

\* The stored candidate awaits its (first or new) evaluation.
CandidateRow(p) ==
    [UnbornCandidate EXCEPT
        !.row = "live", !.proto = rpass[p].cur, !.print = rpass[p].print,
        !.iteration = IF SameIdea(p) THEN rpass[p].latest.iteration ELSE NextIteration(p),
        !.workflow = "AWAITING_EVALUATION", !.evaluation = "PENDING"]

\* The rows the transaction writes are still there.
RowsExist(p) ==
    /\ rpass[p].cur \in LiveProtos(protos)
    /\ SameIdea(p) => rpass[p].latest.id \in LiveCandidates(candidates)

\* The candidates after the transaction: updated, or with a new row.
Stored(p) ==
    LET c == IF SameIdea(p) THEN rpass[p].latest.id ELSE FreshCandidate(candidates) IN
    WriteCandidate(candidates, c, [CandidateRow(p) EXCEPT !.rank = candidates[c].rank])

\* persistIdeaCandidateSuccess: one transaction, which throws when a row it
\* writes is gone.
CommitCandidate(p) ==
    /\ rpass[p].pc = "commit"
    /\ SameIdea(p) \/ CandidatesLeft(candidates)
    /\ IF RowsExist(p)
       THEN /\ candidates' = Stored(p)
            /\ protos' = [protos EXCEPT ![rpass[p].cur].status = "COMPLETED"]
            /\ rpass' = [rpass EXCEPT ![p] =
                            IF SameIdea(p) THEN ToLoop([rpass[p] EXCEPT !.updated = @ + 1])
                            ELSE ToLoop([rpass[p] EXCEPT !.created = @ + 1])]
       ELSE /\ rpass' = [rpass EXCEPT ![p].pc = "fail"]
            /\ UNCHANGED <<protos, candidates>>
    /\ UNCHANGED <<rpolicy, rfaults, rcrashes>>

\* A statement of the try block throws, and the catch handler takes over.
CallThrows(p) ==
    /\ rpass[p].pc \in {"latest", "commit", "reject"}
    /\ rfaults < MaxFaults /\ rfaults' = rfaults + 1
    /\ rpass' = [rpass EXCEPT ![p].pc = "fail"]
    /\ UNCHANGED <<protos, candidates, rpolicy, rcrashes>>

\* What a pass that rejects leaves of the policy row: only the stage wrapper
\* settles it.
PolicyAfterThrow(p) == IF p \in Staged THEN "FAILED" ELSE rpolicy

\* persistIdeaRefinementFailure, in the try block (reject) or in the catch
\* handler (fail).  It throws when the proto-idea is gone.
PersistFailure(p) ==
    /\ rpass[p].pc \in {"reject", "fail"}
    /\ IF rpass[p].cur \in LiveProtos(protos)
       THEN /\ protos' = [protos EXCEPT ![rpass[p].cur].status = "FAILED"]
            /\ rpass' = [rpass EXCEPT ![p] = ToLoop([rpass[p] EXCEPT !.failed = @ + 1])]
            /\ UNCHANGED rpolicy
       ELSE IF rpass[p].pc = "reject"
       THEN /\ rpass' = [rpass EXCEPT ![p].pc = "fail"]
            /\ UNCHANGED <<protos, rpolicy>>
       ELSE /\ rpass' = [rpass EXCEPT ![p] = IdlePass]
            /\ rpolicy' = PolicyAfterThrow(p)
            /\ UNCHANGED protos
    /\ UNCHANGED <<candidates, rfaults, rcrashes>>

FinalStatus(p) ==
    IF rpass[p].failed > 0 /\ rpass[p].created + rpass[p].updated = 0
    THEN "FAILED" ELSE "COMPLETED"

EndPass(p) ==
    /\ rpass[p].pc = "next"
    /\ rpass[p].todo = {} \/ ~WithinBatch(p)
    /\ rpolicy' = FinalStatus(p)
    /\ rpass' = [rpass EXCEPT ![p] = IdlePass]
    /\ UNCHANGED <<protos, candidates, rfaults, rcrashes>>

\* A statement outside the try block, or of the catch handler, throws: the
\* pass rejects.
PassThrows(p) ==
    /\ rpass[p].pc \in {"list", "next", "fail"}
    /\ rfaults < MaxFaults /\ rfaults' = rfaults + 1
    /\ rpass' = [rpass EXCEPT ![p] = IdlePass]
    /\ rpolicy' = PolicyAfterThrow(p)
    /\ UNCHANGED <<protos, candidates, rcrashes>>

Crash(p) ==
    /\ rpass[p].pc # "idle"
    /\ rcrashes < MaxCrashes /\ rcrashes' = rcrashes + 1
    /\ rpass' = [rpass EXCEPT ![p] = IdlePass]
    /\ UNCHANGED <<protos, candidates, rpolicy, rfaults>>

Step(p) ==
    \/ ListEligible(p)
    \/ ClaimProtoIdea(p)
    \/ \E print \in Outcomes : RefineReturns(p, print)
    \/ RefineThrows(p)
    \/ LoadLatestCandidate(p)
    \/ CommitCandidate(p)
    \/ PersistFailure(p)
    \/ EndPass(p)

Next == \E p \in Passes :
    \/ \E asked \in ProtoIds \cup {0} : BeginPass(p, asked)
    \/ Step(p) \/ CallThrows(p) \/ PassThrows(p) \/ Crash(p)

Spec == Init /\ [][Next]_vars

\* Awaited calls settle, and every pass is called again and again for whatever
\* comes first, also when it is often called for one proto-idea.
EagerSpec == Spec /\ \A p \in Passes : SF_vars(BeginPass(p, 0)) /\ WF_vars(Step(p))

-----------------------------------------------------------------------------
(* Properties.                                                             *)

CandidateRecord ==
    [row : {"unborn", "live", "deleted"}, proto : ProtoIds \cup {0},
     iteration : 0..CandidateCount, print : Prints \cup {Nobody},
     workflow : {"none"} \cup WorkflowState, evaluation : {"none"} \cup EvaluationStatus,
     by : {Nobody}, rank : 0..CandidateCount]

PassRecord ==
    [pc : {"idle", "list", "next", "refine", "latest", "commit", "reject", "fail"},
     asked : ProtoIds \cup {0}, todo : SUBSET ProtoIds,
     cur : ProtoIds \cup {0}, print : Prints \cup {Nobody},
     latest : [id : CandidateIds \cup {0}, iteration : 0..CandidateCount,
               print : Prints \cup {Nobody}],
     processed : 0..BatchSize, created : 0..BatchSize, updated : 0..BatchSize,
     failed : 0..BatchSize]

\* Every variable holds values of its type.
TypeOK ==
    /\ protos \in [ProtoIds -> ProtoRow]
    /\ candidates \in [CandidateIds -> CandidateRecord]
    /\ rpass \in [Passes -> PassRecord]
    /\ rpolicy \in {"NONE", "RUNNING", "COMPLETED", "FAILED"}
    /\ rfaults \in 0..MaxFaults /\ rcrashes \in 0..MaxCrashes

Working(p) == rpass[p].pc \in {"refine", "latest", "commit", "reject", "fail"}

\* The iterations of a proto-idea's candidates are 1, 2, ... without a gap,
\* whatever passes refine it at the same time.
IterationsContiguous ==
    \A i \in ProtoIds :
        LET its == {candidates[c].iteration : c \in CandidatesOf(candidates, i)} IN
        its = {} \/ its = 1..Max(its)

\* A stored candidate is never overwritten with another idea.
CandidatesKeepTheirIdea ==
    [][\A c \in LiveCandidates(candidates) \cap LiveCandidates(candidates') :
        /\ candidates'[c].print = candidates[c].print
        /\ candidates'[c].proto = candidates[c].proto
        /\ candidates'[c].iteration = candidates[c].iteration]_vars

\* The bound on new candidate rows is used up, and a pass may be stuck for it.
RowsUsedUp == ~CandidatesLeft(candidates)
==============================================================================
