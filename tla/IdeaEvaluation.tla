---------------------------- MODULE IdeaEvaluation ----------------------------
(***************************************************************************)
(* The evaluation stage (idea-evaluation.service.js): a pass lists the     *)
(* eligible candidates, the one written longest ago first, claims them,    *)
(* has an agent judge each, and records the decision; a promoted candidate *)
(* gets a row in curated_opportunities.                                    *)
(*                                                                         *)
(* An action is one awaited call of one pass; passes run concurrently, and *)
(* eligibility is judged by the rows as they were when the pass began.     *)
(***************************************************************************)
EXTENDS IdeaRecords

CONSTANTS
    Passes,      \* callers of runIdeaEvaluationPass
    Retriers,    \* the passes called with retryFailed
    Askers,      \* the passes that may be called for one candidate by its id
    BatchSize,   \* candidates a pass may claim (default 1)
    MaxMishaps   \* bound: statements that throw, passes that die with their process

ASSUME EvaluationAssumption ==
    /\ Retriers \subseteq Passes /\ Askers \subseteq Passes
    /\ {CandidateCount, MaxMishaps} \subseteq Nat
    /\ BatchSize \in Nat \ {0}
    /\ Nobody \notin Passes

VARIABLES
    candidates,  \* candidates[c]: the idea_candidates row c
    curated,     \* curated[c]: the pass whose judgement the row of c holds, or Nobody
    epass,       \* epass[p]: the local variables of pass p
    mishaps      \* how many statements threw or passes died

vars == <<candidates, curated, epass, mishaps>>

-----------------------------------------------------------------------------
MaxValidationAttempts == 2

Decisions == {"promote", "refine", "reject"}

\* What a judgement run ends with.
\* parseIdeaEvaluationCandidate: an answer that is no JSON object is no judgement.
Unreadable == "invalid"

Answers == Decisions \cup {Unreadable}

IdlePass == [pc |-> "idle", todo |-> {}, cur |-> 0, attempt |-> 0, decision |-> "none",
             processed |-> 0, completed |-> 0, failed |-> 0]

ToLoop(local) == [local EXCEPT !.pc = "next", !.cur = 0, !.attempt = 0, !.decision = "none"]

\* Rows as refinement stores them, one written after the other.
Init ==
    /\ candidates = [c \in CandidateIds |->
                        [UnbornCandidate EXCEPT
                            !.row = "live", !.proto = 1, !.iteration = c, !.rank = c,
                            !.workflow = "AWAITING_EVALUATION", !.evaluation = "PENDING"]]
    /\ curated = [c \in CandidateIds |-> Nobody]
    /\ epass = [p \in Passes |-> IdlePass]
    /\ mishaps = 0

IsEvaluationEligible(row, requested, retry) ==
    /\ row.evaluation # "PROCESSING"
    /\ \/ requested
       \/ row.workflow = "AWAITING_EVALUATION"
       \/ retry /\ row.evaluation = "FAILED"

\* Faulty: the list is in the order of creation.
PlaceByAge(c) == c

\* The list is ordered by updatedAt.
Place(c) == candidates[c].rank

\* listEligibleIdeaCandidates: all candidates (asked = 0), or one by its id.
ListEligible(p, asked) ==
    /\ epass[p].pc = "idle"
    /\ asked # 0 => p \in Askers
    /\ epass' = [epass EXCEPT ![p] =
        [IdlePass EXCEPT
            !.pc = "next",
            !.todo = {[id |-> c, place |-> Place(c)] :
                c \in {d \in LiveCandidates(candidates) :
                        /\ asked \in {0, d}
                        /\ IsEvaluationEligible(candidates[d], asked = d, p \in Retriers)}}]]
    /\ UNCHANGED <<candidates, curated, mishaps>>

First(todo) == CHOOSE t \in todo : \A u \in todo : t.place <= u.place

\* claimIdeaCandidateForEvaluation: the update has no condition but the id; a
\* row deleted meanwhile is passed over.
ClaimCandidate(p) ==
    /\ epass[p].pc = "next" /\ epass[p].todo # {} /\ epass[p].processed < BatchSize
    /\ LET t == First(epass[p].todo)
           rest == [epass[p] EXCEPT !.todo = @ \ {t}]
       IN IF t.id \in LiveCandidates(candidates)
          THEN /\ candidates' = WriteCandidate(candidates, t.id,
                                    [candidates[t.id] EXCEPT !.evaluation = "PROCESSING"])
               /\ epass' = [epass EXCEPT ![p] =
                               [rest EXCEPT !.pc = "load", !.cur = t.id, !.processed = @ + 1]]
          ELSE /\ epass' = [epass EXCEPT ![p] = rest]
               /\ UNCHANGED candidates
    /\ UNCHANGED <<curated, mishaps>>

\* getCuratedOpportunityPipelineContents, for the prompt.
LoadCurated(p) ==
    /\ epass[p].pc = "load"
    /\ epass' = [epass EXCEPT ![p].pc = "judge"]
    /\ UNCHANGED <<candidates, curated, mishaps>>

\* The answer that just came was not the last allowed.
MayRepair(p) == epass[p].attempt + 1 < MaxValidationAttempts

AfterInvalid(p) == [epass[p] EXCEPT !.pc = "invalid", !.attempt = 0]

\* executeIdeaEvaluationWithRetries: an output that does not validate is sent
\* back for repair; a gateway error is not.
JudgeReturns(p, answer) ==
    /\ epass[p].pc = "judge"
    /\ epass' = [epass EXCEPT ![p] =
        CASE answer \in Decisions ->
                [@ EXCEPT !.pc = "decide", !.attempt = 0, !.decision = answer]
          [] answer = Unreadable ->
                IF MayRepair(p) THEN [epass[p] EXCEPT !.attempt = @ + 1] ELSE AfterInvalid(p)]
    /\ UNCHANGED <<candidates, curated, mishaps>>

\* No agent of the gateway is registered for evaluations, or a call of the
\* gateway fails or times out.
JudgeThrows(p) ==
    /\ epass[p].pc = "judge"
    /\ epass' = [epass EXCEPT ![p].pc = "fail", ![p].attempt = 0]
    /\ UNCHANGED <<candidates, curated, mishaps>>

WorkflowOf(decision) ==
    CASE decision = "promote" -> "PROMOTED"
      [] decision = "refine" -> "NEEDS_REFINEMENT"
      [] decision = "reject" -> "REJECTED"

\* Faulty: an opportunity that exists is left as it is.
CuratedByFirst(p, c) == IF curated[c] = Nobody THEN p ELSE curated[c]

\* Whose judgement the opportunity of c holds once p has promoted it: a row
\* that exists is updated.
CuratedBy(p, c) == p

\* persistIdeaEvaluationSuccess: one transaction, serialised with others on
\* the same candidate by its row lock; it throws when the candidate is gone.
PersistDecision(p) ==
    /\ epass[p].pc = "decide"
    /\ LET c == epass[p].cur IN
       IF c \in LiveCandidates(candidates)
       THEN /\ candidates' = WriteCandidate(candidates, c,
                                [candidates[c] EXCEPT
                                    !.workflow = WorkflowOf(epass[p].decision),
                                    !.evaluation = "COMPLETED", !.by = p])
            /\ curated' = IF epass[p].decision = "promote"
                          THEN [curated EXCEPT ![c] = CuratedBy(p, c)] ELSE curated
            /\ epass' = [epass EXCEPT ![p] = ToLoop([epass[p] EXCEPT !.completed = @ + 1])]
       ELSE /\ epass' = [epass EXCEPT ![p].pc = "fail", ![p].decision = "none"]
            /\ UNCHANGED <<candidates, curated>>
    /\ UNCHANGED mishaps

\* A statement of the try block throws, and the catch handler takes over.
CallThrows(p) ==
    /\ epass[p].pc \in {"decide", "invalid"}
    /\ mishaps < MaxMishaps /\ mishaps' = mishaps + 1
    /\ epass' = [epass EXCEPT ![p].pc = "fail", ![p].decision = "none"]
    /\ UNCHANGED <<candidates, curated>>

\* persistIdeaEvaluationFailure, in the try block (invalid) or in the catch
\* handler (fail).  It throws when the candidate is gone.
PersistFailure(p) ==
    /\ epass[p].pc \in {"invalid", "fail"}
    /\ LET c == epass[p].cur IN
       IF c \in LiveCandidates(candidates)
       THEN /\ candidates' = WriteCandidate(candidates, c,
                                [candidates[c] EXCEPT !.evaluation = "FAILED"])
            /\ epass' = [epass EXCEPT ![p] = ToLoop([epass[p] EXCEPT !.failed = @ + 1])]
       ELSE /\ epass' = [epass EXCEPT ![p] =
                            IF epass[p].pc = "invalid" THEN [@ EXCEPT !.pc = "fail"]
                            ELSE IdlePass]
            /\ UNCHANGED candidates
    /\ UNCHANGED <<curated, mishaps>>

EndPass(p) ==
    /\ epass[p].pc = "next"
    /\ epass[p].todo = {} \/ epass[p].processed = BatchSize
    /\ epass' = [epass EXCEPT ![p] = IdlePass]
    /\ UNCHANGED <<candidates, curated, mishaps>>

\* A statement outside the try block, or of the catch handler, throws: the
\* pass rejects.
PassThrows(p) ==
    /\ epass[p].pc \in {"next", "load", "fail"}
    /\ mishaps < MaxMishaps /\ mishaps' = mishaps + 1
    /\ epass' = [epass EXCEPT ![p] = IdlePass]
    /\ UNCHANGED <<candidates, curated>>

Crash(p) ==
    /\ epass[p].pc # "idle"
    /\ mishaps < MaxMishaps /\ mishaps' = mishaps + 1
    /\ epass' = [epass EXCEPT ![p] = IdlePass]
    /\ UNCHANGED <<candidates, curated>>

Step(p) ==
    \/ ClaimCandidate(p)
    \/ LoadCurated(p)
    \/ \E answer \in Answers : JudgeReturns(p, answer)
    \/ JudgeThrows(p)
    \/ PersistDecision(p)
    \/ PersistFailure(p)
    \/ EndPass(p)

Next == \E p \in Passes :
    \/ \E asked \in CandidateIds \cup {0} : ListEligible(p, asked)
    \/ Step(p) \/ CallThrows(p) \/ PassThrows(p) \/ Crash(p)

Spec == Init /\ [][Next]_vars

\* Awaited calls settle, and every pass is called again and again for whatever
\* comes first, also when it is often called for one candidate.
EagerSpec == Spec /\ \A p \in Passes : SF_vars(ListEligible(p, 0)) /\ WF_vars(Step(p))

-----------------------------------------------------------------------------
(* Properties.                                                             *)

CandidateRecord ==
    [row : {"unborn", "live", "deleted"}, proto : Nat, iteration : Nat, print : {Nobody},
     workflow : {"none"} \cup WorkflowState, evaluation : {"none"} \cup EvaluationStatus,
     by : Passes \cup {Nobody}, rank : 0..CandidateCount]

PassRecord ==
    [pc : {"idle", "next", "load", "judge", "decide", "invalid", "fail"},
     todo : SUBSET [id : CandidateIds, place : 0..CandidateCount],
     cur : CandidateIds \cup {0}, attempt : 0..(MaxValidationAttempts - 1),
     decision : Decisions \cup {"none"},
     processed : 0..BatchSize, completed : 0..BatchSize, failed : 0..BatchSize]

\* Every variable holds values of its type; in particular a claimed candidate
\* costs at most MaxValidationAttempts agent runs.
TypeOK ==
    /\ candidates \in [CandidateIds -> CandidateRecord]
    /\ curated \in [CandidateIds -> Passes \cup {Nobody}]
    /\ epass \in [Passes -> PassRecord]
    /\ mishaps \in 0..MaxMishaps

Working(p) == epass[p].pc \in {"load", "judge", "decide", "invalid", "fail"}

\* The opportunity of a promoted candidate holds the judgement that promoted
\* it last, not one of an earlier evaluation.
PromotedHasSnapshot ==
    \A c \in LiveCandidates(candidates) :
        candidates[c].workflow = "PROMOTED" => curated[c] = candidates[c].by

\* No candidate is left waiting for ever, also behind ones whose evaluation
\* fails again and again, and a claimed one is settled, unless something died
\* or threw.
CandidatesServed ==
    \A c \in CandidateIds :
        /\ []<>(candidates[c].evaluation # "PENDING")
        /\ []<>(candidates[c].evaluation # "PROCESSING" \/ mishaps > 0)

==============================================================================
