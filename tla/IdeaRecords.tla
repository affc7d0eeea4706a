----------------------------- MODULE IdeaRecords -----------------------------
(***************************************************************************)
(* The rows that the stages of the Idea Foundry hand to each other:        *)
(* proto_ideas, extracted from a source and refined into idea_candidates,  *)
(* which are evaluated and promoted to curated_opportunities.  Row ids are *)
(* numbered in the order of creation and never used twice.                 *)
(***************************************************************************)
EXTENDS Naturals, FiniteSets, FiniteSetsExt

CONSTANTS
    ProtoCount,     \* how many proto-idea rows a behaviour may create
    CandidateCount, \* how many idea-candidate rows a behaviour may create
    Nobody          \* no pass

ProtoIds == 1..ProtoCount
CandidateIds == 1..CandidateCount

UnbornProto == [status |-> "unborn", source |-> 0, by |-> Nobody]
DeletedProto == [UnbornProto EXCEPT !.status = "deleted"]

\* refinementStatus of a stored row.
RefinementStatus == {"PENDING", "PROCESSING", "COMPLETED", "FAILED"}

LiveProtos(protos) == {i \in ProtoIds : protos[i].status \in RefinementStatus}

\* rank orders the stored candidates by updatedAt, the oldest first.
UnbornCandidate == [row |-> "unborn", proto |-> 0, iteration |-> 0, print |-> Nobody,
                    workflow |-> "none", evaluation |-> "none", by |-> Nobody, rank |-> 0]
DeletedCandidate == [UnbornCandidate EXCEPT !.row = "deleted"]

WorkflowState == {"AWAITING_EVALUATION", "NEEDS_REFINEMENT", "REJECTED", "PROMOTED"}
EvaluationStatus == {"PENDING", "PROCESSING", "COMPLETED", "FAILED"}

LiveCandidates(candidates) == {c \in CandidateIds : candidates[c].row = "live"}

CandidatesOf(candidates, i) == {c \in LiveCandidates(candidates) : candidates[c].proto = i}

\* candidates with row c replaced and, as the one written last, ranked last.
WriteCandidate(candidates, c, row) ==
    LET old == candidates[c].rank
        others == LiveCandidates(candidates) \ {c}
    IN [d \in CandidateIds |->
          IF d = c THEN [row EXCEPT !.rank = Cardinality(others) + 1]
          ELSE IF d \in others /\ old # 0 /\ candidates[d].rank > old
               THEN [candidates[d] EXCEPT !.rank = @ - 1]
               ELSE candidates[d]]

\* candidates with some rows deleted; the others keep their order.
DeleteCandidates(candidates, doomed) ==
    LET rest == LiveCandidates(candidates) \ doomed IN
    [d \in CandidateIds |->
        IF d \in doomed THEN DeletedCandidate
        ELSE IF d \in rest
             THEN [candidates[d] EXCEPT
                     !.rank = Cardinality({e \in rest : candidates[e].rank <= @})]
             ELSE candidates[d]]

\* The first n ids no row was created with.
FreshProtos(protos, n) ==
    {i \in ProtoIds : /\ protos[i].status = "unborn"
                      /\ Cardinality({j \in 1..i : protos[j].status = "unborn"}) <= n}

FreshCandidate(candidates) == Min({c \in CandidateIds : candidates[c].row = "unborn"})

CandidatesLeft(candidates) == \E c \in CandidateIds : candidates[c].row = "unborn"

ProtoRow ==
    [status : {"unborn", "deleted"} \cup RefinementStatus, source : Nat, by : Nat \cup {Nobody}]
==============================================================================
