------------------------- MODULE IdeaEvaluationProofs -------------------------
(***************************************************************************)
(* Proofs about IdeaEvaluation, for every set of passes, every number of   *)
(* candidates, every batch size and every number of mishaps.               *)
(***************************************************************************)
EXTENDS IdeaEvaluation, FiniteSetTheorems, TLAPS

-----------------------------------------------------------------------------
(* The rows.                                                               *)

LEMMA RankFits ==
    ASSUME NEW c \in CandidateIds, NEW S \in SUBSET (CandidateIds \ {c})
    PROVE  Cardinality(S) + 1 \in 0..CandidateCount
<1>1. CandidateCount \in Nat
  BY EvaluationAssumption
<1>2. IsFiniteSet(CandidateIds) /\ Cardinality(CandidateIds) = CandidateCount
  BY <1>1, FS_Interval DEF CandidateIds
<1>3. /\ IsFiniteSet(CandidateIds \ {c})
      /\ Cardinality(CandidateIds \ {c}) = CandidateCount - 1
  BY <1>2, FS_RemoveElement
<1>4. Cardinality(S) <= CandidateCount - 1 /\ Cardinality(S) \in Nat
  BY <1>3, FS_Subset, FS_CardinalityType
<1> QED BY <1>1, <1>4

\* What a candidate says about its evaluation.
SameJudgement(r, s) ==
    r.row = s.row /\ r.workflow = s.workflow /\ r.by = s.by

\* Writing a row changes nothing of the others but their places.
LEMMA WriteKeepsTheOthers ==
    ASSUME NEW crows \in [CandidateIds -> CandidateRecord], NEW c \in CandidateIds,
           NEW row \in CandidateRecord
    PROVE  /\ WriteCandidate(crows, c, row) \in [CandidateIds -> CandidateRecord]
           /\ SameJudgement(WriteCandidate(crows, c, row)[c], row)
           /\ \A d \in CandidateIds \ {c} :
                 SameJudgement(WriteCandidate(crows, c, row)[d], crows[d])
<1> DEFINE old == crows[c].rank
           others == LiveCandidates(crows) \ {c}
           at(d) == IF d = c THEN [row EXCEPT !.rank = Cardinality(others) + 1]
                    ELSE IF d \in others /\ old # 0 /\ crows[d].rank > old
                         THEN [crows[d] EXCEPT !.rank = crows[d].rank - 1]
                         ELSE crows[d]
<1>1. WriteCandidate(crows, c, row) = [d \in CandidateIds |-> at(d)]
  BY DEF WriteCandidate
<1>2. Cardinality(others) + 1 \in 0..CandidateCount
  BY RankFits DEF LiveCandidates
<1>3. at(c) \in CandidateRecord /\ SameJudgement(at(c), row)
  BY <1>2 DEF CandidateRecord, SameJudgement
<1>4. ASSUME NEW d \in CandidateIds \ {c}
      PROVE  at(d) \in CandidateRecord /\ SameJudgement(at(d), crows[d])
  <2>1. /\ crows[d] \in CandidateRecord
        /\ old \in 0..CandidateCount /\ crows[d].rank \in 0..CandidateCount
    BY DEF CandidateRecord
  <2>2. CASE d \in others /\ old # 0 /\ crows[d].rank > old
    <3>1. crows[d].rank - 1 \in 0..CandidateCount
      BY <2>1, <2>2, EvaluationAssumption
    <3> QED BY <2>1, <2>2, <3>1 DEF CandidateRecord, SameJudgement
  <2>3. CASE ~(d \in others /\ old # 0 /\ crows[d].rank > old)
    BY <2>1, <2>3 DEF SameJudgement
  <2> QED BY <2>2, <2>3
<1> HIDE DEF at
<1> QED BY <1>1, <1>3, <1>4

-----------------------------------------------------------------------------
(* What a pass knows.                                                      *)

AtWork == {"load", "judge", "decide", "invalid", "fail"}

\* A pass works on a candidate it has claimed, has settled the earlier ones, and
\* holds a decision exactly when it is about to store it.
PassFits(local) ==
    /\ local \in PassRecord
    /\ local.pc \in AtWork => local.cur \in CandidateIds
    /\ local.pc = "decide" => local.decision \in Decisions
    /\ local.completed + local.failed + (IF local.pc \in AtWork THEN 1 ELSE 0)
          <= local.processed

EvaluationInv ==
    /\ TypeOK
    /\ \A p \in Passes : PassFits(epass[p])
    /\ PromotedHasSnapshot

LEMMA IdleFits == PassFits(IdlePass)
BY EvaluationAssumption
   DEF PassFits, PassRecord, IdlePass, AtWork, MaxValidationAttempts

LEMMA ToLoopFits ==
    ASSUME NEW local \in PassRecord, local.completed + local.failed <= local.processed
    PROVE  PassFits(ToLoop(local))
<1> DEFINE l == ToLoop(local)
<1>1. /\ l \in PassRecord /\ l.pc = "next"
      /\ l.completed = local.completed /\ l.failed = local.failed
      /\ l.processed = local.processed
  <2>1. 0 \in 0..(MaxValidationAttempts - 1)
    BY DEF MaxValidationAttempts
  <2> QED BY <2>1 DEF PassRecord, ToLoop
<1>2. local.completed \in Nat /\ local.failed \in Nat
  BY EvaluationAssumption DEF PassRecord
<1> QED BY <1>1, <1>2 DEF PassFits, AtWork

\* One more candidate is settled, and the pass turns to the next.
LEMMA SettledFits ==
    ASSUME NEW l, PassFits(l), l.pc \in AtWork
    PROVE  /\ PassFits(ToLoop([l EXCEPT !.completed = l.completed + 1]))
           /\ PassFits(ToLoop([l EXCEPT !.failed = l.failed + 1]))
<1>1. /\ l \in PassRecord /\ l.completed \in Nat /\ l.failed \in Nat
      /\ l.processed \in 0..BatchSize /\ l.completed + l.failed + 1 <= l.processed
      /\ BatchSize \in Nat
  BY EvaluationAssumption DEF PassFits, PassRecord
<1>2. l.completed + 1 \in 0..BatchSize /\ l.failed + 1 \in 0..BatchSize
  BY <1>1
<1>3. ASSUME NEW m \in {[l EXCEPT !.completed = l.completed + 1],
                        [l EXCEPT !.failed = l.failed + 1]}
      PROVE  PassFits(ToLoop(m))
  <2>1. m \in PassRecord
    BY <1>1, <1>2 DEF PassRecord
  <2>2. m.processed = l.processed
        /\ \/ m.completed = l.completed + 1 /\ m.failed = l.failed
           \/ m.completed = l.completed /\ m.failed = l.failed + 1
    BY <1>1 DEF PassRecord
  <2> QED BY <1>1, <2>1, <2>2, ToLoopFits
<1> QED BY <1>3

\* A pass goes on with the candidate it works on.
LEMMA TurnFits ==
    ASSUME NEW l, PassFits(l), l.pc \in AtWork,
           NEW pc \in AtWork, NEW attempt \in 0..(MaxValidationAttempts - 1),
           NEW decision \in Decisions \cup {"none"},
           pc = "decide" => decision \in Decisions
    PROVE  PassFits([l EXCEPT !.pc = pc, !.attempt = attempt, !.decision = decision])
<1> DEFINE m == [l EXCEPT !.pc = pc, !.attempt = attempt, !.decision = decision]
<1>1. l \in PassRecord
  BY DEF PassFits
<1>2. /\ m \in PassRecord /\ m.pc = pc /\ m.cur = l.cur /\ m.decision = decision
      /\ m.completed = l.completed /\ m.failed = l.failed /\ m.processed = l.processed
  BY <1>1 DEF PassRecord, AtWork
<1> HIDE DEF m
<1> QED BY <1>2 DEF PassFits, m

-----------------------------------------------------------------------------
(* The steps of a pass.                                                    *)

\* What a step changes: the local variables of its pass and, for one candidate at
\* most, what its row and its opportunity say.
EvaluationWrites(p) ==
    /\ candidates' \in [CandidateIds -> CandidateRecord]
    /\ curated' \in [CandidateIds -> Passes \cup {Nobody}]
    /\ mishaps' \in 0..MaxMishaps
    /\ PromotedHasSnapshot'
    /\ \E local : epass' = [epass EXCEPT ![p] = local] /\ PassFits(local)

\* A step that writes no row.
LEMMA LocalStep ==
    ASSUME EvaluationInv, NEW p \in Passes, UNCHANGED <<candidates, curated>>,
           mishaps' = mishaps \/ (mishaps < MaxMishaps /\ mishaps' = mishaps + 1),
           NEW local, epass' = [epass EXCEPT ![p] = local], PassFits(local)
    PROVE  EvaluationWrites(p)
<1>1. mishaps' \in 0..MaxMishaps
  BY EvaluationAssumption DEF EvaluationInv, TypeOK
<1>2. PromotedHasSnapshot'
  BY DEF EvaluationInv, PromotedHasSnapshot, LiveCandidates
<1> QED BY <1>1, <1>2 DEF EvaluationWrites, EvaluationInv, TypeOK

\* A candidate is written without a judgement.
LEMMA StatusStep ==
    ASSUME EvaluationInv, NEW p \in Passes, NEW c \in CandidateIds,
           NEW status \in EvaluationStatus,
           candidates' = WriteCandidate(candidates, c,
                                        [candidates[c] EXCEPT !.evaluation = status]),
           UNCHANGED <<curated, mishaps>>,
           NEW local, epass' = [epass EXCEPT ![p] = local], PassFits(local)
    PROVE  EvaluationWrites(p)
<1> DEFINE row == [candidates[c] EXCEPT !.evaluation = status]
<1>1. candidates \in [CandidateIds -> CandidateRecord] /\ PromotedHasSnapshot
  BY DEF EvaluationInv, TypeOK
<1>2. row \in CandidateRecord /\ SameJudgement(row, candidates[c])
  <2>1. candidates[c] \in CandidateRecord
    BY <1>1
  <2> QED BY <2>1 DEF CandidateRecord, SameJudgement
<1> HIDE DEF row
<1>3. /\ candidates' \in [CandidateIds -> CandidateRecord]
      /\ SameJudgement(candidates'[c], row)
      /\ \A d \in CandidateIds \ {c} : SameJudgement(candidates'[d], candidates[d])
  BY <1>1, <1>2, WriteKeepsTheOthers DEF row
<1>4. \A d \in CandidateIds : SameJudgement(candidates'[d], candidates[d])
  BY <1>2, <1>3 DEF SameJudgement
<1>5. PromotedHasSnapshot'
  BY <1>1, <1>4 DEF PromotedHasSnapshot, LiveCandidates, SameJudgement
<1> QED BY <1>3, <1>5 DEF EvaluationWrites, EvaluationInv, TypeOK

LEMMA DecisionStep ==
    ASSUME EvaluationInv, NEW p \in Passes, PersistDecision(p)
    PROVE  EvaluationWrites(p)
<1> DEFINE l == epass[p]
           c == l.cur
           row == [candidates[c] EXCEPT !.workflow = WorkflowOf(l.decision),
                                        !.evaluation = "COMPLETED", !.by = p]
<1>1. /\ candidates \in [CandidateIds -> CandidateRecord] /\ PromotedHasSnapshot
      /\ curated \in [CandidateIds -> Passes \cup {Nobody}]
      /\ PassFits(l) /\ l.pc = "decide" /\ mishaps' = mishaps
  BY DEF EvaluationInv, TypeOK, PersistDecision
<1>2. c \in CandidateIds /\ l.decision \in Decisions /\ l \in PassRecord
  BY <1>1 DEF PassFits, AtWork
<1>3. CASE c \notin LiveCandidates(candidates)
  <2> DEFINE local == [l EXCEPT !.pc = "fail", !.decision = "none"]
  <2>1. UNCHANGED <<candidates, curated>>
        /\ epass' = [epass EXCEPT ![p] = local]
    BY <1>3 DEF PersistDecision, EvaluationInv, TypeOK
  <2>2. PassFits(local)
    <3>1. /\ local \in PassRecord /\ local.pc = "fail" /\ local.cur = c
          /\ local.completed = l.completed /\ local.failed = l.failed
          /\ local.processed = l.processed
      BY <1>2 DEF PassRecord
    <3> HIDE DEF local
    <3> QED BY <1>1, <1>2, <3>1 DEF PassFits, AtWork
  <2> QED BY <1>1, <2>1, <2>2, LocalStep
<1>4. CASE c \in LiveCandidates(candidates)
  <2>1. /\ candidates' = WriteCandidate(candidates, c, row)
        /\ curated' = IF l.decision = "promote" THEN [curated EXCEPT ![c] = p] ELSE curated
        /\ epass' = [epass EXCEPT ![p] = ToLoop([l EXCEPT !.completed = l.completed + 1])]
    BY <1>4, Zenon DEF PersistDecision, CuratedBy
  <2>2. /\ WorkflowOf(l.decision) \in WorkflowState
        /\ WorkflowOf(l.decision) = "PROMOTED" => l.decision = "promote"
    BY <1>2 DEF Decisions, WorkflowOf, WorkflowState
  <2>3. /\ row \in CandidateRecord /\ row.by = p
        /\ row.workflow = WorkflowOf(l.decision)
    <3>1. candidates[c] \in CandidateRecord
      BY <1>1, <1>2
    <3> QED BY <2>2, <3>1 DEF CandidateRecord, EvaluationStatus
  <2> HIDE DEF row, c
  <2>4. /\ candidates' \in [CandidateIds -> CandidateRecord]
        /\ SameJudgement(candidates'[c], row)
        /\ \A d \in CandidateIds \ {c} : SameJudgement(candidates'[d], candidates[d])
    BY <1>1, <1>2, <2>1, <2>3, WriteKeepsTheOthers
  <2>5. /\ curated' \in [CandidateIds -> Passes \cup {Nobody}]
        /\ \A d \in CandidateIds \ {c} : curated'[d] = curated[d]
        /\ l.decision = "promote" => curated'[c] = p
    BY <1>1, <1>2, <2>1
  <2>6. PromotedHasSnapshot'
    <3>1. SUFFICES ASSUME NEW d \in CandidateIds, candidates'[d].row = "live",
                          candidates'[d].workflow = "PROMOTED"
                   PROVE  curated'[d] = candidates'[d].by
      BY DEF PromotedHasSnapshot, LiveCandidates
    <3>2. CASE d = c
      BY <2>2, <2>3, <2>4, <2>5, <3>1, <3>2 DEF SameJudgement
    <3>3. CASE d # c
      BY <1>1, <2>4, <2>5, <3>1, <3>3 DEF SameJudgement, PromotedHasSnapshot, LiveCandidates
    <3> QED BY <3>2, <3>3
  <2>7. PassFits(ToLoop([l EXCEPT !.completed = l.completed + 1]))
    BY <1>1, SettledFits DEF AtWork
  <2>8. mishaps' \in 0..MaxMishaps
    BY <1>1 DEF EvaluationInv, TypeOK
  <2> QED BY <2>1, <2>4, <2>5, <2>6, <2>7, <2>8 DEF EvaluationWrites
<1> QED BY <1>3, <1>4

\* One step per action of the pass.
LEMMA EvaluationStep ==
    ASSUME EvaluationInv, NEW p \in Passes,
           \/ \E asked \in CandidateIds \cup {0} : ListEligible(p, asked)
           \/ Step(p) \/ CallThrows(p) \/ PassThrows(p) \/ Crash(p)
    PROVE  EvaluationWrites(p)
<1> DEFINE l == epass[p]
<1>0. /\ PassFits(l) /\ l \in PassRecord /\ epass \in [Passes -> PassRecord]
      /\ candidates \in [CandidateIds -> CandidateRecord]
      /\ 0 \in 0..(MaxValidationAttempts - 1)
  BY DEF EvaluationInv, TypeOK, PassFits, MaxValidationAttempts
<1>1. ASSUME NEW asked \in CandidateIds \cup {0}, ListEligible(p, asked)
      PROVE  EvaluationWrites(p)
  <2> DEFINE eligible == {d \in LiveCandidates(candidates) :
                            /\ asked \in {0, d}
                            /\ IsEvaluationEligible(candidates[d], asked = d, p \in Retriers)}
             todo == {[id |-> c, place |-> Place(c)] : c \in eligible}
             local == [IdlePass EXCEPT !.pc = "next", !.todo = todo]
  <2>1. /\ epass' = [epass EXCEPT ![p] = local] /\ UNCHANGED <<candidates, curated, mishaps>>
    BY <1>1 DEF ListEligible
  <2>2. todo \in SUBSET [id : CandidateIds, place : 0..CandidateCount]
    <3>1. \A c \in eligible : c \in CandidateIds /\ Place(c) \in 0..CandidateCount
      BY <1>0 DEF LiveCandidates, Place, CandidateRecord
    <3> HIDE DEF eligible
    <3> QED BY <3>1
  <2> HIDE DEF todo
  <2>3. /\ local \in PassRecord /\ local.pc = "next" /\ local.completed = 0
        /\ local.failed = 0 /\ local.processed = 0
    <3>1. /\ IdlePass \in PassRecord /\ IdlePass.completed = 0
          /\ IdlePass.failed = 0 /\ IdlePass.processed = 0
      BY IdleFits DEF PassFits, IdlePass
    <3> QED BY <2>2, <3>1 DEF PassRecord
  <2>4. PassFits(local)
    <3> HIDE DEF local
    <3> QED BY <2>3 DEF PassFits, AtWork
  <2> HIDE DEF local
  <2> QED BY <2>1, <2>4, LocalStep
<1>2. CASE ClaimCandidate(p)
  <2> DEFINE t == First(l.todo)
             rest == [l EXCEPT !.todo = l.todo \ {t}]
             taken == [rest EXCEPT !.pc = "load", !.cur = t.id, !.processed = rest.processed + 1]
  <2>1. /\ l.pc = "next" /\ l.processed < BatchSize /\ UNCHANGED <<curated, mishaps>>
        /\ \/ /\ t.id \in LiveCandidates(candidates)
              /\ candidates' = WriteCandidate(candidates, t.id,
                                   [candidates[t.id] EXCEPT !.evaluation = "PROCESSING"])
              /\ epass' = [epass EXCEPT ![p] = taken]
           \/ /\ epass' = [epass EXCEPT ![p] = rest]
              /\ UNCHANGED candidates
    BY <1>2, Zenon DEF ClaimCandidate
  <2>2. /\ rest \in PassRecord /\ rest.pc = "next"
        /\ rest.completed = l.completed /\ rest.failed = l.failed
        /\ rest.processed = l.processed
    BY <1>0, <2>1 DEF PassRecord
  <2> HIDE DEF rest
  <2>3. /\ l.completed \in Nat /\ l.failed \in Nat /\ l.processed \in 0..BatchSize
        /\ l.completed + l.failed <= l.processed /\ BatchSize \in Nat
    BY <1>0, <2>1, EvaluationAssumption DEF PassFits, PassRecord, AtWork
  <2>4. PassFits(rest)
    BY <2>2, <2>3 DEF PassFits, AtWork
  <2>5. CASE t.id \in LiveCandidates(candidates)
    <3>1. t.id \in CandidateIds
      BY <2>5 DEF LiveCandidates
    <3> HIDE DEF t
    <3>2. rest.processed + 1 \in 0..BatchSize
      BY <2>1, <2>2, <2>3
    <3>3. /\ taken \in PassRecord /\ taken.pc = "load" /\ taken.cur = t.id
          /\ taken.completed = l.completed /\ taken.failed = l.failed
          /\ taken.processed = l.processed + 1
      BY <2>2, <3>1, <3>2 DEF PassRecord
    <3> HIDE DEF taken
    <3>4. PassFits(taken)
      BY <2>3, <3>1, <3>3 DEF PassFits, AtWork
    <3>5. "PROCESSING" \in EvaluationStatus
      BY DEF EvaluationStatus
    <3> QED BY <2>1, <2>4, <3>1, <3>4, <3>5, StatusStep, LocalStep
  <2>6. CASE t.id \notin LiveCandidates(candidates)
    BY <2>1, <2>4, <2>6, LocalStep
  <2> QED BY <2>5, <2>6
<1>3. CASE LoadCurated(p)
  <2> DEFINE local == [l EXCEPT !.pc = "judge", !.attempt = l.attempt, !.decision = l.decision]
  <2>1. /\ epass' = [epass EXCEPT ![p] = [l EXCEPT !.pc = "judge"]] /\ l.pc = "load"
        /\ UNCHANGED <<candidates, curated, mishaps>>
    BY <1>3 DEF LoadCurated
  <2>2. [l EXCEPT !.pc = "judge"] = local
    BY <1>0 DEF PassRecord
  <2>3. PassFits(local)
    BY <1>0, <2>1, TurnFits DEF PassRecord, AtWork
  <2> HIDE DEF local
  <2> QED BY <2>1, <2>2, <2>3, LocalStep
<1>4. ASSUME \/ \E answer \in Answers : JudgeReturns(p, answer)
             \/ JudgeThrows(p) \/ CallThrows(p)
      PROVE  EvaluationWrites(p)
  <2>1. /\ l.pc \in AtWork /\ UNCHANGED <<candidates, curated>>
        /\ mishaps' = mishaps \/ (mishaps < MaxMishaps /\ mishaps' = mishaps + 1)
    BY <1>4 DEF JudgeReturns, JudgeThrows, CallThrows, AtWork
  <2> DEFINE Turn(pc, attempt, decision) ==
                epass' = [epass EXCEPT ![p] =
                   [l EXCEPT !.pc = pc, !.attempt = attempt, !.decision = decision]]
             Goal == \E pc \in AtWork, attempt \in 0..(MaxValidationAttempts - 1),
                        decision \in Decisions \cup {"none"} :
                        /\ pc = "decide" => decision \in Decisions
                        /\ Turn(pc, attempt, decision)
  <2>2. /\ l.attempt \in 0..(MaxValidationAttempts - 1)
        /\ l.decision \in Decisions \cup {"none"}
        /\ {"decide", "invalid", "judge", "fail"} \subseteq AtWork
        /\ Unreadable \notin Decisions
    BY <1>0 DEF PassRecord, AtWork, Unreadable, Decisions
  <2>3. ASSUME NEW answer \in Decisions, JudgeReturns(p, answer)
        PROVE  Goal
    <3>1. Turn("decide", 0, answer)
      BY <1>0, <2>2, <2>3 DEF JudgeReturns
    <3> HIDE DEF Turn
    <3> QED BY <1>0, <2>2, <3>1
  <2>4. ASSUME JudgeReturns(p, Unreadable)
        PROVE  Goal
    <3>1. /\ epass' = [epass EXCEPT ![p] =
               IF MayRepair(p) THEN [l EXCEPT !.attempt = l.attempt + 1] ELSE AfterInvalid(p)]
          /\ l.pc = "judge"
      BY <2>2, <2>4 DEF JudgeReturns
    <3>2. /\ [l EXCEPT !.attempt = l.attempt + 1]
               = [l EXCEPT !.pc = "judge", !.attempt = l.attempt + 1, !.decision = l.decision]
          /\ AfterInvalid(p) = [l EXCEPT !.pc = "invalid", !.attempt = 0,
                                         !.decision = l.decision]
      BY <1>0, <3>1 DEF PassRecord, AfterInvalid
    <3>3. \/ Turn("invalid", 0, l.decision)
          \/ /\ l.attempt + 1 \in 0..(MaxValidationAttempts - 1)
             /\ Turn("judge", l.attempt + 1, l.decision)
      <4>1. CASE MayRepair(p)
        <5>1. l.attempt + 1 \in 0..(MaxValidationAttempts - 1)
          BY <2>2, <4>1 DEF MayRepair, MaxValidationAttempts
        <5> QED BY <3>1, <3>2, <4>1, <5>1
      <4>2. CASE ~MayRepair(p)
        BY <3>1, <3>2, <4>2
      <4> QED BY <4>1, <4>2
    <3> HIDE DEF Turn
    <3> QED BY <1>0, <2>2, <3>3
  <2>5. ASSUME JudgeThrows(p)
        PROVE  Goal
    <3>1. Turn("fail", 0, l.decision)
      BY <1>0, <2>5 DEF JudgeThrows, PassRecord
    <3> HIDE DEF Turn
    <3> QED BY <1>0, <2>2, <3>1
  <2>6. ASSUME CallThrows(p)
        PROVE  Goal
    <3>1. Turn("fail", l.attempt, "none")
      BY <1>0, <2>6 DEF CallThrows, PassRecord
    <3> HIDE DEF Turn
    <3> QED BY <1>0, <2>2, <3>1
  <2>7. Goal
    <3> HIDE DEF Goal
    <3> QED BY <1>4, <2>3, <2>4, <2>5, <2>6 DEF Answers
  <2> QED BY <1>0, <2>1, <2>7, TurnFits, LocalStep
<1>5. CASE PersistFailure(p)
  <2> DEFINE c == l.cur
             more == [l EXCEPT !.failed = l.failed + 1]
  <2>1. /\ l.pc \in {"invalid", "fail"} /\ UNCHANGED <<curated, mishaps>>
        /\ \/ /\ candidates' = WriteCandidate(candidates, c,
                                   [candidates[c] EXCEPT !.evaluation = "FAILED"])
              /\ epass' = [epass EXCEPT ![p] = ToLoop(more)]
           \/ /\ UNCHANGED candidates
              /\ \/ epass' = [epass EXCEPT ![p] = [l EXCEPT !.pc = "fail"]]
                 \/ epass' = [epass EXCEPT ![p] = IdlePass]
    BY <1>0, <1>5 DEF PersistFailure
  <2>2. c \in CandidateIds /\ "FAILED" \in EvaluationStatus
    BY <1>0, <2>1 DEF PassFits, AtWork, EvaluationStatus
  <2>3. PassFits(ToLoop(more))
    BY <1>0, <2>1, SettledFits DEF AtWork
  <2>4. PassFits([l EXCEPT !.pc = "fail"])
    <3>1. [l EXCEPT !.pc = "fail"]
             = [l EXCEPT !.pc = "fail", !.attempt = l.attempt, !.decision = l.decision]
      BY <1>0 DEF PassRecord
    <3>2. PassFits([l EXCEPT !.pc = "fail", !.attempt = l.attempt, !.decision = l.decision])
      BY <1>0, <2>1, TurnFits DEF PassRecord, AtWork
    <3> QED BY <3>1, <3>2
  <2> HIDE DEF more, c
  <2> QED BY <2>1, <2>2, <2>3, <2>4, IdleFits, StatusStep, LocalStep
<1>6. CASE EndPass(p) \/ PassThrows(p) \/ Crash(p)
  <2>1. /\ epass' = [epass EXCEPT ![p] = IdlePass] /\ UNCHANGED <<candidates, curated>>
        /\ mishaps' = mishaps \/ (mishaps < MaxMishaps /\ mishaps' = mishaps + 1)
    BY <1>6 DEF EndPass, PassThrows, Crash
  <2> QED BY <2>1, IdleFits, LocalStep
<1> QED BY <1>1, <1>2, <1>3, <1>4, <1>5, <1>6, DecisionStep DEF Step

-----------------------------------------------------------------------------
(* The invariant and the theorems.                                         *)

LEMMA EvaluationInvInit == Init => EvaluationInv
<1>1. SUFFICES ASSUME Init PROVE EvaluationInv
  OBVIOUS
<1>2. /\ curated = [c \in CandidateIds |-> Nobody]
      /\ epass = [p \in Passes |-> IdlePass]
      /\ mishaps = 0 /\ MaxMishaps \in Nat
  BY <1>1, EvaluationAssumption DEF Init
<1> DEFINE row(c) == [UnbornCandidate EXCEPT
                         !.row = "live", !.proto = 1, !.iteration = c, !.rank = c,
                         !.workflow = "AWAITING_EVALUATION", !.evaluation = "PENDING"]
<1>3. candidates = [c \in CandidateIds |-> row(c)]
  BY <1>1 DEF Init
<1>4. \A c \in CandidateIds : row(c) \in CandidateRecord /\ row(c).workflow # "PROMOTED"
  <2>1. \A c \in CandidateIds : c \in Nat /\ c \in 0..CandidateCount
    BY EvaluationAssumption DEF CandidateIds
  <2>2. UnbornCandidate \in CandidateRecord
    BY EvaluationAssumption DEF UnbornCandidate, CandidateRecord
  <2> QED BY <2>1, <2>2 DEF CandidateRecord, WorkflowState, EvaluationStatus
<1>5. \A p \in Passes : PassFits(epass[p]) /\ epass[p] \in PassRecord
  BY <1>2, IdleFits DEF PassFits
<1>6. TypeOK
  <2> HIDE DEF row
  <2> QED BY <1>2, <1>3, <1>4, <1>5 DEF TypeOK
<1>7. PromotedHasSnapshot
  <2> HIDE DEF row
  <2> QED BY <1>3, <1>4 DEF PromotedHasSnapshot, LiveCandidates
<1> QED BY <1>5, <1>6, <1>7 DEF EvaluationInv

LEMMA EvaluationInvNext ==
    ASSUME EvaluationInv, [Next]_vars
    PROVE  EvaluationInv'
<1>0. /\ epass \in [Passes -> PassRecord] /\ \A p \in Passes : PassFits(epass[p])
  BY DEF EvaluationInv, TypeOK
<1>1. ASSUME NEW p \in Passes, EvaluationWrites(p)
      PROVE  EvaluationInv'
  <2>1. PICK local : epass' = [epass EXCEPT ![p] = local] /\ PassFits(local)
    BY <1>1 DEF EvaluationWrites
  <2>2. /\ epass' \in [Passes -> PassRecord] /\ \A q \in Passes : PassFits(epass'[q])
    BY <1>0, <2>1 DEF PassFits
  <2> QED BY <1>1, <2>2 DEF EvaluationWrites, EvaluationInv, TypeOK
<1>2. CASE UNCHANGED vars
  BY <1>2 DEF vars, EvaluationInv, TypeOK, PromotedHasSnapshot, LiveCandidates
<1> QED BY <1>1, <1>2, EvaluationStep DEF Next

LEMMA EvaluationInvHolds == Spec => []EvaluationInv
<1>1. EvaluationInv /\ [Next]_vars => EvaluationInv'
  BY EvaluationInvNext
<1> QED BY EvaluationInvInit, <1>1, PTL DEF Spec

\* Every variable holds values of its type: a claimed candidate costs two runs of
\* the agent at most (MaxValidationAttempts), and a pass claims no more than a
\* batch, however its statements fail.
THEOREM EvaluationTypes == Spec => []TypeOK
<1>1. EvaluationInv => TypeOK
  BY DEF EvaluationInv
<1> QED BY EvaluationInvHolds, <1>1, PTL

\* The opportunity of a promoted candidate holds the judgement that promoted it
\* last, whatever passes judge it at the same time (persistIdeaEvaluationSuccess).
THEOREM PromotedIsCurrent == Spec => []PromotedHasSnapshot
<1>1. EvaluationInv => PromotedHasSnapshot
  BY DEF EvaluationInv
<1> QED BY EvaluationInvHolds, <1>1, PTL
==============================================================================
