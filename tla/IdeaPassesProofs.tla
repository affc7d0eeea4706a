--------------------------- MODULE IdeaPassesProofs ---------------------------
(***************************************************************************)
(* Proofs about the rows of sources, proto-ideas and candidates, for every *)
(* set of passes and of fingerprints and every number of rows, thrown      *)
(* statements and crashes: first refinement, alone or beside the           *)
(* extraction (Spec, the "passes" of StagesSpec), then the extraction by   *)
(* itself.                                                                 *)
(***************************************************************************)
EXTENDS IdeaStages, FiniteSetTheorems, WellFoundedInduction, TLAPS

-----------------------------------------------------------------------------
(* Least and greatest numbers of a set, and the operators of FiniteSetsExt *)
(* and of the instance that name them.                                     *)

\* Every non-empty set of natural numbers has a least element.
LEMMA LeastNumber ==
    ASSUME NEW T \in SUBSET Nat, T # {}
    PROVE  \E x \in T : \A y \in T : x <= y
<1> DEFINE R == {ss \in Nat \X Nat : ss[1] < ss[2]}
<1>1. IsWellFoundedOn(R, Nat)
  BY NatLessThanWellFounded, Zenon DEF OpToRel
<1>2. PICK x \in T : \A y \in T : ~ (<<y, x>> \in R)
  <2> HIDE DEF R
  <2> QED BY <1>1, WFMin, Zenon
<1>3. \A y \in T : ~(y < x)
  BY <1>2
<1> QED BY <1>3

LEMMA LeastOfIds ==
    ASSUME NEW T \in SUBSET CandidateIds, T # {}
    PROVE  Min(T) \in T /\ \A y \in T : Min(T) <= y
<1>1. T \in SUBSET Nat
  BY PassesAssumption DEF CandidateIds
<1>2. \E x \in T : \A y \in T : x =< y
  BY <1>1, LeastNumber
<1> QED BY <1>2, Zenon DEF Min

\* A bounded set of natural numbers has a greatest element.
LEMMA GreatestNumber ==
    ASSUME NEW N \in Nat, NEW T \in SUBSET (0..N), T # {}
    PROVE  \E x \in T : \A y \in T : x >= y
<1> DEFINE D == {n \in 0..N : N - n \in T}
<1>1. D \in SUBSET Nat /\ D # {}
  <2>1. PICK x \in T : TRUE
    OBVIOUS
  <2>2. N - x \in 0..N /\ N - (N - x) = x
    OBVIOUS
  <2>3. N - x \in D
    BY <2>1, <2>2
  <2>4. \A n \in D : n \in Nat
    OBVIOUS
  <2> QED BY <2>3, <2>4
<1>2. PICK n \in D : \A m \in D : n <= m
  BY <1>1, LeastNumber
<1>3. N - n \in T /\ n \in 0..N
  OBVIOUS
<1>4. ASSUME NEW y \in T
      PROVE  N - n >= y
  <2>1. y \in 0..N /\ N - y \in 0..N /\ N - (N - y) = y
    OBVIOUS
  <2>2. N - y \in D
    BY <2>1
  <2> QED BY <1>2, <1>3, <2>1, <2>2
<1> QED BY <1>3, <1>4

-----------------------------------------------------------------------------
(* The rows.                                                               *)

\* A row of proto_ideas, whatever source it belongs to.
ProtoFits(r) ==
    /\ r = [status |-> r.status, source |-> r.source, by |-> r.by]
    /\ r.status \in {"unborn", "deleted"} \cup RefinementStatus

CandidateRows ==
    [row : {"unborn", "live", "deleted"}, proto : Nat, iteration : Nat,
     print : Prints \cup {Nobody}, workflow : {"none"} \cup WorkflowState,
     evaluation : {"none"} \cup EvaluationStatus, by : {Nobody}, rank : Nat]

\* Two versions of a row that hold the same idea.
SameIdeaRow(r, s) ==
    /\ r.row = s.row /\ r.proto = s.proto
    /\ r.iteration = s.iteration /\ r.print = s.print

\* The earlier iterations of the idea a candidate belongs to are there.
EarlierIterations(rows, i, n) ==
    \A m \in 1..n : \E d \in CandidatesOf(rows, i) : rows[d].iteration = m

\* What the stored rows satisfy: ids are used in their order, so the iteration
\* of a candidate is at most its id.
RowsFit(prows, crows) ==
    /\ prows = [i \in ProtoIds |-> prows[i]]
    /\ \A i \in ProtoIds : ProtoFits(prows[i])
    /\ crows \in [CandidateIds -> CandidateRows]
    /\ \A c, d \in CandidateIds :
          crows[c].row # "unborn" /\ crows[d].row = "unborn" => c < d
    /\ \A c \in LiveCandidates(crows) :
          /\ crows[c].proto \in LiveProtos(prows)
          /\ crows[c].iteration \in 1..c
          /\ EarlierIterations(crows, crows[c].proto, crows[c].iteration)

\* How the rows may change while a pass remembers them: an id is born once, no
\* row comes back, and a candidate whose idea stays is not lost.
Advances(prows, crows, prows2, crows2) ==
    /\ \A i \in ProtoIds : prows[i].status # "unborn" =>
          /\ prows2[i].status # "unborn"
          /\ i \in LiveProtos(prows2) => i \in LiveProtos(prows)
    /\ \A c \in CandidateIds : crows[c].row # "unborn" => crows2[c].row # "unborn"
    /\ \A c \in LiveCandidates(crows) :
          crows[c].proto \in LiveProtos(prows2) \/ c \in LiveCandidates(crows2) =>
             SameIdeaRow(crows2[c], crows[c])

-----------------------------------------------------------------------------
(* What a pass remembers.                                                  *)

AtWork == {"refine", "latest", "commit", "reject", "fail"}

PassRows ==
    [pc : {"idle", "list", "next"} \cup AtWork,
     asked : ProtoIds \cup {0}, todo : SUBSET ProtoIds, cur : ProtoIds \cup {0},
     print : Prints \cup {Nobody},
     latest : [id : CandidateIds \cup {0}, iteration : Nat, print : Prints \cup {Nobody}],
     processed : Nat, created : Nat, updated : Nat, failed : Nat]

\* The latest candidate a pass has loaded is still what it was, as long as the
\* idea the pass works on is there.
LatestHolds(l, prows, crows) ==
    l.latest.id # 0 =>
        /\ l.pc \in AtWork \ {"refine", "latest"}
        /\ l.cur \in LiveProtos(prows) =>
              /\ l.latest.id \in CandidatesOf(crows, l.cur)
              /\ crows[l.latest.id].iteration = l.latest.iteration
              /\ crows[l.latest.id].print = l.latest.print

PassFits(l, prows, crows) ==
    /\ l \in PassRows
    /\ l.pc \in AtWork => l.cur \in ProtoIds /\ prows[l.cur].status # "unborn"
    /\ l.latest.id = 0 => l.latest.iteration = 0
    /\ LatestHolds(l, prows, crows)

PassesInv ==
    /\ RowsFit(protos, candidates)
    /\ rpass = [p \in Passes |-> rpass[p]]
    /\ \A p \in Passes : PassFits(rpass[p], protos, candidates)

\* What a pass remembers stays true while the rows change under it.
LEMMA PassKeepsFitting ==
    ASSUME NEW l, NEW prows, NEW crows, NEW prows2, NEW crows2,
           PassFits(l, prows, crows), RowsFit(prows, crows),
           Advances(prows, crows, prows2, crows2)
    PROVE  PassFits(l, prows2, crows2)
<1>1. l \in PassRows /\ l.cur \in ProtoIds \cup {0} /\ l.latest.id \in CandidateIds \cup {0}
  BY DEF PassFits, PassRows
<1>2. l.pc \in AtWork => l.cur \in ProtoIds /\ prows2[l.cur].status # "unborn"
  BY DEF PassFits, Advances
<1>3. LatestHolds(l, prows2, crows2)
  <2>1. SUFFICES ASSUME l.latest.id # 0
                 PROVE  /\ l.pc \in AtWork \ {"refine", "latest"}
                        /\ l.cur \in LiveProtos(prows2) =>
                              /\ l.latest.id \in CandidatesOf(crows2, l.cur)
                              /\ crows2[l.latest.id].iteration = l.latest.iteration
                              /\ crows2[l.latest.id].print = l.latest.print
    BY DEF LatestHolds
  <2>2. l.pc \in AtWork \ {"refine", "latest"}
    BY <2>1 DEF PassFits, LatestHolds
  <2>3. ASSUME l.cur \in LiveProtos(prows2)
        PROVE  /\ l.latest.id \in CandidatesOf(crows2, l.cur)
               /\ crows2[l.latest.id].iteration = l.latest.iteration
               /\ crows2[l.latest.id].print = l.latest.print
    <3>1. l.cur \in LiveProtos(prows)
      BY <2>2, <2>3 DEF PassFits, Advances
    <3>2. /\ l.latest.id \in CandidatesOf(crows, l.cur)
          /\ crows[l.latest.id].iteration = l.latest.iteration
          /\ crows[l.latest.id].print = l.latest.print
      BY <2>1, <3>1 DEF PassFits, LatestHolds
    <3>3. /\ l.latest.id \in LiveCandidates(crows)
          /\ crows[l.latest.id].proto = l.cur
      BY <3>2 DEF CandidatesOf
    <3>4. SameIdeaRow(crows2[l.latest.id], crows[l.latest.id])
      BY <2>3, <3>3 DEF Advances
    <3> QED BY <3>2, <3>3, <3>4 DEF CandidatesOf, LiveCandidates, SameIdeaRow
  <2> QED BY <2>2, <2>3
<1> QED BY <1>1, <1>2, <1>3 DEF PassFits

LEMMA NothingChanges ==
    ASSUME NEW prows, NEW crows
    PROVE  Advances(prows, crows, prows, crows)
BY DEF Advances, SameIdeaRow

-----------------------------------------------------------------------------
(* Writing and deleting candidates.                                        *)

LEMMA CountsAreNumbers ==
    ASSUME NEW S \in SUBSET CandidateIds
    PROVE  Cardinality(S) \in Nat
<1>1. IsFiniteSet(CandidateIds)
  BY PassesAssumption, FS_Interval DEF CandidateIds
<1> QED BY <1>1, FS_Subset, FS_CardinalityType

\* Writing a row leaves what the other rows hold as it was.
LEMMA WriteKeepsTheOthers ==
    ASSUME NEW crows \in [CandidateIds -> CandidateRows], NEW c \in CandidateIds,
           NEW row \in CandidateRows
    PROVE  /\ WriteCandidate(crows, c, row) \in [CandidateIds -> CandidateRows]
           /\ SameIdeaRow(WriteCandidate(crows, c, row)[c], row)
           /\ \A d \in CandidateIds \ {c} :
                 SameIdeaRow(WriteCandidate(crows, c, row)[d], crows[d])
<1> DEFINE old == crows[c].rank
           others == LiveCandidates(crows) \ {c}
           at(d) == IF d = c THEN [row EXCEPT !.rank = Cardinality(others) + 1]
                    ELSE IF d \in others /\ old # 0 /\ crows[d].rank > old
                         THEN [crows[d] EXCEPT !.rank = crows[d].rank - 1]
                         ELSE crows[d]
<1>1. WriteCandidate(crows, c, row) = [d \in CandidateIds |-> at(d)]
  BY DEF WriteCandidate
<1>2. Cardinality(others) + 1 \in Nat
  BY CountsAreNumbers DEF LiveCandidates
<1>3. at(c) \in CandidateRows /\ SameIdeaRow(at(c), row)
  BY <1>2 DEF CandidateRows, SameIdeaRow
<1>4. ASSUME NEW d \in CandidateIds \ {c}
      PROVE  at(d) \in CandidateRows /\ SameIdeaRow(at(d), crows[d])
  <2>1. crows[d] \in CandidateRows /\ old \in Nat /\ crows[d].rank \in Nat
    BY DEF CandidateRows
  <2>2. CASE d \in others /\ old # 0 /\ crows[d].rank > old
    <3>1. crows[d].rank - 1 \in Nat
      BY <2>1, <2>2
    <3> QED BY <2>1, <2>2, <3>1 DEF CandidateRows, SameIdeaRow
  <2>3. CASE ~(d \in others /\ old # 0 /\ crows[d].rank > old)
    BY <2>1, <2>3 DEF SameIdeaRow
  <2> QED BY <2>2, <2>3
<1> HIDE DEF at
<1> QED BY <1>1, <1>3, <1>4

\* Deleting rows leaves what the other rows hold as it was.
LEMMA DeleteKeepsTheOthers ==
    ASSUME NEW crows \in [CandidateIds -> CandidateRows], NEW doomed \in SUBSET CandidateIds
    PROVE  /\ DeleteCandidates(crows, doomed) \in [CandidateIds -> CandidateRows]
           /\ \A d \in doomed : DeleteCandidates(crows, doomed)[d].row = "deleted"
           /\ \A d \in CandidateIds \ doomed :
                 SameIdeaRow(DeleteCandidates(crows, doomed)[d], crows[d])
<1> DEFINE rest == LiveCandidates(crows) \ doomed
           place(d) == Cardinality({e \in rest : crows[e].rank <= crows[d].rank})
           at(d) == IF d \in doomed THEN DeletedCandidate
                    ELSE IF d \in rest
                         THEN [crows[d] EXCEPT !.rank = place(d)]
                         ELSE crows[d]
<1>1. DeleteCandidates(crows, doomed) = [d \in CandidateIds |-> at(d)]
  BY DEF DeleteCandidates
<1>2. \A d \in CandidateIds : place(d) \in Nat
  BY CountsAreNumbers DEF LiveCandidates
<1>3. \A d \in doomed : at(d) \in CandidateRows /\ at(d).row = "deleted"
  BY DEF DeletedCandidate, UnbornCandidate, CandidateRows
<1>4. ASSUME NEW d \in CandidateIds \ doomed
      PROVE  at(d) \in CandidateRows /\ SameIdeaRow(at(d), crows[d])
  <2> HIDE DEF place
  <2>1. crows[d] \in CandidateRows /\ place(d) \in Nat
    BY <1>2
  <2> QED BY <2>1 DEF CandidateRows, SameIdeaRow
<1> HIDE DEF at
<1> QED BY <1>1, <1>3, <1>4

-----------------------------------------------------------------------------
(* The operators as refinement and as extraction know them.                *)

LEMMA SameOperators ==
    /\ Refinement!ProtoIds = ProtoIds /\ Refinement!CandidateIds = CandidateIds
    /\ \A prows : Refinement!LiveProtos(prows) = LiveProtos(prows)
    /\ \A prows : Extraction!LiveProtos(prows) = LiveProtos(prows)
    /\ Extraction!ProtoIds = ProtoIds
    /\ \A crows : Refinement!LiveCandidates(crows) = LiveCandidates(crows)
    /\ \A crows, i : Refinement!CandidatesOf(crows, i) = CandidatesOf(crows, i)
    /\ \A crows : Refinement!FreshCandidate(crows) = FreshCandidate(crows)
    /\ \A crows, c, row :
          Refinement!WriteCandidate(crows, c, row) = WriteCandidate(crows, c, row)
<1>1. Refinement!ProtoIds = ProtoIds /\ Refinement!CandidateIds = CandidateIds
      /\ Extraction!ProtoIds = ProtoIds
  BY DEF Refinement!ProtoIds, ProtoIds, Refinement!CandidateIds, CandidateIds,
         Extraction!ProtoIds
<1>2. /\ \A prows : Refinement!LiveProtos(prows) = LiveProtos(prows)
      /\ \A prows : Extraction!LiveProtos(prows) = LiveProtos(prows)
  BY <1>1 DEF Refinement!LiveProtos, Extraction!LiveProtos, LiveProtos,
              Refinement!RefinementStatus, Extraction!RefinementStatus, RefinementStatus
<1>3. \A crows : Refinement!LiveCandidates(crows) = LiveCandidates(crows)
  BY <1>1 DEF Refinement!LiveCandidates, LiveCandidates
<1>4. \A crows, i : Refinement!CandidatesOf(crows, i) = CandidatesOf(crows, i)
  BY <1>3 DEF Refinement!CandidatesOf, CandidatesOf
<1>5. \A crows : Refinement!FreshCandidate(crows) = FreshCandidate(crows)
  BY <1>1 DEF Refinement!FreshCandidate, FreshCandidate, Refinement!Min, Min
<1>6. \A crows, c, row :
          Refinement!WriteCandidate(crows, c, row) = WriteCandidate(crows, c, row)
  <2>1. SUFFICES ASSUME NEW crows, NEW c, NEW row
                 PROVE  Refinement!WriteCandidate(crows, c, row)
                           = WriteCandidate(crows, c, row)
    OBVIOUS
  <2>2. Refinement!LiveCandidates(crows) = LiveCandidates(crows)
    BY <1>3
  <2>3. \A S : Refinement!Cardinality(S) = Cardinality(S)
    BY DEF Refinement!Cardinality, Cardinality, Refinement!IsFiniteSet, IsFiniteSet
  <2> QED BY <1>1, <2>2, <2>3, Zenon DEF Refinement!WriteCandidate, WriteCandidate
<1> QED BY <1>1, <1>2, <1>3, <1>4, <1>5, <1>6

-----------------------------------------------------------------------------
(* What the calls of a refinement pass write.                              *)

WithStatus(prows, i, status) == [prows EXCEPT ![i].status = status]

\* The status of a stored proto-idea changes, and nothing else.
LEMMA StatusWritten ==
    ASSUME NEW prows, NEW crows, RowsFit(prows, crows),
           NEW i \in LiveProtos(prows), NEW status \in RefinementStatus
    PROVE  /\ LiveProtos(WithStatus(prows, i, status)) = LiveProtos(prows)
           /\ WithStatus(prows, i, status)[i].status = status
           /\ RowsFit(WithStatus(prows, i, status), crows)
           /\ Advances(prows, crows, WithStatus(prows, i, status), crows)
<1> DEFINE prows2 == WithStatus(prows, i, status)
<1>1. /\ i \in ProtoIds /\ prows[i].status \in RefinementStatus
      /\ prows = [j \in ProtoIds |-> prows[j]]
      /\ \A j \in ProtoIds : ProtoFits(prows[j])
  BY DEF LiveProtos, RowsFit
<1>2. /\ prows2 = [j \in ProtoIds |-> prows2[j]]
      /\ prows2[i] = [status |-> status, source |-> prows[i].source, by |-> prows[i].by]
      /\ \A j \in ProtoIds \ {i} : prows2[j] = prows[j]
  BY <1>1 DEF ProtoFits, WithStatus
<1> HIDE DEF prows2
<1>3. \A j \in ProtoIds : ProtoFits(prows2[j])
  BY <1>1, <1>2 DEF ProtoFits
<1>4. LiveProtos(prows2) = LiveProtos(prows) /\ prows2[i].status = status
  BY <1>1, <1>2 DEF LiveProtos
<1>5. "unborn" \notin RefinementStatus
  BY DEF RefinementStatus
<1>6. RowsFit(prows2, crows)
  BY <1>2, <1>3, <1>4 DEF RowsFit
<1>7. Advances(prows, crows, prows2, crows)
  BY <1>1, <1>2, <1>4, <1>5 DEF Advances, SameIdeaRow
<1> QED BY <1>4, <1>6, <1>7 DEF prows2

\* A further candidate of an idea is stored: the next iteration, in a new row.
LEMMA NewCandidateStored ==
    ASSUME NEW prows, NEW crows, NEW crows2, RowsFit(prows, crows),
           NEW i \in LiveProtos(prows), NEW n \in Nat, NEW row \in CandidateRows,
           EarlierIterations(crows, i, n),
           n = 0 \/ \E d \in LiveCandidates(crows) : crows[d].iteration = n,
           row.row = "live", row.proto = i, row.iteration = n + 1,
           CandidatesLeft(crows),
           crows2 = WriteCandidate(crows, FreshCandidate(crows), row)
    PROVE  RowsFit(prows, crows2) /\ Advances(prows, crows, prows, crows2)
<1> DEFINE c == FreshCandidate(crows)
           Unborn == {d \in CandidateIds : crows[d].row = "unborn"}
<1>1. c \in Unborn /\ \A d \in Unborn : c <= d
  <2>1. Unborn \in SUBSET CandidateIds /\ Unborn # {}
    BY DEF CandidatesLeft
  <2> QED BY <2>1, LeastOfIds DEF FreshCandidate
<1>2. \A d \in CandidateIds : d \in Nat /\ d >= 1
  BY PassesAssumption DEF CandidateIds
<1> HIDE DEF c
<1>3. /\ crows \in [CandidateIds -> CandidateRows]
      /\ \A d, e \in CandidateIds :
            crows[d].row # "unborn" /\ crows[e].row = "unborn" => d < e
      /\ \A d \in LiveCandidates(crows) :
            /\ crows[d].proto \in LiveProtos(prows)
            /\ crows[d].iteration \in 1..d
            /\ EarlierIterations(crows, crows[d].proto, crows[d].iteration)
  BY DEF RowsFit
<1>4. /\ crows2 \in [CandidateIds -> CandidateRows]
      /\ SameIdeaRow(crows2[c], row)
      /\ \A d \in CandidateIds \ {c} : SameIdeaRow(crows2[d], crows[d])
  BY <1>1, <1>3, WriteKeepsTheOthers DEF c
<1>5. /\ c \in CandidateIds /\ crows[c].row = "unborn"
      /\ crows2[c].row = "live" /\ crows2[c].proto = i /\ crows2[c].iteration = n + 1
  BY <1>1, <1>4 DEF SameIdeaRow
<1>6. \A d \in CandidateIds \ {c} :
         /\ crows2[d].row = crows[d].row /\ crows2[d].proto = crows[d].proto
         /\ crows2[d].iteration = crows[d].iteration
  BY <1>4 DEF SameIdeaRow
<1>7. \A d, e \in CandidateIds :
         crows2[d].row # "unborn" /\ crows2[e].row = "unborn" => d < e
  <2>1. SUFFICES ASSUME NEW d \in CandidateIds, NEW e \in CandidateIds,
                        crows2[d].row # "unborn", crows2[e].row = "unborn"
                 PROVE  d < e
    OBVIOUS
  <2>2. e # c /\ crows[e].row = "unborn"
    BY <1>5, <1>6, <2>1
  <2>3. CASE d = c
    BY <1>1, <1>2, <2>2, <2>3
  <2>4. CASE d # c
    BY <1>3, <1>6, <2>1, <2>2, <2>4
  <2> QED BY <2>3, <2>4
<1>8. /\ LiveCandidates(crows2) = LiveCandidates(crows) \cup {c}
      /\ c \notin LiveCandidates(crows)
  BY <1>5, <1>6 DEF LiveCandidates
<1>9. \A j : /\ CandidatesOf(crows, j) \subseteq CandidatesOf(crows2, j)
             /\ \A d \in CandidatesOf(crows, j) : crows2[d].iteration = crows[d].iteration
  BY <1>6, <1>8 DEF CandidatesOf, LiveCandidates
<1>10. \A j, m : EarlierIterations(crows, j, m) => EarlierIterations(crows2, j, m)
  BY <1>9 DEF EarlierIterations
<1>11. n + 1 \in 1..c /\ EarlierIterations(crows2, i, n + 1)
  <2>1. n < c
    <3>1. CASE n = 0
      BY <1>2, <1>5, <3>1
    <3>2. ASSUME NEW d \in LiveCandidates(crows), crows[d].iteration = n
          PROVE  n < c
      <4>1. d \in CandidateIds /\ crows[d].row # "unborn" /\ n \in 1..d
        BY <1>3, <3>2 DEF LiveCandidates
      <4> QED BY <1>2, <1>3, <1>5, <4>1
    <3> QED BY <3>1, <3>2
  <2>2. EarlierIterations(crows2, i, n)
    BY <1>10
  <2>3. c \in CandidatesOf(crows2, i)
    BY <1>5, <1>8 DEF CandidatesOf
  <2>4. \A m \in 1..(n + 1) : m \in 1..n \/ m = n + 1
    OBVIOUS
  <2>5. EarlierIterations(crows2, i, n + 1)
    BY <1>5, <2>2, <2>3, <2>4 DEF EarlierIterations
  <2> QED BY <1>2, <1>5, <2>1, <2>5
<1>12. \A d \in LiveCandidates(crows2) :
          /\ crows2[d].proto \in LiveProtos(prows)
          /\ crows2[d].iteration \in 1..d
          /\ EarlierIterations(crows2, crows2[d].proto, crows2[d].iteration)
  <2>1. SUFFICES ASSUME NEW d \in LiveCandidates(crows2)
                 PROVE  /\ crows2[d].proto \in LiveProtos(prows)
                        /\ crows2[d].iteration \in 1..d
                        /\ EarlierIterations(crows2, crows2[d].proto, crows2[d].iteration)
    OBVIOUS
  <2>2. CASE d = c
    BY <1>5, <1>11, <2>2
  <2>3. CASE d # c
    <3>1. d \in LiveCandidates(crows) /\ d \in CandidateIds
      BY <1>8, <2>3 DEF LiveCandidates
    <3> QED BY <1>3, <1>6, <1>10, <2>3, <3>1
  <2> QED BY <2>2, <2>3
<1>13. RowsFit(prows, crows2)
  BY <1>4, <1>7, <1>12 DEF RowsFit
<1>14. Advances(prows, crows, prows, crows2)
  BY <1>4, <1>5, <1>6, <1>8 DEF Advances, LiveCandidates
<1> QED BY <1>13, <1>14

\* The latest candidate is written again with the idea it already holds.
LEMMA CandidateUpdated ==
    ASSUME NEW prows, NEW crows, NEW crows2, RowsFit(prows, crows),
           NEW c \in LiveCandidates(crows), NEW row \in CandidateRows,
           SameIdeaRow(row, crows[c]),
           crows2 = WriteCandidate(crows, c, row)
    PROVE  RowsFit(prows, crows2) /\ Advances(prows, crows, prows, crows2)
<1>1. crows \in [CandidateIds -> CandidateRows] /\ c \in CandidateIds
  BY DEF RowsFit, LiveCandidates
<1>2. /\ crows2 \in [CandidateIds -> CandidateRows]
      /\ SameIdeaRow(crows2[c], row)
      /\ \A d \in CandidateIds \ {c} : SameIdeaRow(crows2[d], crows[d])
  BY <1>1, WriteKeepsTheOthers
<1>3. \A d \in CandidateIds : SameIdeaRow(crows2[d], crows[d])
  BY <1>2 DEF SameIdeaRow
<1>4. \A d \in CandidateIds :
         /\ crows2[d].row = crows[d].row /\ crows2[d].proto = crows[d].proto
         /\ crows2[d].iteration = crows[d].iteration
  BY <1>3 DEF SameIdeaRow
<1>5. LiveCandidates(crows2) = LiveCandidates(crows)
  BY <1>4 DEF LiveCandidates
<1>6. \A j : CandidatesOf(crows2, j) = CandidatesOf(crows, j)
  BY <1>4, <1>5 DEF CandidatesOf, LiveCandidates
<1>7. \A j, m : EarlierIterations(crows, j, m) => EarlierIterations(crows2, j, m)
  BY <1>4, <1>6 DEF EarlierIterations, CandidatesOf, LiveCandidates
<1>8. \A d \in LiveCandidates(crows2) :
         /\ crows2[d].proto \in LiveProtos(prows)
         /\ crows2[d].iteration \in 1..d
         /\ EarlierIterations(crows2, crows2[d].proto, crows2[d].iteration)
  <2>1. \A d \in LiveCandidates(crows) : d \in CandidateIds
    BY DEF LiveCandidates
  <2>2. \A d \in LiveCandidates(crows) :
           /\ crows[d].proto \in LiveProtos(prows)
           /\ crows[d].iteration \in 1..d
           /\ EarlierIterations(crows, crows[d].proto, crows[d].iteration)
    BY DEF RowsFit
  <2> QED BY <1>4, <1>5, <1>7, <2>1, <2>2
<1>9. RowsFit(prows, crows2)
  BY <1>2, <1>4, <1>8 DEF RowsFit
<1>10. Advances(prows, crows, prows, crows2)
  BY <1>3, <1>4 DEF Advances, LiveCandidates
<1> QED BY <1>9, <1>10

-----------------------------------------------------------------------------
(* What a commit of the extraction does to the rows of both stages.        *)

\* New ideas are born and the old ones go, each with its candidates.
LEMMA IdeasReplaced ==
    ASSUME NEW prows, NEW crows, NEW prows2, NEW crows2, RowsFit(prows, crows),
           prows2 = [i \in ProtoIds |-> prows2[i]],
           \A i \in ProtoIds : ProtoFits(prows2[i]),
           \A i \in ProtoIds : prows[i].status # "unborn" =>
              /\ prows2[i].status # "unborn"
              /\ i \in LiveProtos(prows2) => i \in LiveProtos(prows),
           crows2 = DeleteCandidates(crows, {c \in LiveCandidates(crows) :
                                                crows[c].proto \notin LiveProtos(prows2)})
    PROVE  RowsFit(prows2, crows2) /\ Advances(prows, crows, prows2, crows2)
<1> DEFINE doomed == {c \in LiveCandidates(crows) : crows[c].proto \notin LiveProtos(prows2)}
<1>1. crows \in [CandidateIds -> CandidateRows] /\ doomed \in SUBSET CandidateIds
  BY DEF RowsFit, LiveCandidates
<1>2. /\ crows2 \in [CandidateIds -> CandidateRows]
      /\ \A d \in doomed : crows2[d].row = "deleted"
      /\ \A d \in CandidateIds \ doomed : SameIdeaRow(crows2[d], crows[d])
  <2>1. crows2 = DeleteCandidates(crows, doomed)
    OBVIOUS
  <2> HIDE DEF doomed
  <2>2. /\ DeleteCandidates(crows, doomed) \in [CandidateIds -> CandidateRows]
        /\ \A d \in doomed : DeleteCandidates(crows, doomed)[d].row = "deleted"
        /\ \A d \in CandidateIds \ doomed :
              SameIdeaRow(DeleteCandidates(crows, doomed)[d], crows[d])
    BY <1>1, DeleteKeepsTheOthers, Zenon
  <2> QED BY <2>1, <2>2, Zenon
<1>3. \A d \in CandidateIds \ doomed :
         /\ crows2[d].row = crows[d].row /\ crows2[d].proto = crows[d].proto
         /\ crows2[d].iteration = crows[d].iteration
  BY <1>2 DEF SameIdeaRow
<1>4. LiveCandidates(crows2) = LiveCandidates(crows) \ doomed
  BY <1>2, <1>3 DEF LiveCandidates
<1>5. \A d \in LiveCandidates(crows2) :
         /\ d \in LiveCandidates(crows) /\ d \in CandidateIds /\ d \notin doomed
         /\ crows[d].proto \in LiveProtos(prows2)
  BY <1>4 DEF LiveCandidates
<1>6. \A j \in LiveProtos(prows2) : CandidatesOf(crows2, j) = CandidatesOf(crows, j)
  BY <1>3, <1>4, <1>5 DEF CandidatesOf
<1>7. \A j \in LiveProtos(prows2) : \A m :
         EarlierIterations(crows, j, m) => EarlierIterations(crows2, j, m)
  BY <1>3, <1>5, <1>6 DEF EarlierIterations, CandidatesOf
<1>8. \A d \in LiveCandidates(crows2) :
         /\ crows2[d].proto \in LiveProtos(prows2)
         /\ crows2[d].iteration \in 1..d
         /\ EarlierIterations(crows2, crows2[d].proto, crows2[d].iteration)
  BY <1>3, <1>5, <1>7 DEF RowsFit
<1>9. \A d, e \in CandidateIds :
         crows2[d].row # "unborn" /\ crows2[e].row = "unborn" => d < e
  <2>1. \A d \in CandidateIds : (crows2[d].row = "unborn") <=> (crows[d].row = "unborn")
    BY <1>2, <1>3 DEF LiveCandidates
  <2> QED BY <2>1 DEF RowsFit
<1>10. RowsFit(prows2, crows2)
  BY <1>2, <1>8, <1>9 DEF RowsFit
<1>11. Advances(prows, crows, prows2, crows2)
  <2>1. \A d \in CandidateIds : crows[d].row # "unborn" => crows2[d].row # "unborn"
    BY <1>2, <1>3
  <2>2. \A d \in LiveCandidates(crows) :
           crows[d].proto \in LiveProtos(prows2) \/ d \in LiveCandidates(crows2) =>
              SameIdeaRow(crows2[d], crows[d])
    BY <1>2, <1>4 DEF LiveCandidates
  <2> QED BY <2>1, <2>2 DEF Advances
<1> QED BY <1>10, <1>11

-----------------------------------------------------------------------------
(* The steps of a refinement pass.                                         *)

LEMMA IdleFits ==
    ASSUME NEW prows, NEW crows
    PROVE  PassFits(Refinement!IdlePass, prows, crows)
BY DEF PassFits, PassRows, LatestHolds, AtWork, Refinement!IdlePass, Refinement!NoCandidate

LEMMA ToLoopFits ==
    ASSUME NEW l \in PassRows, NEW prows, NEW crows
    PROVE  PassFits(Refinement!ToLoop(l), prows, crows)
BY DEF PassFits, PassRows, LatestHolds, AtWork, Refinement!ToLoop, Refinement!NoCandidate

\* A pass turns to another call, or gives up, with what it remembers.
LEMMA TurnFits ==
    ASSUME NEW l, NEW prows, NEW crows, PassFits(l, prows, crows),
           NEW pc \in AtWork, l.pc \in AtWork,
           pc \in {"refine", "latest"} => l.pc \in {"refine", "latest"}
    PROVE  PassFits([l EXCEPT !.pc = pc], prows, crows)
<1> DEFINE m == [l EXCEPT !.pc = pc]
<1>1. l \in PassRows
  BY DEF PassFits
<1>2. /\ m \in PassRows /\ m.pc = pc /\ m.cur = l.cur /\ m.latest = l.latest
  BY <1>1 DEF PassRows
<1> HIDE DEF m
<1>3. LatestHolds(m, prows, crows)
  BY <1>2 DEF PassFits, LatestHolds
<1> QED BY <1>2, <1>3 DEF PassFits, m

\* What a step of pass p does to the rows and to its own local variables.
RefinementWrites(p) ==
    /\ RowsFit(protos', candidates')
    /\ Advances(protos, candidates, protos', candidates')
    /\ \E local : /\ rpass' = [rpass EXCEPT ![p] = local]
                  /\ PassFits(local, protos', candidates')

\* A step that writes no row.
LEMMA LocalStep ==
    ASSUME PassesInv, NEW p \in Passes, UNCHANGED <<protos, candidates>>,
           NEW local, rpass' = [rpass EXCEPT ![p] = local],
           PassFits(local, protos, candidates)
    PROVE  RefinementWrites(p)
<1>1. RowsFit(protos', candidates') /\ Advances(protos, candidates, protos', candidates')
  BY NothingChanges DEF PassesInv
<1>2. PassFits(local, protos', candidates')
  OBVIOUS
<1> QED BY <1>1, <1>2 DEF RefinementWrites

LEMMA ClaimedFits ==
    ASSUME NEW l \in PassRows, NEW i \in ProtoIds
    PROVE  LET taken == [l EXCEPT !.pc = "refine", !.cur = i, !.processed = l.processed + 1]
           IN taken \in PassRows /\ taken.pc = "refine" /\ taken.cur = i
              /\ taken.latest = l.latest
<1>1. l.processed + 1 \in Nat
  BY DEF PassRows
<1> QED BY <1>1 DEF PassRows, AtWork

LEMMA ClaimWrites ==
    ASSUME PassesInv, NEW p \in Passes, Refinement!ClaimProtoIdea(p)
    PROVE  RefinementWrites(p)
<1> DEFINE l == rpass[p]
           rest == [l EXCEPT !.todo = l.todo \ {Refinement!Min(l.todo)}]
           taken(i) == [rest EXCEPT !.pc = "refine", !.cur = i,
                                    !.processed = rest.processed + 1]
<1>1. l \in PassRows /\ l.processed \in Nat /\ PassFits(l, protos, candidates)
  BY DEF PassesInv, PassFits, PassRows
<1>2. /\ l.pc = "next" /\ UNCHANGED candidates
      /\ \/ \E i \in LiveProtos(protos) :
              /\ protos' = WithStatus(protos, i, "PROCESSING")
              /\ rpass' = [rpass EXCEPT ![p] = taken(i)]
         \/ /\ rpass' = [rpass EXCEPT ![p] = rest]
            /\ UNCHANGED protos
  <2>1. Refinement!LiveProtos(protos) = LiveProtos(protos)
    BY SameOperators
  <2> QED BY <2>1 DEF Refinement!ClaimProtoIdea, WithStatus
<1>3. l.latest.id = 0 /\ l.latest.iteration = 0
  BY <1>1, <1>2 DEF PassFits, LatestHolds, AtWork
<1>4. rest \in PassRows /\ rest.pc = "next" /\ rest.latest = l.latest
  BY <1>1, <1>2 DEF PassRows
<1> HIDE DEF rest
<1>5. CASE rpass' = [rpass EXCEPT ![p] = rest] /\ UNCHANGED protos
  <2>1. PassFits(rest, protos, candidates)
    BY <1>3, <1>4 DEF PassFits, LatestHolds, AtWork
  <2> QED BY <1>2, <1>5, <2>1, LocalStep
<1>6. ASSUME NEW i \in LiveProtos(protos),
             protos' = WithStatus(protos, i, "PROCESSING"),
             rpass' = [rpass EXCEPT ![p] = taken(i)]
      PROVE  RefinementWrites(p)
  <2>1. /\ LiveProtos(protos') = LiveProtos(protos) /\ protos'[i].status = "PROCESSING"
        /\ RowsFit(protos', candidates) /\ Advances(protos, candidates, protos', candidates)
    <3>1. "PROCESSING" \in RefinementStatus
      BY DEF RefinementStatus
    <3>2. RowsFit(protos, candidates)
      BY DEF PassesInv
    <3> HIDE DEF taken
    <3> QED BY <1>6, <3>1, <3>2, StatusWritten
  <2>2. i \in ProtoIds
    BY <1>6 DEF LiveProtos
  <2>3. /\ taken(i) \in PassRows /\ taken(i).pc = "refine" /\ taken(i).cur = i
        /\ taken(i).latest = l.latest
    BY <1>4, <2>2, ClaimedFits
  <2> HIDE DEF taken
  <2>4. PassFits(taken(i), protos', candidates)
    BY <1>3, <2>1, <2>2, <2>3 DEF PassFits, LatestHolds, AtWork
  <2> QED BY <1>2, <1>6, <2>1, <2>4 DEF RefinementWrites
<1> QED BY <1>2, <1>5, <1>6

\* The latest candidate is loaded: what it holds is true of its row.
LEMMA LoadWrites ==
    ASSUME PassesInv, NEW p \in Passes, Refinement!LoadLatestCandidate(p)
    PROVE  RefinementWrites(p)
<1> DEFINE l == rpass[p]
           mine == CandidatesOf(candidates, l.cur)
           found(c) == [l EXCEPT !.pc = "commit",
                           !.latest = [id |-> c, iteration |-> candidates[c].iteration,
                                       print |-> candidates[c].print]]
<1>1. l \in PassRows /\ PassFits(l, protos, candidates)
  BY DEF PassesInv, PassFits
<1>2. /\ l.pc = "latest" /\ UNCHANGED <<protos, candidates>>
      /\ \/ rpass' = [rpass EXCEPT ![p] = [l EXCEPT !.pc = "commit"]]
         \/ \E c \in mine : rpass' = [rpass EXCEPT ![p] = found(c)]
  <2>1. Refinement!CandidatesOf(candidates, l.cur) = mine
    BY SameOperators
  <2>2. \A c : [rpass EXCEPT ![p].pc = "commit",
                            ![p].latest = [id |-> c, iteration |-> candidates[c].iteration,
                                           print |-> candidates[c].print]]
                  = [rpass EXCEPT ![p] = found(c)]
    BY DEF PassesInv
  <2> HIDE DEF mine, found
  <2> QED BY <2>1, <2>2 DEF Refinement!LoadLatestCandidate
<1>3. CASE rpass' = [rpass EXCEPT ![p] = [l EXCEPT !.pc = "commit"]]
  <2>1. PassFits([l EXCEPT !.pc = "commit"], protos, candidates)
    BY <1>1, <1>2, TurnFits DEF AtWork
  <2> QED BY <1>2, <1>3, <2>1, LocalStep
<1>4. ASSUME NEW c \in mine, rpass' = [rpass EXCEPT ![p] = found(c)]
      PROVE  RefinementWrites(p)
  <2>1. c \in CandidateIds /\ c \in LiveCandidates(candidates) /\ candidates[c] \in CandidateRows
    BY <1>4 DEF CandidatesOf, LiveCandidates, PassesInv, RowsFit
  <2>2. c # 0
    BY <2>1, PassesAssumption DEF CandidateIds
  <2>3. /\ found(c) \in PassRows /\ found(c).pc = "commit" /\ found(c).cur = l.cur
        /\ found(c).latest.id = c /\ found(c).latest.iteration = candidates[c].iteration
        /\ found(c).latest.print = candidates[c].print
    BY <1>1, <2>1 DEF PassRows, CandidateRows, AtWork
  <2> HIDE DEF found
  <2>4. PassFits(found(c), protos, candidates)
    BY <1>1, <1>2, <1>4, <2>2, <2>3 DEF PassFits, LatestHolds, AtWork
  <2> QED BY <1>2, <1>4, <2>4, LocalStep
<1> QED BY <1>2, <1>3, <1>4

\* The result is stored, as a new version of the latest candidate or as the
\* next iteration, and the proto-idea is COMPLETED.
LEMMA CommitWrites ==
    ASSUME PassesInv, NEW p \in Passes, Refinement!CommitCandidate(p)
    PROVE  RefinementWrites(p)
<1> DEFINE l == rpass[p]
           same == Refinement!SameIdea(p)
           row == Refinement!CandidateRow(p)
           c == IF same THEN l.latest.id ELSE FreshCandidate(candidates)
           stored == [row EXCEPT !.rank = candidates[c].rank]
<1>1. /\ l \in PassRows /\ PassFits(l, protos, candidates) /\ RowsFit(protos, candidates)
      /\ l.pc = "commit" /\ (same \/ CandidatesLeft(candidates))
  BY DEF PassesInv, PassFits, Refinement!CommitCandidate, Refinement!CandidatesLeft,
         CandidatesLeft, Refinement!CandidateIds, CandidateIds
<1>2. CASE ~Refinement!RowsExist(p)
  <2>1. /\ rpass' = [rpass EXCEPT ![p] = [l EXCEPT !.pc = "fail"]]
        /\ UNCHANGED <<protos, candidates>>
    BY <1>2 DEF Refinement!CommitCandidate
  <2>2. PassFits([l EXCEPT !.pc = "fail"], protos, candidates)
    BY <1>1, TurnFits DEF AtWork
  <2> QED BY <2>1, <2>2, LocalStep
<1>3. CASE Refinement!RowsExist(p)
  <2>1. l.cur \in LiveProtos(protos) /\ l.cur \in ProtoIds
        /\ (same => l.latest.id \in LiveCandidates(candidates))
    BY <1>3, SameOperators DEF Refinement!RowsExist, LiveProtos
  <2>2. /\ candidates' = Refinement!Stored(p)
        /\ protos' = WithStatus(protos, l.cur, "COMPLETED")
        /\ \/ rpass' = [rpass EXCEPT ![p] =
                           Refinement!ToLoop([l EXCEPT !.updated = l.updated + 1])]
           \/ rpass' = [rpass EXCEPT ![p] =
                           Refinement!ToLoop([l EXCEPT !.created = l.created + 1])]
    BY <1>3, Zenon DEF Refinement!CommitCandidate, WithStatus
  <2>3. /\ [l EXCEPT !.updated = l.updated + 1] \in PassRows
        /\ [l EXCEPT !.created = l.created + 1] \in PassRows
    BY <1>1 DEF PassRows
  <2>4. candidates' = WriteCandidate(candidates, c, stored)
    <3>1. c = IF same THEN l.latest.id ELSE Refinement!FreshCandidate(candidates)
      BY SameOperators
    <3> HIDE DEF same, row, c
    <3>2. candidates' = Refinement!WriteCandidate(candidates, c, stored)
      BY <2>2, <3>1 DEF Refinement!Stored, row, same
    <3> QED BY <3>2, SameOperators
  <2>5. c \in CandidateIds /\ candidates[c] \in CandidateRows
    <3>1. CASE same
      BY <1>1, <2>1, <3>1 DEF LiveCandidates, RowsFit
    <3>2. CASE ~same
      <4> DEFINE Unborn == {d \in CandidateIds : candidates[d].row = "unborn"}
      <4>1. Unborn \in SUBSET CandidateIds /\ Unborn # {}
        BY <1>1, <3>2 DEF CandidatesLeft
      <4>2. Min(Unborn) \in CandidateIds
        BY <4>1, LeastOfIds
      <4> HIDE DEF same
      <4> QED BY <1>1, <3>2, <4>2 DEF FreshCandidate, RowsFit
    <3> QED BY <3>1, <3>2
  <2>6. /\ l.cur \in Nat /\ l.latest.iteration \in Nat /\ l.print \in Prints \cup {Nobody}
        /\ candidates[c].rank \in Nat
    BY <1>1, <2>1, <2>5, PassesAssumption DEF PassRows, ProtoIds, CandidateRows
  <2>7. /\ stored \in CandidateRows /\ stored.row = "live" /\ stored.proto = l.cur
        /\ stored.print = l.print
        /\ same => stored.iteration = l.latest.iteration
        /\ ~same => stored.iteration = l.latest.iteration + 1
    <3> HIDE DEF same, c
    <3> DEFINE its == IF Refinement!SameIdea(p) THEN l.latest.iteration
                      ELSE Refinement!NextIteration(p)
    <3>a. row = [row |-> "live", proto |-> l.cur, iteration |-> its,
                 print |-> l.print, workflow |-> "AWAITING_EVALUATION",
                 evaluation |-> "PENDING", by |-> Nobody, rank |-> 0]
      <4>1. row = [Refinement!UnbornCandidate EXCEPT
                      !.row = "live", !.proto = l.cur, !.print = l.print, !.iteration = its,
                      !.workflow = "AWAITING_EVALUATION", !.evaluation = "PENDING"]
        BY DEF Refinement!CandidateRow
      <4> HIDE DEF its, row
      <4> QED BY <4>1 DEF Refinement!UnbornCandidate
    <3>b. /\ same => its = l.latest.iteration
          /\ ~same => its = l.latest.iteration + 1
      BY DEF Refinement!NextIteration, same
    <3> HIDE DEF its, row
    <3>1. /\ row = [row |-> "live", proto |-> l.cur, iteration |-> row.iteration,
                    print |-> l.print, workflow |-> "AWAITING_EVALUATION",
                    evaluation |-> "PENDING", by |-> Nobody, rank |-> 0]
          /\ same => row.iteration = l.latest.iteration
          /\ ~same => row.iteration = l.latest.iteration + 1
      BY <3>a, <3>b
    <3> HIDE DEF row
    <3>2. row.iteration \in Nat
      BY <2>6, <3>1
    <3> QED BY <2>6, <3>1, <3>2 DEF CandidateRows, WorkflowState, EvaluationStatus
  <2> HIDE DEF stored, row
  <2>8. RowsFit(protos, candidates') /\ Advances(protos, candidates, protos, candidates')
    <3>1. CASE same
      <4>1. l.latest.id # 0 /\ l.latest.print = l.print /\ c = l.latest.id
        BY <3>1 DEF Refinement!SameIdea
      <4>2. /\ c \in CandidatesOf(candidates, l.cur)
            /\ candidates[c].iteration = l.latest.iteration
            /\ candidates[c].print = l.latest.print
        BY <1>1, <2>1, <4>1 DEF PassFits, LatestHolds
      <4>3. SameIdeaRow(stored, candidates[c]) /\ c \in LiveCandidates(candidates)
        BY <2>7, <3>1, <4>1, <4>2 DEF SameIdeaRow, CandidatesOf, LiveCandidates
      <4> HIDE DEF c, same
      <4> QED BY <1>1, <2>4, <2>7, <4>3, CandidateUpdated
    <3>2. CASE ~same
      <4>1. /\ c = FreshCandidate(candidates) /\ CandidatesLeft(candidates)
            /\ stored.iteration = l.latest.iteration + 1
        BY <1>1, <2>7, <3>2
      <4> HIDE DEF c, same
      <4>2. /\ EarlierIterations(candidates, l.cur, l.latest.iteration)
            /\ l.latest.iteration = 0
               \/ \E d \in LiveCandidates(candidates) : candidates[d].iteration = l.latest.iteration
        <5>1. CASE l.latest.id = 0
          <6>1. l.latest.iteration = 0
            BY <1>1, <5>1 DEF PassFits
          <6>2. 1..l.latest.iteration = {}
            BY <6>1
          <6> QED BY <6>1, <6>2 DEF EarlierIterations
        <5>2. CASE l.latest.id # 0
          <6>1. /\ l.latest.id \in CandidatesOf(candidates, l.cur)
                /\ candidates[l.latest.id].iteration = l.latest.iteration
            BY <1>1, <2>1, <5>2 DEF PassFits, LatestHolds
          <6>2. /\ l.latest.id \in LiveCandidates(candidates)
                /\ candidates[l.latest.id].proto = l.cur
            BY <6>1 DEF CandidatesOf
          <6> QED BY <1>1, <6>1, <6>2 DEF RowsFit
        <5> QED BY <5>1, <5>2
      <4> QED BY <1>1, <2>1, <2>4, <2>6, <2>7, <4>1, <4>2, NewCandidateStored
    <3> QED BY <3>1, <3>2
  <2>9. RefinementWrites(p)
    <3>1. "COMPLETED" \in RefinementStatus
      BY DEF RefinementStatus
    <3>2. /\ LiveProtos(protos') = LiveProtos(protos)
          /\ RowsFit(protos', candidates')
      BY <2>1, <2>2, <2>8, <3>1, StatusWritten
    <3>3. Advances(protos, candidates, protos', candidates)
      BY <1>1, <2>1, <2>2, <3>1, StatusWritten
    <3>4. Advances(protos, candidates, protos', candidates')
      BY <2>8, <3>2, <3>3 DEF Advances
    <3>5. \E local : rpass' = [rpass EXCEPT ![p] = local]
                     /\ PassFits(local, protos', candidates')
      BY <2>2, <2>3, ToLoopFits
    <3> QED BY <3>2, <3>4, <3>5 DEF RefinementWrites
  <2> QED BY <2>9
<1> QED BY <1>2, <1>3

LEMMA FailureWrites ==
    ASSUME PassesInv, NEW p \in Passes, Refinement!PersistFailure(p)
    PROVE  RefinementWrites(p)
<1> DEFINE l == rpass[p]
           more == [l EXCEPT !.failed = l.failed + 1]
<1>1. /\ l \in PassRows /\ PassFits(l, protos, candidates) /\ RowsFit(protos, candidates)
      /\ l.pc \in {"reject", "fail"}
  BY DEF PassesInv, PassFits, Refinement!PersistFailure
<1>2. /\ UNCHANGED candidates
      /\ \/ /\ l.cur \in LiveProtos(protos)
            /\ protos' = WithStatus(protos, l.cur, "FAILED")
            /\ rpass' = [rpass EXCEPT ![p] = Refinement!ToLoop(more)]
         \/ /\ rpass' = [rpass EXCEPT ![p] = [l EXCEPT !.pc = "fail"]]
            /\ UNCHANGED protos
         \/ /\ rpass' = [rpass EXCEPT ![p] = Refinement!IdlePass]
            /\ UNCHANGED protos
  <2>1. Refinement!LiveProtos(protos) = LiveProtos(protos)
    BY SameOperators
  <2> QED BY <2>1 DEF Refinement!PersistFailure, WithStatus
<1>3. CASE /\ l.cur \in LiveProtos(protos)
           /\ protos' = WithStatus(protos, l.cur, "FAILED")
           /\ rpass' = [rpass EXCEPT ![p] = Refinement!ToLoop(more)]
  <2>1. more \in PassRows
    BY <1>1 DEF PassRows
  <2>2. "FAILED" \in RefinementStatus
    BY DEF RefinementStatus
  <2>3. /\ RowsFit(protos', candidates)
        /\ Advances(protos, candidates, protos', candidates)
    BY <1>1, <1>3, <2>2, StatusWritten
  <2>4. PassFits(Refinement!ToLoop(more), protos', candidates)
    BY <2>1, ToLoopFits
  <2> QED BY <1>2, <1>3, <2>3, <2>4 DEF RefinementWrites
<1>4. CASE rpass' = [rpass EXCEPT ![p] = [l EXCEPT !.pc = "fail"]] /\ UNCHANGED protos
  <2>1. PassFits([l EXCEPT !.pc = "fail"], protos, candidates)
    BY <1>1, TurnFits DEF AtWork
  <2> QED BY <1>2, <1>4, <2>1, LocalStep
<1>5. CASE rpass' = [rpass EXCEPT ![p] = Refinement!IdlePass] /\ UNCHANGED protos
  BY <1>2, <1>5, IdleFits, LocalStep
<1> QED BY <1>2, <1>3, <1>4, <1>5

\* One step per action of the pass.
LEMMA RefinementStep ==
    ASSUME PassesInv, NEW p \in Passes,
           \/ \E asked \in Refinement!ProtoIds \cup {0} : Refinement!BeginPass(p, asked)
           \/ Refinement!Step(p) \/ Refinement!CallThrows(p) \/ Refinement!PassThrows(p)
           \/ Refinement!Crash(p)
    PROVE  RefinementWrites(p)
<1> DEFINE l == rpass[p]
<1>0. /\ l \in PassRows /\ PassFits(l, protos, candidates)
      /\ rpass = [q \in Passes |-> rpass[q]]
  BY DEF PassesInv, PassFits
<1>1. ASSUME NEW asked \in ProtoIds \cup {0}, Refinement!BeginPass(p, asked)
      PROVE  RefinementWrites(p)
  <2> DEFINE local == [Refinement!IdlePass EXCEPT !.pc = "list", !.asked = asked]
  <2>1. rpass' = [rpass EXCEPT ![p] = local] /\ UNCHANGED <<protos, candidates>>
    BY <1>1 DEF Refinement!BeginPass
  <2>2. PassFits(local, protos, candidates)
    BY DEF PassFits, PassRows, LatestHolds, AtWork, Refinement!IdlePass, Refinement!NoCandidate
  <2> HIDE DEF local
  <2> QED BY <2>1, <2>2, LocalStep
<1>2. CASE Refinement!ListEligible(p)
  <2> DEFINE todo == {i \in Refinement!LiveProtos(protos) :
                         /\ l.asked \in {0, i}
                         /\ Refinement!IsEligibleProtoIdea(protos[i].status, p \in Retriers)}
             local == [l EXCEPT !.pc = "next", !.asked = 0, !.todo = todo]
  <2>1. /\ rpass' = [rpass EXCEPT ![p] = local] /\ UNCHANGED <<protos, candidates>>
        /\ l.pc = "list"
    BY <1>0, <1>2 DEF Refinement!ListEligible
  <2>2. todo \in SUBSET ProtoIds
    BY SameOperators DEF LiveProtos
  <2> HIDE DEF todo
  <2>3. /\ local \in PassRows /\ local.pc = "next" /\ local.latest = l.latest
    BY <1>0, <2>2 DEF PassRows
  <2>4. PassFits(local, protos, candidates)
    BY <1>0, <2>1, <2>3 DEF PassFits, LatestHolds, AtWork
  <2> HIDE DEF local
  <2> QED BY <2>1, <2>4, LocalStep
<1>3. ASSUME \/ \E print \in Refinement!Outcomes : Refinement!RefineReturns(p, print)
             \/ Refinement!RefineThrows(p)
      PROVE  RefinementWrites(p)
  <2>1. UNCHANGED <<protos, candidates>> /\ l.pc = "refine"
    BY <1>3 DEF Refinement!RefineReturns, Refinement!RefineThrows
  <2>2. CASE \/ rpass' = [rpass EXCEPT ![p] = [l EXCEPT !.pc = "reject"]]
             \/ rpass' = [rpass EXCEPT ![p] = [l EXCEPT !.pc = "fail"]]
    <3>1. /\ PassFits([l EXCEPT !.pc = "reject"], protos, candidates)
          /\ PassFits([l EXCEPT !.pc = "fail"], protos, candidates)
      BY <1>0, <2>1, TurnFits DEF AtWork
    <3> QED BY <2>1, <2>2, <3>1, LocalStep
  <2>3. ASSUME NEW print \in Prints,
               rpass' = [rpass EXCEPT ![p] = [l EXCEPT !.pc = "latest", !.print = print]]
        PROVE  RefinementWrites(p)
    <3> DEFINE local == [l EXCEPT !.pc = "latest", !.print = print]
    <3>1. /\ local \in PassRows /\ local.pc = "latest" /\ local.latest = l.latest
          /\ local.cur = l.cur
      BY <1>0 DEF PassRows, AtWork
    <3> HIDE DEF local
    <3>2. PassFits(local, protos, candidates)
      BY <1>0, <2>1, <3>1 DEF PassFits, LatestHolds, AtWork
    <3> QED BY <2>1, <2>3, <3>2, LocalStep DEF local
  <2> QED BY <1>0, <1>3, <2>2, <2>3
          DEF Refinement!RefineReturns, Refinement!RefineThrows, Refinement!OnRejected,
              Refinement!Outcomes, Refinement!Unusable
<1>4. CASE Refinement!CallThrows(p)
  <2>1. /\ rpass' = [rpass EXCEPT ![p] = [l EXCEPT !.pc = "fail"]]
        /\ UNCHANGED <<protos, candidates>> /\ l.pc \in AtWork
    BY <1>0, <1>4 DEF Refinement!CallThrows, AtWork
  <2>2. PassFits([l EXCEPT !.pc = "fail"], protos, candidates)
    BY <1>0, <2>1, TurnFits DEF AtWork
  <2> QED BY <2>1, <2>2, LocalStep
<1>5. CASE Refinement!EndPass(p) \/ Refinement!PassThrows(p) \/ Refinement!Crash(p)
  <2>1. /\ rpass' = [rpass EXCEPT ![p] = Refinement!IdlePass]
        /\ UNCHANGED <<protos, candidates>>
    BY <1>5 DEF Refinement!EndPass, Refinement!PassThrows, Refinement!Crash
  <2> QED BY <2>1, IdleFits, LocalStep
<1> QED BY <1>1, <1>2, <1>3, <1>4, <1>5, ClaimWrites, LoadWrites, CommitWrites,
           FailureWrites, SameOperators DEF Refinement!Step

-----------------------------------------------------------------------------
(* The steps of an extraction pass.                                        *)

\* A step of the extraction creates ideas in new rows and deletes others.
LEMMA ExtractionWrites ==
    ASSUME RowsFit(protos, candidates), Extraction!Next
    PROVE  /\ protos' = [i \in ProtoIds |-> protos'[i]]
           /\ \A i \in ProtoIds : ProtoFits(protos'[i])
           /\ \A i \in ProtoIds : protos[i].status # "unborn" =>
                 /\ protos'[i].status # "unborn"
                 /\ i \in LiveProtos(protos') => i \in LiveProtos(protos)
<1>1. /\ protos = [i \in ProtoIds |-> protos[i]]
      /\ \A i \in ProtoIds : ProtoFits(protos[i])
  BY DEF RowsFit
<1>2. CASE UNCHANGED protos
  <2>1. \A i \in ProtoIds : protos'[i] = protos[i]
    BY <1>2
  <2>2. LiveProtos(protos') = LiveProtos(protos)
    BY <1>2
  <2> QED BY <1>1, <1>2, <2>1, <2>2
<1>3. ASSUME NEW p \in Passes, Extraction!CommitIdeas(p)
      PROVE  /\ protos' = [i \in ProtoIds |-> protos'[i]]
             /\ \A i \in ProtoIds : ProtoFits(protos'[i])
             /\ \A i \in ProtoIds : protos[i].status # "unborn" =>
                   /\ protos'[i].status # "unborn"
                   /\ i \in LiveProtos(protos') => i \in LiveProtos(protos)
  <2> DEFINE born == [status |-> "PENDING", source |-> xpass[p].cur, by |-> p]
  <2>1. PICK n : protos' = [i \in ProtoIds |->
                    IF i \in Extraction!FreshProtos(protos, n) THEN born
                    ELSE IF i \in xpass[p].doomed THEN DeletedProto ELSE protos[i]]
    BY <1>3, SameOperators, Zenon
       DEF Extraction!CommitIdeas, Extraction!DeletedProto, DeletedProto,
           Extraction!UnbornProto, UnbornProto
  <2>2. \A i \in Extraction!FreshProtos(protos, n) : protos[i].status = "unborn"
    BY DEF Extraction!FreshProtos
  <2>3. /\ ProtoFits(born) /\ born.status = "PENDING"
        /\ ProtoFits(DeletedProto) /\ DeletedProto.status = "deleted"
    BY DEF ProtoFits, DeletedProto, UnbornProto, RefinementStatus
  <2> HIDE DEF born
  <2>4. \A i \in ProtoIds : \/ protos'[i] = born /\ protos[i].status = "unborn"
                            \/ protos'[i] = DeletedProto
                            \/ protos'[i] = protos[i]
    BY <2>1, <2>2
  <2>5. protos' = [i \in ProtoIds |-> protos'[i]]
    BY <2>1
  <2>6. \A i \in ProtoIds : ProtoFits(protos'[i])
    BY <1>1, <2>3, <2>4
  <2>7. "deleted" \notin RefinementStatus
    BY DEF RefinementStatus
  <2>8. \A i \in ProtoIds : protos[i].status # "unborn" =>
           /\ protos'[i].status # "unborn"
           /\ i \in LiveProtos(protos') => i \in LiveProtos(protos)
    BY <2>3, <2>4, <2>7 DEF LiveProtos
  <2> QED BY <2>5, <2>6, <2>8
<1>4. UNCHANGED protos \/ \E p \in Passes : Extraction!CommitIdeas(p)
  BY DEF Extraction!Next, Extraction!Prospect, Extraction!BeginPass, Extraction!Step,
         Extraction!ListPendingCandidates, Extraction!FindSource, Extraction!ClaimSource,
         Extraction!ExtractReturns, Extraction!ExtractThrows, Extraction!DeleteOldIdeas,
         Extraction!PersistFailure, Extraction!EndPass, Extraction!CallThrows,
         Extraction!PassThrows, Extraction!Crash
<1> QED BY <1>2, <1>3, <1>4

-----------------------------------------------------------------------------
(* The invariant.                                                          *)

LEMMA PassesInvInit == Init => PassesInv
<1>1. SUFFICES ASSUME Init PROVE PassesInv
  OBVIOUS
<1>2. \/ protos = [i \in ProtoIds |-> [UnbornProto EXCEPT !.status = "PENDING", !.source = 1]]
      \/ protos = [i \in ProtoIds |-> UnbornProto]
  BY <1>1, SameOperators
     DEF Init, Refinement!Init, Extraction!Init, Refinement!UnbornProto, Extraction!UnbornProto,
         UnbornProto
<1>3. /\ candidates = [c \in CandidateIds |-> UnbornCandidate]
      /\ rpass = [p \in Passes |-> Refinement!IdlePass]
  BY <1>1, SameOperators
     DEF Init, Refinement!Init, Refinement!NothingRefined, Refinement!UnbornCandidate,
         UnbornCandidate
<1>4. RowsFit(protos, candidates)
  <2>1. /\ ProtoFits(UnbornProto)
        /\ ProtoFits([UnbornProto EXCEPT !.status = "PENDING", !.source = 1])
    <3> DEFINE marked == [UnbornProto EXCEPT !.status = "PENDING"]
    <3>1. marked = [status |-> "PENDING", source |-> 0, by |-> Nobody]
      BY DEF UnbornProto
    <3>2. [UnbornProto EXCEPT !.status = "PENDING", !.source = 1]
             = [marked EXCEPT !.source = 1]
      OBVIOUS
    <3> HIDE DEF marked
    <3>3. [marked EXCEPT !.source = 1] = [status |-> "PENDING", source |-> 1, by |-> Nobody]
      BY <3>1
    <3> QED BY <3>2, <3>3 DEF ProtoFits, UnbornProto, RefinementStatus
  <2>2. UnbornCandidate \in CandidateRows /\ UnbornCandidate.row = "unborn"
    BY DEF UnbornCandidate, CandidateRows
  <2> QED BY <1>2, <1>3, <2>1, <2>2 DEF RowsFit, LiveCandidates
<1>5. \A p \in Passes : PassFits(rpass[p], protos, candidates)
  BY <1>3, IdleFits
<1> QED BY <1>3, <1>4, <1>5 DEF PassesInv

\* A step keeps the invariant, and the rows move as the passes expect.
LEMMA PassesInvNext ==
    ASSUME PassesInv, [Next]_vars
    PROVE  PassesInv' /\ Advances(protos, candidates, protos', candidates')
<1> DEFINE Kept == PassesInv' /\ Advances(protos, candidates, protos', candidates')
<1>0. /\ RowsFit(protos, candidates) /\ rpass = [p \in Passes |-> rpass[p]]
      /\ \A p \in Passes : PassFits(rpass[p], protos, candidates)
  BY DEF PassesInv
<1>1. ASSUME NEW p \in Passes, RefinementWrites(p)
      PROVE  Kept
  <2>1. PICK local : rpass' = [rpass EXCEPT ![p] = local]
                     /\ PassFits(local, protos', candidates')
    BY <1>1 DEF RefinementWrites
  <2>2. RowsFit(protos', candidates') /\ Advances(protos, candidates, protos', candidates')
    BY <1>1 DEF RefinementWrites
  <2>3. /\ rpass' = [q \in Passes |-> rpass'[q]] /\ rpass'[p] = local
        /\ \A q \in Passes \ {p} : rpass'[q] = rpass[q]
    BY <1>0, <2>1
  <2>4. \A q \in Passes : PassFits(rpass'[q], protos', candidates')
    BY <1>0, <2>1, <2>2, <2>3, PassKeepsFitting
  <2> QED BY <2>2, <2>3, <2>4 DEF PassesInv
<1>2. ASSUME Refinement!Next
      PROVE  Kept
  <2>1. PICK p \in Passes :
           \/ \E asked \in Refinement!ProtoIds \cup {0} : Refinement!BeginPass(p, asked)
           \/ Refinement!Step(p) \/ Refinement!CallThrows(p) \/ Refinement!PassThrows(p)
           \/ Refinement!Crash(p)
    BY <1>2 DEF Refinement!Next
  <2> QED BY <1>1, <2>1, RefinementStep
<1>3. ASSUME Extracts
      PROVE  Kept
  <2>1. /\ protos' = [i \in ProtoIds |-> protos'[i]]
        /\ \A i \in ProtoIds : ProtoFits(protos'[i])
        /\ \A i \in ProtoIds : protos[i].status # "unborn" =>
              /\ protos'[i].status # "unborn"
              /\ i \in LiveProtos(protos') => i \in LiveProtos(protos)
    BY <1>0, <1>3, ExtractionWrites DEF Extracts
  <2>2. candidates' = DeleteCandidates(candidates, {c \in LiveCandidates(candidates) :
                                          candidates[c].proto \notin LiveProtos(protos')})
    BY <1>3, Zenon DEF Extracts, Cascade
  <2>3. RowsFit(protos', candidates') /\ Advances(protos, candidates, protos', candidates')
    BY <1>0, <2>1, <2>2, IdeasReplaced
  <2>4. rpass' = rpass
    BY <1>3 DEF Extracts, refinementVars
  <2>5. \A q \in Passes : PassFits(rpass'[q], protos', candidates')
    BY <1>0, <2>3, <2>4, PassKeepsFitting
  <2> QED BY <1>0, <2>3, <2>4, <2>5 DEF PassesInv
<1>4. CASE UNCHANGED vars
  <2>1. protos' = protos /\ candidates' = candidates /\ rpass' = rpass
    BY <1>4 DEF vars, refinementVars
  <2>2. PassesInv'
    BY <1>0, <2>1 DEF PassesInv
  <2>3. Advances(protos, candidates, protos', candidates')
    BY <2>1, NothingChanges
  <2> QED BY <2>2, <2>3
<1> QED BY <1>2, <1>3, <1>4 DEF Next

LEMMA PassesInvHolds == Spec => []PassesInv
<1>1. PassesInv /\ [Next]_vars => PassesInv'
  BY PassesInvNext
<1> QED BY PassesInvInit, <1>1, PTL DEF Spec

-----------------------------------------------------------------------------
(* The properties.                                                         *)

\* A candidate has its proto-idea, whatever extraction deletes while
\* refinement works on it (persistIdeaCandidateSuccess, onDelete: Cascade).
THEOREM CandidatesBelong == Spec => []CandidatesHaveTheirIdea
<1>1. PassesInv => CandidatesHaveTheirIdea
  BY DEF PassesInv, RowsFit, CandidatesHaveTheirIdea
<1> QED BY PassesInvHolds, <1>1, PTL

\* The iterations of an idea are 1, 2, ... without a gap, although the latest
\* one is read outside the transaction that stores the next.
THEOREM IterationsAreContiguous == Spec => []IterationsContiguous
<1>1. PassesInv => IterationsContiguous
  <2>1. SUFFICES ASSUME PassesInv, NEW i \in ProtoIds
                 PROVE  LET its == {candidates[c].iteration : c \in CandidatesOf(candidates, i)}
                        IN its = {} \/ its = 1..Refinement!Max(its)
    BY SameOperators DEF IterationsContiguous, Refinement!IterationsContiguous
  <2> DEFINE mine == CandidatesOf(candidates, i)
             its == {candidates[c].iteration : c \in mine}
  <2>2. SUFFICES ASSUME its # {} PROVE its = 1..Refinement!Max(its)
    OBVIOUS
  <2>3. \A c \in mine : /\ c \in CandidateIds /\ candidates[c].iteration \in 1..c
                        /\ EarlierIterations(candidates, i, candidates[c].iteration)
    BY <2>1 DEF PassesInv, RowsFit, CandidatesOf, LiveCandidates
  <2>4. its \in SUBSET (0..CandidateCount) /\ \A n \in its : n >= 1
    BY <2>3, PassesAssumption DEF CandidateIds
  <2>5. \E n \in its : \A m \in its : n >= m
    <3>1. CandidateCount \in Nat
      BY PassesAssumption
    <3> HIDE DEF its
    <3> QED BY <2>2, <2>4, <3>1, GreatestNumber
  <2>6. PICK n \in its : n = Refinement!Max(its) /\ \A m \in its : n >= m
    <3> HIDE DEF its
    <3> QED BY <2>5, Zenon DEF Refinement!Max
  <2>7. its \subseteq 1..n
    BY <2>4, <2>6
  <2>8. 1..n \subseteq its
    <3>1. PICK c \in mine : candidates[c].iteration = n
      OBVIOUS
    <3>2. \A m \in 1..n : \E d \in mine : candidates[d].iteration = m
      BY <2>3, <3>1 DEF EarlierIterations
    <3> QED BY <3>2
  <2> QED BY <2>6, <2>7, <2>8
<1> QED BY PassesInvHolds, <1>1, PTL

\* A stored candidate is never overwritten with another idea, and never moves
\* to another proto-idea or iteration.
THEOREM CandidatesStayTrue == Spec => CandidatesKeepTheirIdea
<1>1. PassesInv /\ [Next]_vars =>
         [\A c \in Refinement!LiveCandidates(candidates)
                     \cap Refinement!LiveCandidates(candidates') :
            /\ candidates'[c].print = candidates[c].print
            /\ candidates'[c].proto = candidates[c].proto
            /\ candidates'[c].iteration = candidates[c].iteration]_Refinement!vars
  <2>1. SUFFICES ASSUME PassesInv, [Next]_vars,
                        NEW c \in LiveCandidates(candidates),
                        c \in LiveCandidates(candidates')
                 PROVE  /\ candidates'[c].print = candidates[c].print
                        /\ candidates'[c].proto = candidates[c].proto
                        /\ candidates'[c].iteration = candidates[c].iteration
    BY SameOperators
  <2>2. SameIdeaRow(candidates'[c], candidates[c])
    BY <2>1, PassesInvNext DEF Advances
  <2> QED BY <2>2 DEF SameIdeaRow
<1> QED BY PassesInvHolds, <1>1, PTL
        DEF Spec, CandidatesKeepTheirIdea, Refinement!CandidatesKeepTheirIdea

-----------------------------------------------------------------------------
(* The extraction by itself, with passes that retry and passes that do not. *)

\* A step of both stages takes one of the extraction alone, when it is its turn.
LEMMA ExtractionIsAlone ==
    ASSUME [StagesNext]_stagesVars
    PROVE  part' = part /\ (part = "extraction" => [Alone!Next]_(Alone!vars))
BY DEF StagesNext, stagesVars, PassesTurn, ExtractionTurn, vars, extractionVars, Alone!vars

LEMMA NextIsCandidate ==
    ASSUME NEW todo \in SUBSET Alone!Sources, todo # {}
    PROVE  Alone!NextCandidate(todo) \in todo
<1>1. todo \in SUBSET Nat
  BY PassesAssumption DEF Alone!Sources
<1>2. \E k \in todo : \A j \in todo : k <= j
  BY <1>1, LeastNumber
<1> QED BY <1>2, Zenon DEF Alone!NextCandidate

-----------------------------------------------------------------------------
(* What a pass of the extraction knows.                                    *)

Extracting == {"extract", "delete", "commit", "reject", "fail"}

\* A pass that has claimed a source has settled the earlier ones it claimed, and
\* its counts never exceed the batch.
ExtractionFits(p, local) ==
    /\ local \in Alone!PassRecord
    /\ local.retry => p \in Retriers
    /\ local.pc \in Extracting \cup {"claim"} => local.cur \in Alone!Sources
    /\ local.completed + local.failed + (IF local.pc \in Extracting THEN 1 ELSE 0)
          <= local.processed
    /\ local.pc = "claim" => local.processed < BatchSize

ExtractionTyped == Alone!TypeOK /\ \A p \in Passes : ExtractionFits(p, xpass[p])

\* A pass that found a failed source to retry still finds it failed.
ClaimHeld ==
    \A p \in Passes : xpass[p].pc = "claim" /\ xpass[p].exists =>
        p \in Retriers /\ source[xpass[p].cur] = "FAILED"

\* The ideas that can be seen belong to a source, and that one is COMPLETED.
IdeasHaveSource ==
    \A i \in Alone!LiveProtos(protos) :
        protos[i].source \in Alone!Sources /\ source[protos[i].source] = "COMPLETED"

SourceInv == ExtractionTyped /\ ClaimHeld /\ Alone!OneWorkerPerSource /\ IdeasHaveSource

\* One pass at most is called with retryFailed: two that retry may both take
\* over a failed source.
OneRetrier == \A p, q \in Retriers : p = q

LEMMA IdleExtractionFits == ASSUME NEW p \in Passes PROVE ExtractionFits(p, Alone!IdlePass)
BY PassesAssumption DEF ExtractionFits, Alone!PassRecord, Alone!IdlePass, Extracting

LEMMA LoopExtractionFits ==
    ASSUME NEW p \in Passes, NEW local \in Alone!PassRecord, local.retry => p \in Retriers,
           local.completed + local.failed <= local.processed
    PROVE  ExtractionFits(p, Alone!ToLoop(local))
<1> DEFINE l == Alone!ToLoop(local)
<1>1. /\ l \in Alone!PassRecord /\ l.pc = "next" /\ l.retry = local.retry
      /\ l.completed = local.completed /\ l.failed = local.failed
      /\ l.processed = local.processed
  BY DEF Alone!PassRecord, Alone!ToLoop
<1>2. local.completed \in Nat /\ local.failed \in Nat
  BY PassesAssumption DEF Alone!PassRecord
<1> QED BY <1>1, <1>2 DEF ExtractionFits, Extracting

\* How a step changes the local variables of its pass.
LEMMA ExtractionStepFits ==
    ASSUME ExtractionTyped, NEW p \in Passes,
           \/ \E retry \in BOOLEAN : Alone!BeginPass(p, retry)
           \/ Alone!Step(p) \/ Alone!CallThrows(p) \/ Alone!PassThrows(p) \/ Alone!Crash(p)
    PROVE  \E local : /\ xpass' = [xpass EXCEPT ![p] = local]
                      /\ ExtractionFits(p, local)
<1> DEFINE l == xpass[p]
           Goal == \E local : xpass' = [xpass EXCEPT ![p] = local] /\ ExtractionFits(p, local)
<1>0. /\ l \in Alone!PassRecord /\ ExtractionFits(p, l) /\ results \subseteq Alone!Sources
      /\ xpass \in [Passes -> Alone!PassRecord] /\ BatchSize \in Nat
  BY PassesAssumption DEF ExtractionTyped, Alone!TypeOK
<1>1. ASSUME NEW retry \in BOOLEAN, Alone!BeginPass(p, retry)
      PROVE  Goal
  <2> DEFINE local == [Alone!IdlePass EXCEPT !.pc = "list", !.retry = retry]
  <2>1. xpass' = [xpass EXCEPT ![p] = local] /\ (retry => p \in Retriers)
    BY <1>1 DEF Alone!BeginPass
  <2>2. ExtractionFits(p, local)
    BY <2>1, IdleExtractionFits DEF ExtractionFits, Alone!PassRecord, Alone!IdlePass,
                                    Extracting
  <2> QED BY <2>1, <2>2
<1>2. CASE Alone!ListPendingCandidates(p)
  <2> DEFINE local == [l EXCEPT !.pc = "next", !.todo = results]
  <2>1. xpass' = [xpass EXCEPT ![p] = local] /\ l.pc = "list"
    BY <1>0, <1>2 DEF Alone!ListPendingCandidates
  <2>2. ExtractionFits(p, local)
    BY <1>0, <2>1 DEF ExtractionFits, Alone!PassRecord, Extracting
  <2> QED BY <2>1, <2>2
<1>3. CASE Alone!FindSource(p)
  <2> DEFINE k == Alone!NextCandidate(l.todo)
             rest == [l EXCEPT !.todo = @ \ {k}]
             claim == [rest EXCEPT !.pc = "claim", !.cur = k, !.exists = (source[k] # "none")]
  <2>1. /\ l.pc = "next" /\ l.processed < BatchSize /\ l.todo # {}
        /\ xpass' = [xpass EXCEPT ![p] = rest] \/ xpass' = [xpass EXCEPT ![p] = claim]
    BY <1>3 DEF Alone!FindSource, Alone!WithinBatch
  <2>2. k \in Alone!Sources
    BY <1>0, <2>1, NextIsCandidate DEF Alone!PassRecord
  <2>3. ExtractionFits(p, rest) /\ ExtractionFits(p, claim)
    BY <1>0, <2>1, <2>2 DEF ExtractionFits, Alone!PassRecord, Extracting
  <2> QED BY <2>1, <2>3
<1>4. CASE Alone!ClaimSource(p)
  <2> DEFINE local == [l EXCEPT !.pc = "extract", !.processed = @ + 1]
  <2>1. /\ l.pc = "claim"
        /\ xpass' = [xpass EXCEPT ![p] = local] \/ xpass' = [xpass EXCEPT ![p] = Alone!ToLoop(l)]
    BY <1>0, <1>4 DEF Alone!ClaimSource
  <2>2. /\ l.completed \in Nat /\ l.failed \in Nat /\ l.processed \in 0..BatchSize
        /\ l.completed + l.failed <= l.processed /\ l.processed < BatchSize
        /\ l.cur \in Alone!Sources /\ (l.retry => p \in Retriers)
    BY <1>0, <2>1 DEF ExtractionFits, Alone!PassRecord, Extracting
  <2>3. /\ local = [l EXCEPT !.pc = "extract", !.processed = l.processed + 1]
        /\ l.processed + 1 \in 0..BatchSize
    BY <1>0, <2>2
  <2>6. /\ local \in Alone!PassRecord
        /\ local.pc = "extract" /\ local.completed = l.completed /\ local.failed = l.failed
        /\ local.processed = l.processed + 1 /\ local.cur = l.cur /\ local.retry = l.retry
    BY <1>0, <2>3 DEF Alone!PassRecord
  <2>4. ExtractionFits(p, local)
    BY <2>2, <2>6 DEF ExtractionFits, Extracting
  <2>5. ExtractionFits(p, Alone!ToLoop(l))
    BY <1>0, <2>2, LoopExtractionFits
  <2> QED BY <2>1, <2>4, <2>5
<1>5. ASSUME \/ \E valid \in Alone!Validations : Alone!ExtractReturns(p, valid)
             \/ Alone!ExtractThrows(p)
      PROVE  Goal
  <2>1. PICK pc \in {"delete", "reject", "fail"} :
          xpass' = [xpass EXCEPT ![p] = [l EXCEPT !.pc = pc]]
    BY <1>0, <1>5 DEF Alone!ExtractReturns, Alone!ExtractThrows, Alone!OnInvalid
  <2>2. l.pc = "extract"
    BY <1>5 DEF Alone!ExtractReturns, Alone!ExtractThrows
  <2>3. ExtractionFits(p, [l EXCEPT !.pc = pc])
    BY <1>0, <2>1, <2>2 DEF ExtractionFits, Alone!PassRecord, Extracting
  <2> QED BY <2>1, <2>3
<1>6. CASE Alone!DeleteOldIdeas(p)
  <2> DEFINE local == [l EXCEPT !.pc = "commit", !.doomed = Alone!IdeasOf(l.cur)]
  <2>1. l.pc = "delete" /\ xpass' = [xpass EXCEPT ![p] = local]
    BY <1>0, <1>6 DEF Alone!DeleteOldIdeas
  <2>2. ExtractionFits(p, local)
    BY <1>0, <2>1 DEF ExtractionFits, Alone!PassRecord, Extracting, Alone!IdeasOf,
                      Alone!LiveProtos
  <2> QED BY <2>1, <2>2
<1>7. CASE Alone!CommitIdeas(p)
  <2> DEFINE more == [l EXCEPT !.completed = @ + 1]
  <2>1. l.pc = "commit" /\ xpass' = [xpass EXCEPT ![p] = Alone!ToLoop(more)]
    BY <1>7, Zenon DEF Alone!CommitIdeas
  <2>2. /\ more \in Alone!PassRecord /\ (more.retry => p \in Retriers)
        /\ more.completed + more.failed <= more.processed
    BY <1>0, <2>1 DEF ExtractionFits, Alone!PassRecord, Extracting
  <2>3. ExtractionFits(p, Alone!ToLoop(more))
    BY <2>2, LoopExtractionFits
  <2> QED BY <2>1, <2>3
<1>8. CASE Alone!PersistFailure(p)
  <2> DEFINE more == [l EXCEPT !.failed = @ + 1]
  <2>1. l.pc \in {"reject", "fail"} /\ xpass' = [xpass EXCEPT ![p] = Alone!ToLoop(more)]
    BY <1>8, Zenon DEF Alone!PersistFailure
  <2>2. /\ more \in Alone!PassRecord /\ (more.retry => p \in Retriers)
        /\ more.completed + more.failed <= more.processed
    BY <1>0, <2>1 DEF ExtractionFits, Alone!PassRecord, Extracting
  <2>3. ExtractionFits(p, Alone!ToLoop(more))
    BY <2>2, LoopExtractionFits
  <2> QED BY <2>1, <2>3
<1>9. CASE Alone!CallThrows(p)
  <2> DEFINE local == [l EXCEPT !.pc = "fail", !.doomed = {}]
  <2>1. l.pc \in {"delete", "commit", "reject"} /\ xpass' = [xpass EXCEPT ![p] = local]
    BY <1>0, <1>9 DEF Alone!CallThrows
  <2>2. ExtractionFits(p, local)
    BY <1>0, <2>1 DEF ExtractionFits, Alone!PassRecord, Extracting
  <2> QED BY <2>1, <2>2
<1>10. CASE Alone!EndPass(p) \/ Alone!PassThrows(p) \/ Alone!Crash(p)
  <2>1. xpass' = [xpass EXCEPT ![p] = Alone!IdlePass]
    BY <1>10 DEF Alone!EndPass, Alone!PassThrows, Alone!Crash
  <2> QED BY <2>1, IdleExtractionFits
<1> QED
  BY <1>1, <1>2, <1>3, <1>4, <1>5, <1>6, <1>7, <1>8, <1>9, <1>10 DEF Alone!Step

\* The rows stay typed.
LEMMA ExtractionStepTyped ==
    ASSUME ExtractionTyped, [Alone!Next]_(Alone!vars)
    PROVE  ExtractionTyped'
<1>0. /\ Alone!TypeOK /\ xpass \in [Passes -> Alone!PassRecord]
      /\ \A p \in Passes : ExtractionFits(p, xpass[p])
  BY DEF ExtractionTyped, Alone!TypeOK
<1>1. CASE UNCHANGED Alone!vars
  BY <1>1 DEF Alone!vars, ExtractionTyped, Alone!TypeOK
<1>2. ASSUME NEW found \in SUBSET Alone!Sources, Alone!Prospect(found)
      PROVE  ExtractionTyped'
  BY <1>2 DEF Alone!Prospect, ExtractionTyped, Alone!TypeOK
<1>3. ASSUME NEW p \in Passes,
             \/ \E retry \in BOOLEAN : Alone!BeginPass(p, retry)
             \/ Alone!Step(p) \/ Alone!CallThrows(p) \/ Alone!PassThrows(p) \/ Alone!Crash(p)
      PROVE  ExtractionTyped'
  <2>1. PICK local : xpass' = [xpass EXCEPT ![p] = local] /\ ExtractionFits(p, local)
    BY <1>3, ExtractionStepFits
  <2>2. /\ xpass' \in [Passes -> Alone!PassRecord]
        /\ \A q \in Passes : ExtractionFits(q, xpass'[q])
    BY <1>0, <2>1 DEF ExtractionFits
  <2>3. /\ results' \subseteq Alone!Sources
        /\ policy' \in {"NONE", "RUNNING", "COMPLETED", "FAILED"}
        /\ xfaults' \in 0..MaxFaults /\ xcrashes' \in 0..MaxCrashes
    <3>1. xfaults' \in 0..MaxFaults
      <4>1. xfaults' = xfaults \/ (xfaults < MaxFaults /\ xfaults' = xfaults + 1)
        BY <1>3
        DEF Alone!BeginPass, Alone!Step, Alone!ListPendingCandidates, Alone!FindSource,
            Alone!ClaimSource, Alone!ExtractReturns, Alone!ExtractThrows,
            Alone!DeleteOldIdeas, Alone!CommitIdeas, Alone!PersistFailure,
            Alone!EndPass, Alone!CallThrows, Alone!PassThrows, Alone!Crash
      <4> QED BY <1>0, <4>1, PassesAssumption DEF Alone!TypeOK
    <3>2. xcrashes' \in 0..MaxCrashes
      <4>1. xcrashes' = xcrashes \/ (xcrashes < MaxCrashes /\ xcrashes' = xcrashes + 1)
        BY <1>3
        DEF Alone!BeginPass, Alone!Step, Alone!ListPendingCandidates, Alone!FindSource,
            Alone!ClaimSource, Alone!ExtractReturns, Alone!ExtractThrows,
            Alone!DeleteOldIdeas, Alone!CommitIdeas, Alone!PersistFailure,
            Alone!EndPass, Alone!CallThrows, Alone!PassThrows, Alone!Crash
      <4> QED BY <1>0, <4>1, PassesAssumption DEF Alone!TypeOK
    <3>3. results' = results /\ policy' \in {"NONE", "RUNNING", "COMPLETED", "FAILED"}
      BY <1>3
      DEF ExtractionTyped, Alone!TypeOK, Alone!BeginPass, Alone!Step,
          Alone!ListPendingCandidates, Alone!FindSource, Alone!ClaimSource,
          Alone!ExtractReturns, Alone!ExtractThrows, Alone!DeleteOldIdeas,
          Alone!CommitIdeas, Alone!PersistFailure, Alone!EndPass, Alone!CallThrows,
          Alone!PassThrows, Alone!Crash, Alone!FinalStatus
    <3> QED BY <3>1, <3>2, <3>3 DEF ExtractionTyped, Alone!TypeOK
  <2>4. source' \in [Alone!Sources -> {"none", "PROCESSING", "COMPLETED", "FAILED"}]
    BY <1>0, <1>3
    DEF Alone!TypeOK, Alone!BeginPass, Alone!Step, Alone!ListPendingCandidates,
        Alone!FindSource, Alone!ClaimSource, Alone!ExtractReturns, Alone!ExtractThrows,
        Alone!DeleteOldIdeas, Alone!CommitIdeas, Alone!PersistFailure, Alone!EndPass,
        Alone!CallThrows, Alone!PassThrows, Alone!Crash
  <2>5. protos' \in [Alone!ProtoIds -> [status : {"unborn", "deleted", "PENDING"},
                                  source : Alone!Sources \cup {0}, by : Passes \cup {Nobody}]]
    <3>1. CASE Alone!CommitIdeas(p)
      <4>1. PICK n \in Alone!IdeasKept :
              protos' = [i \in Alone!ProtoIds |->
                            IF i \in Alone!FreshProtos(protos, n)
                            THEN [status |-> "PENDING", source |-> xpass[p].cur, by |-> p]
                            ELSE IF i \in xpass[p].doomed THEN Alone!DeletedProto ELSE protos[i]]
        BY <3>1 DEF Alone!CommitIdeas
      <4>2. xpass[p].cur \in Alone!Sources \cup {0}
        BY <1>0 DEF Alone!PassRecord
      <4>3. Alone!DeletedProto \in [status : {"unborn", "deleted", "PENDING"},
                              source : Alone!Sources \cup {0}, by : Passes \cup {Nobody}]
        BY DEF Alone!DeletedProto, Alone!UnbornProto
      <4> QED BY <1>0, <4>1, <4>2, <4>3 DEF Alone!TypeOK
    <3>2. CASE ~Alone!CommitIdeas(p)
      <4>1. protos' = protos
        BY <1>3, <3>2
        DEF Alone!BeginPass, Alone!Step, Alone!ListPendingCandidates, Alone!FindSource,
            Alone!ClaimSource, Alone!ExtractReturns, Alone!ExtractThrows,
            Alone!DeleteOldIdeas, Alone!PersistFailure, Alone!EndPass, Alone!CallThrows,
            Alone!PassThrows, Alone!Crash
      <4> QED BY <1>0, <4>1 DEF Alone!TypeOK
    <3> QED BY <3>1, <3>2
  <2> QED BY <2>2, <2>3, <2>4, <2>5 DEF ExtractionTyped, Alone!TypeOK
<1> QED BY <1>1, <1>2, <1>3 DEF Alone!Next

\* Every variable of the extraction holds values of its type: no pass claims more
\* than a batch.
THEOREM ExtractionTypes == StagesSpec => [](part = "extraction" => Alone!TypeOK)
<1> DEFINE Inv == part = "extraction" => ExtractionTyped
<1>1. StagesInit => Inv
  BY PassesAssumption, IdleExtractionFits
  DEF StagesInit, Alone!Init, Alone!NothingExtracted, ExtractionTyped, Alone!TypeOK,
      ExtractionFits, Alone!UnbornProto
<1>2. Inv /\ [StagesNext]_stagesVars => Inv'
  BY ExtractionIsAlone, ExtractionStepTyped
<1>3. Inv => (part = "extraction" => Alone!TypeOK)
  BY DEF ExtractionTyped
<1> QED BY <1>1, <1>2, <1>3, PTL DEF StagesSpec

-----------------------------------------------------------------------------
(* One worker per source, and ideas only of completed sources.             *)

\* A step of a pass that leaves the rows alone, works on nothing it did not work
\* on before, and goes on to claim only a failed source it may retry, or a new one.
LEMMA RowsAlone ==
    ASSUME SourceInv, NEW p \in Passes, NEW local, xpass' = [xpass EXCEPT ![p] = local],
           source' = source, protos' = protos,
           local.pc \in Extracting => Alone!Working(p) /\ local.cur = xpass[p].cur,
           local.pc = "claim" /\ local.exists =>
               p \in Retriers /\ source[local.cur] = "FAILED"
    PROVE  (ClaimHeld /\ Alone!OneWorkerPerSource /\ IdeasHaveSource)'
<1>1. /\ xpass \in [Passes -> Alone!PassRecord]
      /\ ClaimHeld /\ Alone!OneWorkerPerSource /\ IdeasHaveSource
  BY DEF SourceInv, ExtractionTyped, Alone!TypeOK
<1>2. xpass'[p] = local /\ \A q \in Passes \ {p} : xpass'[q] = xpass[q]
  BY <1>1
<1>3. \A q \in Passes : Alone!Working(q)' => Alone!Working(q) /\ xpass'[q].cur = xpass[q].cur
  BY <1>2 DEF Alone!Working, Extracting
<1>4. Alone!OneWorkerPerSource'
  BY <1>1, <1>3 DEF Alone!OneWorkerPerSource
<1>5. ClaimHeld'
  BY <1>1, <1>2 DEF ClaimHeld
<1>6. IdeasHaveSource'
  BY <1>1 DEF IdeasHaveSource
<1> QED BY <1>4, <1>5, <1>6

LEMMA ClaimKeepsSourceInv ==
    ASSUME SourceInv, OneRetrier, NEW p \in Passes, Alone!ClaimSource(p)
    PROVE  (ClaimHeld /\ Alone!OneWorkerPerSource /\ IdeasHaveSource)'
<1> DEFINE k == xpass[p].cur
<1>0. /\ xpass \in [Passes -> Alone!PassRecord] /\ k \in Alone!Sources /\ xpass[p].pc = "claim"
      /\ source \in [Alone!Sources -> {"none", "PROCESSING", "COMPLETED", "FAILED"}]
      /\ ClaimHeld /\ Alone!OneWorkerPerSource /\ IdeasHaveSource
      /\ \A q \in Passes : ExtractionFits(q, xpass[q])
  BY DEF SourceInv, ExtractionTyped, Alone!TypeOK, Alone!ClaimSource, ExtractionFits
<1>1. CASE ~Alone!ClaimSucceeds(p)
  <2>1. xpass' = [xpass EXCEPT ![p] = Alone!ToLoop(xpass[p])] /\ source' = source /\ protos' = protos
    BY <1>1 DEF Alone!ClaimSource
  <2>2. Alone!ToLoop(xpass[p]).pc = "next"
    BY <1>0 DEF Alone!ToLoop, Alone!PassRecord
  <2> QED BY <2>1, <2>2, RowsAlone DEF Extracting
<1>2. CASE Alone!ClaimSucceeds(p)
  <2>1. /\ source' = [source EXCEPT ![k] = "PROCESSING"] /\ protos' = protos
        /\ xpass' = [xpass EXCEPT ![p].pc = "extract", ![p].processed = @ + 1]
    BY <1>2 DEF Alone!ClaimSource
  <2>2. /\ xpass'[p].pc = "extract" /\ xpass'[p].cur = k
        /\ \A q \in Passes \ {p} : xpass'[q] = xpass[q]
        /\ source'[k] = "PROCESSING" /\ \A j \in Alone!Sources \ {k} : source'[j] = source[j]
    BY <1>0, <2>1 DEF Alone!PassRecord
  <2>3. /\ source[k] \in {"none", "FAILED"}
        /\ source[k] = "FAILED" => xpass[p].exists /\ p \in Retriers
    BY <1>0, <1>2 DEF Alone!ClaimSucceeds, ClaimHeld
  <2>4. \A q \in Passes : Alone!Working(q) => xpass[q].cur # k /\ q # p
    BY <1>0, <2>3 DEF Alone!OneWorkerPerSource, Alone!Working
  <2>5. \A q \in Passes \ {p} : Alone!Working(q)' <=> Alone!Working(q)
    BY <2>2 DEF Alone!Working
  <2>6. \A q \in Passes : Alone!Working(q) => xpass[q].cur \in Alone!Sources
    BY <1>0 DEF ExtractionFits, Alone!Working, Extracting
  <2>7. Alone!OneWorkerPerSource'
    <3>1. \A q \in Passes : Alone!Working(q)' => source'[xpass'[q].cur] = "PROCESSING"
      BY <1>0, <2>2, <2>4, <2>5, <2>6 DEF Alone!OneWorkerPerSource
    <3>2. ASSUME NEW q1 \in Passes, NEW q2 \in Passes, Alone!Working(q1)', Alone!Working(q2)',
                 xpass'[q1].cur = xpass'[q2].cur
          PROVE  q1 = q2
      BY <1>0, <2>2, <2>4, <2>5, <3>2 DEF Alone!OneWorkerPerSource
    <3> QED BY <3>1, <3>2 DEF Alone!OneWorkerPerSource
  <2>8. ClaimHeld'
    <3> SUFFICES ASSUME NEW q \in Passes, xpass'[q].pc = "claim", xpass'[q].exists
                 PROVE  q \in Retriers /\ source'[xpass'[q].cur] = "FAILED"
      BY DEF ClaimHeld
    <3>1. q # p /\ xpass'[q] = xpass[q]
      BY <2>2
    <3>2. /\ q \in Retriers /\ source[xpass[q].cur] = "FAILED" /\ xpass[q].cur \in Alone!Sources
      BY <1>0, <3>1 DEF ClaimHeld, ExtractionFits
    <3>3. xpass[q].cur # k
      BY <2>3, <3>1, <3>2 DEF OneRetrier
    <3> QED BY <2>2, <3>1, <3>2, <3>3
  <2>9. IdeasHaveSource'
    BY <1>0, <2>1, <2>2, <2>3 DEF IdeasHaveSource
  <2> QED BY <2>7, <2>8, <2>9
<1> QED BY <1>1, <1>2

\* A worker that settles its source leaves the others' alone.
LEMMA SettleKeepsSourceInv ==
    ASSUME SourceInv, NEW p \in Passes, Alone!Working(p), NEW status \in {"COMPLETED", "FAILED"},
           source' = [source EXCEPT ![xpass[p].cur] = status],
           \E local : xpass' = [xpass EXCEPT ![p] = local] /\ local.pc = "next"
    PROVE  /\ (ClaimHeld /\ Alone!OneWorkerPerSource)'
           /\ xpass[p].cur \in Alone!Sources /\ source[xpass[p].cur] = "PROCESSING"
           /\ source'[xpass[p].cur] = status
           /\ \A j \in Alone!Sources \ {xpass[p].cur} : source'[j] = source[j]
<1> DEFINE k == xpass[p].cur
<1>0. /\ xpass \in [Passes -> Alone!PassRecord]
      /\ source \in [Alone!Sources -> {"none", "PROCESSING", "COMPLETED", "FAILED"}]
      /\ ClaimHeld /\ Alone!OneWorkerPerSource
      /\ \A q \in Passes : ExtractionFits(q, xpass[q])
  BY DEF SourceInv, ExtractionTyped, Alone!TypeOK
<1>1. k \in Alone!Sources /\ source[k] = "PROCESSING"
  BY <1>0 DEF ExtractionFits, Alone!Working, Extracting, Alone!OneWorkerPerSource
<1>2. source'[k] = status /\ \A j \in Alone!Sources \ {k} : source'[j] = source[j]
  BY <1>0, <1>1
<1>3. xpass'[p].pc = "next" /\ \A q \in Passes \ {p} : xpass'[q] = xpass[q]
  BY <1>0
<1>4. \A q \in Passes : Alone!Working(q)' => /\ Alone!Working(q) /\ q # p /\ xpass'[q] = xpass[q]
                                       /\ xpass[q].cur # k /\ xpass[q].cur \in Alone!Sources
  BY <1>0, <1>3 DEF Alone!Working, Alone!OneWorkerPerSource, ExtractionFits, Extracting
<1>5. Alone!OneWorkerPerSource'
  BY <1>0, <1>2, <1>4 DEF Alone!OneWorkerPerSource
<1>6. ClaimHeld'
  <2> SUFFICES ASSUME NEW q \in Passes, xpass'[q].pc = "claim", xpass'[q].exists
               PROVE  q \in Retriers /\ source'[xpass'[q].cur] = "FAILED"
    BY DEF ClaimHeld
  <2>1. q # p /\ xpass'[q] = xpass[q]
    BY <1>3
  <2>2. /\ q \in Retriers /\ source[xpass[q].cur] = "FAILED" /\ xpass[q].cur \in Alone!Sources
    BY <1>0, <2>1 DEF ClaimHeld, ExtractionFits
  <2> QED BY <1>1, <1>2, <2>1, <2>2
<1> QED BY <1>1, <1>2, <1>5, <1>6

LEMMA StepSourceInv ==
    ASSUME SourceInv, OneRetrier, [Alone!Next]_(Alone!vars)
    PROVE  SourceInv'
<1> SUFFICES (ClaimHeld /\ Alone!OneWorkerPerSource /\ IdeasHaveSource)'
  BY ExtractionStepTyped DEF SourceInv
<1>0. /\ xpass \in [Passes -> Alone!PassRecord] /\ \A q \in Passes : ExtractionFits(q, xpass[q])
      /\ protos \in [Alone!ProtoIds -> [status : {"unborn", "deleted", "PENDING"},
                                  source : Alone!Sources \cup {0}, by : Passes \cup {Nobody}]]
      /\ ClaimHeld /\ Alone!OneWorkerPerSource /\ IdeasHaveSource
      /\ source \in [Alone!Sources -> {"none", "PROCESSING", "COMPLETED", "FAILED"}]
  BY DEF SourceInv, ExtractionTyped, Alone!TypeOK
<1>1. CASE UNCHANGED Alone!vars \/ \E found \in SUBSET Alone!Sources : Alone!Prospect(found)
  <2>1. xpass' = xpass /\ source' = source /\ protos' = protos
    BY <1>1 DEF Alone!vars, Alone!Prospect
  <2> QED BY <1>0, <2>1 DEF ClaimHeld, Alone!OneWorkerPerSource, IdeasHaveSource,
                            Alone!Working
<1>2. ASSUME NEW p \in Passes,
             \/ \E retry \in BOOLEAN : Alone!BeginPass(p, retry)
             \/ Alone!Step(p) \/ Alone!CallThrows(p) \/ Alone!PassThrows(p) \/ Alone!Crash(p)
      PROVE  (ClaimHeld /\ Alone!OneWorkerPerSource /\ IdeasHaveSource)'
  <2> DEFINE l == xpass[p]
  <2>0. l \in Alone!PassRecord /\ ExtractionFits(p, l)
    BY <1>0
  <2>1. CASE Alone!ClaimSource(p)
    BY <2>1, ClaimKeepsSourceInv
  <2>2. CASE Alone!FindSource(p)
    <3> DEFINE k == Alone!NextCandidate(l.todo)
               rest == [l EXCEPT !.todo = @ \ {k}]
               claim == [rest EXCEPT !.pc = "claim", !.cur = k,
                                     !.exists = (source[k] # "none")]
    <3>1. /\ l.pc = "next" /\ l.todo # {} /\ source' = source /\ protos' = protos
          /\ \/ xpass' = [xpass EXCEPT ![p] = rest]
             \/ /\ xpass' = [xpass EXCEPT ![p] = claim]
                /\ ~Alone!ShouldSkipExistingSource(source[k], l.retry)
      BY <2>2 DEF Alone!FindSource
    <3>2. k \in Alone!Sources
      BY <2>0, <3>1, NextIsCandidate DEF Alone!PassRecord
    <3>3. rest.pc = "next" /\ claim.pc = "claim" /\ claim.cur = k
          /\ claim.exists = (source[k] # "none")
      BY <2>0, <3>1 DEF Alone!PassRecord
    <3>4. ~Alone!ShouldSkipExistingSource(source[k], l.retry) /\ source[k] # "none" =>
              source[k] = "FAILED" /\ p \in Retriers
      BY <1>0, <2>0, <3>2 DEF Alone!ShouldSkipExistingSource, ExtractionFits
    <3>5. CASE xpass' = [xpass EXCEPT ![p] = rest]
      BY <3>1, <3>3, <3>5, RowsAlone DEF Extracting
    <3>6. CASE /\ xpass' = [xpass EXCEPT ![p] = claim]
               /\ ~Alone!ShouldSkipExistingSource(source[k], l.retry)
      BY <3>1, <3>3, <3>4, <3>6, RowsAlone DEF Extracting
    <3> QED BY <3>1, <3>5, <3>6
  <2>3. CASE Alone!CommitIdeas(p)
    <3>1. /\ Alone!Working(p) /\ source' = [source EXCEPT ![l.cur] = "COMPLETED"]
          /\ xpass' = [xpass EXCEPT ![p] = Alone!ToLoop([l EXCEPT !.completed = @ + 1])]
      BY <2>3 DEF Alone!CommitIdeas, Alone!Working
    <3>2. Alone!ToLoop([l EXCEPT !.completed = @ + 1]).pc = "next"
      BY <2>0 DEF Alone!ToLoop, Alone!PassRecord
    <3>3. /\ (ClaimHeld /\ Alone!OneWorkerPerSource)'
          /\ l.cur \in Alone!Sources /\ source'[l.cur] = "COMPLETED"
          /\ \A j \in Alone!Sources \ {l.cur} : source'[j] = source[j]
      BY <3>1, <3>2, SettleKeepsSourceInv
    <3>4. PICK n \in Alone!IdeasKept :
            protos' = [i \in Alone!ProtoIds |->
                          IF i \in Alone!FreshProtos(protos, n)
                          THEN [status |-> "PENDING", source |-> xpass[p].cur, by |-> p]
                          ELSE IF i \in xpass[p].doomed THEN Alone!DeletedProto ELSE protos[i]]
      BY <2>3 DEF Alone!CommitIdeas
    <3>5. ASSUME NEW i \in Alone!LiveProtos(protos')
          PROVE  protos'[i].source \in Alone!Sources /\ source'[protos'[i].source] = "COMPLETED"
      <4>1. i \in Alone!ProtoIds /\ protos'[i].status \in Alone!RefinementStatus
        BY <3>5 DEF Alone!LiveProtos
      <4>2. \/ protos'[i].source = l.cur
            \/ protos'[i] = Alone!DeletedProto
            \/ protos'[i] = protos[i]
        BY <3>4, <4>1
      <4>3. protos'[i] # Alone!DeletedProto
        BY <4>1 DEF Alone!DeletedProto, Alone!UnbornProto, Alone!RefinementStatus
      <4>4. CASE protos'[i] = protos[i]
        <5>1. i \in Alone!LiveProtos(protos)
          BY <4>1, <4>4 DEF Alone!LiveProtos
        <5> QED BY <1>0, <3>3, <4>4, <5>1 DEF IdeasHaveSource
      <4> QED BY <3>3, <4>2, <4>3, <4>4
    <3> QED BY <3>3, <3>5 DEF IdeasHaveSource
  <2>4. CASE Alone!PersistFailure(p)
    <3>1. /\ Alone!Working(p) /\ source' = [source EXCEPT ![l.cur] = "FAILED"] /\ protos' = protos
          /\ xpass' = [xpass EXCEPT ![p] = Alone!ToLoop([l EXCEPT !.failed = @ + 1])]
      BY <2>4 DEF Alone!PersistFailure, Alone!Working
    <3>2. Alone!ToLoop([l EXCEPT !.failed = @ + 1]).pc = "next"
      BY <2>0 DEF Alone!ToLoop, Alone!PassRecord
    <3>3. /\ (ClaimHeld /\ Alone!OneWorkerPerSource)'
          /\ source[l.cur] = "PROCESSING"
          /\ \A j \in Alone!Sources \ {l.cur} : source'[j] = source[j]
      BY <3>1, <3>2, SettleKeepsSourceInv
    <3> QED BY <1>0, <3>1, <3>3 DEF IdeasHaveSource
  <2>5. ASSUME \/ \E retry \in BOOLEAN : Alone!BeginPass(p, retry)
               \/ Alone!ListPendingCandidates(p)
               \/ Alone!EndPass(p) \/ Alone!PassThrows(p) \/ Alone!Crash(p)
        PROVE  (ClaimHeld /\ Alone!OneWorkerPerSource /\ IdeasHaveSource)'
    <3>1. source' = source /\ protos' = protos
      BY <2>5 DEF Alone!BeginPass, Alone!ListPendingCandidates, Alone!EndPass,
                  Alone!PassThrows, Alone!Crash
    <3>2. PICK local : xpass' = [xpass EXCEPT ![p] = local] /\ local.pc \in {"idle", "list", "next"}
      <4>1. CASE \E retry \in BOOLEAN : Alone!BeginPass(p, retry)
        <5>1. PICK retry : xpass' = [xpass EXCEPT ![p] =
                                        [Alone!IdlePass EXCEPT !.pc = "list", !.retry = retry]]
          BY <4>1 DEF Alone!BeginPass
        <5>2. [Alone!IdlePass EXCEPT !.pc = "list", !.retry = retry].pc = "list"
          BY DEF Alone!IdlePass
        <5> QED BY <5>1, <5>2
      <4>2. CASE Alone!ListPendingCandidates(p)
        <5>1. xpass' = [xpass EXCEPT ![p] = [l EXCEPT !.pc = "next", !.todo = results]]
          BY <1>0, <4>2 DEF Alone!ListPendingCandidates
        <5>2. [l EXCEPT !.pc = "next", !.todo = results].pc = "next"
          BY <2>0 DEF Alone!PassRecord
        <5> QED BY <5>1, <5>2
      <4>3. CASE Alone!EndPass(p) \/ Alone!PassThrows(p) \/ Alone!Crash(p)
        <5>1. xpass' = [xpass EXCEPT ![p] = Alone!IdlePass] /\ Alone!IdlePass.pc = "idle"
          BY <4>3 DEF Alone!EndPass, Alone!PassThrows, Alone!Crash, Alone!IdlePass
        <5> QED BY <5>1
      <4> QED BY <2>5, <4>1, <4>2, <4>3
    <3> QED BY <3>1, <3>2, RowsAlone DEF Extracting
  <2>6. ASSUME \/ \E valid \in Alone!Validations : Alone!ExtractReturns(p, valid)
               \/ Alone!ExtractThrows(p) \/ Alone!DeleteOldIdeas(p) \/ Alone!CallThrows(p)
        PROVE  (ClaimHeld /\ Alone!OneWorkerPerSource /\ IdeasHaveSource)'
    <3>1. source' = source /\ protos' = protos /\ Alone!Working(p)
      BY <2>6 DEF Alone!ExtractReturns, Alone!ExtractThrows, Alone!DeleteOldIdeas,
                  Alone!CallThrows, Alone!Working
    <3>2. PICK pc \in Extracting :
            \E doomed : xpass' = [xpass EXCEPT ![p] = [l EXCEPT !.pc = pc, !.doomed = doomed]]
      <4>1. CASE Alone!DeleteOldIdeas(p)
        BY <1>0, <4>1 DEF Alone!DeleteOldIdeas, Extracting
      <4>2. CASE Alone!CallThrows(p)
        BY <1>0, <4>2 DEF Alone!CallThrows, Extracting
      <4>3. CASE Alone!ExtractThrows(p) \/ \E valid \in Alone!Validations : Alone!ExtractReturns(p, valid)
        <5>1. PICK pc \in {"delete", "reject", "fail"} :
                xpass' = [xpass EXCEPT ![p] = [l EXCEPT !.pc = pc]]
          BY <1>0, <4>3 DEF Alone!ExtractReturns, Alone!ExtractThrows, Alone!OnInvalid
        <5>2. [l EXCEPT !.pc = pc] = [l EXCEPT !.pc = pc, !.doomed = l.doomed]
          BY <2>0 DEF Alone!PassRecord
        <5> QED BY <5>1, <5>2 DEF Extracting
      <4> QED BY <2>6, <4>1, <4>2, <4>3
    <3>3. PICK doomed : xpass' = [xpass EXCEPT ![p] = [l EXCEPT !.pc = pc, !.doomed = doomed]]
      BY <3>2
    <3>4. /\ [l EXCEPT !.pc = pc, !.doomed = doomed].pc = pc
          /\ [l EXCEPT !.pc = pc, !.doomed = doomed].cur = l.cur
      BY <2>0 DEF Alone!PassRecord
    <3> QED BY <3>1, <3>3, <3>4, RowsAlone DEF Extracting
  <2> QED BY <1>2, <2>1, <2>2, <2>3, <2>4, <2>5, <2>6 DEF Alone!Step
<1> QED BY <1>1, <1>2 DEF Alone!Next

LEMMA SourceInvariant ==
    ASSUME OneRetrier PROVE StagesSpec => [](part = "extraction" => SourceInv)
<1> DEFINE Inv == part = "extraction" => SourceInv
<1>1. StagesInit => Inv
  <2>1. Alone!Init => ExtractionTyped
    BY PassesAssumption, IdleExtractionFits
    DEF Alone!Init, Alone!NothingExtracted, ExtractionTyped, Alone!TypeOK,
        ExtractionFits, Alone!UnbornProto
  <2>2. Alone!Init => SourceInv
    BY <2>1
    DEF Alone!Init, Alone!NothingExtracted, SourceInv, ClaimHeld,
        Alone!OneWorkerPerSource, IdeasHaveSource, Alone!Working, Alone!IdlePass,
        Alone!LiveProtos, Alone!UnbornProto, Alone!RefinementStatus
  <2> QED BY <2>2 DEF StagesInit
<1>2. Inv /\ [StagesNext]_stagesVars => Inv'
  BY ExtractionIsAlone, StepSourceInv
<1> QED BY <1>1, <1>2, PTL DEF StagesSpec

\* While one pass at most retries, no two passes work on one source
\* (claimProtoIdeaSource), whatever throws, dies or overlaps.
THEOREM OneWorker == ASSUME OneRetrier PROVE StagesSpec => []OneWorkerPerSource
<1>1. (part = "extraction" => SourceInv) => OneWorkerPerSource
  BY DEF SourceInv, OneWorkerPerSource
<1> QED BY <1>1, SourceInvariant, PTL

\* While one pass at most retries, ideas can be seen only of completed sources:
\* nothing half written, and nothing a failed extraction left behind.
THEOREM IdeasOfCompleted == ASSUME OneRetrier PROVE StagesSpec => []IdeasOnlyOfCompleted
<1>1. (part = "extraction" => SourceInv) => IdeasOnlyOfCompleted
  BY DEF SourceInv, IdeasHaveSource, IdeasOnlyOfCompleted, Alone!IdeasOnlyOfCompleted
<1> QED BY <1>1, SourceInvariant, PTL
===============================================================================
