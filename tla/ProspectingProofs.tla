--------------------------- MODULE ProspectingProofs ---------------------------
(***************************************************************************)
(* Proofs about Prospecting, for any number of servers, requests and       *)
(* operators.  Every write hands on what its worker loaded, perhaps long   *)
(* before.  While no two workers overlap there is only one of them         *)
(* (OneAtATime), and what it holds is what the row holds (HoldsCurrent):   *)
(* its writes therefore change the results only by a new execution.        *)
(***************************************************************************)
EXTENDS Prospecting, TLAPS

LoadedPc == {"announce", "startRun", "review", "reviewFailed", "begin", "search", "searchFailed"}

ActivePc == LoadedPc \cup {"loadReview", "loadPlan"}

\* A worker in a cycle works for an operator.
ActiveHasOwner ==
    \A w \in Workers : worker[w].pc \in ActivePc => worker[w].owner \in Owners

\* Without an overlap an operator has one worker at most.
OneAtATime ==
    \A o \in Owners : \A v, w \in Workers :
        ~overlapped[o] /\ worker[v].owner = o /\ worker[w].owner = o => v = w

\* Without an overlap a worker holds the results and the slot the row holds.
HoldsCurrent ==
    \A o \in Owners : \A w \in Workers :
        ~overlapped[o] /\ worker[w].owner = o /\ worker[w].pc \in LoadedPc
            => /\ worker[w].rec.results = row[o].results
               /\ worker[w].rec.next = row[o].next

\* Without an overlap the slot is an hour after the last completed run.
SlotFollowsRuns ==
    \A o \in Owners :
        ~overlapped[o] => row[o].next = IF ran[o] = Never THEN Never ELSE ran[o] + 1

\* A row not written since a tick listed it is due still.
UntouchedAreDue ==
    \A s \in Servers : \A o \in untouched[s] : row[o].next <= hour

Inv ==
    /\ TypeOK /\ ActiveHasOwner /\ OneAtATime /\ HoldsCurrent
    /\ SlotFollowsRuns /\ UntouchedAreDue /\ LatestResultsKept

-----------------------------------------------------------------------------
(* Types.                                                                  *)

LEMMA NumberFacts ==
    /\ MaxHour \in Nat /\ MaxHour >= 1 /\ MaxCrashes \in Nat
    /\ Nobody \notin Owners
BY ProspectingAssumption

\* A worker at rest.
LEMMA RestTyped ==
    /\ Idle \in WorkerRecord /\ Idle.pc = "idle" /\ Idle.owner = Nobody /\ Idle.rec.next = 0
    /\ \A w \in Workers : /\ Ended(w) \in WorkerRecord /\ Ended(w).pc \in {"next", "done"}
                          /\ Ended(w).owner = Nobody /\ Ended(w).rec.next = 0
<1>1. Kept(NoRow) \in KeptRecord /\ Kept(NoRow).next = 0
  BY NumberFacts DEF Kept, NoRow, KeptRecord, Never
<1>2. QED
  BY <1>1 DEF Idle, Ended, WorkerRecord

\* What a worker may write is a row, with a slot at most an hour ahead.
LEMMA WritesTyped ==
    ASSUME TypeOK, NEW w \in Workers, NEW st \in {"RUNNING", "COMPLETED", "FAILED"},
           NEW age \in {"none", "older", "latest"}
    PROVE  /\ Rewritten(w, st) \in RowRecord
           /\ Rewritten(w, st).next = worker[w].rec.next
           /\ Rewritten(w, st).results = worker[w].rec.results
           /\ worker[w].rec.results \in {"none", "older", "latest"}
           /\ Completed(age) \in RowRecord /\ Completed(age).next = hour + 1
           /\ Completed(age).results = age
<1>1. worker[w] \in WorkerRecord /\ worker[w].rec.next <= hour + 1
  BY DEF TypeOK
<1>2. worker[w].rec \in KeptRecord /\ worker[w].mode \in {"scheduled", "manual"}
  BY <1>1 DEF WorkerRecord
<1>3. hour \in 1..MaxHour /\ hour \in 0..MaxHour /\ hour + 1 \in 0..(MaxHour + 1)
  BY NumberFacts DEF TypeOK
<1>4. Rewritten(w, st) \in RowRecord
  BY <1>2 DEF Rewritten, RowRecord, KeptRecord
<1>5. Completed(age) \in RowRecord
  BY <1>3 DEF Completed, RowRecord
<1>6. QED
  BY <1>1, <1>2, <1>4, <1>5 DEF Rewritten, Completed, KeptRecord

\* The record of a worker that takes an operator.
LEMMA TakeTyped ==
    ASSUME TypeOK, NEW w \in Workers, NEW o \in Owners, NEW mode \in {"scheduled", "manual"},
           NEW pc \in {"loadReview", "loadPlan"}, Take(w, o, pc, mode)
    PROVE  /\ worker' \in [Workers -> WorkerRecord]
           /\ worker'[w].pc = pc /\ worker'[w].owner = o /\ worker'[w].rec.next = 0
           /\ \A v \in Workers \ {w} : worker'[v] = worker[v]
           /\ overlapped' \in [Owners -> BOOLEAN]
           /\ \A p \in Owners : overlapped[p] => overlapped'[p]
           /\ ~overlapped'[o] => \A v \in Workers \ {w} : worker[v].owner # o
<1> DEFINE r == [pc |-> pc, owner |-> o, mode |-> mode, rec |-> Kept(NoRow)]
<1>1. r \in WorkerRecord /\ r.pc = pc /\ r.owner = o /\ r.rec.next = 0
  BY NumberFacts DEF WorkerRecord, Kept, NoRow, KeptRecord, Never
<1>2. worker' = [worker EXCEPT ![w] = r] /\ worker \in [Workers -> WorkerRecord]
  BY DEF Take, TypeOK
<1>3. /\ overlapped \in [Owners -> BOOLEAN]
      /\ overlapped' = IF \E v \in Workers \ {w} : worker[v].owner = o
                       THEN [overlapped EXCEPT ![o] = TRUE] ELSE overlapped
  BY DEF Take, TypeOK
<1> HIDE DEF r
<1>4. QED
  BY <1>1, <1>2, <1>3

LEMMA InitInv == Init => Inv
<1> SUFFICES ASSUME Init PROVE Inv OBVIOUS
<1>1. \A w \in Workers : worker[w] = Idle
  BY DEF Init
<1>2. worker \in [Workers -> WorkerRecord] /\ \A w \in Workers : worker[w].rec.next = 0
  BY <1>1, RestTyped DEF Init
<1>3. NoRow \in RowRecord /\ NoRow.next = 0 /\ NoRow.results = "none"
  BY NumberFacts DEF NoRow, RowRecord, Never
<1>4. row \in [Owners -> RowRecord] /\ \A o \in Owners : row[o] = NoRow
  BY <1>3 DEF Init
<1>5. /\ hour = 1 /\ crashes = 0 /\ due \in [Servers -> SUBSET DueRecord]
      /\ untouched \in [Servers -> SUBSET Owners]
      /\ executed \in [Owners -> BOOLEAN] /\ overlapped \in [Owners -> BOOLEAN]
      /\ ran \in [Owners -> 0..MaxHour] /\ \A o \in Owners : ~executed[o] /\ ran[o] = 0
  BY NumberFacts DEF Init, Never
<1>6. TypeOK
  BY <1>2, <1>3, <1>4, <1>5, NumberFacts DEF TypeOK
<1>7. ActiveHasOwner /\ OneAtATime /\ HoldsCurrent
  BY <1>1, RestTyped, NumberFacts DEF ActiveHasOwner, OneAtATime, HoldsCurrent, ActivePc, LoadedPc
<1>8. LatestResultsKept /\ SlotFollowsRuns
  BY <1>3, <1>4, <1>5 DEF LatestResultsKept, SlotFollowsRuns, Never
<1>9. UntouchedAreDue
  BY DEF Init, UntouchedAreDue
<1>10. QED
  BY <1>6, <1>7, <1>8, <1>9 DEF Inv

-----------------------------------------------------------------------------
(* What keeps OneAtATime, HoldsCurrent and LatestResultsKept.              *)

\* No worker takes an operator.
LEMMA OwnersShrink ==
    ASSUME Inv, overlapped' = overlapped,
           \A v \in Workers : worker'[v].owner \in {worker[v].owner, Nobody}
    PROVE  OneAtATime'
BY NumberFacts DEF Inv, OneAtATime

\* One does, and is alone or marks the overlap.
LEMMA OwnerTaken ==
    ASSUME Inv, NEW w \in Workers, NEW o \in Owners, NEW mode \in {"scheduled", "manual"},
           NEW pc \in {"loadReview", "loadPlan"}, Take(w, o, pc, mode)
    PROVE  OneAtATime'
<1> SUFFICES ASSUME NEW p \in Owners, NEW u \in Workers, NEW v \in Workers,
                    ~overlapped'[p], worker'[u].owner = p, worker'[v].owner = p
             PROVE  u = v
  BY DEF OneAtATime
<1>1. /\ worker'[w].owner = o /\ ~overlapped[p]
      /\ \A x \in Workers \ {w} : worker'[x] = worker[x]
      /\ ~overlapped'[o] => \A x \in Workers \ {w} : worker[x].owner # o
  BY TakeTyped DEF Inv
<1>2. CASE p = o
  BY <1>1, <1>2
<1>3. CASE p # o
  BY <1>1, <1>3 DEF Inv, OneAtATime
<1>4. QED
  BY <1>2, <1>3

\* Results and slot of the row stay, and workers keep what they hold or load it.
LEMMA SteadyKeeps ==
    ASSUME Inv, executed' = executed, ran' = ran,
           \A o \in Owners : overlapped[o] => overlapped'[o],
           \A o \in Owners : ~overlapped[o] => /\ row'[o].results = row[o].results
                                             /\ row'[o].next = row[o].next,
           \A v \in Workers :
               worker'[v].pc \in LoadedPc =>
                   \/ /\ worker[v].pc \in LoadedPc
                      /\ worker'[v].owner = worker[v].owner
                      /\ worker'[v].rec = worker[v].rec
                   \/ worker'[v].rec = Kept(row[worker'[v].owner])
    PROVE  HoldsCurrent' /\ LatestResultsKept' /\ SlotFollowsRuns'
<1>1. HoldsCurrent'
  <2> SUFFICES ASSUME NEW o \in Owners, NEW v \in Workers,
                      ~overlapped'[o], worker'[v].owner = o, worker'[v].pc \in LoadedPc
               PROVE  worker'[v].rec.results = row'[o].results /\ worker'[v].rec.next = row'[o].next
    BY DEF HoldsCurrent
  <2>1. ~overlapped[o] /\ row'[o].results = row[o].results /\ row'[o].next = row[o].next
    OBVIOUS
  <2>2. CASE worker'[v].rec = Kept(row[worker'[v].owner])
    BY <2>1, <2>2 DEF Kept
  <2>3. CASE /\ worker[v].pc \in LoadedPc /\ worker'[v].owner = worker[v].owner
             /\ worker'[v].rec = worker[v].rec
    BY <2>1, <2>3 DEF Inv, HoldsCurrent
  <2>4. QED
    BY <2>2, <2>3
<1>2. LatestResultsKept'
  BY DEF Inv, LatestResultsKept
<1>3. SlotFollowsRuns'
  BY DEF Inv, SlotFollowsRuns
<1>4. QED
  BY <1>1, <1>2, <1>3

\* A worker completes a review or an execution: without an overlap nobody
\* else holds what the row held before.
LEMMA CompletionKeeps ==
    ASSUME Inv, NEW w \in Workers, NEW o \in Owners, worker[w].owner = o,
           worker'[w].pc \notin LoadedPc,
           \A v \in Workers \ {w} :
               /\ worker'[v].pc = worker[v].pc /\ worker'[v].owner = worker[v].owner
               /\ worker[v].owner # o => worker'[v].rec = worker[v].rec,
           \A p \in Owners \ {o} :
               row'[p] = row[p] /\ executed'[p] = executed[p] /\ ran'[p] = ran[p],
           \A p \in Owners : overlapped[p] => overlapped'[p],
           row'[o].next = hour + 1, ran'[o] = hour,
           ~overlapped[o] => row'[o].results = IF executed'[o] THEN "latest" ELSE "none"
    PROVE  HoldsCurrent' /\ LatestResultsKept' /\ SlotFollowsRuns'
<1>1. ASSUME NEW p \in Owners, NEW v \in Workers,
             ~overlapped'[p], worker'[v].owner = p, worker'[v].pc \in LoadedPc
      PROVE  worker'[v].rec.results = row'[p].results /\ worker'[v].rec.next = row'[p].next
  <2>1. v # w /\ worker[v].owner = p /\ worker[v].pc \in LoadedPc /\ ~overlapped[p]
    BY <1>1
  <2>2. p # o
    BY <2>1 DEF Inv, OneAtATime
  <2>3. worker'[v].rec = worker[v].rec /\ row'[p] = row[p]
    BY <2>1, <2>2
  <2>4. QED
    BY <2>1, <2>3 DEF Inv, HoldsCurrent
<1>2. HoldsCurrent'
  BY <1>1 DEF HoldsCurrent
<1>3. LatestResultsKept'
  BY DEF Inv, LatestResultsKept
<1>4. hour \in Nat /\ hour # Never
  BY NumberFacts DEF Inv, TypeOK, Never
<1>5. SlotFollowsRuns'
  BY <1>4 DEF Inv, SlotFollowsRuns
<1>6. QED
  BY <1>2, <1>3, <1>5

\* A write takes the row off every list.
LEMMA WriteUnlists ==
    ASSUME Inv, NEW o \in Owners, NEW r, Write(o, r), hour' = hour
    PROVE  UntouchedAreDue'
<1>1. /\ row \in [Owners -> RowRecord] /\ untouched \in [Servers -> SUBSET Owners]
      /\ row' = [row EXCEPT ![o] = r] /\ untouched' = [s \in Servers |-> untouched[s] \ {o}]
  BY DEF Inv, TypeOK, Write
<1>2. QED
  BY <1>1 DEF Inv, UntouchedAreDue

LEMMA UnwrittenStayDue ==
    ASSUME Inv, row' = row, hour' = hour, \A s \in Servers : untouched'[s] \subseteq untouched[s]
    PROVE  UntouchedAreDue'
BY DEF Inv, UntouchedAreDue

\* A worker that writes what it holds back leaves the results as they are,
\* and the row a row.
LEMMA WriteIsSteady ==
    ASSUME Inv, NEW w \in Workers, worker[w].pc \in LoadedPc, NEW r \in RowRecord,
           r.next = worker[w].rec.next, r.results = worker[w].rec.results,
           Write(worker[w].owner, r)
    PROVE  /\ worker[w].owner \in Owners
           /\ row' \in [Owners -> RowRecord]
           /\ \A o \in Owners : row'[o].next <= hour + 1
           /\ untouched' \in [Servers -> SUBSET Owners]
           /\ \A o \in Owners : ~overlapped[o] => /\ row'[o].results = row[o].results
                                               /\ row'[o].next = row[o].next
<1>1. worker[w].owner \in Owners
  BY DEF Inv, ActiveHasOwner, ActivePc
<1>2. row \in [Owners -> RowRecord] /\ untouched \in [Servers -> SUBSET Owners]
      /\ \A o \in Owners : row[o].next <= hour + 1
      /\ r.next <= hour + 1
  BY DEF Inv, TypeOK
<1>3. row' = [row EXCEPT ![worker[w].owner] = r]
      /\ untouched' = [s \in Servers |-> untouched[s] \ {worker[w].owner}]
  BY DEF Write
<1>4. row' \in [Owners -> RowRecord] /\ \A o \in Owners : row'[o].next <= hour + 1
  BY <1>1, <1>2, <1>3
<1>5. untouched' \in [Servers -> SUBSET Owners]
  BY <1>2, <1>3
<1>6. ASSUME NEW o \in Owners, ~overlapped[o]
      PROVE  row'[o].results = row[o].results /\ row'[o].next = row[o].next
  <2>1. CASE o = worker[w].owner
    <3>1. worker[w].rec.results = row[o].results /\ worker[w].rec.next = row[o].next
      BY <1>6, <2>1 DEF Inv, HoldsCurrent
    <3>2. QED
      BY <1>1, <1>2, <1>3, <2>1, <3>1
  <2>2. CASE o # worker[w].owner
    BY <1>2, <1>3, <2>2
  <2>3. QED
    BY <2>1, <2>2
<1>7. QED
  BY <1>1, <1>4, <1>5, <1>6

\* A worker goes on, with what it has.
LEMMA GotoKeeps ==
    ASSUME Inv, NEW w \in Workers,
           NEW pc \in {"next", "startRun", "review", "reviewFailed", "search", "searchFailed"},
           Goto(w, pc)
    PROVE  /\ worker' \in [Workers -> WorkerRecord]
           /\ worker'[w].pc = pc
           /\ worker'[w].owner = worker[w].owner /\ worker'[w].rec = worker[w].rec
           /\ \A v \in Workers \ {w} : worker'[v] = worker[v]
           /\ \A v \in Workers : worker'[v].rec.next <= hour + 1
<1>1. worker \in [Workers -> WorkerRecord] /\ \A v \in Workers : worker[v].rec.next <= hour + 1
  BY DEF Inv, TypeOK
<1>2. worker' = [worker EXCEPT ![w].pc = pc]
  BY DEF Goto
<1> DEFINE r == [worker[w] EXCEPT !.pc = pc]
<1>3. r \in WorkerRecord /\ r.pc = pc /\ r.owner = worker[w].owner /\ r.rec = worker[w].rec
  BY <1>1 DEF WorkerRecord
<1>4. worker' = [worker EXCEPT ![w] = r]
  BY <1>2
<1> HIDE DEF r
<1>5. QED
  BY <1>1, <1>3, <1>4

\* A worker comes to rest.
LEMMA RestKeeps ==
    ASSUME Inv, NEW w \in Workers, NEW r \in {Idle, Ended(w)}, worker' = [worker EXCEPT ![w] = r]
    PROVE  /\ worker' \in [Workers -> WorkerRecord]
           /\ worker'[w].pc \notin ActivePc /\ worker'[w].owner = Nobody
           /\ \A v \in Workers \ {w} : worker'[v] = worker[v]
           /\ \A v \in Workers : worker'[v].rec.next <= hour + 1
<1>1. worker \in [Workers -> WorkerRecord] /\ \A v \in Workers : worker[v].rec.next <= hour + 1
  BY DEF Inv, TypeOK
<1>2. /\ r \in WorkerRecord /\ r.pc \in {"idle", "next", "done"} /\ r.owner = Nobody /\ r.rec.next = 0
  BY RestTyped
<1>3. hour \in Nat
  BY NumberFacts DEF Inv, TypeOK
<1>4. QED
  BY <1>1, <1>2, <1>3 DEF ActivePc, LoadedPc

-----------------------------------------------------------------------------
(* One lemma per action or group of actions.                               *)

LEMMA TimePassesInv == Inv /\ TimePasses => Inv'
<1> SUFFICES ASSUME Inv, TimePasses PROVE Inv' OBVIOUS
<1>1. TypeOK
  BY DEF Inv
<1>2. /\ hour' = hour + 1 /\ hour < MaxHour
      /\ UNCHANGED <<row, worker, due, untouched, executed, ran, overlapped, crashes>>
  BY DEF TimePasses, history
<1>3. \A o \in Owners : row[o].next <= hour + 1 /\ row[o].next \in Nat
  BY <1>1, NumberFacts DEF TypeOK, RowRecord
<1>4. \A w \in Workers : worker[w].rec.next <= hour + 1 /\ worker[w].rec.next \in Nat
  BY <1>1, NumberFacts DEF TypeOK, WorkerRecord, KeptRecord
<1>5. hour' \in 1..MaxHour /\ hour \in Nat
  BY <1>1, <1>2, NumberFacts DEF TypeOK
<1>6. /\ \A o \in Owners : row'[o].next <= hour' + 1
      /\ \A w \in Workers : worker'[w].rec.next <= hour' + 1
  BY <1>2, <1>3, <1>4, <1>5
<1>7. TypeOK'
  BY <1>1, <1>2, <1>5, <1>6 DEF TypeOK
<1>8. UntouchedAreDue'
  BY <1>1, <1>2, <1>3, <1>5 DEF Inv, UntouchedAreDue, TypeOK
<1>9. QED
  BY <1>1, <1>2, <1>3, <1>5, <1>7, <1>8
  DEF Inv, ActiveHasOwner, OneAtATime, HoldsCurrent, LatestResultsKept, SlotFollowsRuns

LEMMA BeginTickInv == ASSUME Inv, NEW s \in Servers, BeginTick(s) PROVE Inv'
<1>1. TypeOK /\ s \in Workers
  BY DEF Inv, Workers
<1> DEFINE listed == {o \in Owners : IsDue(row[o])}
<1>2. /\ worker[s].pc = "idle" /\ Goto(s, "next")
      /\ due' = [due EXCEPT ![s] =
                    {[owner |-> o, mode |-> row[o].mode, next |-> row[o].next] : o \in listed}]
      /\ untouched' = [untouched EXCEPT ![s] = listed]
      /\ UNCHANGED <<hour, row, executed, ran, overlapped, crashes>>
  BY DEF BeginTick, history
<1>4. /\ worker' \in [Workers -> WorkerRecord] /\ worker'[s].pc = "next"
      /\ worker'[s].owner = worker[s].owner /\ worker'[s].rec = worker[s].rec
      /\ \A v \in Workers \ {s} : worker'[v] = worker[v]
      /\ \A v \in Workers : worker'[v].rec.next <= hour + 1
  BY <1>1, <1>2, GotoKeeps
<1>5. {[owner |-> o, mode |-> row[o].mode, next |-> row[o].next] : o \in listed} \in SUBSET DueRecord
  BY <1>1 DEF TypeOK, RowRecord, DueRecord
<1>6. due' \in [Servers -> SUBSET DueRecord] /\ untouched' \in [Servers -> SUBSET Owners]
  BY <1>1, <1>2, <1>5 DEF TypeOK
<1>7. TypeOK'
  BY <1>1, <1>2, <1>4, <1>6 DEF TypeOK
<1>8. ActiveHasOwner'
  BY <1>4 DEF Inv, ActiveHasOwner, ActivePc, LoadedPc
<1>9. OneAtATime'
  BY <1>2, <1>4, OwnersShrink
<1>10. HoldsCurrent' /\ LatestResultsKept' /\ SlotFollowsRuns'
  BY <1>2, <1>4, SteadyKeeps DEF LoadedPc
<1>11. \A o \in listed : row[o].next <= hour
  BY <1>1, NumberFacts DEF IsDue, Never, TypeOK, RowRecord
<1>12. UntouchedAreDue'
  BY <1>1, <1>2, <1>11 DEF Inv, UntouchedAreDue, TypeOK
<1>13. QED
  BY <1>7, <1>8, <1>9, <1>10, <1>12 DEF Inv

\* Claiming and requests: one worker takes an operator, the results stay.
LEMMA TakeInv ==
    ASSUME Inv, NEW w \in Workers, NEW o \in Owners, NEW mode \in {"scheduled", "manual"},
           NEW pc \in {"loadReview", "loadPlan"}, Take(w, o, pc, mode),
           row' \in [Owners -> RowRecord], untouched' \in [Servers -> SUBSET Owners],
           due' \in [Servers -> SUBSET DueRecord],
           \A p \in Owners : row'[p].next <= hour + 1,
           \A p \in Owners : ~overlapped[p] => /\ row'[p].results = row[p].results
                                             /\ row'[p].next = row[p].next,
           UntouchedAreDue',
           hour' = hour, executed' = executed, ran' = ran, crashes' = crashes
    PROVE  Inv'
<1>1. TypeOK
  BY DEF Inv
<1>2. /\ worker' \in [Workers -> WorkerRecord]
      /\ worker'[w].pc = pc /\ worker'[w].owner = o /\ worker'[w].rec.next = 0
      /\ \A v \in Workers \ {w} : worker'[v] = worker[v]
      /\ overlapped' \in [Owners -> BOOLEAN]
      /\ \A p \in Owners : overlapped[p] => overlapped'[p]
  BY <1>1, TakeTyped
<1>3. \A v \in Workers : worker'[v].rec.next <= hour + 1
  BY <1>1, <1>2, NumberFacts DEF TypeOK
<1>4. TypeOK'
  BY <1>1, <1>2, <1>3 DEF TypeOK
<1>5. ActiveHasOwner'
  BY <1>2 DEF Inv, ActiveHasOwner
<1>6. OneAtATime'
  BY OwnerTaken
<1>7. HoldsCurrent' /\ LatestResultsKept' /\ SlotFollowsRuns'
  BY <1>2, SteadyKeeps DEF LoadedPc
<1>8. QED
  BY <1>4, <1>5, <1>6, <1>7 DEF Inv

LEMMA ClaimNextInv == ASSUME Inv, NEW s \in Servers, ClaimNext(s) PROVE Inv'
<1>1. TypeOK /\ s \in Workers
  BY DEF Inv, Workers
<1>2. PICK d \in due[s] :
        /\ due' = [due EXCEPT ![s] = @ \ {d}]
        /\ \/ /\ Write(d.owner, [row[d.owner] EXCEPT !.status = "RUNNING"])
              /\ Take(s, d.owner, "loadReview", d.mode)
           \/ UNCHANGED <<row, untouched, worker, overlapped>>
  BY DEF ClaimNext
<1>3. UNCHANGED <<hour, executed, ran, crashes>>
  BY DEF ClaimNext
<1>4. d \in DueRecord /\ d.owner \in Owners /\ d.mode \in {"scheduled", "manual"}
  BY <1>1 DEF TypeOK, DueRecord
<1>5. due' \in [Servers -> SUBSET DueRecord]
  BY <1>1, <1>2, <1>3 DEF TypeOK
<1>6. CASE /\ Write(d.owner, [row[d.owner] EXCEPT !.status = "RUNNING"])
           /\ Take(s, d.owner, "loadReview", d.mode)
  <2> DEFINE r == [row[d.owner] EXCEPT !.status = "RUNNING"]
  <2>1. /\ r \in RowRecord /\ r.next = row[d.owner].next /\ r.results = row[d.owner].results
    BY <1>1, <1>4 DEF TypeOK, RowRecord
  <2>2. /\ row' = [row EXCEPT ![d.owner] = r]
        /\ untouched' = [x \in Servers |-> untouched[x] \ {d.owner}]
    BY <1>6 DEF Write
  <2> HIDE DEF r
  <2>3. /\ row' \in [Owners -> RowRecord] /\ \A p \in Owners : row'[p].next <= hour + 1
        /\ \A p \in Owners : row'[p].results = row[p].results /\ row'[p].next = row[p].next
    BY <1>1, <1>4, <2>1, <2>2 DEF TypeOK
  <2>4. untouched' \in [Servers -> SUBSET Owners]
    BY <1>1, <2>2 DEF TypeOK
  <2>5. UntouchedAreDue'
    BY <1>3, <1>4, <1>6, WriteUnlists
  <2>6. QED
    BY <1>1, <1>3, <1>4, <1>5, <1>6, <2>3, <2>4, <2>5, TakeInv
<1>7. CASE UNCHANGED <<row, untouched, worker, overlapped>>
  BY <1>1, <1>3, <1>5, <1>7
  DEF Inv, TypeOK, ActiveHasOwner, OneAtATime, HoldsCurrent, LatestResultsKept, SlotFollowsRuns,
      UntouchedAreDue
<1>8. QED
  BY <1>2, <1>6, <1>7

LEMMA RequestsInv ==
    ASSUME Inv, NEW w \in Requests, NEW o \in Owners, RequestCycle(w, o) \/ RequestExecution(w, o)
    PROVE  Inv'
<1>1. TypeOK /\ w \in Workers
  BY DEF Inv, Workers
<1>2. UNCHANGED <<hour, row, due, untouched, executed, ran, crashes>>
  BY DEF RequestCycle, RequestExecution
<1>3. PICK pc \in {"loadReview", "loadPlan"}, mode \in {"scheduled", "manual"} : Take(w, o, pc, mode)
  BY DEF RequestCycle, RequestExecution
<1>4. UntouchedAreDue'
  BY <1>2, UnwrittenStayDue
<1>5. QED
  BY <1>1, <1>2, <1>3, <1>4, TakeInv DEF TypeOK

\* A worker comes to rest; the results stay.
LEMMA RestInv ==
    ASSUME Inv, NEW w \in Workers, NEW r \in {Idle, Ended(w)}, worker' = [worker EXCEPT ![w] = r],
           row' \in [Owners -> RowRecord], untouched' \in [Servers -> SUBSET Owners],
           due' \in [Servers -> SUBSET DueRecord],
           \A p \in Owners : row'[p].next <= hour + 1,
           \A p \in Owners : ~overlapped[p] => /\ row'[p].results = row[p].results
                                             /\ row'[p].next = row[p].next,
           UntouchedAreDue',
           crashes' \in 0..MaxCrashes,
           hour' = hour, executed' = executed, ran' = ran, overlapped' = overlapped
    PROVE  Inv'
<1>1. TypeOK
  BY DEF Inv
<1>2. /\ worker' \in [Workers -> WorkerRecord]
      /\ worker'[w].pc \notin ActivePc /\ worker'[w].owner = Nobody
      /\ \A v \in Workers \ {w} : worker'[v] = worker[v]
      /\ \A v \in Workers : worker'[v].rec.next <= hour + 1
  BY RestKeeps
<1>3. TypeOK'
  BY <1>1, <1>2 DEF TypeOK
<1>4. ActiveHasOwner'
  BY <1>2 DEF Inv, ActiveHasOwner
<1>5. OneAtATime'
  BY <1>2, OwnersShrink
<1>6. HoldsCurrent' /\ LatestResultsKept' /\ SlotFollowsRuns'
  BY <1>2, SteadyKeeps DEF ActivePc
<1>7. QED
  BY <1>3, <1>4, <1>5, <1>6 DEF Inv

LEMMA EndTickInv == ASSUME Inv, NEW s \in Servers, EndTick(s) PROVE Inv'
<1>1. TypeOK /\ s \in Workers
  BY DEF Inv, Workers
<1>2. /\ worker' = [worker EXCEPT ![s] = Idle] /\ untouched' = [untouched EXCEPT ![s] = {}]
      /\ UNCHANGED <<hour, row, due, executed, ran, overlapped, crashes>>
  BY DEF EndTick, history
<1>3. untouched' \in [Servers -> SUBSET Owners]
  BY <1>1, <1>2 DEF TypeOK
<1>4. UntouchedAreDue'
  BY <1>1, <1>2, UnwrittenStayDue DEF TypeOK
<1>5. QED
  BY <1>1, <1>2, <1>3, <1>4, RestInv DEF TypeOK

LEMMA ThrowsOutInv == ASSUME Inv, NEW w \in Workers, ThrowsOut(w) PROVE Inv'
<1>1. /\ worker' = [worker EXCEPT ![w] = Ended(w)]
      /\ UNCHANGED <<hour, row, due, untouched, executed, ran, overlapped, crashes>>
  BY DEF ThrowsOut, history
<1>2. UntouchedAreDue'
  BY <1>1, UnwrittenStayDue
<1>3. QED
  BY <1>1, <1>2, RestInv DEF Inv, TypeOK

LEMMA WriteFailedInv == ASSUME Inv, NEW w \in Workers, WriteFailed(w) PROVE Inv'
<1>1. /\ worker[w].pc \in LoadedPc /\ Write(worker[w].owner, Rewritten(w, "FAILED"))
      /\ worker' = [worker EXCEPT ![w] = Ended(w)]
      /\ UNCHANGED <<hour, due, executed, ran, overlapped, crashes>>
  BY DEF WriteFailed, history, LoadedPc
<1>2. /\ Rewritten(w, "FAILED") \in RowRecord /\ Rewritten(w, "FAILED").next = worker[w].rec.next
      /\ Rewritten(w, "FAILED").results = worker[w].rec.results
  BY WritesTyped DEF Inv
<1>3. /\ row' \in [Owners -> RowRecord] /\ \A o \in Owners : row'[o].next <= hour + 1
      /\ untouched' \in [Servers -> SUBSET Owners]
      /\ \A o \in Owners : ~overlapped[o] => /\ row'[o].results = row[o].results
                                          /\ row'[o].next = row[o].next
      /\ worker[w].owner \in Owners
  BY <1>1, <1>2, WriteIsSteady
<1>4. UntouchedAreDue'
  BY <1>1, <1>3, WriteUnlists
<1>5. QED
  BY <1>1, <1>3, <1>4, RestInv DEF Inv, TypeOK

LEMMA CrashInv == ASSUME Inv, NEW w \in Workers, Crash(w) PROVE Inv'
<1>1. TypeOK
  BY DEF Inv
<1>2. /\ crashes < MaxCrashes /\ crashes' = crashes + 1
      /\ worker' = [worker EXCEPT ![w] = IF w \in Servers THEN Idle ELSE Ended(w)]
      /\ due' = [s \in Servers |-> IF s = w THEN {} ELSE due[s]]
      /\ untouched' = [s \in Servers |-> IF s = w THEN {} ELSE untouched[s]]
      /\ UNCHANGED <<hour, row, executed, ran, overlapped>>
  BY DEF Crash, history
<1>3. due' \in [Servers -> SUBSET DueRecord] /\ untouched' \in [Servers -> SUBSET Owners]
  BY <1>1, <1>2 DEF TypeOK
<1>4. crashes' \in 0..MaxCrashes
  BY <1>1, <1>2, NumberFacts DEF TypeOK
<1>5. PICK r \in {Idle, Ended(w)} : worker' = [worker EXCEPT ![w] = r]
  BY <1>2
<1>6. UntouchedAreDue'
  BY <1>2, UnwrittenStayDue
<1>7. QED
  BY <1>1, <1>2, <1>3, <1>4, <1>5, <1>6, RestInv DEF TypeOK

LEMMA ThrowsInsideInv == ASSUME Inv, NEW w \in Workers, ThrowsInside(w) PROVE Inv'
<1>1. TypeOK
  BY DEF Inv
<1>2. /\ worker[w].pc \in LoadedPc
      /\ UNCHANGED <<hour, row, due, untouched, executed, ran, overlapped, crashes>>
  BY DEF ThrowsInside, history, LoadedPc
<1>3. PICK pc \in {"reviewFailed", "searchFailed"} : Goto(w, pc)
  BY DEF ThrowsInside
<1>4. /\ worker' \in [Workers -> WorkerRecord] /\ worker'[w].pc = pc
      /\ worker'[w].owner = worker[w].owner /\ worker'[w].rec = worker[w].rec
      /\ \A v \in Workers \ {w} : worker'[v] = worker[v]
      /\ \A v \in Workers : worker'[v].rec.next <= hour + 1
  BY <1>3, GotoKeeps
<1>5. TypeOK'
  BY <1>1, <1>2, <1>4 DEF TypeOK
<1>6. ActiveHasOwner'
  BY <1>2, <1>4 DEF Inv, ActiveHasOwner, ActivePc
<1>7. OneAtATime'
  BY <1>2, <1>4, OwnersShrink
<1>8. HoldsCurrent' /\ LatestResultsKept' /\ SlotFollowsRuns'
  BY <1>2, <1>4, SteadyKeeps
<1>9. UntouchedAreDue'
  BY <1>2, UnwrittenStayDue
<1>10. QED
  BY <1>5, <1>6, <1>7, <1>8, <1>9 DEF Inv

LEMMA WriteRunningInv == ASSUME Inv, NEW w \in Workers, WriteRunning(w) PROVE Inv'
<1>1. TypeOK
  BY DEF Inv
<1>2. /\ worker[w].pc \in LoadedPc /\ Write(worker[w].owner, Rewritten(w, "RUNNING"))
      /\ UNCHANGED <<hour, due, executed, ran, overlapped, crashes>>
  BY DEF WriteRunning, history, LoadedPc
<1>3. PICK pc \in {"startRun", "review", "search"} : Goto(w, pc)
  BY DEF WriteRunning
<1>4. /\ worker' \in [Workers -> WorkerRecord] /\ worker'[w].pc = pc
      /\ worker'[w].owner = worker[w].owner /\ worker'[w].rec = worker[w].rec
      /\ \A v \in Workers \ {w} : worker'[v] = worker[v]
      /\ \A v \in Workers : worker'[v].rec.next <= hour + 1
  BY <1>3, GotoKeeps
<1>5. /\ Rewritten(w, "RUNNING") \in RowRecord /\ Rewritten(w, "RUNNING").next = worker[w].rec.next
      /\ Rewritten(w, "RUNNING").results = worker[w].rec.results
  BY <1>1, WritesTyped
<1>6. /\ row' \in [Owners -> RowRecord] /\ \A o \in Owners : row'[o].next <= hour + 1
      /\ untouched' \in [Servers -> SUBSET Owners]
      /\ \A o \in Owners : ~overlapped[o] => /\ row'[o].results = row[o].results
                                          /\ row'[o].next = row[o].next
      /\ worker[w].owner \in Owners
  BY <1>2, <1>5, WriteIsSteady
<1>7. TypeOK'
  BY <1>1, <1>2, <1>4, <1>6 DEF TypeOK
<1>8. ActiveHasOwner'
  BY <1>2, <1>4 DEF Inv, ActiveHasOwner, ActivePc
<1>9. OneAtATime'
  BY <1>2, <1>4, OwnersShrink
<1>10. HoldsCurrent' /\ LatestResultsKept' /\ SlotFollowsRuns'
  BY <1>2, <1>4, <1>6, SteadyKeeps
<1>11. UntouchedAreDue'
  BY <1>2, <1>6, WriteUnlists
<1>12. QED
  BY <1>7, <1>8, <1>9, <1>10, <1>11 DEF Inv

LEMMA LoadInv == ASSUME Inv, NEW w \in Workers, Load(w) PROVE Inv'
<1>1. TypeOK
  BY DEF Inv
<1> DEFINE o == worker[w].owner
           pc == IF worker[w].pc = "loadReview" THEN "announce" ELSE "begin"
           r  == [worker[w] EXCEPT !.rec = Kept(row[o]), !.pc = pc]
<1>2. /\ worker[w].pc \in {"loadReview", "loadPlan"}
      /\ worker' = [worker EXCEPT ![w].rec = Kept(row[worker[w].owner]),
                                  ![w].pc = IF @ = "loadReview" THEN "announce" ELSE "begin"]
      /\ UNCHANGED <<hour, row, due, untouched, executed, ran, overlapped, crashes>>
  BY DEF Load, history
<1>3. o \in Owners
  BY <1>2 DEF Inv, ActiveHasOwner, ActivePc
<1>4. row[o] \in RowRecord /\ row[o].next <= hour + 1 /\ worker[w] \in WorkerRecord
  BY <1>1, <1>3 DEF TypeOK
<1>5. Kept(row[o]) \in KeptRecord /\ Kept(row[o]).next <= hour + 1
      /\ Kept(row[o]).results = row[o].results
  BY <1>4 DEF Kept, KeptRecord, RowRecord
<1>6. worker' = [worker EXCEPT ![w] =
          [pc |-> pc, owner |-> o, mode |-> worker[w].mode, rec |-> Kept(row[o])]]
  BY <1>1, <1>2, <1>4 DEF TypeOK, WorkerRecord
<1>7. /\ worker' \in [Workers -> WorkerRecord]
      /\ worker'[w].pc \in {"announce", "begin"} /\ worker'[w].owner = o
      /\ worker'[w].rec = Kept(row[o])
      /\ \A v \in Workers \ {w} : worker'[v] = worker[v]
  BY <1>1, <1>3, <1>4, <1>5, <1>6 DEF TypeOK, WorkerRecord
<1>8. \A v \in Workers : worker'[v].rec.next <= hour + 1
  BY <1>1, <1>5, <1>7 DEF TypeOK
<1>9. TypeOK'
  BY <1>1, <1>2, <1>7, <1>8 DEF TypeOK
<1>10. ActiveHasOwner'
  BY <1>3, <1>7 DEF Inv, ActiveHasOwner
<1>11. OneAtATime'
  BY <1>2, <1>7, OwnersShrink
<1>12. HoldsCurrent' /\ LatestResultsKept' /\ SlotFollowsRuns'
  BY <1>2, <1>7, SteadyKeeps
<1>13. UntouchedAreDue'
  BY <1>2, UnwrittenStayDue
<1>14. QED
  BY <1>9, <1>10, <1>11, <1>12, <1>13 DEF Inv

LEMMA ReviewCompletesInv == ASSUME Inv, NEW w \in Workers, ReviewCompletes(w) PROVE Inv'
<1>1. TypeOK
  BY DEF Inv
<1> DEFINE o == worker[w].owner
           r == Completed(worker[w].rec.results)
<1>2. /\ worker[w].pc = "review" /\ Write(o, r) /\ ran' = [ran EXCEPT ![o] = hour]
      /\ Take(w, o, "loadPlan", "scheduled")
      /\ UNCHANGED <<hour, due, executed, crashes>>
  BY DEF ReviewCompletes
<1>3. o \in Owners
  BY <1>2 DEF Inv, ActiveHasOwner, ActivePc, LoadedPc
<1>4. worker[w].rec.results \in {"none", "older", "latest"}
  BY <1>1, WritesTyped
<1>5. r \in RowRecord /\ r.next = hour + 1 /\ r.results = worker[w].rec.results
  BY <1>1, <1>4, WritesTyped
<1>6. hour \in 0..MaxHour /\ hour \in Nat
  BY <1>1, NumberFacts DEF TypeOK
<1> HIDE DEF r
<1>7. /\ row' = [row EXCEPT ![o] = r]
      /\ untouched' = [s \in Servers |-> untouched[s] \ {o}]
  BY <1>2 DEF Write
<1>8. /\ row' \in [Owners -> RowRecord] /\ \A p \in Owners : row'[p].next <= hour + 1
      /\ row'[o] = r /\ \A p \in Owners \ {o} : row'[p] = row[p]
  BY <1>1, <1>3, <1>5, <1>6, <1>7 DEF TypeOK
<1>9. untouched' \in [Servers -> SUBSET Owners]
  BY <1>1, <1>7 DEF TypeOK
<1>10. /\ worker' \in [Workers -> WorkerRecord]
       /\ worker'[w].pc = "loadPlan" /\ worker'[w].owner = o /\ worker'[w].rec.next = 0
       /\ \A v \in Workers \ {w} : worker'[v] = worker[v]
       /\ overlapped' \in [Owners -> BOOLEAN]
       /\ \A p \in Owners : overlapped[p] => overlapped'[p]
  BY <1>1, <1>2, <1>3, TakeTyped
<1>11. \A v \in Workers : worker'[v].rec.next <= hour + 1
  BY <1>1, <1>6, <1>10 DEF TypeOK
<1>12. /\ ran' \in [Owners -> 0..MaxHour] /\ ran'[o] = hour
       /\ \A p \in Owners \ {o} : ran'[p] = ran[p]
  BY <1>1, <1>2, <1>3, <1>6 DEF TypeOK
<1>13. TypeOK'
  BY <1>1, <1>2, <1>8, <1>9, <1>10, <1>11, <1>12 DEF TypeOK
<1>14. ActiveHasOwner'
  BY <1>3, <1>10 DEF Inv, ActiveHasOwner
<1>15. OneAtATime'
  BY <1>2, <1>3, OwnerTaken
<1>16. ~overlapped[o] => row'[o].results = IF executed'[o] THEN "latest" ELSE "none"
  BY <1>2, <1>3, <1>5, <1>8 DEF Inv, HoldsCurrent, LatestResultsKept, LoadedPc
<1>17. HoldsCurrent' /\ LatestResultsKept' /\ SlotFollowsRuns'
  BY <1>2, <1>3, <1>5, <1>8, <1>10, <1>12, <1>16, CompletionKeeps DEF LoadedPc
<1>18. UntouchedAreDue'
  BY <1>2, <1>3, WriteUnlists
<1>19. QED
  BY <1>13, <1>14, <1>15, <1>17, <1>18 DEF Inv

\* The one action that changes results of an operator without an overlap:
\* its worker is the only one that could hold the old ones.
LEMMA SearchCompletesInv == ASSUME Inv, NEW w \in Workers, SearchCompletes(w) PROVE Inv'
<1>1. TypeOK
  BY DEF Inv
<1> DEFINE o == worker[w].owner
<1>2. /\ worker[w].pc = "search" /\ Write(o, Completed("latest"))
      /\ ran' = [ran EXCEPT ![o] = hour] /\ executed' = [executed EXCEPT ![o] = TRUE]
      /\ worker' = [v \in Workers |-> IF v = w THEN Ended(w) ELSE Aged(v, o)]
      /\ UNCHANGED <<hour, due, overlapped, crashes>>
  BY DEF SearchCompletes
<1>3. o \in Owners
  BY <1>2 DEF Inv, ActiveHasOwner, ActivePc, LoadedPc
<1>4. /\ Completed("latest") \in RowRecord /\ Completed("latest").next = hour + 1
      /\ Completed("latest").results = "latest"
  BY <1>1, WritesTyped
<1>5. hour \in 0..MaxHour /\ hour \in Nat
  BY <1>1, NumberFacts DEF TypeOK
<1>6. /\ row' = [row EXCEPT ![o] = Completed("latest")]
      /\ untouched' = [s \in Servers |-> untouched[s] \ {o}]
  BY <1>2 DEF Write
<1>7. /\ row' \in [Owners -> RowRecord] /\ \A p \in Owners : row'[p].next <= hour + 1
      /\ row'[o].results = "latest" /\ row'[o].next = hour + 1
      /\ \A p \in Owners \ {o} : row'[p] = row[p]
  BY <1>1, <1>3, <1>4, <1>5, <1>6 DEF TypeOK
<1>8. untouched' \in [Servers -> SUBSET Owners]
  BY <1>1, <1>6 DEF TypeOK
<1>9. ASSUME NEW v \in Workers
      PROVE  /\ Aged(v, o) \in WorkerRecord /\ Aged(v, o).pc = worker[v].pc
             /\ Aged(v, o).owner = worker[v].owner
             /\ Aged(v, o).rec.next = worker[v].rec.next
             /\ worker[v].owner # o => Aged(v, o) = worker[v]
  <2>1. worker[v] \in WorkerRecord /\ worker[v].rec \in KeptRecord
    BY <1>1 DEF TypeOK, WorkerRecord
  <2> DEFINE k == [worker[v].rec EXCEPT !.results = "older"]
  <2>2. k \in KeptRecord /\ k.next = worker[v].rec.next
    BY <2>1 DEF KeptRecord
  <2>3. Aged(v, o) = IF worker[v].owner = o /\ worker[v].rec.results = "latest"
                     THEN [worker[v] EXCEPT !.rec = k] ELSE worker[v]
    BY <2>1 DEF Aged
  <2> HIDE DEF k
  <2>4. QED
    BY <2>1, <2>2, <2>3 DEF WorkerRecord
<1>10. /\ worker' \in [Workers -> WorkerRecord]
       /\ worker'[w].pc \notin ActivePc /\ worker'[w].owner = Nobody
       /\ \A v \in Workers \ {w} : worker'[v] = Aged(v, o)
       /\ worker'[w].rec.next = 0
  BY <1>2, <1>9, RestTyped DEF ActivePc, LoadedPc
<1>11. \A v \in Workers : worker'[v].rec.next <= hour + 1
  BY <1>1, <1>5, <1>9, <1>10 DEF TypeOK
<1>12. /\ executed' \in [Owners -> BOOLEAN] /\ ran' \in [Owners -> 0..MaxHour]
       /\ executed'[o] /\ ran'[o] = hour
       /\ \A p \in Owners \ {o} : executed'[p] = executed[p] /\ ran'[p] = ran[p]
  BY <1>1, <1>2, <1>3, <1>5 DEF TypeOK
<1>13. TypeOK'
  BY <1>1, <1>2, <1>7, <1>8, <1>10, <1>11, <1>12 DEF TypeOK
<1>14. ActiveHasOwner'
  BY <1>9, <1>10 DEF Inv, ActiveHasOwner
<1>15. OneAtATime'
  BY <1>2, <1>9, <1>10, OwnersShrink
<1>16. \A v \in Workers \ {w} :
          /\ worker'[v].pc = worker[v].pc /\ worker'[v].owner = worker[v].owner
          /\ worker[v].owner # o => worker'[v].rec = worker[v].rec
  BY <1>9, <1>10
<1>17. worker'[w].pc \notin LoadedPc
  BY <1>10 DEF ActivePc
<1>18. ~overlapped[o] => row'[o].results = IF executed'[o] THEN "latest" ELSE "none"
  BY <1>7, <1>12
<1> HIDE DEF o
<1>19. HoldsCurrent' /\ LatestResultsKept' /\ SlotFollowsRuns'
  <2>1. /\ worker[w].owner = o /\ row'[o].next = hour + 1 /\ ran'[o] = hour
        /\ \A p \in Owners \ {o} :
              row'[p] = row[p] /\ executed'[p] = executed[p] /\ ran'[p] = ran[p]
        /\ \A p \in Owners : overlapped[p] => overlapped'[p]
    BY <1>2, <1>7, <1>12 DEF o
  <2>2. QED
    BY <1>3, <1>16, <1>17, <1>18, <2>1, CompletionKeeps
<1>20. UntouchedAreDue'
  BY <1>2, <1>3, WriteUnlists
<1>21. QED
  BY <1>13, <1>14, <1>15, <1>19, <1>20 DEF Inv

LEMMA NextInv == Inv /\ [Next]_vars => Inv'
<1> SUFFICES ASSUME Inv, [Next]_vars PROVE Inv' OBVIOUS
<1>1. CASE TimePasses
  BY <1>1, TimePassesInv
<1>2. CASE \E s \in Servers : Tick(s)
  BY <1>2, BeginTickInv, ClaimNextInv, EndTickInv DEF Tick
<1>3. CASE \E w \in Requests, o \in Owners : RequestCycle(w, o) \/ RequestExecution(w, o)
  BY <1>3, RequestsInv
<1>4. CASE \E w \in Workers : Progress(w) \/ Crash(w)
  BY <1>4, LoadInv, WriteRunningInv, ReviewCompletesInv, SearchCompletesInv, ThrowsOutInv,
     ThrowsInsideInv, WriteFailedInv, CrashInv DEF Progress
<1>5. CASE UNCHANGED vars
  BY <1>5 DEF vars, Inv, TypeOK, ActiveHasOwner, OneAtATime, HoldsCurrent, LatestResultsKept,
     SlotFollowsRuns, UntouchedAreDue
<1>6. QED
  BY <1>1, <1>2, <1>3, <1>4, <1>5 DEF Next

-----------------------------------------------------------------------------
\* Whatever servers, requests and operators there are, every variable holds
\* values of its type and no slot is more than an hour ahead.
THEOREM ProspectingTypes == Spec => []TypeOK
<1>1. Spec => []Inv
  BY InitInv, NextInv, PTL DEF Spec
<1>2. Inv => TypeOK
  BY DEF Inv
<1>3. QED
  BY <1>1, <1>2, PTL

\* Whatever servers, requests and operators there are: while no two workers
\* have overlapped for an operator, last_result_records is what the latest
\* execution stored.
THEOREM ResultsAreLatest == Spec => []LatestResultsKept
<1>1. Spec => []Inv
  BY InitInv, NextInv, PTL DEF Spec
<1>2. Inv => LatestResultsKept
  BY DEF Inv
<1>3. QED
  BY <1>1, <1>2, PTL

\* No step but a claim touches a timer that is at its list.
LEMMA OnlyClaimsStart ==
    ASSUME Inv, Next, NEW s \in Servers, worker[s].pc = "next", worker'[s].pc = "loadReview"
    PROVE  ClaimNext(s)
<1>1. s \in Workers /\ s \notin Requests /\ worker \in [Workers -> WorkerRecord]
  BY ProspectingAssumption DEF Workers, Inv, TypeOK
<1>2. CASE TimePasses
  BY <1>2 DEF TimePasses
<1>3. ASSUME NEW x \in Servers, Tick(x) PROVE ClaimNext(s)
  <2>1. x \in Workers
    BY DEF Workers
  <2>2. CASE BeginTick(x)
    BY <1>1, <2>1, <2>2 DEF BeginTick, Goto
  <2>3. CASE ClaimNext(x)
    <3>1. ClaimNext(x) => \A v \in Workers \ {x} : worker'[v] = worker[v]
      BY <1>1, <2>1 DEF ClaimNext, Take
    <3>2. QED
      BY <1>1, <2>3, <3>1
  <2>4. CASE EndTick(x)
    BY <1>1, <2>1, <2>4, RestTyped DEF EndTick
  <2>5. QED
    BY <1>3, <2>2, <2>3, <2>4 DEF Tick
<1>4. CASE \E w \in Requests, o \in Owners : RequestCycle(w, o) \/ RequestExecution(w, o)
  <2>1. PICK w \in Requests, o \in Owners, pc \in {"loadReview", "loadPlan"},
             mode \in {"scheduled", "manual"} : Take(w, o, pc, mode)
    BY <1>4 DEF RequestCycle, RequestExecution
  <2>2. worker'[s] = worker[s]
    BY <1>1, <2>1 DEF Take, Workers
  <2>3. QED
    BY <2>2
<1>5. ASSUME NEW w \in Workers, Progress(w) PROVE FALSE
  <2>1. w # s
    BY <1>5 DEF Progress, Load, WriteRunning, ReviewCompletes, SearchCompletes, ThrowsOut,
       ThrowsInside, WriteFailed
  <2>2. CASE SearchCompletes(w)
    <3>1. worker'[s] = Aged(s, worker[w].owner)
      BY <1>1, <2>1, <2>2 DEF SearchCompletes
    <3>2. worker'[s].pc = worker[s].pc
      BY <1>1, <3>1 DEF Aged, WorkerRecord
    <3>3. QED
      BY <3>2
  <2>3. CASE \/ Load(w) \/ WriteRunning(w) \/ ReviewCompletes(w) \/ ThrowsOut(w)
             \/ ThrowsInside(w) \/ WriteFailed(w)
    <3>1. worker'[s] = worker[s]
      BY <1>1, <2>1, <2>3 DEF Load, WriteRunning, ReviewCompletes, ThrowsOut, ThrowsInside,
         WriteFailed, Goto, Take
    <3>2. QED
      BY <3>1
  <2>4. QED
    BY <1>5, <2>2, <2>3 DEF Progress
<1>6. ASSUME NEW w \in Workers, Crash(w) PROVE FALSE
  BY <1>1, <1>6, RestTyped DEF Crash
<1>7. QED
  BY <1>2, <1>3, <1>4, <1>5, <1>6 DEF Next

\* A claim that matches takes a row that is as it was listed, that is due.
LEMMA ClaimsAreOnTime == Inv /\ [Next]_vars => [\A s \in Servers : StartsOnTime(s)]_vars
<1> SUFFICES ASSUME Inv, Next, NEW s \in Servers,
                    worker[s].pc = "next", worker'[s].pc = "loadReview"
             PROVE  LET o == worker'[s].owner IN
                    overlapped'[o] \/ ran[o] = Never \/ ran[o] + 1 <= hour
  BY DEF StartsOnTime
<1>1. ClaimNext(s)
  BY OnlyClaimsStart
<1>2. TypeOK /\ s \in Workers
  BY DEF Inv, Workers
<1>3. PICK d \in due[s] : d.owner \in untouched[s] /\ Take(s, d.owner, "loadReview", d.mode)
  BY <1>1 DEF ClaimNext, ClaimMatches
<1>4. d.owner \in Owners /\ d.mode \in {"scheduled", "manual"}
  BY <1>2 DEF TypeOK, DueRecord
<1>5. worker'[s].owner = d.owner /\ (overlapped[d.owner] => overlapped'[d.owner])
  BY <1>2, <1>3, <1>4, TakeTyped
<1>6. row[d.owner].next <= hour
  BY <1>3 DEF Inv, UntouchedAreDue
<1>7. overlapped[d.owner] \/ ran[d.owner] = Never \/ row[d.owner].next = ran[d.owner] + 1
  BY <1>4 DEF Inv, SlotFollowsRuns
<1>8. QED
  BY <1>5, <1>6, <1>7

\* Whatever servers, requests and operators there are: while no two workers
\* have overlapped for an operator, no timer starts a cycle within an hour of
\* the last completed one.  Only a claim takes a timer from its list into a
\* cycle; it matched, so the row is the listed one, which was due.
THEOREM CyclesKeepTheHour == Spec => HourlyCadence
<1>1. Spec => []Inv
  BY InitInv, NextInv, PTL DEF Spec
<1>2. Inv /\ [Next]_vars => [\A s \in Servers : StartsOnTime(s)]_vars
  BY ClaimsAreOnTime
<1>3. QED
  BY <1>1, <1>2, PTL DEF Spec, HourlyCadence
================================================================================
