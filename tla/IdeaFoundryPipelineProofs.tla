---------------------- MODULE IdeaFoundryPipelineProofs ----------------------
(***************************************************************************)
(* Proofs about IdeaFoundryPipeline, for every set of processes, owners    *)
(* and run ids, every number of stages and every iteration limit.          *)
(***************************************************************************)
EXTENDS IdeaFoundryPipeline, FiniteSetTheorems, TLAPS

\* An execution that was started knows its process and its owner.
Placed ==
    \A r \in RunIds :
        exec[r].pc # "unused" => exec[r].server \in Servers /\ exec[r].owner \in Owners

\* From the end of a stage's passes on, its verdict is known.
VerdictKnown ==
    \A r \in RunIds :
        exec[r].pc \in {"after", "logStage", "logEnd"} => exec[r].verdict \in Verdict

\* A live execution is the one its owner's entry holds, and the entry is RUNNING.
LiveHoldsSlot ==
    \A r \in RunIds :
        Live(r) => LatestRun(r).runId = r /\ LatestRun(r).status = "RUNNING"

\* A RUNNING entry names a live execution that works for its owner.
RunningHasLive ==
    \A s \in Servers, o \in Owners :
        runs[s][o].status = "RUNNING" =>
            LET r == runs[s][o].runId IN
            /\ r \in RunIds /\ Live(r)
            /\ exec[r].server = s /\ exec[r].owner = o

TypeInv == TypeOK /\ Placed /\ VerdictKnown

SlotInv == TypeInv /\ LiveHoldsSlot /\ RunningHasLive

-----------------------------------------------------------------------------
(* Types.                                                                  *)

LEMMA SourcesIsStage == Sources \in Stages /\ StageCount \in Stages
BY PipelineAssumption DEF Sources, Stages

LEMMA NoExecType == NoExec \in ExecRecord
BY SourcesIsStage, PipelineAssumption
   DEF NoExec, ExecRecord, Pc, NoResults, PendingStates, StageState

LEMMA IdleRunType == IdleRun \in RunRecord
BY DEF IdleRun, RunRecord, NoResults, PendingStates, StageState

LEMMA DeriveType ==
    ASSUME NEW results, NEW base \in [Stages -> StageState]
    PROVE  DeriveStageStates(results, base) \in [Stages -> StageState]
BY DEF DeriveStageStates, StageState

LEMMA FailRunningType ==
    ASSUME NEW states \in [Stages -> StageState]
    PROVE  FailRunning(states) \in [Stages -> StageState]
BY DEF FailRunning, StageState

\* Changing the entry of a run to a well-typed record keeps the map typed.
LEMMA UpdateType ==
    ASSUME TypeOK, NEW r \in RunIds, NEW run \in RunRecord, UpdateLatest(r, run)
    PROVE  runs' \in [Servers -> [Owners -> RunRecord]]
<1>1. CASE IsLatest(r)
  BY <1>1 DEF UpdateLatest, TypeOK
<1>2. CASE ~IsLatest(r)
  BY <1>2 DEF UpdateLatest, TypeOK
<1> QED BY <1>1, <1>2

\* A log write keeps the log and the count of lost writes typed.
LEMMA WriteType ==
    ASSUME TypeOK, NEW entry \in LogEntry, WriteLog(entry)
    PROVE  log' \subseteq LogEntry /\ lost' \in 0..MaxLost
BY PipelineAssumption DEF TypeOK, WriteLog

LEMMA InitTypeInv == Init => TypeInv
BY NoExecType, IdleRunType, PipelineAssumption
   DEF Init, TypeInv, TypeOK, Placed, VerdictKnown, NoExec

LEMMA StartTypeInv ==
    ASSUME TypeInv, NEW s \in Servers, NEW o \in Owners, NEW k \in Stages, Start(s, o, k)
    PROVE  TypeInv'
<1>1. PICK r \in RunIds :
        /\ runs' = [runs EXCEPT ![s][o] =
                       [runId |-> r, status |-> "RUNNING",
                        states |-> PendingStates, results |-> NoResults]]
        /\ exec' = [exec EXCEPT ![r] =
                       [NoExec EXCEPT !.pc = "logStart", !.server = s,
                                      !.owner = o, !.first = k, !.stage = k]]
  BY DEF Start
<1>2. [runId |-> r, status |-> "RUNNING", states |-> PendingStates, results |-> NoResults]
        \in RunRecord
  BY DEF RunRecord, PendingStates, NoResults, StageState
<1>3. [NoExec EXCEPT !.pc = "logStart", !.server = s, !.owner = o, !.first = k, !.stage = k]
        \in ExecRecord
  BY NoExecType DEF ExecRecord, Pc, NoExec
<1>4. runs' \in [Servers -> [Owners -> RunRecord]]
  BY <1>1, <1>2 DEF TypeInv, TypeOK
<1>5. exec' \in [RunIds -> ExecRecord]
  BY <1>1, <1>3 DEF TypeInv, TypeOK
<1>6. TypeOK'
  BY <1>4, <1>5 DEF TypeInv, TypeOK, Start
<1>7. (Placed /\ VerdictKnown)'
  BY <1>1, NoExecType DEF TypeInv, TypeOK, Placed, VerdictKnown, NoExec, ExecRecord
<1> QED BY <1>6, <1>7 DEF TypeInv

\* One step of an execution keeps everything typed: one case per action.
LEMMA ExecuteTypeInv ==
    ASSUME TypeInv, NEW r \in RunIds, Execute(r)
    PROVE  TypeInv'
<1> DEFINE S == exec[r].server
           O == exec[r].owner
<1>0. /\ runs \in [Servers -> [Owners -> RunRecord]]
      /\ exec \in [RunIds -> ExecRecord]
      /\ TypeOK /\ Placed /\ VerdictKnown
  BY DEF TypeInv, TypeOK
<1>1. exec[r] \in ExecRecord
  BY <1>0
<1>2. ASSUME exec[r].pc # "unused"
      PROVE  S \in Servers /\ O \in Owners /\ LatestRun(r) \in RunRecord
  BY <1>0, <1>2 DEF Placed, LatestRun
<1>3. ASSUME exec[r].pc # "unused", NEW e \in LogEvent, NEW k \in Stages,
             NEW st \in {"RUNNING"} \cup Verdict, NEW states \in [Stages -> StageState]
      PROVE  Entry(r, e, k, st, states) \in LogEntry
  BY <1>2, <1>3 DEF Entry, LogEntry
<1>4. PendingStates \in [Stages -> StageState]
  BY DEF PendingStates, StageState
<1>5. CASE LogRunStarted(r)
  <2>1. Entry(r, "run_started", exec[r].first, "RUNNING", PendingStates) \in LogEntry
    BY <1>1, <1>3, <1>4, <1>5 DEF LogRunStarted, ExecRecord, LogEvent
  <2>2. log' \subseteq LogEntry /\ lost' \in 0..MaxLost
    BY <1>0, <1>5, <2>1, WriteType DEF LogRunStarted
  <2>3. exec' \in [RunIds -> ExecRecord]
    BY <1>0, <1>1, <1>5 DEF LogRunStarted, ExecRecord, Pc
  <2> QED
    BY <1>0, <1>5, <2>2, <2>3 DEF LogRunStarted, TypeInv, TypeOK, Placed, VerdictKnown
<1>6. CASE BeginStage(r)
  <2>1. [LatestRun(r) EXCEPT !.states[exec[r].stage] = "running"] \in RunRecord
    BY <1>1, <1>2, <1>6 DEF BeginStage, ExecRecord, RunRecord, StageState
  <2>2. runs' \in [Servers -> [Owners -> RunRecord]]
    BY <1>0, <1>6, <2>1, UpdateType DEF BeginStage, StageEvent
  <2>3. exec' \in [RunIds -> ExecRecord]
    <3>1. 1 \in 0..MaxStageIterations
      BY PipelineAssumption
    <3> QED
      BY <1>0, <1>1, <1>6, <3>1 DEF BeginStage, ExecRecord, Pc
  <2> QED
    BY <1>0, <1>6, <2>2, <2>3 DEF BeginStage, TypeInv, TypeOK, Placed, VerdictKnown
<1>7. ASSUME NEW outcome \in {"failed", "idle", "progress"}, PassReturns(r, outcome)
      PROVE  TypeInv'
  <2> DEFINE verdict == PassVerdict(exec[r].stage, exec[r].iteration, outcome)
  <2>1. CASE verdict = "none"
    <3>1. exec' = [exec EXCEPT ![r].iteration = @ + 1]
      BY <1>7, <2>1 DEF PassReturns
    <3>2. exec[r].iteration # MaxStageIterations
      BY <2>1 DEF PassVerdict
    <3>3. exec[r].iteration \in 0..MaxStageIterations
      BY <1>1 DEF ExecRecord
    <3>4. exec[r].iteration + 1 \in 0..MaxStageIterations
      BY <3>2, <3>3, PipelineAssumption
    <3>5. exec' \in [RunIds -> ExecRecord]
      BY <1>0, <1>1, <3>1, <3>4 DEF ExecRecord
    <3>6. UNCHANGED <<runs, log, crashes, lost>>
      BY <1>7 DEF PassReturns
    <3> QED
      BY <1>0, <3>1, <3>5, <3>6 DEF TypeInv, TypeOK, Placed, VerdictKnown
  <2>2. CASE verdict # "none"
    <3>1. exec' = [exec EXCEPT ![r].pc = "after", ![r].verdict = verdict]
      BY <1>7, <2>2 DEF PassReturns
    <3>2. verdict \in Verdict
      BY <2>2 DEF PassVerdict, Verdict
    <3>3. exec' \in [RunIds -> ExecRecord]
      BY <1>0, <1>1, <3>1, <3>2 DEF ExecRecord, Pc
    <3>4. UNCHANGED <<runs, log, crashes, lost>> /\ exec[r].pc = "pass"
      BY <1>7 DEF PassReturns
    <3>5. TypeOK'
      BY <1>0, <3>3, <3>4 DEF TypeOK
    <3>6. Placed'
      BY <1>0, <3>1, <3>4 DEF Placed
    <3>7. VerdictKnown'
      <4> HIDE DEF verdict
      <4> QED BY <1>0, <1>1, <3>1, <3>2 DEF VerdictKnown, ExecRecord
    <3> QED BY <3>5, <3>6, <3>7 DEF TypeInv
  <2> QED BY <2>1, <2>2
<1>8. CASE PassThrows(r)
  <2>1. Rejected(LatestRun(r)) \in RunRecord
    BY <1>2, <1>8, FailRunningType DEF PassThrows, Rejected, RunRecord, Verdict
  <2>2. runs' \in [Servers -> [Owners -> RunRecord]]
    BY <1>0, <1>8, <2>1, UpdateType DEF PassThrows
  <2>3. AfterThrow(r) \in {"logFailed", "done"}
    BY DEF AfterThrow
  <2>4. exec' \in [RunIds -> ExecRecord]
    BY <1>0, <1>1, <1>8, <2>1, <2>3 DEF PassThrows, ExecRecord, Pc, RunRecord
  <2> QED
    BY <1>0, <1>8, <2>2, <2>3, <2>4 DEF PassThrows, TypeInv, TypeOK, Placed, VerdictKnown
<1>9. CASE EndStage(r)
  <2>1. exec[r].verdict \in Verdict
    BY <1>0, <1>9 DEF EndStage, VerdictKnown
  <2>2. PICK state \in StageState : StageEvent(r, exec[r].stage, state)
    BY <1>9 DEF EndStage, StageState
  <2>3. [LatestRun(r) EXCEPT !.states[exec[r].stage] = state] \in RunRecord
    BY <1>1, <1>2, <1>9 DEF EndStage, ExecRecord, RunRecord
  <2>4. runs' \in [Servers -> [Owners -> RunRecord]]
    BY <1>0, <2>2, <2>3, UpdateType DEF StageEvent
  <2>5. exec' \in [RunIds -> ExecRecord]
    BY <1>0, <1>1, <1>9, <2>1 DEF EndStage, ExecRecord, Pc
  <2> QED
    BY <1>0, <1>9, <2>4, <2>5 DEF EndStage, TypeInv, TypeOK, Placed, VerdictKnown
<1>10. CASE LogStage(r)
  <2>1. exec[r].verdict \in Verdict
    BY <1>0, <1>10 DEF LogStage, VerdictKnown
  <2>2. Entry(r, "stage", exec[r].stage, exec[r].verdict, PendingStates) \in LogEntry
    BY <1>1, <1>3, <1>4, <1>10, <2>1 DEF LogStage, ExecRecord, LogEvent
  <2>3. log' \subseteq LogEntry /\ lost' \in 0..MaxLost
    BY <1>0, <1>10, <2>2, WriteType DEF LogStage
  <2>4. CASE GoesOn(r)
    <3>1. NextStage(r) \in Stages
      BY <1>1, <2>4, PipelineAssumption DEF GoesOn, NextStage, Stages, ExecRecord
    <3>2. /\ exec' = [exec EXCEPT ![r].pc = "before", ![r].stage = NextStage(r),
                                  ![r].verdict = "none"]
          /\ UNCHANGED <<runs, crashes>> /\ exec[r].pc = "logStage"
      BY <1>10, <2>4 DEF LogStage
    <3>3. exec' \in [RunIds -> ExecRecord]
      BY <1>0, <1>1, <3>1, <3>2 DEF ExecRecord, Pc
    <3> QED
      BY <1>0, <2>3, <3>2, <3>3 DEF TypeInv, TypeOK, Placed, VerdictKnown
  <2>5. CASE ~GoesOn(r)
    <3>1. Published(r) \in RunRecord
      BY <1>1, <1>2, <1>10, <2>1, DeriveType DEF LogStage, Published, RunRecord, ExecRecord
    <3>2. runs' \in [Servers -> [Owners -> RunRecord]]
      BY <1>0, <1>10, <2>5, <3>1, UpdateType DEF LogStage
    <3>3. PICK pc \in {"logEnd", "done"} :
            exec' = [exec EXCEPT ![r].pc = pc, ![r].final = Published(r).states]
      BY <1>10, <2>5 DEF LogStage
    <3>4. exec' \in [RunIds -> ExecRecord]
      BY <1>0, <1>1, <3>1, <3>3 DEF ExecRecord, Pc, RunRecord
    <3> QED
      BY <1>0, <1>10, <2>1, <2>3, <3>2, <3>3, <3>4
      DEF LogStage, TypeInv, TypeOK, Placed, VerdictKnown
  <2> QED BY <2>4, <2>5
<1>11. CASE LogRunEnded(r)
  <2>1. PICK e \in LogEvent, st \in {"RUNNING"} \cup Verdict :
          WriteLog(Entry(r, e, exec[r].stage, st, exec[r].final))
    BY <1>0, <1>11 DEF LogRunEnded, VerdictKnown, LogEvent, Verdict
  <2>2. Entry(r, e, exec[r].stage, st, exec[r].final) \in LogEntry
    BY <1>1, <1>3, <1>11 DEF LogRunEnded, ExecRecord
  <2>3. log' \subseteq LogEntry /\ lost' \in 0..MaxLost
    BY <1>0, <2>1, <2>2, WriteType
  <2>4. exec' \in [RunIds -> ExecRecord]
    BY <1>0, <1>1, <1>11 DEF LogRunEnded, ExecRecord, Pc
  <2> QED
    BY <1>0, <1>11, <2>3, <2>4 DEF LogRunEnded, TypeInv, TypeOK, Placed, VerdictKnown
<1> QED
  BY <1>5, <1>6, <1>7, <1>8, <1>9, <1>10, <1>11 DEF Execute

LEMMA CrashTypeInv ==
    ASSUME TypeInv, NEW s \in Servers, Crash(s)
    PROVE  TypeInv'
<1>1. runs' \in [Servers -> [Owners -> RunRecord]]
  BY IdleRunType DEF TypeInv, TypeOK, Crash
<1>2. exec' \in [RunIds -> ExecRecord]
  <2>1. ASSUME NEW r \in RunIds
        PROVE  exec[r] \in ExecRecord /\ [exec[r] EXCEPT !.pc = "dead"] \in ExecRecord
    BY <2>1 DEF TypeInv, TypeOK, ExecRecord, Pc
  <2> QED BY <2>1 DEF Crash
<1>3. crashes' \in 0..MaxCrashes
  BY PipelineAssumption DEF TypeInv, TypeOK, Crash
<1> QED
  BY <1>1, <1>2, <1>3 DEF TypeInv, TypeOK, Crash, Placed, VerdictKnown

LEMMA StepTypeInv == TypeInv /\ [Next]_vars => TypeInv'
<1> SUFFICES ASSUME TypeInv, [Next]_vars PROVE TypeInv' OBVIOUS
<1>1. CASE UNCHANGED vars
  BY <1>1 DEF vars, TypeInv, TypeOK, Placed, VerdictKnown
<1>2. CASE Next
  BY <1>2, StartTypeInv, ExecuteTypeInv, CrashTypeInv DEF Next
<1> QED BY <1>1, <1>2

\* Type correctness, and with it the iteration limit: no execution ever counts
\* more passes of one stage than MaxStageIterations.
THEOREM TypeCorrect == Spec => []TypeOK
<1>1. Spec => []TypeInv
  BY InitTypeInv, StepTypeInv, PTL DEF Spec
<1> QED BY <1>1, PTL DEF TypeInv

-----------------------------------------------------------------------------
(* Every RUNNING entry has its one execution, and every execution its      *)
(* entry.                                                                  *)

LEMMA InitSlotInv == Init => SlotInv
BY InitTypeInv DEF Init, SlotInv, LiveHoldsSlot, RunningHasLive, Live, NoExec, IdleRun

\* A step of a live execution that keeps its entry RUNNING, and its own place,
\* keeps both halves of the correspondence.
LEMMA KeepSlot ==
    ASSUME SlotInv, TypeInv', NEW r \in RunIds, Live(r), Live(r)',
           exec'[r].server = exec[r].server, exec'[r].owner = exec[r].owner,
           \A q \in RunIds \ {r} : exec'[q] = exec[q],
           NEW run, run.runId = LatestRun(r).runId, run.status = LatestRun(r).status,
           \/ runs' = runs
           \/ UpdateLatest(r, run)
    PROVE  SlotInv'
<1> DEFINE S == exec[r].server
           O == exec[r].owner
<1>1. S \in Servers /\ O \in Owners
  BY DEF SlotInv, TypeInv, Placed, Live
<1>2. \A s \in Servers, o \in Owners :
        runs'[s][o].runId = runs[s][o].runId /\ runs'[s][o].status = runs[s][o].status
  BY <1>1 DEF SlotInv, TypeInv, TypeOK, UpdateLatest, LatestRun
<1>3. \A q \in RunIds :
        /\ Live(q)' <=> Live(q)
        /\ exec'[q].server = exec[q].server /\ exec'[q].owner = exec[q].owner
  BY DEF Live
<1>4. \A q \in RunIds : Live(q) => exec[q].server \in Servers /\ exec[q].owner \in Owners
  BY DEF SlotInv, TypeInv, Placed, Live
<1>5. LiveHoldsSlot'
  BY <1>2, <1>3, <1>4 DEF SlotInv, LiveHoldsSlot, LatestRun
<1>6. RunningHasLive'
  BY <1>2, <1>3 DEF SlotInv, RunningHasLive
<1> QED BY <1>5, <1>6 DEF SlotInv

\* A step that ends an execution and gives its entry an end status.
LEMMA EndSlot ==
    ASSUME SlotInv, TypeInv', NEW r \in RunIds, Live(r), ~Live(r)',
           \A q \in RunIds \ {r} : exec'[q] = exec[q],
           NEW run, run.status # "RUNNING", UpdateLatest(r, run)
    PROVE  SlotInv'
<1> DEFINE S == exec[r].server
           O == exec[r].owner
<1>1. S \in Servers /\ O \in Owners /\ IsLatest(r)
  BY DEF SlotInv, TypeInv, Placed, Live, LiveHoldsSlot, LatestRun, IsLatest
<1>2. runs' = [runs EXCEPT ![S][O] = run]
  BY <1>1 DEF UpdateLatest
<1>3. /\ runs'[S][O].status # "RUNNING"
      /\ \A s \in Servers, o \in Owners :
            s # S \/ o # O => runs'[s][o] = runs[s][o]
  BY <1>1, <1>2 DEF SlotInv, TypeInv, TypeOK
<1>4. \A q \in RunIds : Live(q) => exec[q].server \in Servers /\ exec[q].owner \in Owners
  BY DEF SlotInv, TypeInv, Placed, Live
<1>5. ASSUME NEW q \in RunIds, Live(q)'
      PROVE  LatestRun(q)'.runId = q /\ LatestRun(q)'.status = "RUNNING"
  <2>1. q # r /\ exec'[q] = exec[q] /\ Live(q)
    BY <1>5 DEF Live
  <2>2. LatestRun(q).runId = q /\ LatestRun(q).status = "RUNNING"
    BY <2>1 DEF SlotInv, LiveHoldsSlot
  <2>3. exec[q].server # S \/ exec[q].owner # O
    BY <1>1, <2>1, <2>2 DEF IsLatest, LatestRun
  <2> QED BY <1>3, <1>4, <2>1, <2>2, <2>3 DEF LatestRun
<1>6. ASSUME NEW s \in Servers, NEW o \in Owners, runs'[s][o].status = "RUNNING"
      PROVE  /\ runs'[s][o].runId \in RunIds /\ Live(runs[s][o].runId)'
             /\ exec'[runs'[s][o].runId].server = s /\ exec'[runs'[s][o].runId].owner = o
  <2>1. (s # S \/ o # O) /\ runs'[s][o] = runs[s][o]
    BY <1>3, <1>6
  <2>2. PICK q \in RunIds :
          /\ runs[s][o].runId = q /\ Live(q)
          /\ exec[q].server = s /\ exec[q].owner = o
    BY <1>6, <2>1 DEF SlotInv, RunningHasLive
  <2>3. q # r
    BY <2>1, <2>2
  <2>4. exec'[q] = exec[q]
    BY <2>2, <2>3
  <2> QED BY <2>1, <2>2, <2>4 DEF Live
<1> QED BY <1>5, <1>6 DEF SlotInv, LiveHoldsSlot, RunningHasLive

LEMMA StartSlotInv ==
    ASSUME SlotInv, TypeInv', NEW s \in Servers, NEW o \in Owners, NEW k \in Stages,
           Start(s, o, k)
    PROVE  SlotInv'
<1>1. PICK r \in RunIds :
        /\ exec[r].pc = "unused"
        /\ runs' = [runs EXCEPT ![s][o] =
                       [runId |-> r, status |-> "RUNNING",
                        states |-> PendingStates, results |-> NoResults]]
        /\ exec' = [exec EXCEPT ![r] =
                       [NoExec EXCEPT !.pc = "logStart", !.server = s,
                                      !.owner = o, !.first = k, !.stage = k]]
  BY DEF Start
<1>2. /\ runs'[s][o].runId = r /\ runs'[s][o].status = "RUNNING"
      /\ \A t \in Servers, p \in Owners : t # s \/ p # o => runs'[t][p] = runs[t][p]
  BY <1>1 DEF SlotInv, TypeInv, TypeOK
<1>3. /\ exec'[r].pc = "logStart" /\ exec'[r].server = s /\ exec'[r].owner = o
      /\ \A q \in RunIds \ {r} : exec'[q] = exec[q]
  BY <1>1 DEF SlotInv, TypeInv, TypeOK, NoExec
<1>4. runs[s][o].status # "RUNNING"
  BY DEF Start, MayStart
<1>5. \A q \in RunIds : Live(q) =>
        /\ exec[q].server \in Servers /\ exec[q].owner \in Owners
        /\ exec[q].server # s \/ exec[q].owner # o
  BY <1>4 DEF SlotInv, TypeInv, Placed, Live, LiveHoldsSlot, LatestRun
<1>6. \A q \in RunIds \ {r} : Live(q)' <=> Live(q)
  BY <1>3 DEF Live
<1>7. LiveHoldsSlot'
  BY <1>2, <1>3, <1>5, <1>6 DEF SlotInv, LiveHoldsSlot, LatestRun
<1>8. Live(r)' /\ ~Live(r)
  BY <1>1, <1>3 DEF Live
<1>9. RunningHasLive'
  BY <1>2, <1>3, <1>6, <1>8 DEF SlotInv, RunningHasLive
<1> QED BY <1>7, <1>9 DEF SlotInv

LEMMA ExecuteSlotInv ==
    ASSUME SlotInv, TypeInv', NEW r \in RunIds, Execute(r)
    PROVE  SlotInv'
<1>0. /\ exec \in [RunIds -> ExecRecord] /\ exec[r] \in ExecRecord
      /\ runs \in [Servers -> [Owners -> RunRecord]]
  BY DEF SlotInv, TypeInv, TypeOK
<1>1. exec[r].pc # "unused" => LatestRun(r) \in RunRecord
  BY <1>0 DEF SlotInv, TypeInv, Placed, LatestRun
<1>2. CASE LogRunStarted(r)
  BY <1>0, <1>2, KeepSlot DEF LogRunStarted, Live
<1>3. CASE BeginStage(r)
  <2> DEFINE run == [LatestRun(r) EXCEPT !.states[exec[r].stage] = "running"]
  <2>1. run.runId = LatestRun(r).runId /\ run.status = LatestRun(r).status
    BY <1>1, <1>3 DEF BeginStage, RunRecord
  <2>2. Live(r) /\ Live(r)' /\ UpdateLatest(r, run)
    BY <1>0, <1>3 DEF BeginStage, Live, StageEvent
  <2>3. /\ exec'[r].server = exec[r].server /\ exec'[r].owner = exec[r].owner
        /\ \A q \in RunIds \ {r} : exec'[q] = exec[q]
    BY <1>0, <1>3 DEF BeginStage
  <2> QED BY <2>1, <2>2, <2>3, KeepSlot
<1>4. ASSUME NEW outcome \in {"failed", "idle", "progress"}, PassReturns(r, outcome)
      PROVE  SlotInv'
  <2>1. /\ Live(r) /\ Live(r)' /\ runs' = runs
        /\ exec'[r].server = exec[r].server /\ exec'[r].owner = exec[r].owner
        /\ \A q \in RunIds \ {r} : exec'[q] = exec[q]
    BY <1>0, <1>4 DEF PassReturns, Live
  <2> QED BY <2>1, KeepSlot
<1>5. CASE PassThrows(r)
  <2>1. Rejected(LatestRun(r)).status # "RUNNING"
    BY <1>1, <1>5 DEF PassThrows, Rejected, RunRecord
  <2>2. /\ Live(r) /\ ~Live(r)' /\ UpdateLatest(r, Rejected(LatestRun(r)))
        /\ \A q \in RunIds \ {r} : exec'[q] = exec[q]
    BY <1>0, <1>5 DEF PassThrows, AfterThrow, Live
  <2> QED BY <2>1, <2>2, EndSlot
<1>6. CASE EndStage(r)
  <2>1. PICK state \in StageState : StageEvent(r, exec[r].stage, state)
    BY <1>6 DEF EndStage, StageState
  <2> DEFINE run == [LatestRun(r) EXCEPT !.states[exec[r].stage] = state]
  <2>2. run.runId = LatestRun(r).runId /\ run.status = LatestRun(r).status
    BY <1>1, <1>6 DEF EndStage, RunRecord
  <2>3. Live(r) /\ Live(r)' /\ UpdateLatest(r, run)
    BY <1>0, <1>6, <2>1 DEF EndStage, Live, StageEvent
  <2>4. /\ exec'[r].server = exec[r].server /\ exec'[r].owner = exec[r].owner
        /\ \A q \in RunIds \ {r} : exec'[q] = exec[q]
    BY <1>0, <1>6 DEF EndStage
  <2> QED BY <2>2, <2>3, <2>4, KeepSlot
<1>7. CASE LogStage(r)
  <2>1. CASE GoesOn(r)
    <3>0. /\ exec' = [exec EXCEPT ![r].pc = "before", ![r].stage = NextStage(r),
                                  ![r].verdict = "none"]
          /\ runs' = runs /\ exec[r].pc = "logStage"
      BY <1>7, <2>1 DEF LogStage
    <3>1. /\ Live(r) /\ Live(r)' /\ runs' = runs
          /\ exec'[r].server = exec[r].server /\ exec'[r].owner = exec[r].owner
          /\ \A q \in RunIds \ {r} : exec'[q] = exec[q]
      BY <1>0, <3>0 DEF Live
    <3> QED BY <3>1, KeepSlot
  <2>2. CASE ~GoesOn(r)
    <3>1. exec[r].verdict \in Verdict
      BY <1>7 DEF LogStage, SlotInv, TypeInv, VerdictKnown
    <3>2. Published(r).status # "RUNNING"
      BY <1>1, <1>7, <3>1 DEF LogStage, Published, RunRecord, Verdict
    <3>3. PICK pc \in {"logEnd", "done"} :
            exec' = [exec EXCEPT ![r].pc = pc, ![r].final = Published(r).states]
      BY <1>7, <2>2 DEF LogStage
    <3>4. /\ Live(r) /\ ~Live(r)' /\ UpdateLatest(r, Published(r))
          /\ \A q \in RunIds \ {r} : exec'[q] = exec[q]
      BY <1>0, <1>7, <2>2, <3>3 DEF LogStage, Live
    <3> QED BY <3>2, <3>4, EndSlot
  <2> QED BY <2>1, <2>2
<1>8. CASE LogRunEnded(r)
  <2>1. /\ runs' = runs /\ exec'[r].server = exec[r].server /\ exec'[r].owner = exec[r].owner
        /\ \A q \in RunIds : Live(q)' <=> Live(q)
        /\ \A q \in RunIds \ {r} : exec'[q] = exec[q]
    BY <1>0, <1>8 DEF LogRunEnded, Live
  <2> QED
    BY <2>1 DEF SlotInv, LiveHoldsSlot, RunningHasLive, LatestRun
<1> QED
  BY <1>2, <1>3, <1>4, <1>5, <1>6, <1>7, <1>8 DEF Execute

LEMMA CrashSlotInv ==
    ASSUME SlotInv, TypeInv', NEW s \in Servers, Crash(s)
    PROVE  SlotInv'
<1>1. \A q \in RunIds :
        Live(q)' => /\ Live(q) /\ exec'[q] = exec[q] /\ exec[q].server # s
  BY DEF SlotInv, TypeInv, TypeOK, ExecRecord, Crash, Live
<1>2. /\ \A o \in Owners : runs'[s][o].status = "IDLE"
      /\ \A t \in Servers, o \in Owners : t # s => runs'[t][o] = runs[t][o]
  BY DEF SlotInv, TypeInv, TypeOK, Crash, IdleRun
<1>3. \A q \in RunIds : exec[q].server # s => exec'[q] = exec[q]
  BY DEF Crash
<1>4. LiveHoldsSlot'
  BY <1>1, <1>2 DEF SlotInv, TypeInv, Placed, Live, LiveHoldsSlot, LatestRun
<1>5. RunningHasLive'
  BY <1>2, <1>3 DEF SlotInv, RunningHasLive, Live
<1> QED BY <1>4, <1>5 DEF SlotInv

LEMMA StepSlotInv == SlotInv /\ [Next]_vars => SlotInv'
<1> SUFFICES ASSUME SlotInv, [Next]_vars PROVE SlotInv' OBVIOUS
<1>1. TypeInv'
  BY StepTypeInv DEF SlotInv
<1>2. CASE UNCHANGED vars
  BY <1>1, <1>2 DEF vars, SlotInv, LiveHoldsSlot, RunningHasLive, Live, LatestRun
<1>3. CASE Next
  BY <1>1, <1>3, StartSlotInv, ExecuteSlotInv, CrashSlotInv DEF Next
<1> QED BY <1>2, <1>3

LEMMA SlotInvariant == Spec => []SlotInv
BY InitSlotInv, StepSlotInv, PTL DEF Spec

\* No run is left RUNNING with nobody to end it, and none works unseen.
THEOREM NoOrphanRuns == Spec => []RunningIffExecuting
<1>1. SlotInv => RunningIffExecuting
  BY DEF SlotInv, LiveHoldsSlot, RunningHasLive, RunningIffExecuting, LatestRun, IsLatest
<1> QED BY <1>1, SlotInvariant, PTL

\* A process never executes two runs of an owner at a time.
THEOREM OneExecution == Spec => []OneExecutionPerOwner
<1>1. SlotInv => OneExecutionPerOwner
  BY DEF SlotInv, LiveHoldsSlot, OneExecutionPerOwner, LatestRun
<1> QED BY <1>1, SlotInvariant, PTL

-----------------------------------------------------------------------------
(* The runtime implements OwnerPipeline.                                   *)

\* Whatever run an entry names, live or ended, was started in that process for
\* that owner.
EntryPlaced ==
    \A s \in Servers, o \in Owners :
        runs[s][o].status # "IDLE" =>
            LET r == runs[s][o].runId IN
            /\ r \in RunIds /\ exec[r].pc # "unused"
            /\ exec[r].server = s /\ exec[r].owner = o

PlaceInv == SlotInv /\ EntryPlaced

\* What a step of an execution leaves alone: its place, and the other executions.
SamePlace(r) ==
    /\ exec'[r].pc # "unused"
    /\ exec'[r].server = exec[r].server /\ exec'[r].owner = exec[r].owner
    /\ exec'[r].first = exec[r].first
    /\ \A q \in RunIds \ {r} : exec'[q] = exec[q]

LEMMA ExecuteSamePlace ==
    ASSUME TypeInv, NEW r \in RunIds, Execute(r)
    PROVE  /\ exec[r].pc # "unused" /\ SamePlace(r)
           /\ exec[r].server \in Servers /\ exec[r].owner \in Owners
<1>1. exec \in [RunIds -> ExecRecord] /\ exec[r] \in ExecRecord
  BY DEF TypeInv, TypeOK
<1>2. exec[r].pc # "unused"
  BY DEF Execute, LogRunStarted, BeginStage, PassReturns, PassThrows, EndStage, LogStage,
         LogRunEnded
<1>3. exec[r].server \in Servers /\ exec[r].owner \in Owners
  BY <1>2 DEF TypeInv, Placed
<1> SUFFICES SamePlace(r)
  BY <1>2, <1>3
<1>10. CASE LogRunStarted(r)
  BY <1>1, <1>2, <1>10 DEF LogRunStarted, SamePlace
<1>4. CASE BeginStage(r)
  BY <1>1, <1>2, <1>4 DEF BeginStage, SamePlace
<1>5. ASSUME NEW outcome \in {"failed", "idle", "progress"}, PassReturns(r, outcome)
      PROVE  SamePlace(r)
  BY <1>1, <1>2, <1>5 DEF PassReturns, SamePlace
<1>6. CASE PassThrows(r)
  BY <1>1, <1>2, <1>6 DEF PassThrows, SamePlace, AfterThrow
<1>7. CASE EndStage(r)
  BY <1>1, <1>2, <1>7 DEF EndStage, SamePlace
<1>8. CASE LogStage(r)
  <2>1. CASE GoesOn(r)
    <3>1. exec' = [exec EXCEPT ![r].pc = "before", ![r].stage = NextStage(r),
                               ![r].verdict = "none"]
      BY <1>8, <2>1 DEF LogStage
    <3> QED BY <1>1, <3>1 DEF SamePlace
  <2>2. CASE ~GoesOn(r)
    <3>1. PICK pc \in {"logEnd", "done"} :
            exec' = [exec EXCEPT ![r].pc = pc, ![r].final = Published(r).states]
      BY <1>8, <2>2 DEF LogStage
    <3> QED BY <1>1, <3>1 DEF SamePlace
  <2> QED BY <2>1, <2>2
<1>9. CASE LogRunEnded(r)
  BY <1>1, <1>2, <1>9 DEF LogRunEnded, SamePlace
<1> QED
  BY <1>4, <1>5, <1>6, <1>7, <1>8, <1>9, <1>10 DEF Execute

\* Whatever a step of an execution does to the map, it does to the entry of
\* that execution's own run.
LEMMA ExecuteOwnEntry ==
    ASSUME SlotInv, NEW r \in RunIds, Execute(r)
    PROVE  \/ runs' = runs
           \/ /\ IsLatest(r) /\ Live(r)
              /\ \E run \in RunRecord :
                    /\ run.runId = r /\ run.status # "IDLE"
                    /\ runs' = [runs EXCEPT ![exec[r].server][exec[r].owner] = run]
<1>1. /\ exec[r] \in ExecRecord /\ runs \in [Servers -> [Owners -> RunRecord]]
      /\ exec[r].pc # "unused" => LatestRun(r) \in RunRecord
  BY DEF SlotInv, TypeInv, TypeOK, Placed, LatestRun
<1>2. Live(r) => IsLatest(r) /\ LatestRun(r).runId = r /\ LatestRun(r).status = "RUNNING"
  BY DEF SlotInv, LiveHoldsSlot, IsLatest, LatestRun
<1>3. ASSUME Live(r), NEW run, run \in RunRecord, run.runId = r, run.status # "IDLE",
             UpdateLatest(r, run)
      PROVE  /\ IsLatest(r) /\ Live(r)
             /\ \E q \in RunRecord :
                   /\ q.runId = r /\ q.status # "IDLE"
                   /\ runs' = [runs EXCEPT ![exec[r].server][exec[r].owner] = q]
  BY <1>2, <1>3 DEF UpdateLatest
<1>4. ASSUME NEW state \in StageState, Live(r), StageEvent(r, exec[r].stage, state)
      PROVE  \E run \in RunRecord :
                /\ run.runId = r /\ run.status # "IDLE" /\ UpdateLatest(r, run)
  <2> DEFINE run == [LatestRun(r) EXCEPT !.states[exec[r].stage] = state]
  <2>1. run \in RunRecord /\ run.runId = r /\ run.status # "IDLE"
    BY <1>1, <1>2, <1>4 DEF Live, RunRecord, ExecRecord
  <2> QED BY <1>4, <2>1 DEF StageEvent
<1>5. CASE LogRunStarted(r) \/ LogRunEnded(r) \/ \E outcome \in {"failed", "idle", "progress"} :
                                                     PassReturns(r, outcome)
  BY <1>5 DEF LogRunStarted, LogRunEnded, PassReturns
<1>6. CASE BeginStage(r)
  BY <1>3, <1>4, <1>6 DEF BeginStage, Live, StageState
<1>7. CASE PassThrows(r)
  <2>1. /\ Rejected(LatestRun(r)) \in RunRecord
        /\ Rejected(LatestRun(r)).runId = r /\ Rejected(LatestRun(r)).status # "IDLE"
    BY <1>1, <1>2, <1>7, FailRunningType DEF PassThrows, Rejected, RunRecord, Verdict, Live
  <2> QED BY <1>3, <1>7, <2>1 DEF PassThrows, Live
<1>8. CASE EndStage(r)
  <2>1. PICK state \in StageState : StageEvent(r, exec[r].stage, state)
    BY <1>8 DEF EndStage, StageState
  <2> QED BY <1>3, <1>4, <1>8, <2>1 DEF EndStage, Live
<1>9. CASE LogStage(r) /\ ~GoesOn(r)
  <2>1. exec[r].verdict \in Verdict
    BY <1>9 DEF LogStage, SlotInv, TypeInv, VerdictKnown
  <2>2. /\ Published(r) \in RunRecord
        /\ Published(r).runId = r /\ Published(r).status # "IDLE"
    BY <1>1, <1>2, <1>9, <2>1, DeriveType
    DEF LogStage, Published, RunRecord, ExecRecord, Verdict, Live
  <2> QED BY <1>3, <1>9, <2>2 DEF LogStage, Live
<1>10. CASE LogStage(r) /\ GoesOn(r)
  BY <1>10 DEF LogStage
<1> QED
  BY <1>5, <1>6, <1>7, <1>8, <1>9, <1>10 DEF Execute

LEMMA StepPlaceInv == PlaceInv /\ [Next]_vars => PlaceInv'
<1> SUFFICES ASSUME PlaceInv, [Next]_vars PROVE EntryPlaced'
  BY StepSlotInv DEF PlaceInv
<1>0. /\ runs \in [Servers -> [Owners -> RunRecord]] /\ exec \in [RunIds -> ExecRecord]
      /\ TypeInv /\ SlotInv
  BY DEF PlaceInv, SlotInv, TypeInv, TypeOK
<1>1. CASE UNCHANGED vars
  BY <1>1 DEF vars, PlaceInv, EntryPlaced
<1>2. ASSUME NEW s \in Servers, NEW o \in Owners, NEW k \in Stages, Start(s, o, k)
      PROVE  EntryPlaced'
  <2>1. PICK r \in RunIds :
          /\ exec[r].pc = "unused"
          /\ runs' = [runs EXCEPT ![s][o] =
                         [runId |-> r, status |-> "RUNNING",
                          states |-> PendingStates, results |-> NoResults]]
          /\ exec' = [exec EXCEPT ![r] =
                         [NoExec EXCEPT !.pc = "logStart", !.server = s,
                                        !.owner = o, !.first = k, !.stage = k]]
    BY <1>2 DEF Start
  <2> QED BY <1>0, <2>1 DEF PlaceInv, EntryPlaced, NoExec
<1>3. ASSUME NEW r \in RunIds, Execute(r)
      PROVE  EntryPlaced'
  <2>1. SamePlace(r) /\ exec[r].pc # "unused"
    BY <1>0, <1>3, ExecuteSamePlace
  <2>2. \A q \in RunIds : exec[q].pc # "unused" =>
          /\ exec'[q].pc # "unused"
          /\ exec'[q].server = exec[q].server /\ exec'[q].owner = exec[q].owner
    BY <2>1 DEF SamePlace
  <2>3. CASE runs' = runs
    BY <2>2, <2>3 DEF PlaceInv, EntryPlaced
  <2>4. ASSUME NEW run, run.runId = r,
               runs' = [runs EXCEPT ![exec[r].server][exec[r].owner] = run]
        PROVE  EntryPlaced'
    BY <1>0, <2>1, <2>2, <2>4 DEF PlaceInv, EntryPlaced, SamePlace
  <2> QED BY <1>0, <1>3, <2>3, <2>4, ExecuteOwnEntry
<1>4. ASSUME NEW s \in Servers, Crash(s)
      PROVE  EntryPlaced'
  <2>1. /\ \A o \in Owners : runs'[s][o].status = "IDLE"
        /\ \A t \in Servers, o \in Owners : t # s => runs'[t][o] = runs[t][o]
        /\ \A q \in RunIds : exec[q].server # s => exec'[q] = exec[q]
    BY <1>0, <1>4 DEF Crash, IdleRun
  <2> QED BY <2>1 DEF PlaceInv, EntryPlaced
<1> QED BY <1>1, <1>2, <1>3, <1>4 DEF Next

LEMMA PlaceInvariant == Spec => []PlaceInv
<1>1. Init => PlaceInv
  BY InitSlotInv DEF Init, PlaceInv, EntryPlaced, IdleRun
<1> QED BY <1>1, StepPlaceInv, PTL DEF Spec

\* How the slots change when one entry does.
LEMMA OneSlot ==
    ASSUME NEW s \in Servers, NEW o \in Owners,
           runs \in [Servers -> [Owners -> RunRecord]],
           runs' \in [Servers -> [Owners -> RunRecord]],
           \A t \in Servers, p \in Owners : t # s \/ p # o =>
               /\ PhaseOf(runs[t][p])' = PhaseOf(runs[t][p])
               /\ StageOf(runs[t][p])' = StageOf(runs[t][p])
    PROVE  /\ SlotPhase' = [SlotPhase EXCEPT ![s][o] = PhaseOf(runs[s][o])']
           /\ SlotStage' = [SlotStage EXCEPT ![s][o] = StageOf(runs[s][o])']
<1>1. SlotPhase' = [t \in Servers |-> [p \in Owners |-> PhaseOf(runs[t][p])']]
  BY DEF SlotPhase
<1>2. SlotStage' = [t \in Servers |-> [p \in Owners |-> StageOf(runs[t][p])']]
  BY DEF SlotStage
<1> QED BY <1>1, <1>2 DEF SlotPhase, SlotStage

LEMMA SameSlots ==
    ASSUME \A t \in Servers, p \in Owners :
               /\ PhaseOf(runs[t][p])' = PhaseOf(runs[t][p])
               /\ StageOf(runs[t][p])' = StageOf(runs[t][p])
    PROVE  SlotPhase' = SlotPhase /\ SlotStage' = SlotStage
BY DEF SlotPhase, SlotStage

LEMMA StartBegins ==
    ASSUME PlaceInv, TypeInv', NEW s \in Servers, NEW o \in Owners, NEW k \in Stages,
           Start(s, o, k)
    PROVE  Slots!Begin(s, o, k)
<1>1. PICK r \in RunIds :
        /\ exec[r].pc = "unused"
        /\ runs' = [runs EXCEPT ![s][o] =
                       [runId |-> r, status |-> "RUNNING",
                        states |-> PendingStates, results |-> NoResults]]
        /\ exec' = [exec EXCEPT ![r] =
                       [NoExec EXCEPT !.pc = "logStart", !.server = s,
                                      !.owner = o, !.first = k, !.stage = k]]
  BY DEF Start
<1>2. /\ runs \in [Servers -> [Owners -> RunRecord]] /\ runs' \in [Servers -> [Owners -> RunRecord]]
      /\ exec \in [RunIds -> ExecRecord]
  BY DEF PlaceInv, SlotInv, TypeInv, TypeOK
<1>3. \A t \in Servers, p \in Owners : t # s \/ p # o =>
        /\ runs'[t][p] = runs[t][p]
        /\ runs[t][p].status # "IDLE" =>
              exec'[runs[t][p].runId] = exec[runs[t][p].runId]
  BY <1>1, <1>2 DEF PlaceInv, EntryPlaced
<1>4. runs'[s][o].runId = r /\ runs'[s][o].status = "RUNNING" /\ exec'[r].stage = k
  BY <1>1, <1>2 DEF NoExec
<1>5. PhaseOf(runs[s][o])' = "running" /\ StageOf(runs[s][o])' = k
  BY <1>4 DEF PhaseOf, StageOf
<1>6. \A t \in Servers, p \in Owners : t # s \/ p # o =>
        /\ PhaseOf(runs[t][p])' = PhaseOf(runs[t][p])
        /\ StageOf(runs[t][p])' = StageOf(runs[t][p])
  BY <1>3 DEF PhaseOf, StageOf
<1>7. PhaseOf(runs[s][o]) # "running"
  BY DEF Start, MayStart, PhaseOf
<1>8. SlotPhase' = [SlotPhase EXCEPT ![s][o] = "running"] /\ SlotStage' = [SlotStage EXCEPT ![s][o] = k]
  BY <1>2, <1>5, <1>6, OneSlot
<1>9. SlotPhase[s][o] # "running"
  BY <1>7 DEF SlotPhase
<1> QED BY <1>8, <1>9 DEF Slots!Begin

\* A step that changes neither the phase nor the stage of the run it works for.
LEMMA ExecuteStutters ==
    ASSUME PlaceInv, NEW r \in RunIds, Execute(r), exec'[r].stage = exec[r].stage,
           \A s \in Servers, o \in Owners :
               /\ runs'[s][o].runId = runs[s][o].runId
               /\ runs'[s][o].status = runs[s][o].status
    PROVE  UNCHANGED <<SlotPhase, SlotStage>>
<1>1. SamePlace(r)
  BY ExecuteSamePlace DEF PlaceInv, SlotInv
<1>2. \A s \in Servers, o \in Owners : runs[s][o].status # "IDLE" =>
        exec'[runs[s][o].runId].stage = exec[runs[s][o].runId].stage
  BY <1>1 DEF SamePlace, PlaceInv, EntryPlaced
<1> QED BY <1>2, SameSlots DEF PhaseOf, StageOf

\* A step that ends a run leaves the stage, and every other slot, alone.
LEMMA EndingSlot ==
    ASSUME PlaceInv, TypeInv', NEW r \in RunIds, Execute(r), Live(r),
           exec'[r].stage = exec[r].stage,
           NEW run \in RunRecord, run.runId = r, run.status \in Verdict, UpdateLatest(r, run)
    PROVE  LET s == exec[r].server
               o == exec[r].owner
           IN /\ SlotPhase[s][o] = "running" /\ SlotStage[s][o] = exec[r].stage
              /\ SlotPhase' = [SlotPhase EXCEPT ![s][o] =
                                  IF run.status = "COMPLETED" THEN "success" ELSE "stopped"]
              /\ SlotStage' = SlotStage
<1>0. PICK s \in Servers, o \in Owners : s = exec[r].server /\ o = exec[r].owner
  BY ExecuteSamePlace DEF PlaceInv, SlotInv
<1>1. SamePlace(r)
  BY ExecuteSamePlace DEF PlaceInv, SlotInv
<1>2. runs[s][o].runId = r /\ runs[s][o].status = "RUNNING"
  BY <1>0 DEF PlaceInv, SlotInv, LiveHoldsSlot, LatestRun
<1>3. /\ runs \in [Servers -> [Owners -> RunRecord]] /\ runs' \in [Servers -> [Owners -> RunRecord]]
      /\ runs' = [runs EXCEPT ![s][o] = run]
  BY <1>0, <1>2 DEF PlaceInv, SlotInv, TypeInv, TypeOK, UpdateLatest, IsLatest
<1>4. \A t \in Servers, p \in Owners : t # s \/ p # o =>
        /\ runs'[t][p] = runs[t][p]
        /\ runs[t][p].status # "IDLE" =>
              exec'[runs[t][p].runId] = exec[runs[t][p].runId]
  BY <1>0, <1>1, <1>3 DEF SamePlace, PlaceInv, EntryPlaced
<1>5. runs'[s][o] = run
  BY <1>3
<1>6. /\ PhaseOf(runs[s][o]) = "running" /\ StageOf(runs[s][o]) = exec[r].stage
      /\ PhaseOf(runs[s][o])' = IF run.status = "COMPLETED" THEN "success" ELSE "stopped"
      /\ StageOf(runs[s][o])' = exec[r].stage
  BY <1>2, <1>5 DEF PhaseOf, StageOf, Verdict
<1>7. \A t \in Servers, p \in Owners : t # s \/ p # o =>
        /\ PhaseOf(runs[t][p])' = PhaseOf(runs[t][p])
        /\ StageOf(runs[t][p])' = StageOf(runs[t][p])
  BY <1>4 DEF PhaseOf, StageOf
<1>8. SlotPhase' = [SlotPhase EXCEPT ![s][o] = PhaseOf(runs[s][o])']
  BY <1>3, <1>7, OneSlot
<1>9. SlotStage' = SlotStage
  <2>1. \A t \in Servers, p \in Owners : StageOf(runs[t][p])' = StageOf(runs[t][p])
    BY <1>6, <1>7
  <2> QED BY <2>1 DEF SlotStage
<1> QED BY <1>0, <1>6, <1>8, <1>9 DEF SlotPhase, SlotStage

LEMMA ExecuteImplements ==
    ASSUME PlaceInv, TypeInv', NEW r \in RunIds, Execute(r)
    PROVE  [Slots!SlotNext]_<<SlotPhase, SlotStage>>
<1> PICK s \in Servers, o \in Owners : s = exec[r].server /\ o = exec[r].owner
  BY ExecuteSamePlace DEF PlaceInv, SlotInv
<1>0. /\ exec[r] \in ExecRecord /\ exec \in [RunIds -> ExecRecord]
      /\ runs \in [Servers -> [Owners -> RunRecord]] /\ runs' \in [Servers -> [Owners -> RunRecord]]
      /\ s \in Servers /\ o \in Owners /\ LatestRun(r) \in RunRecord
      /\ SamePlace(r)
  BY ExecuteSamePlace DEF PlaceInv, SlotInv, TypeInv, TypeOK, LatestRun
<1>1. ASSUME Live(r)
      PROVE  runs[s][o].runId = r /\ runs[s][o].status = "RUNNING"
  BY <1>1 DEF PlaceInv, SlotInv, LiveHoldsSlot, LatestRun
<1>2. ASSUME NEW state \in StageState, StageEvent(r, exec[r].stage, state)
      PROVE  \A t \in Servers, p \in Owners :
               /\ runs'[t][p].runId = runs[t][p].runId
               /\ runs'[t][p].status = runs[t][p].status
  BY <1>0, <1>2 DEF StageEvent, UpdateLatest, LatestRun, RunRecord
<1>3. ASSUME Live(r), exec'[r].stage = exec[r].stage,
             NEW run \in RunRecord, run.runId = r, run.status \in Verdict,
             UpdateLatest(r, run), run.status = "COMPLETED" => exec[r].stage = StageCount
      PROVE  Slots!SlotNext
  <2>1. /\ SlotPhase[s][o] = "running" /\ SlotStage[s][o] = exec[r].stage
        /\ SlotPhase' = [SlotPhase EXCEPT ![s][o] =
                            IF run.status = "COMPLETED" THEN "success" ELSE "stopped"]
        /\ SlotStage' = SlotStage
    BY <1>3, EndingSlot
  <2>2. CASE run.status = "COMPLETED"
    BY <1>0, <1>3, <2>1, <2>2 DEF Slots!SlotNext, Slots!Succeed
  <2>3. CASE run.status # "COMPLETED"
    BY <1>0, <2>1, <2>3 DEF Slots!SlotNext, Slots!Stop
  <2> QED BY <2>2, <2>3
<1>4. CASE LogRunStarted(r)
  BY <1>0, <1>4, ExecuteStutters DEF LogRunStarted
<1>5. CASE BeginStage(r)
  <2>1. exec'[r].stage = exec[r].stage
    BY <1>0, <1>5 DEF BeginStage
  <2> QED BY <1>2, <1>5, <2>1, ExecuteStutters DEF BeginStage, StageState
<1>6. ASSUME NEW outcome \in {"failed", "idle", "progress"}, PassReturns(r, outcome)
      PROVE  UNCHANGED <<SlotPhase, SlotStage>>
  <2>1. exec'[r].stage = exec[r].stage /\ runs' = runs
    BY <1>0, <1>6 DEF PassReturns
  <2> QED BY <2>1, ExecuteStutters
<1>7. CASE PassThrows(r)
  <2>1. Live(r) /\ exec'[r].stage = exec[r].stage
    BY <1>0, <1>7 DEF PassThrows, Live
  <2>2. /\ Rejected(LatestRun(r)) \in RunRecord
        /\ Rejected(LatestRun(r)).runId = r /\ Rejected(LatestRun(r)).status = "FAILED"
    BY <1>0, <1>1, <2>1, FailRunningType DEF Rejected, RunRecord, Verdict, LatestRun
  <2> QED BY <1>3, <1>7, <2>1, <2>2 DEF PassThrows, Verdict
<1>8. CASE EndStage(r)
  <2>1. PICK state \in StageState : StageEvent(r, exec[r].stage, state)
    BY <1>8 DEF EndStage, StageState
  <2>2. exec'[r].stage = exec[r].stage
    BY <1>0, <1>8 DEF EndStage
  <2> QED BY <1>2, <2>1, <2>2, ExecuteStutters
<1>9. CASE LogStage(r) /\ GoesOn(r)
  <2>0. /\ runs' = runs /\ exec[r].pc = "logStage"
        /\ exec' = [exec EXCEPT ![r].pc = "before", ![r].stage = NextStage(r),
                                ![r].verdict = "none"]
    BY <1>9 DEF LogStage
  <2>1. runs' = runs /\ exec'[r].stage = exec[r].stage + 1 /\ Live(r)
    BY <1>0, <2>0 DEF Live, NextStage
  <2>2. exec[r].stage \in Nat /\ exec[r].stage < StageCount
    BY <1>0, <1>9 DEF GoesOn, ExecRecord, Stages
  <2>3. \A t \in Servers, p \in Owners : t # s \/ p # o =>
          /\ PhaseOf(runs[t][p])' = PhaseOf(runs[t][p])
          /\ StageOf(runs[t][p])' = StageOf(runs[t][p])
    <3>1. \A t \in Servers, p \in Owners :
            (t # s \/ p # o) /\ runs[t][p].status # "IDLE" =>
               exec'[runs[t][p].runId] = exec[runs[t][p].runId]
      BY <1>0 DEF SamePlace, PlaceInv, EntryPlaced
    <3> QED BY <2>1, <3>1 DEF PhaseOf, StageOf
  <2>4. /\ PhaseOf(runs[s][o]) = "running" /\ PhaseOf(runs[s][o])' = "running"
        /\ StageOf(runs[s][o]) = exec[r].stage /\ StageOf(runs[s][o])' = exec[r].stage + 1
    BY <1>1, <2>1 DEF PhaseOf, StageOf
  <2>5. SlotPhase' = SlotPhase
    <3>1. \A t \in Servers, p \in Owners : PhaseOf(runs[t][p])' = PhaseOf(runs[t][p])
      BY <2>3, <2>4
    <3> QED BY <3>1 DEF SlotPhase
  <2>6. SlotStage' = [SlotStage EXCEPT ![s][o] = exec[r].stage + 1]
    <3>1. SlotStage' = [SlotStage EXCEPT ![s][o] = StageOf(runs[s][o])']
      BY <1>0, <2>3, OneSlot
    <3> QED BY <2>4, <3>1
  <2>7. SlotPhase[s][o] = "running" /\ SlotStage[s][o] = exec[r].stage
    BY <1>0, <2>4 DEF SlotPhase, SlotStage
  <2>8. Slots!Climb(s, o)
    BY <1>0, <2>2, <2>5, <2>6, <2>7 DEF Slots!Climb, SlotStage
  <2> QED BY <1>0, <2>8 DEF Slots!SlotNext
<1>10. CASE LogStage(r) /\ ~GoesOn(r)
  <2>1. exec[r].verdict \in Verdict
    BY <1>10 DEF LogStage, PlaceInv, SlotInv, TypeInv, VerdictKnown
  <2>2. Live(r) /\ UpdateLatest(r, Published(r))
    BY <1>10 DEF LogStage, Live
  <2>3. /\ Published(r) \in RunRecord
        /\ Published(r).runId = r /\ Published(r).status = exec[r].verdict
    BY <1>0, <1>1, <2>1, <2>2, DeriveType DEF Published, RunRecord, ExecRecord, Verdict, LatestRun
  <2>4. PICK pc \in {"logEnd", "done"} :
          exec' = [exec EXCEPT ![r].pc = pc, ![r].final = Published(r).states]
    BY <1>10 DEF LogStage
  <2>5. exec'[r].stage = exec[r].stage
    BY <1>0, <2>4
  <2>6. exec[r].verdict = "COMPLETED" => exec[r].stage = StageCount
    BY <1>0, <1>10, PipelineAssumption DEF GoesOn, ExecRecord, Stages
  <2> QED BY <1>3, <2>1, <2>2, <2>3, <2>5, <2>6
<1>11. CASE LogRunEnded(r)
  <2>1. runs' = runs /\ exec'[r].stage = exec[r].stage
    BY <1>0, <1>11 DEF LogRunEnded
  <2> QED BY <2>1, ExecuteStutters
<1> QED
  BY <1>4, <1>5, <1>6, <1>7, <1>8, <1>9, <1>10, <1>11 DEF Execute

LEMMA CrashForgets ==
    ASSUME PlaceInv, NEW s \in Servers, Crash(s)
    PROVE  Slots!Forget(s)
<1>0. runs \in [Servers -> [Owners -> RunRecord]]
  BY DEF PlaceInv, SlotInv, TypeInv, TypeOK
<1>1. /\ \A o \in Owners : runs'[s][o].status = "IDLE"
      /\ \A t \in Servers, o \in Owners : t # s => runs'[t][o] = runs[t][o]
      /\ \A q \in RunIds : exec[q].server # s => exec'[q] = exec[q]
  BY <1>0 DEF Crash, IdleRun
<1>2. \A o \in Owners : PhaseOf(runs[s][o])' = "idle" /\ StageOf(runs[s][o])' = 1
  BY <1>1 DEF PhaseOf, StageOf
<1>3. \A t \in Servers, o \in Owners : t # s =>
        /\ PhaseOf(runs[t][o])' = PhaseOf(runs[t][o])
        /\ StageOf(runs[t][o])' = StageOf(runs[t][o])
  BY <1>1 DEF PhaseOf, StageOf, PlaceInv, EntryPlaced
<1>4. SlotPhase' = [t \in Servers |-> [o \in Owners |-> PhaseOf(runs[t][o])']]
  BY DEF SlotPhase
<1>5. SlotStage' = [t \in Servers |-> [o \in Owners |-> StageOf(runs[t][o])']]
  BY DEF SlotStage
<1>6. SlotPhase' = [SlotPhase EXCEPT ![s] = [o \in Owners |-> "idle"]]
  BY <1>2, <1>3, <1>4 DEF SlotPhase
<1>7. SlotStage' = [SlotStage EXCEPT ![s] = [o \in Owners |-> 1]]
  BY <1>2, <1>3, <1>5 DEF SlotStage
<1> QED BY <1>6, <1>7 DEF Slots!Forget

\* Every step of the runtime is a step of the slots or leaves them alone.
LEMMA StepImplements ==
    PlaceInv /\ [Next]_vars => [Slots!SlotNext]_<<SlotPhase, SlotStage>>
<1> SUFFICES ASSUME PlaceInv, [Next]_vars PROVE [Slots!SlotNext]_<<SlotPhase, SlotStage>>
  OBVIOUS
<1>0. TypeInv'
  BY StepTypeInv DEF PlaceInv, SlotInv
<1>1. CASE UNCHANGED vars
  BY <1>1, SameSlots DEF vars, PhaseOf, StageOf
<1>2. ASSUME NEW s \in Servers, NEW o \in Owners, NEW k \in Stages, Start(s, o, k)
      PROVE  Slots!SlotNext
  BY <1>0, <1>2, StartBegins DEF Slots!SlotNext, Stages
<1>3. ASSUME NEW s \in Servers, Crash(s)
      PROVE  Slots!SlotNext
  BY <1>3, CrashForgets DEF Slots!SlotNext
<1> QED BY <1>0, <1>1, <1>2, <1>3, ExecuteImplements DEF Next

\* The runtime keeps the promise of OwnerPipeline: seen through the statuses of
\* its entries, every behaviour is a behaviour of the slots.
THEOREM RuntimeImplementsSlots == Spec => ImplementsOwnerPipeline
<1>1. Init => Slots!SlotInit
  BY DEF Init, IdleRun, SlotPhase, SlotStage, PhaseOf, StageOf, Slots!SlotInit
<1>2. PlaceInv /\ [Next]_vars => [Slots!SlotNext]_<<SlotPhase, SlotStage>>
  BY StepImplements
<1> QED
  BY <1>1, <1>2, PlaceInvariant, PTL
  DEF Spec, ImplementsOwnerPipeline, Slots!SlotSpec, Slots!slotVars

-----------------------------------------------------------------------------
(* What the status screen shows of an ended run.                           *)

\* The stage results an execution holds: COMPLETED for the stages behind it,
\* the verdict for the stage it has just finished, none for the others.
ResultsKnown ==
    \A r \in RunIds : exec[r].pc # "unused" =>
        LET e == exec[r] IN
        /\ e.first <= e.stage
        /\ \A k \in Stages : k >= e.first /\ k < e.stage => e.results[k] = "COMPLETED"
        /\ \A k \in Stages : k < e.first \/ k > e.stage => e.results[k] = "none"
        /\ e.pc \in {"logStart", "before", "pass", "after"} => e.results[e.stage] = "none"
        /\ e.pc \in {"logStage", "logEnd"} => e.results[e.stage] = e.verdict

\* The colour of the stage a live execution is at.
StateAt(e) ==
    CASE e.pc \in {"logStart", "before"} -> "pending"
      [] e.pc \in {"pass", "after"} -> "running"
      [] e.pc = "logStage" -> CASE e.verdict = "FAILED" -> "failed"
                                [] e.verdict = "COMPLETED" -> "completed"
                                [] OTHER -> "pending"
      [] OTHER -> "none"

\* The entry of a run that works: no results yet, and the colours of its stages
\* follow from how far the execution is.
StatesOf(e, run) ==
    /\ run.results = NoResults
    /\ \A k \in Stages : k >= e.first /\ k < e.stage => run.states[k] = "completed"
    /\ \A k \in Stages : k < e.first \/ k > e.stage => run.states[k] = "pending"
    /\ run.states[e.stage] = StateAt(e)

StatesKnown == \A r \in RunIds : Live(r) => StatesOf(exec[r], LatestRun(r))

\* What EndedRunReport says of one entry.
EntryReport(run, first) ==
    LET state == DeriveStageStates(run.results, run.states) IN
    run.status \in Verdict =>
        /\ \A k \in Stages : state[k] # "running"
        /\ IF run.status = "COMPLETED"
           THEN \A k \in first..StageCount : state[k] = "completed"
           ELSE \E k \in first..StageCount :
                    /\ state[k] = "failed"
                    /\ \A j \in first..(k - 1) : state[j] = "completed"
                    /\ \A j \in (k + 1)..StageCount : state[j] = "pending"

EntriesReport ==
    \A s \in Servers, o \in Owners :
        runs[s][o].status # "IDLE" => EntryReport(runs[s][o], exec[runs[s][o].runId].first)

ReportInv == PlaceInv /\ ResultsKnown /\ StatesKnown /\ EntriesReport

LEMMA StepResultsKnown == TypeInv /\ ResultsKnown /\ [Next]_vars => ResultsKnown'
<1> SUFFICES ASSUME TypeInv, ResultsKnown, [Next]_vars PROVE ResultsKnown' OBVIOUS
<1>0. exec \in [RunIds -> ExecRecord]
  BY DEF TypeInv, TypeOK
<1>1. CASE UNCHANGED vars
  BY <1>1 DEF vars, ResultsKnown
<1>2. ASSUME NEW s \in Servers, NEW o \in Owners, NEW k \in Stages, Start(s, o, k)
      PROVE  ResultsKnown'
  <2>1. PICK r \in RunIds :
          exec' = [exec EXCEPT ![r] = [NoExec EXCEPT !.pc = "logStart", !.server = s,
                                              !.owner = o, !.first = k, !.stage = k]]
    BY <1>2 DEF Start
  <2>2. /\ \A q \in RunIds \ {r} : exec'[q] = exec[q]
        /\ exec'[r].pc = "logStart" /\ exec'[r].first = k /\ exec'[r].stage = k
        /\ exec'[r].results = NoResults
    BY <1>0, <2>1 DEF NoExec
  <2>3. k \in Nat /\ k <= k
    <3>1. k \in Nat
      BY PipelineAssumption DEF Stages
    <3> QED BY <3>1
  <2> QED BY <2>2, <2>3 DEF ResultsKnown, NoResults
<1>3. ASSUME NEW r \in RunIds, Execute(r)
      PROVE  ResultsKnown'
  <2>0. SamePlace(r) /\ exec[r] \in ExecRecord
    BY <1>0, <1>3, ExecuteSamePlace
  <2> SUFFICES LET e == exec'[r] IN
        /\ e.first <= e.stage
        /\ \A k \in Stages : k >= e.first /\ k < e.stage => e.results[k] = "COMPLETED"
        /\ \A k \in Stages : k < e.first \/ k > e.stage => e.results[k] = "none"
        /\ e.pc \in {"logStart", "before", "pass", "after"} => e.results[e.stage] = "none"
        /\ e.pc \in {"logStage", "logEnd"} => e.results[e.stage] = e.verdict
    BY <2>0 DEF ResultsKnown, SamePlace
  <2>1. CASE LogRunStarted(r)
    BY <1>0, <2>0, <2>1 DEF LogRunStarted, ResultsKnown, ExecRecord
  <2>2. CASE BeginStage(r)
    BY <1>0, <2>0, <2>2 DEF BeginStage, ResultsKnown, ExecRecord
  <2>3. ASSUME NEW outcome \in {"failed", "idle", "progress"}, PassReturns(r, outcome)
        PROVE  /\ exec'[r].stage = exec[r].stage /\ exec'[r].first = exec[r].first
               /\ exec'[r].results = exec[r].results
               /\ exec[r].pc = "pass" /\ exec'[r].pc \in {"pass", "after"}
    BY <1>0, <2>0, <2>3 DEF PassReturns, ExecRecord
  <2>4. CASE \E outcome \in {"failed", "idle", "progress"} : PassReturns(r, outcome)
    BY <2>3, <2>4 DEF ResultsKnown
  <2>5. CASE PassThrows(r)
    BY <1>0, <2>0, <2>5 DEF PassThrows, ResultsKnown, ExecRecord, AfterThrow
  <2>6. CASE EndStage(r)
    <3>1. /\ exec[r].pc = "after"
          /\ exec' = [exec EXCEPT ![r].pc = "logStage",
                                  ![r].results[exec[r].stage] = exec[r].verdict]
      BY <2>6 DEF EndStage
    <3>2. /\ exec'[r].pc = "logStage"
          /\ exec'[r].stage = exec[r].stage /\ exec'[r].first = exec[r].first
          /\ exec'[r].verdict = exec[r].verdict
          /\ exec'[r].results = [exec[r].results EXCEPT ![exec[r].stage] = exec[r].verdict]
      <4>1. exec[r].results \in [Stages -> {"none"} \cup Verdict] /\ exec[r].stage \in Stages
        BY <2>0 DEF ExecRecord
      <4>2. exec'[r] = [exec[r] EXCEPT !.pc = "logStage",
                                       !.results[exec[r].stage] = exec[r].verdict]
        BY <1>0, <3>1, Zenon
      <4> QED BY <2>0, <4>1, <4>2 DEF ExecRecord
    <3>3. /\ exec[r].stage \in Stages /\ exec[r].first \in Stages
          /\ \A k \in Stages : k \in Nat
          /\ exec[r].results \in [Stages -> {"none"} \cup Verdict]
      BY <2>0 DEF ExecRecord, Stages
    <3>4. \A k \in Stages : exec'[r].results[k] =
              IF k = exec[r].stage THEN exec[r].verdict ELSE exec[r].results[k]
      BY <3>2, <3>3
    <3>5. /\ exec[r].first <= exec[r].stage
          /\ \A k \in Stages : k >= exec[r].first /\ k < exec[r].stage =>
                exec[r].results[k] = "COMPLETED"
          /\ \A k \in Stages : k < exec[r].first \/ k > exec[r].stage =>
                exec[r].results[k] = "none"
      BY <3>1 DEF ResultsKnown
    <3>6. \A k \in Stages : k < exec[r].first \/ k > exec[r].stage => k # exec[r].stage
      BY <3>3, <3>5
    <3>7. \A k \in Stages : k < exec[r].stage => k # exec[r].stage
      BY <3>3
    <3> QED BY <3>2, <3>3, <3>4, <3>5, <3>6, <3>7
  <2>7. CASE LogStage(r) /\ GoesOn(r)
    <3>1. /\ exec[r].pc = "logStage" /\ exec[r].verdict = "COMPLETED"
          /\ exec' = [exec EXCEPT ![r].pc = "before", ![r].stage = NextStage(r),
                                  ![r].verdict = "none"]
      BY <2>7 DEF LogStage, GoesOn
    <3>2. /\ exec'[r].pc = "before" /\ exec'[r].stage = exec[r].stage + 1
          /\ exec'[r].first = exec[r].first /\ exec'[r].results = exec[r].results
      BY <1>0, <3>1 DEF NextStage, ExecRecord
    <3>3. exec[r].stage \in 1..StageCount /\ exec[r].stage < StageCount /\ StageCount \in Nat
      BY <2>0, <2>7, PipelineAssumption DEF GoesOn, Stages, ExecRecord
    <3>4. /\ exec[r].first \in Nat /\ exec[r].stage + 1 \in Stages
          /\ \A k \in Stages : k \in Nat
      BY <2>0, <3>3 DEF Stages, ExecRecord
    <3>5. /\ exec[r].first <= exec[r].stage
          /\ \A k \in Stages : k >= exec[r].first /\ k < exec[r].stage =>
                exec[r].results[k] = "COMPLETED"
          /\ \A k \in Stages : k < exec[r].first \/ k > exec[r].stage =>
                exec[r].results[k] = "none"
          /\ exec[r].results[exec[r].stage] = "COMPLETED"
      BY <3>1 DEF ResultsKnown
    <3> QED BY <3>2, <3>3, <3>4, <3>5
  <2>8. CASE LogStage(r) /\ ~GoesOn(r)
    <3>1. PICK pc \in {"logEnd", "done"} :
            exec' = [exec EXCEPT ![r].pc = pc, ![r].final = Published(r).states]
      BY <2>8 DEF LogStage
    <3> QED BY <1>0, <2>0, <2>8, <3>1 DEF LogStage, ResultsKnown, ExecRecord
  <2>9. CASE LogRunEnded(r)
    BY <1>0, <2>0, <2>9 DEF LogRunEnded, ResultsKnown, ExecRecord
  <2> QED
    BY <1>3, <2>1, <2>2, <2>4, <2>5, <2>6, <2>7, <2>8, <2>9 DEF Execute
<1>4. ASSUME NEW s \in Servers, Crash(s)
      PROVE  ResultsKnown'
  <2>1. ASSUME NEW r \in RunIds
        PROVE  \/ exec'[r] = exec[r]
               \/ exec'[r] = [exec[r] EXCEPT !.pc = "dead"] /\ exec[r].pc # "unused"
    <3>1. exec'[r] = IF exec[r].server = s /\ exec[r].pc \notin {"unused", "done"}
                     THEN [exec[r] EXCEPT !.pc = "dead"] ELSE exec[r]
      BY <1>4 DEF Crash
    <3>2. CASE exec[r].server = s /\ exec[r].pc \notin {"unused", "done"}
      BY <3>1, <3>2
    <3>3. CASE ~(exec[r].server = s /\ exec[r].pc \notin {"unused", "done"})
      BY <3>1, <3>3
    <3> QED BY <3>2, <3>3
  <2>2. \A r \in RunIds :
          /\ exec'[r].first = exec[r].first /\ exec'[r].stage = exec[r].stage
          /\ exec'[r].results = exec[r].results /\ exec'[r].verdict = exec[r].verdict
          /\ exec'[r].pc \in {exec[r].pc, "dead"}
          /\ exec'[r].pc # "unused" => exec[r].pc # "unused"
    <3> SUFFICES ASSUME NEW r \in RunIds
                 PROVE  /\ exec'[r].first = exec[r].first /\ exec'[r].stage = exec[r].stage
                        /\ exec'[r].results = exec[r].results
                        /\ exec'[r].verdict = exec[r].verdict
                        /\ exec'[r].pc \in {exec[r].pc, "dead"}
                        /\ exec'[r].pc # "unused" => exec[r].pc # "unused"
      OBVIOUS
    <3>1. exec[r] \in ExecRecord
      BY <1>0
    <3>2. CASE exec'[r] = exec[r]
      BY <3>2
    <3>3. CASE exec'[r] = [exec[r] EXCEPT !.pc = "dead"] /\ exec[r].pc # "unused"
      BY <3>1, <3>3 DEF ExecRecord
    <3> QED BY <2>1, <3>2, <3>3
  <2> QED BY <2>2 DEF ResultsKnown
<1> QED BY <1>1, <1>2, <1>3, <1>4 DEF Next

\* The other executions that work have other entries.
LEMMA OthersKeepEntry ==
    ASSUME PlaceInv, NEW r \in RunIds, Execute(r), NEW q \in RunIds, q # r, Live(q)
    PROVE  LatestRun(q)' = LatestRun(q) /\ exec'[q] = exec[q]
<1>1. SamePlace(r) /\ exec'[q] = exec[q]
  BY ExecuteSamePlace DEF PlaceInv, SlotInv, SamePlace
<1>2. /\ exec[q].server \in Servers /\ exec[q].owner \in Owners
      /\ LatestRun(q).runId = q
      /\ runs \in [Servers -> [Owners -> RunRecord]]
  BY DEF PlaceInv, SlotInv, TypeInv, TypeOK, Placed, Live, LiveHoldsSlot
<1>3. CASE runs' = runs
  BY <1>1, <1>3 DEF LatestRun
<1>4. CASE /\ IsLatest(r)
           /\ \E run \in RunRecord :
                 runs' = [runs EXCEPT ![exec[r].server][exec[r].owner] = run]
  <2>1. exec[q].server # exec[r].server \/ exec[q].owner # exec[r].owner
    BY <1>2, <1>4 DEF IsLatest, LatestRun
  <2> QED BY <1>1, <1>2, <1>4, <2>1 DEF LatestRun
<1> QED BY <1>3, <1>4, ExecuteOwnEntry DEF PlaceInv

\* The report of a run whose execution returned.
LEMMA PublishedReport ==
    ASSUME TypeInv, ResultsKnown, StatesKnown, NEW r \in RunIds,
           exec[r].pc = "logStage", ~GoesOn(r)
    PROVE  EntryReport(Published(r), exec[r].first)
<1> DEFINE e == exec[r]
           run == LatestRun(r)
           base == DeriveStageStates(e.results, run.states)
           state == DeriveStageStates(e.results, base)
<1>0. /\ e \in ExecRecord /\ run \in RunRecord /\ e.verdict \in Verdict
      /\ e.first <= e.stage /\ e.results[e.stage] = e.verdict
      /\ \A k \in Stages : k >= e.first /\ k < e.stage => e.results[k] = "COMPLETED"
      /\ \A k \in Stages : k < e.first \/ k > e.stage =>
            e.results[k] = "none" /\ run.states[k] = "pending"
  BY DEF TypeInv, TypeOK, Placed, LatestRun, VerdictKnown, ResultsKnown, StatesKnown, StatesOf, Live
<1>1. Published(r).status = e.verdict /\ Published(r).results = e.results
      /\ Published(r).states = base
  BY <1>0 DEF Published, RunRecord
<1>2. /\ e.stage \in Stages /\ e.first \in Stages /\ StageCount \in Nat
      /\ Stages = 1..StageCount /\ Sources = 1
  BY <1>0, PipelineAssumption DEF ExecRecord, Stages, Sources
<1>3. \A k \in Stages : k >= e.first /\ k < e.stage => state[k] = "completed"
  BY <1>0 DEF DeriveStageStates
<1>4. state[e.stage] = IF e.verdict = "COMPLETED" THEN "completed" ELSE "failed"
  BY <1>0, <1>2 DEF DeriveStageStates, Verdict
<1>5. \A k \in Stages : k > e.stage => state[k] = "pending"
  BY <1>0, <1>2 DEF DeriveStageStates
<1>6. \A k \in Stages : k < e.first => state[k] # "running"
  BY <1>0, <1>2 DEF DeriveStageStates
<1>7. \A k \in Stages : state[k] # "running"
  BY <1>2, <1>3, <1>4, <1>5, <1>6
<1>8. CASE e.verdict = "COMPLETED"
  <2>1. e.stage = StageCount
    BY <1>2, <1>8 DEF GoesOn
  <2>2. \A k \in e.first..StageCount : state[k] = "completed"
    BY <1>2, <1>3, <1>4, <1>8, <2>1
  <2> QED BY <1>1, <1>7, <1>8, <2>2 DEF EntryReport
<1>9. CASE e.verdict # "COMPLETED"
  <2>1. /\ e.stage \in e.first..StageCount /\ state[e.stage] = "failed"
        /\ \A j \in e.first..(e.stage - 1) : state[j] = "completed"
        /\ \A j \in (e.stage + 1)..StageCount : state[j] = "pending"
    BY <1>0, <1>2, <1>3, <1>4, <1>5, <1>9
  <2> QED BY <1>1, <1>7, <1>9, <2>1 DEF EntryReport
<1> QED BY <1>8, <1>9

\* The report of a run whose execution threw.
LEMMA RejectedReport ==
    ASSUME TypeInv, ResultsKnown, StatesKnown, NEW r \in RunIds, exec[r].pc = "pass"
    PROVE  EntryReport(Rejected(LatestRun(r)), exec[r].first)
<1> DEFINE e == exec[r]
           run == LatestRun(r)
           base == FailRunning(run.states)
           state == DeriveStageStates(NoResults, base)
<1>0. /\ e \in ExecRecord /\ run \in RunRecord
      /\ e.first <= e.stage /\ run.results = NoResults /\ run.states[e.stage] = "running"
      /\ \A k \in Stages : k >= e.first /\ k < e.stage => run.states[k] = "completed"
      /\ \A k \in Stages : k < e.first \/ k > e.stage => run.states[k] = "pending"
  BY DEF TypeInv, TypeOK, Placed, LatestRun, ResultsKnown, StatesKnown, StatesOf, StateAt,
         Live
<1>1. Rejected(run).status = "FAILED" /\ Rejected(run).results = NoResults
      /\ Rejected(run).states = base
  BY <1>0 DEF Rejected, RunRecord
<1>2. /\ e.stage \in Stages /\ e.first \in Stages /\ StageCount \in Nat
      /\ Stages = 1..StageCount
  BY <1>0, PipelineAssumption DEF ExecRecord, Stages
<1>3. \A k \in Stages : run.states[k] = "running" <=> k = e.stage
  BY <1>0, <1>2
<1>4. \A k \in Stages : base[k] = IF k = e.stage THEN "failed" ELSE run.states[k]
  BY <1>2, <1>3 DEF FailRunning
<1>5. \A k \in Stages : state[k] = base[k]
  BY DEF DeriveStageStates, NoResults
<1>6. /\ e.stage \in e.first..StageCount /\ state[e.stage] = "failed"
      /\ \A j \in e.first..(e.stage - 1) : state[j] = "completed"
      /\ \A j \in (e.stage + 1)..StageCount : state[j] = "pending"
      /\ \A k \in Stages : state[k] # "running"
  BY <1>0, <1>2, <1>3, <1>4, <1>5
<1> QED BY <1>1, <1>6 DEF EntryReport

\* A live execution that changes its entry changes the one it still holds.
LEMMA OwnEntryUpdated ==
    ASSUME PlaceInv, NEW r \in RunIds, Live(r), NEW run, UpdateLatest(r, run), SamePlace(r)
    PROVE  LatestRun(r)' = run
<1>1. /\ IsLatest(r) /\ exec[r].server \in Servers /\ exec[r].owner \in Owners
      /\ runs \in [Servers -> [Owners -> RunRecord]]
  BY DEF PlaceInv, SlotInv, TypeInv, TypeOK, Placed, Live, LiveHoldsSlot, LatestRun, IsLatest
<1>2. runs' = [runs EXCEPT ![exec[r].server][exec[r].owner] = run]
  BY <1>1 DEF UpdateLatest
<1> QED BY <1>1, <1>2 DEF LatestRun, SamePlace

\* The entry of an execution that still works after its step.
LEMMA ExecuteStates ==
    ASSUME PlaceInv, ResultsKnown, StatesKnown, NEW r \in RunIds, Execute(r), Live(r)'
    PROVE  StatesOf(exec[r]', LatestRun(r)')
<1> DEFINE e == exec[r]
           run == LatestRun(r)
<1>0. /\ exec \in [RunIds -> ExecRecord] /\ e \in ExecRecord /\ TypeInv
      /\ SamePlace(r) /\ e.server \in Servers /\ e.owner \in Owners
      /\ run \in RunRecord
  BY ExecuteSamePlace DEF PlaceInv, SlotInv, TypeInv, TypeOK, LatestRun
<1>1. Live(r)
  <2>1. CASE LogRunEnded(r)
    <3>1. exec'[r].pc = "done"
      BY <1>0, <2>1 DEF LogRunEnded
    <3> QED BY <3>1 DEF Live
  <2>2. CASE ~LogRunEnded(r)
    BY <2>2 DEF Execute, Live, LogRunStarted, BeginStage, PassReturns, PassThrows, EndStage,
                LogStage
  <2> QED BY <2>1, <2>2
<1>2. StatesOf(e, run)
  BY <1>1 DEF StatesKnown
<1>3. /\ e.stage \in Stages /\ e.first \in Stages /\ \A k \in Stages : k \in Nat
      /\ StageCount \in Nat /\ e.first <= e.stage /\ run.states \in [Stages -> StageState]
  BY <1>0, <1>1, PipelineAssumption DEF ExecRecord, RunRecord, Stages, ResultsKnown, Live
<1>4. ASSUME runs' = runs
      PROVE  LatestRun(r)' = run
  BY <1>0, <1>4 DEF LatestRun, SamePlace
<1>5. ASSUME NEW state \in StageState, StageEvent(r, e.stage, state)
      PROVE  /\ LatestRun(r)'.results = run.results
             /\ \A k \in Stages : LatestRun(r)'.states[k] =
                    IF k = e.stage THEN state ELSE run.states[k]
  <2>1. LatestRun(r)' = [run EXCEPT !.states[e.stage] = state]
    BY <1>0, <1>1, <1>5, OwnEntryUpdated DEF StageEvent
  <2> QED BY <1>0, <1>3, <2>1 DEF RunRecord
<1>6. \A k \in Stages : k < e.first \/ k > e.stage \/ k < e.stage => k # e.stage
  BY <1>3
<1>7. CASE LogRunStarted(r)
  <2>1. /\ exec'[r].stage = e.stage /\ exec'[r].first = e.first
        /\ e.pc = "logStart" /\ exec'[r].pc = "before"
    BY <1>0, <1>7 DEF LogRunStarted, ExecRecord
  <2>2. LatestRun(r)' = run
    BY <1>4, <1>7 DEF LogRunStarted
  <2> QED BY <1>2, <2>1, <2>2 DEF StatesOf, StateAt
<1>8. CASE BeginStage(r)
  <2>1. /\ exec'[r].stage = e.stage /\ exec'[r].first = e.first /\ exec'[r].pc = "pass"
    BY <1>0, <1>8 DEF BeginStage, ExecRecord
  <2>2. /\ LatestRun(r)'.results = run.results
        /\ \A k \in Stages : LatestRun(r)'.states[k] =
               IF k = e.stage THEN "running" ELSE run.states[k]
    BY <1>5, <1>8 DEF BeginStage, StageState
  <2>3. StateAt(exec'[r]) = "running"
    BY <2>1 DEF StateAt
  <2> QED BY <1>2, <1>3, <1>6, <2>1, <2>2, <2>3 DEF StatesOf
<1>9. ASSUME NEW outcome \in {"failed", "idle", "progress"}, PassReturns(r, outcome)
      PROVE  StatesOf(exec[r]', LatestRun(r)')
  <2>1. /\ exec'[r].stage = e.stage /\ exec'[r].first = e.first
        /\ e.pc = "pass" /\ exec'[r].pc \in {"pass", "after"}
    BY <1>0, <1>9 DEF PassReturns, ExecRecord
  <2>2. LatestRun(r)' = run
    BY <1>4, <1>9 DEF PassReturns
  <2>3. StateAt(exec'[r]) = StateAt(e)
    BY <2>1 DEF StateAt
  <2> QED BY <1>2, <2>1, <2>2, <2>3 DEF StatesOf
<1>10. CASE EndStage(r)
  <2> DEFINE state == CASE e.verdict = "FAILED" -> "failed"
                        [] e.verdict = "COMPLETED" -> "completed"
                        [] OTHER -> "pending"
  <2>1. /\ e.pc = "after" /\ StageEvent(r, e.stage, state)
        /\ exec' = [exec EXCEPT ![r].pc = "logStage", ![r].results[e.stage] = e.verdict]
    BY <1>10 DEF EndStage
  <2>2. /\ exec'[r].stage = e.stage /\ exec'[r].first = e.first
        /\ exec'[r].pc = "logStage" /\ exec'[r].verdict = e.verdict
    BY <1>0, <2>1 DEF ExecRecord
  <2>3. state \in StageState
    BY DEF StageState
  <2>4. /\ LatestRun(r)'.results = run.results
        /\ \A k \in Stages : LatestRun(r)'.states[k] =
               IF k = e.stage THEN state ELSE run.states[k]
    BY <1>5, <2>1, <2>3
  <2>5. StateAt(exec'[r]) = state
    BY <2>2 DEF StateAt
  <2> QED BY <1>2, <1>3, <1>6, <2>2, <2>4, <2>5 DEF StatesOf
<1>11. CASE LogStage(r) /\ GoesOn(r)
  <2>1. /\ e.pc = "logStage" /\ e.verdict = "COMPLETED" /\ e.stage < StageCount
        /\ exec' = [exec EXCEPT ![r].pc = "before", ![r].stage = NextStage(r),
                                ![r].verdict = "none"]
        /\ runs' = runs
    BY <1>11 DEF LogStage, GoesOn
  <2>2. /\ exec'[r].pc = "before" /\ exec'[r].stage = e.stage + 1
        /\ exec'[r].first = e.first
    BY <1>0, <2>1 DEF NextStage, ExecRecord
  <2>3. e.stage + 1 \in Stages
    BY <1>3, <2>1 DEF Stages
  <2>4. LatestRun(r)' = run /\ StateAt(e) = "completed" /\ StateAt(exec'[r]) = "pending"
    BY <1>4, <2>1, <2>2 DEF StateAt
  <2>5. /\ run.results = NoResults
        /\ \A k \in Stages : k >= e.first /\ k < e.stage => run.states[k] = "completed"
        /\ \A k \in Stages : k < e.first \/ k > e.stage => run.states[k] = "pending"
        /\ run.states[e.stage] = "completed"
    BY <1>2, <2>4 DEF StatesOf
  <2>6. /\ \A k \in Stages : k >= e.first /\ k < e.stage + 1 => run.states[k] = "completed"
        /\ \A k \in Stages : k < e.first \/ k > e.stage + 1 => run.states[k] = "pending"
        /\ run.states[e.stage + 1] = "pending"
    BY <1>3, <2>3, <2>5
  <2> QED BY <2>2, <2>4, <2>5, <2>6 DEF StatesOf
<1>12. ASSUME PassThrows(r) \/ (LogStage(r) /\ ~GoesOn(r)) \/ LogRunEnded(r)
       PROVE  ~Live(r)'
  <2>1. PICK pc \in {"logEnd", "logFailed", "done"} :
          \E final : exec' = [exec EXCEPT ![r].pc = pc, ![r].final = final]
    <3>1. CASE PassThrows(r)
      BY <3>1 DEF PassThrows, AfterThrow
    <3>2. CASE LogStage(r) /\ ~GoesOn(r)
      BY <3>2 DEF LogStage
    <3>3. CASE LogRunEnded(r)
      <4>1. exec' = [exec EXCEPT ![r].pc = "done"]
        BY <3>3 DEF LogRunEnded
      <4>2. exec' = [exec EXCEPT ![r].pc = "done", ![r].final = e.final]
        BY <1>0, <4>1 DEF ExecRecord
      <4> QED BY <4>2
    <3> QED BY <1>12, <3>1, <3>2, <3>3
  <2> QED BY <1>0, <2>1 DEF Live, ExecRecord
<1>13. ~PassThrows(r) /\ ~(LogStage(r) /\ ~GoesOn(r)) /\ ~LogRunEnded(r)
  BY <1>12 DEF Live
<1> QED
  BY <1>7, <1>8, <1>9, <1>10, <1>11, <1>13 DEF Execute

LEMMA StepStatesKnown ==
    PlaceInv /\ ResultsKnown /\ StatesKnown /\ [Next]_vars => StatesKnown'
<1> SUFFICES ASSUME PlaceInv, ResultsKnown, StatesKnown, [Next]_vars PROVE StatesKnown'
  OBVIOUS
<1>0. /\ exec \in [RunIds -> ExecRecord] /\ runs \in [Servers -> [Owners -> RunRecord]]
      /\ \A q \in RunIds : Live(q) =>
            /\ exec[q].server \in Servers /\ exec[q].owner \in Owners
            /\ LatestRun(q).status = "RUNNING"
  BY DEF PlaceInv, SlotInv, TypeInv, TypeOK, Placed, Live, LiveHoldsSlot
<1>1. CASE UNCHANGED vars
  BY <1>1 DEF vars, StatesKnown, Live, LatestRun
<1>2. ASSUME NEW s \in Servers, NEW o \in Owners, NEW k \in Stages, Start(s, o, k)
      PROVE  StatesKnown'
  <2>1. PICK r \in RunIds :
          /\ exec[r].pc = "unused"
          /\ runs' = [runs EXCEPT ![s][o] =
                         [runId |-> r, status |-> "RUNNING",
                          states |-> PendingStates, results |-> NoResults]]
          /\ exec' = [exec EXCEPT ![r] =
                         [NoExec EXCEPT !.pc = "logStart", !.server = s,
                                        !.owner = o, !.first = k, !.stage = k]]
    BY <1>2 DEF Start
  <2>2. /\ exec'[r].pc = "logStart" /\ exec'[r].first = k /\ exec'[r].stage = k
        /\ LatestRun(r)' = [runId |-> r, status |-> "RUNNING",
                            states |-> PendingStates, results |-> NoResults]
    BY <1>0, <2>1 DEF NoExec, LatestRun
  <2>3. StateAt(exec'[r]) = "pending"
    BY <2>2 DEF StateAt
  <2>4. k \in Nat
    BY PipelineAssumption DEF Stages
  <2>5. StatesOf(exec[r]', LatestRun(r)')
    BY <2>2, <2>3, <2>4 DEF StatesOf, PendingStates
  <2>6. ASSUME NEW q \in RunIds, q # r, Live(q)'
        PROVE  StatesOf(exec[q]', LatestRun(q)')
    <3>1. exec'[q] = exec[q] /\ Live(q)
      BY <1>0, <2>1, <2>6 DEF Live
    <3>2. exec[q].server # s \/ exec[q].owner # o
      BY <1>0, <1>2, <3>1 DEF Start, MayStart, LatestRun
    <3>3. LatestRun(q)' = LatestRun(q)
      BY <1>0, <2>1, <3>1, <3>2 DEF LatestRun
    <3> QED BY <3>1, <3>3 DEF StatesKnown
  <2> QED BY <2>5, <2>6 DEF StatesKnown
<1>3. ASSUME NEW r \in RunIds, Execute(r)
      PROVE  StatesKnown'
  <2>1. ASSUME NEW q \in RunIds, q # r, Live(q)'
        PROVE  StatesOf(exec[q]', LatestRun(q)')
    <3>1. exec'[q] = exec[q]
      BY <1>3, <2>1, ExecuteSamePlace DEF SamePlace, PlaceInv, SlotInv
    <3>2. Live(q)
      BY <2>1, <3>1 DEF Live
    <3>3. LatestRun(q)' = LatestRun(q)
      BY <1>3, <2>1, <3>2, OthersKeepEntry
    <3> QED BY <3>1, <3>2, <3>3 DEF StatesKnown
  <2> QED BY <1>3, <2>1, ExecuteStates DEF StatesKnown
<1>4. ASSUME NEW s \in Servers, Crash(s)
      PROVE  StatesKnown'
  <2>1. ASSUME NEW q \in RunIds, Live(q)'
        PROVE  StatesOf(exec[q]', LatestRun(q)')
    <3>1. exec'[q] = IF exec[q].server = s /\ exec[q].pc \notin {"unused", "done"}
                     THEN [exec[q] EXCEPT !.pc = "dead"] ELSE exec[q]
      BY <1>4 DEF Crash
    <3>2. exec'[q] = exec[q] /\ Live(q) /\ exec[q].server # s
      <4>1. CASE exec[q].server = s /\ exec[q].pc \notin {"unused", "done"}
        <5>1. exec'[q].pc = "dead"
          BY <1>0, <3>1, <4>1 DEF ExecRecord
        <5> QED BY <2>1, <5>1 DEF Live
      <4>2. CASE ~(exec[q].server = s /\ exec[q].pc \notin {"unused", "done"})
        BY <2>1, <3>1, <4>2 DEF Live
      <4> QED BY <4>1, <4>2
    <3>3. LatestRun(q)' = LatestRun(q)
      BY <1>0, <1>4, <3>2 DEF Crash, LatestRun
    <3> QED BY <3>2, <3>3 DEF StatesKnown
  <2> QED BY <2>1 DEF StatesKnown
<1> QED BY <1>1, <1>2, <1>3, <1>4 DEF Next

LEMMA StepEntriesReport ==
    PlaceInv /\ PlaceInv' /\ ResultsKnown /\ StatesKnown /\ EntriesReport /\ [Next]_vars
        => EntriesReport'
<1> SUFFICES ASSUME PlaceInv, PlaceInv', ResultsKnown, StatesKnown, EntriesReport, [Next]_vars
             PROVE  EntriesReport'
  OBVIOUS
<1>0. /\ exec \in [RunIds -> ExecRecord] /\ runs \in [Servers -> [Owners -> RunRecord]]
      /\ TypeInv /\ SlotInv
  BY DEF PlaceInv, SlotInv, TypeInv, TypeOK
<1>1. CASE UNCHANGED vars
  BY <1>1 DEF vars, EntriesReport
<1>2. ASSUME NEW s \in Servers, NEW o \in Owners, NEW k \in Stages, Start(s, o, k)
      PROVE  EntriesReport'
  <2>1. PICK r \in RunIds :
          /\ exec[r].pc = "unused"
          /\ runs' = [runs EXCEPT ![s][o] =
                         [runId |-> r, status |-> "RUNNING",
                          states |-> PendingStates, results |-> NoResults]]
          /\ exec' = [exec EXCEPT ![r] =
                         [NoExec EXCEPT !.pc = "logStart", !.server = s,
                                        !.owner = o, !.first = k, !.stage = k]]
    BY <1>2 DEF Start
  <2>2. ASSUME NEW t \in Servers, NEW p \in Owners, runs'[t][p].status # "IDLE"
        PROVE  EntryReport(runs'[t][p], exec'[runs'[t][p].runId].first)
    <3>1. CASE t = s /\ p = o
      <4>1. runs'[t][p].status = "RUNNING"
        BY <1>0, <2>1, <3>1
      <4> QED BY <4>1 DEF EntryReport, Verdict
    <3>2. CASE t # s \/ p # o
      <4>1. runs'[t][p] = runs[t][p]
        BY <1>0, <2>1, <3>2
      <4>2. exec'[runs[t][p].runId] = exec[runs[t][p].runId]
        BY <1>0, <2>1, <2>2, <4>1 DEF PlaceInv, EntryPlaced
      <4> QED BY <2>2, <4>1, <4>2 DEF EntriesReport
    <3> QED BY <3>1, <3>2
  <2> QED BY <2>2 DEF EntriesReport
<1>3. ASSUME NEW r \in RunIds, Execute(r)
      PROVE  EntriesReport'
  <2>0. /\ SamePlace(r) /\ exec[r].server \in Servers /\ exec[r].owner \in Owners
        /\ \A q \in RunIds : exec'[q].first = exec[q].first
    <3>1. SamePlace(r) /\ exec[r].server \in Servers /\ exec[r].owner \in Owners
      BY <1>0, <1>3, ExecuteSamePlace
    <3> QED BY <3>1 DEF SamePlace
  <2>1. ASSUME NEW t \in Servers, NEW p \in Owners, runs'[t][p].status # "IDLE",
               runs'[t][p] = runs[t][p]
        PROVE  EntryReport(runs'[t][p], exec'[runs'[t][p].runId].first)
    <3>1. exec'[runs[t][p].runId].first = exec[runs[t][p].runId].first
      BY <2>0, <2>1 DEF PlaceInv, EntryPlaced
    <3> QED BY <2>1, <3>1 DEF EntriesReport
  <2>2. ASSUME IsLatest(r), Live(r)
        PROVE  EntryReport(LatestRun(r)', exec'[r].first)
    <3>1. CASE Live(r)'
      <4>1. LatestRun(r)'.status = "RUNNING"
        BY <3>1 DEF PlaceInv, SlotInv, LiveHoldsSlot
      <4> QED BY <4>1 DEF EntryReport, Verdict
    <3>2. CASE PassThrows(r)
      <4>1. LatestRun(r)' = Rejected(LatestRun(r)) /\ exec[r].pc = "pass"
        BY <2>0, <2>2, <3>2, OwnEntryUpdated DEF PassThrows
      <4> QED BY <1>0, <2>0, <4>1, RejectedReport
    <3>3. CASE LogStage(r) /\ ~GoesOn(r)
      <4>1. LatestRun(r)' = Published(r) /\ exec[r].pc = "logStage"
        BY <2>0, <2>2, <3>3, OwnEntryUpdated DEF LogStage
      <4> QED BY <1>0, <2>0, <3>3, <4>1, PublishedReport
    <3>4. CASE LogRunEnded(r)
      BY <2>2, <3>4 DEF LogRunEnded, Live
    <3>5. ASSUME LogRunStarted(r) \/ BeginStage(r) \/ EndStage(r) \/ (LogStage(r) /\ GoesOn(r))
                 \/ \E outcome \in {"failed", "idle", "progress"} : PassReturns(r, outcome)
          PROVE  Live(r)'
      <4>1. CASE LogRunStarted(r) \/ BeginStage(r)
        BY <1>0, <4>1 DEF LogRunStarted, BeginStage, Live, ExecRecord
      <4>2. CASE EndStage(r)
        <5>1. exec' = [exec EXCEPT ![r].pc = "logStage",
                                   ![r].results[exec[r].stage] = exec[r].verdict]
          BY <4>2 DEF EndStage
        <5> QED BY <1>0, <5>1 DEF Live, ExecRecord
      <4>3. CASE LogStage(r) /\ GoesOn(r)
        <5>1. exec' = [exec EXCEPT ![r].pc = "before", ![r].stage = NextStage(r),
                                   ![r].verdict = "none"]
          BY <4>3 DEF LogStage
        <5> QED BY <1>0, <5>1 DEF Live, ExecRecord
      <4>4. ASSUME NEW outcome \in {"failed", "idle", "progress"}, PassReturns(r, outcome)
            PROVE  exec'[r].pc \in {"pass", "after"}
        BY <1>0, <4>4 DEF PassReturns, ExecRecord
      <4> QED BY <3>5, <4>1, <4>2, <4>3, <4>4 DEF Live
    <3>6. CASE ~PassThrows(r) /\ ~LogRunEnded(r) /\ ~(LogStage(r) /\ ~GoesOn(r))
      <4>1. Live(r)'
        BY <1>3, <3>5, <3>6 DEF Execute
      <4> QED BY <3>1, <4>1 DEF Live
    <3> QED BY <3>2, <3>3, <3>4, <3>6
  <2>3. ASSUME NEW t \in Servers, NEW p \in Owners, runs'[t][p].status # "IDLE",
               runs'[t][p] # runs[t][p]
        PROVE  EntryReport(runs'[t][p], exec'[runs'[t][p].runId].first)
    <3>1. /\ IsLatest(r) /\ Live(r)
          /\ t = exec[r].server /\ p = exec[r].owner /\ runs'[t][p].runId = r
      <4>1. runs' # runs
        BY <2>3
      <4>2. PICK run \in RunRecord :
              /\ IsLatest(r) /\ Live(r) /\ run.runId = r
              /\ runs' = [runs EXCEPT ![exec[r].server][exec[r].owner] = run]
        BY <1>0, <1>3, <4>1, ExecuteOwnEntry
      <4>3. t = exec[r].server /\ p = exec[r].owner
        BY <1>0, <2>0, <2>3, <4>2
      <4> QED BY <1>0, <2>0, <4>2, <4>3
    <3>2. LatestRun(r)' = runs'[t][p]
      BY <2>0, <3>1 DEF LatestRun, SamePlace
    <3> QED BY <2>2, <3>1, <3>2
  <2> QED BY <2>1, <2>3 DEF EntriesReport
<1>4. ASSUME NEW s \in Servers, Crash(s)
      PROVE  EntriesReport'
  <2>1. /\ \A o \in Owners : runs'[s][o].status = "IDLE"
        /\ \A t \in Servers, o \in Owners : t # s => runs'[t][o] = runs[t][o]
        /\ \A q \in RunIds : exec[q].server # s => exec'[q] = exec[q]
    BY <1>0, <1>4 DEF Crash, IdleRun
  <2> QED BY <2>1 DEF EntriesReport, PlaceInv, EntryPlaced
<1> QED BY <1>1, <1>2, <1>3, <1>4 DEF Next

LEMMA ReportInvariant == Spec => []ReportInv
<1>1. Init => ReportInv
  BY InitSlotInv
  DEF Init, ReportInv, PlaceInv, EntryPlaced, ResultsKnown, StatesKnown, Live, EntriesReport,
      IdleRun, NoExec
<1>2. ReportInv /\ [Next]_vars => ReportInv'
  BY StepPlaceInv, StepResultsKnown, StepStatesKnown, StepEntriesReport
  DEF ReportInv, PlaceInv, SlotInv
<1> QED BY <1>1, <1>2, PTL DEF Spec

\* What the status screen shows of an ended run is what the run did: see
\* EndedRunReport.
THEOREM EndedRunsReported == Spec => []EndedRunReport
<1>1. ReportInv => EndedRunReport
  <2> SUFFICES ASSUME ReportInv, NEW s \in Servers, NEW o \in Owners
               PROVE  LET run == GetStatus(s, o)
                          first == exec[run.runId].first
                          state == run.states
                      IN run.status \in Verdict =>
                          /\ \A k \in Stages : state[k] # "running"
                          /\ IF run.status = "COMPLETED"
                             THEN \A k \in first..StageCount : state[k] = "completed"
                             ELSE \E k \in first..StageCount :
                                      /\ state[k] = "failed"
                                      /\ \A j \in first..(k - 1) : state[j] = "completed"
                                      /\ \A j \in (k + 1)..StageCount : state[j] = "pending"
    BY DEF EndedRunReport
  <2>1. runs[s][o] \in RunRecord
    BY DEF ReportInv, PlaceInv, SlotInv, TypeInv, TypeOK
  <2>2. /\ GetStatus(s, o).runId = runs[s][o].runId
        /\ GetStatus(s, o).status = runs[s][o].status
        /\ GetStatus(s, o).states = DeriveStageStates(runs[s][o].results, runs[s][o].states)
    BY <2>1 DEF GetStatus, RunRecord
  <2>3. runs[s][o].status \in Verdict =>
          EntryReport(runs[s][o], exec[runs[s][o].runId].first)
    BY DEF ReportInv, EntriesReport, Verdict
  <2> QED BY <2>2, <2>3 DEF EntryReport
<1> QED BY <1>1, ReportInvariant, PTL

-----------------------------------------------------------------------------
(* The history rebuilt from the log.                                       *)

\* Only runs that were started have log entries.
LogKnown == \A e \in log : exec[e.runId].pc # "unused"

\* A run that ended with this status: the entry it still has says so, and it is a
\* success only of all its stages.
EndedAs(r, status) ==
    /\ status \in Verdict
    /\ IsLatest(r) => LatestRun(r).status = status
    /\ status = "COMPLETED" =>
        \A k \in exec[r].first..StageCount : exec[r].results[k] = "COMPLETED"

\* The end entries of a run: none before it is done, and then one status, the one
\* its execution was about to write.
EndsOf(r) ==
    /\ EndEntries(r) # {} => exec[r].pc = "done"
    /\ \A e \in EndEntries(r) : EndedAs(r, e.status)
    /\ \A e, f \in EndEntries(r) : e.status = f.status
    /\ exec[r].pc = "logEnd" => EndedAs(r, exec[r].verdict)
    /\ exec[r].pc = "logFailed" => EndedAs(r, "FAILED")

EndsKnown == \A r \in RunIds : EndsOf(r)

\* A stage line is a result the execution still has.
LinesKnown ==
    \A e \in log : e.event = "stage" => exec[e.runId].results[e.stage] = e.status

\* While no write was lost, a run that is done has its end entry and every result
\* has its line, but for the one about to be written.
HasLine(r, k) == \E e \in log : e.runId = r /\ e.event = "stage" /\ e.stage = k

EndWritten == lost = 0 => \A r \in RunIds : exec[r].pc = "done" => EndEntries(r) # {}

LinesWritten ==
    lost = 0 => \A r \in RunIds, k \in Stages :
        /\ exec[r].pc \notin {"unused", "dead"} /\ exec[r].results[k] # "none"
        /\ ~(exec[r].pc = "logStage" /\ k = exec[r].stage)
        => HasLine(r, k)

HistInv ==
    /\ PlaceInv /\ ResultsKnown
    /\ LogKnown /\ EndsKnown /\ LinesKnown /\ EndWritten /\ LinesWritten

\* Only EndStage changes the results.
LEMMA ExecuteKeepsResults ==
    ASSUME TypeInv, NEW r \in RunIds, Execute(r), ~EndStage(r)
    PROVE  exec'[r].results = exec[r].results
<1>0. exec \in [RunIds -> ExecRecord] /\ exec[r] \in ExecRecord
  BY DEF TypeInv, TypeOK
<1>2. CASE LogStage(r) /\ GoesOn(r)
  <2>1. exec' = [exec EXCEPT ![r].pc = "before", ![r].stage = NextStage(r),
                             ![r].verdict = "none"]
    BY <1>2 DEF LogStage
  <2> QED BY <1>0, <2>1 DEF ExecRecord
<1>3. CASE LogStage(r) /\ ~GoesOn(r)
  <2>1. PICK pc \in {"logEnd", "done"} :
          exec' = [exec EXCEPT ![r].pc = pc, ![r].final = Published(r).states]
    BY <1>3 DEF LogStage
  <2> QED BY <1>0, <2>1 DEF ExecRecord
<1>4. ASSUME NEW outcome \in {"failed", "idle", "progress"}, PassReturns(r, outcome)
      PROVE  exec'[r].results = exec[r].results
  BY <1>0, <1>4 DEF PassReturns, ExecRecord
<1>5. CASE LogRunStarted(r) \/ BeginStage(r) \/ LogRunEnded(r)
  BY <1>0, <1>5 DEF LogRunStarted, BeginStage, LogRunEnded, ExecRecord
<1>6. CASE PassThrows(r)
  BY <1>0, <1>6 DEF PassThrows, AfterThrow, ExecRecord
<1>7. CASE \E outcome \in {"failed", "idle", "progress"} : PassReturns(r, outcome)
  BY <1>4, <1>7
<1> QED BY <1>2, <1>3, <1>5, <1>6, <1>7 DEF Execute

\* An execution never changes a stage result it has.
LEMMA ResultsKept ==
    ASSUME TypeInv, ResultsKnown, NEW r \in RunIds, Execute(r), NEW k \in Stages,
           exec[r].results[k] # "none"
    PROVE  exec'[r].results[k] = exec[r].results[k]
<1>0. exec \in [RunIds -> ExecRecord] /\ exec[r] \in ExecRecord
  BY DEF TypeInv, TypeOK
<1>1. CASE EndStage(r)
  <2>1. exec[r].pc = "after"
        /\ exec' = [exec EXCEPT ![r].pc = "logStage",
                                ![r].results[exec[r].stage] = exec[r].verdict]
    BY <1>1 DEF EndStage
  <2>2. exec[r].stage # k
    BY <2>1 DEF ResultsKnown
  <2> QED BY <1>0, <2>1, <2>2 DEF ExecRecord
<1> QED BY <1>1, ExecuteKeepsResults

\* What a step of an execution adds to the log.
LEMMA ExecuteWrites ==
    ASSUME TypeInv, NEW r \in RunIds, Execute(r)
    PROVE  /\ log \subseteq log' /\ (lost' = 0 => lost = 0)
           /\ \A e \in log' \ log :
                 /\ e.runId = r
                 /\ e.event = "stage" =>
                       /\ exec[r].pc = "logStage"
                       /\ e.stage = exec[r].stage /\ e.status = exec[r].verdict
                 /\ e.event = "run_completed" =>
                       exec[r].pc = "logEnd" /\ e.status = exec[r].verdict
                 /\ e.event = "run_failed" =>
                       exec[r].pc = "logFailed" /\ e.status = "FAILED"
<1>0. lost \in Nat
  BY PipelineAssumption DEF TypeInv, TypeOK
<1>1. ASSUME NEW entry, WriteLog(entry)
      PROVE  /\ log \subseteq log' /\ (lost' = 0 => lost = 0)
             /\ log' \ log \subseteq {entry}
  BY <1>0, <1>1 DEF WriteLog
<1>2. CASE LogRunStarted(r)
  <2>1. WriteLog(Entry(r, "run_started", exec[r].first, "RUNNING", PendingStates))
    BY <1>2 DEF LogRunStarted
  <2> QED BY <1>1, <2>1 DEF Entry
<1>3. CASE LogStage(r)
  <2>1. /\ exec[r].pc = "logStage"
        /\ WriteLog(Entry(r, "stage", exec[r].stage, exec[r].verdict, PendingStates))
    BY <1>3 DEF LogStage
  <2> QED BY <1>1, <2>1 DEF Entry
<1>4. CASE exec[r].pc = "logEnd" /\ LogRunEnded(r)
  <2>1. WriteLog(Entry(r, "run_completed", exec[r].stage, exec[r].verdict, exec[r].final))
    BY <1>4 DEF LogRunEnded
  <2> QED BY <1>1, <1>4, <2>1 DEF Entry
<1>5. CASE exec[r].pc = "logFailed" /\ LogRunEnded(r)
  <2>1. WriteLog(Entry(r, "run_failed", exec[r].stage, "FAILED", exec[r].final))
    BY <1>5 DEF LogRunEnded
  <2> QED BY <1>1, <1>5, <2>1 DEF Entry
<1>6. LogRunEnded(r) => exec[r].pc \in {"logEnd", "logFailed"}
  BY DEF LogRunEnded
<1>7. CASE ~LogRunStarted(r) /\ ~LogStage(r) /\ ~LogRunEnded(r)
  <2>1. log' = log /\ lost' = lost
    BY <1>7 DEF Execute, BeginStage, PassReturns, PassThrows, EndStage
  <2> QED BY <2>1
<1> QED BY <1>2, <1>3, <1>4, <1>5, <1>6, <1>7

\* A step of an execution leaves the other executions' entries as they are, or
\* finds them replaced already.
LEMMA OtherEntryKept ==
    ASSUME PlaceInv, NEW r \in RunIds, Execute(r), NEW q \in RunIds, q # r,
           exec[q].pc # "unused", IsLatest(q)'
    PROVE  IsLatest(q) /\ LatestRun(q)' = LatestRun(q)
<1>1. SamePlace(r) /\ exec'[q] = exec[q]
  BY ExecuteSamePlace DEF PlaceInv, SlotInv, SamePlace
<1>2. /\ exec[q].server \in Servers /\ exec[q].owner \in Owners
      /\ runs \in [Servers -> [Owners -> RunRecord]]
      /\ exec[r].server \in Servers /\ exec[r].owner \in Owners
  BY ExecuteSamePlace DEF PlaceInv, SlotInv, TypeInv, TypeOK, Placed
<1>3. CASE runs' = runs
  BY <1>1, <1>3 DEF LatestRun, IsLatest
<1>4. ASSUME NEW run, run.runId = r,
             runs' = [runs EXCEPT ![exec[r].server][exec[r].owner] = run]
      PROVE  IsLatest(q) /\ LatestRun(q)' = LatestRun(q)
  <2>1. exec[q].server # exec[r].server \/ exec[q].owner # exec[r].owner
    BY <1>1, <1>2, <1>4 DEF IsLatest
  <2>2. runs'[exec[q].server][exec[q].owner] = runs[exec[q].server][exec[q].owner]
    BY <1>2, <1>4, <2>1
  <2> QED BY <1>1, <2>2 DEF LatestRun, IsLatest
<1> QED BY <1>3, <1>4, ExecuteOwnEntry DEF PlaceInv

\* The end a run came to stays what it was while others, or it, go on.
LEMMA ExecuteKeepsEnd ==
    ASSUME PlaceInv, NEW r \in RunIds, Execute(r), NEW q \in RunIds,
           exec[q].pc \in {"logEnd", "logFailed", "done"}, NEW status, EndedAs(q, status)
    PROVE  EndedAs(q, status)'
<1>0. /\ SamePlace(r) /\ TypeInv /\ exec \in [RunIds -> ExecRecord]
      /\ exec[q].pc # "unused"
  BY ExecuteSamePlace DEF PlaceInv, SlotInv, TypeInv, TypeOK
<1>1. CASE q = r
  <2>1. LogRunEnded(r)
    BY <1>1 DEF Execute, LogRunStarted, BeginStage, PassReturns, PassThrows, EndStage, LogStage
  <2>2. /\ runs' = runs /\ exec'[r].results = exec[r].results /\ exec'[r].first = exec[r].first
        /\ exec'[r].server = exec[r].server /\ exec'[r].owner = exec[r].owner
    BY <1>0, <2>1 DEF LogRunEnded, ExecRecord
  <2> QED BY <1>1, <2>2 DEF EndedAs, IsLatest, LatestRun
<1>2. CASE q # r
  <2>1. exec'[q] = exec[q]
    BY <1>0, <1>2 DEF SamePlace
  <2>2. IsLatest(q)' => IsLatest(q) /\ LatestRun(q)' = LatestRun(q)
    BY <1>0, <1>2, OtherEntryKept
  <2> QED BY <2>1, <2>2 DEF EndedAs
<1> QED BY <1>1, <1>2

\* The end a run is about to write is the one its entry shows.
LEMMA ExecuteEnds ==
    ASSUME PlaceInv, ResultsKnown, NEW r \in RunIds, Execute(r), Live(r)
    PROVE  /\ exec'[r].pc \notin {"done", "unused", "dead"}
           /\ exec'[r].pc = "logEnd" => EndedAs(r, exec[r].verdict)'
           /\ exec'[r].pc = "logFailed" => EndedAs(r, "FAILED")'
<1>0. /\ SamePlace(r) /\ TypeInv /\ exec \in [RunIds -> ExecRecord] /\ exec[r] \in ExecRecord
      /\ IsLatest(r) /\ LatestRun(r) \in RunRecord
  BY ExecuteSamePlace
  DEF PlaceInv, SlotInv, TypeInv, TypeOK, LiveHoldsSlot, IsLatest, LatestRun
<1>1. CASE PassThrows(r)
  <2>1. exec'[r].pc = "logFailed"
    BY <1>0, <1>1 DEF PassThrows, AfterThrow, ExecRecord
  <2>2. LatestRun(r)' = Rejected(LatestRun(r))
    BY <1>0, <1>1, OwnEntryUpdated DEF PassThrows
  <2>3. LatestRun(r)'.status = "FAILED"
    BY <1>0, <2>2 DEF Rejected, RunRecord
  <2> QED BY <2>1, <2>3 DEF EndedAs, Verdict
<1>2. CASE LogStage(r) /\ ~GoesOn(r)
  <2>1. exec' = [exec EXCEPT ![r].pc = "logEnd", ![r].final = Published(r).states]
    BY <1>0, <1>2 DEF LogStage
  <2>2. /\ exec'[r].pc = "logEnd" /\ exec'[r].verdict = exec[r].verdict
        /\ exec'[r].results = exec[r].results /\ exec'[r].first = exec[r].first
    BY <1>0, <2>1 DEF ExecRecord
  <2>3. LatestRun(r)' = Published(r)
    BY <1>0, <1>2, OwnEntryUpdated DEF LogStage
  <2>4. LatestRun(r)'.status = exec[r].verdict
    BY <1>0, <2>3 DEF Published, RunRecord
  <2>5. exec[r].verdict \in Verdict /\ exec[r].pc = "logStage"
    BY <1>2 DEF LogStage, PlaceInv, SlotInv, TypeInv, VerdictKnown
  <2>6. ASSUME exec[r].verdict = "COMPLETED"
        PROVE  \A k \in exec[r].first..StageCount : exec[r].results[k] = "COMPLETED"
    <3>1. exec[r].stage \in 1..StageCount /\ exec[r].first \in 1..StageCount /\ StageCount \in Nat
      BY <1>0, PipelineAssumption DEF ExecRecord, Stages
    <3>2. exec[r].stage = StageCount
      BY <1>2, <2>6, <3>1 DEF GoesOn
    <3>3. /\ \A k \in Stages : k >= exec[r].first /\ k < exec[r].stage =>
                exec[r].results[k] = "COMPLETED"
          /\ exec[r].results[exec[r].stage] = "COMPLETED"
      BY <2>5, <2>6 DEF ResultsKnown
    <3> QED BY <3>1, <3>2, <3>3 DEF Stages
  <2> QED BY <2>2, <2>4, <2>5, <2>6 DEF EndedAs
<1>3. CASE LogRunStarted(r) \/ BeginStage(r)
  BY <1>0, <1>3 DEF LogRunStarted, BeginStage, ExecRecord
<1>4. CASE EndStage(r)
  <2>1. exec' = [exec EXCEPT ![r].pc = "logStage",
                             ![r].results[exec[r].stage] = exec[r].verdict]
    BY <1>4 DEF EndStage
  <2> QED BY <1>0, <2>1 DEF ExecRecord
<1>5. CASE LogStage(r) /\ GoesOn(r)
  <2>1. exec' = [exec EXCEPT ![r].pc = "before", ![r].stage = NextStage(r),
                             ![r].verdict = "none"]
    BY <1>5 DEF LogStage
  <2> QED BY <1>0, <2>1 DEF ExecRecord
<1>6. ASSUME NEW outcome \in {"failed", "idle", "progress"}, PassReturns(r, outcome)
      PROVE  exec'[r].pc \in {"pass", "after"}
  BY <1>0, <1>6 DEF PassReturns, ExecRecord
<1>7. CASE \E outcome \in {"failed", "idle", "progress"} : PassReturns(r, outcome)
  BY <1>6, <1>7
<1>8. ~LogRunEnded(r)
  BY DEF LogRunEnded, Live
<1> QED BY <1>1, <1>2, <1>3, <1>4, <1>5, <1>7, <1>8 DEF Execute

\* A run that a step leaves alone, and whose entry it leaves alone or replaces,
\* keeps its end.
LEMMA EndsCarried ==
    ASSUME NEW q \in RunIds, EndsOf(q), exec'[q] = exec[q], EndEntries(q)' = EndEntries(q),
           exec[q].pc # "unused" /\ IsLatest(q)' => IsLatest(q) /\ LatestRun(q)' = LatestRun(q)
    PROVE  EndsOf(q)'
<1>1. ASSUME NEW status, EndedAs(q, status), exec[q].pc # "unused"
      PROVE  EndedAs(q, status)'
  BY <1>1 DEF EndedAs
<1>2. ASSUME exec'[q].pc = "logEnd"
      PROVE  EndedAs(q, exec[q].verdict)'
  <2>1. PICK verdict : verdict = exec[q].verdict
    OBVIOUS
  <2>2. EndedAs(q, verdict)'
    BY <1>1, <1>2, <2>1 DEF EndsOf
  <2> QED BY <2>1, <2>2 DEF EndedAs
<1>3. exec'[q].pc = "logFailed" => EndedAs(q, "FAILED")'
  BY <1>1 DEF EndsOf
<1>4. \A e \in EndEntries(q)' : EndedAs(q, e.status)'
  BY <1>1 DEF EndsOf
<1> QED BY <1>2, <1>3, <1>4 DEF EndsOf

LEMMA ExecuteHist ==
    ASSUME HistInv, NEW r \in RunIds, Execute(r)
    PROVE  (LogKnown /\ EndsKnown /\ LinesKnown /\ EndWritten /\ LinesWritten)'
<1>0. /\ PlaceInv /\ SlotInv /\ TypeInv /\ ResultsKnown /\ SamePlace(r)
      /\ exec \in [RunIds -> ExecRecord] /\ exec[r] \in ExecRecord
      /\ log \subseteq LogEntry /\ exec[r].pc # "unused"
  BY ExecuteSamePlace DEF HistInv, PlaceInv, SlotInv, TypeInv, TypeOK
<1>1. /\ log \subseteq log' /\ (lost' = 0 => lost = 0)
      /\ \A e \in log' \ log :
            /\ e.runId = r
            /\ e.event = "stage" =>
                  /\ exec[r].pc = "logStage"
                  /\ e.stage = exec[r].stage /\ e.status = exec[r].verdict
            /\ e.event = "run_completed" =>
                  exec[r].pc = "logEnd" /\ e.status = exec[r].verdict
            /\ e.event = "run_failed" =>
                  exec[r].pc = "logFailed" /\ e.status = "FAILED"
  BY <1>0, ExecuteWrites
<1>2. \A q \in RunIds \ {r} : exec'[q] = exec[q]
  BY <1>0 DEF SamePlace
<1>3. \A q \in RunIds \ {r} : EndEntries(q)' = EndEntries(q)
  BY <1>1 DEF EndEntries
<1>4. LogKnown'
  BY <1>0, <1>1, <1>2 DEF HistInv, LogKnown, SamePlace, LogEntry
<1>5. LinesKnown'
  <2> SUFFICES ASSUME NEW e \in log', e.event = "stage"
               PROVE  exec'[e.runId].results[e.stage] = e.status
    BY DEF LinesKnown
  <2>1. CASE e \in log
    <3>1. /\ e.runId \in RunIds /\ e.stage \in Stages /\ e.status # "none"
          /\ exec[e.runId].results[e.stage] = e.status
      BY <1>0, <2>1 DEF LogEntry, HistInv, LinesKnown, Verdict
    <3>2. CASE e.runId = r
      BY <1>0, <3>1, <3>2, ResultsKept
    <3>3. CASE e.runId # r
      BY <1>2, <3>1, <3>3
    <3> QED BY <3>2, <3>3
  <2>2. CASE e \notin log
    <3>1. /\ e.runId = r /\ exec[r].pc = "logStage"
          /\ e.stage = exec[r].stage /\ e.status = exec[r].verdict
      BY <1>1, <2>2
    <3>2. /\ exec[r].results[e.stage] = e.status /\ e.stage \in Stages /\ e.status # "none"
      BY <1>0, <3>1 DEF ResultsKnown, ExecRecord, TypeInv, VerdictKnown, Verdict
    <3> QED BY <1>0, <3>1, <3>2, ResultsKept
  <2> QED BY <2>1, <2>2
<1>6. EndsKnown'
  <2> SUFFICES ASSUME NEW q \in RunIds PROVE EndsOf(q)'
    BY DEF EndsKnown
  <2>0. EndsOf(q)
    BY DEF HistInv, EndsKnown
  <2>1. ASSUME NEW status, EndedAs(q, status), exec[q].pc \in {"logEnd", "logFailed", "done"}
        PROVE  EndedAs(q, status)'
    BY <1>0, <2>1, ExecuteKeepsEnd
  <2>2. CASE q # r
    <3>1. exec'[q] = exec[q] /\ EndEntries(q)' = EndEntries(q)
      BY <1>2, <1>3, <2>2
    <3>2. exec[q].pc # "unused" /\ IsLatest(q)' => IsLatest(q) /\ LatestRun(q)' = LatestRun(q)
      BY <1>0, <2>2, OtherEntryKept
    <3> QED BY <2>0, <3>1, <3>2, EndsCarried
  <2>3. CASE q = r /\ Live(r)
    <3>1. /\ exec'[r].pc \notin {"done", "unused", "dead"}
          /\ exec'[r].pc = "logEnd" => EndedAs(r, exec[r].verdict)'
          /\ exec'[r].pc = "logFailed" => EndedAs(r, "FAILED")'
      BY <1>0, <2>3, ExecuteEnds
    <3>2. EndEntries(r)' = {}
      BY <1>1, <2>0, <2>3 DEF EndsOf, EndEntries, Live
    <3> QED BY <2>3, <3>1, <3>2 DEF EndsOf
  <2>4. CASE q = r /\ ~Live(r)
    <3>1. LogRunEnded(r) /\ exec[r].pc \in {"logEnd", "logFailed"}
      BY <1>0, <2>4 DEF Execute, Live, LogRunStarted, BeginStage, PassReturns, PassThrows,
                        EndStage, LogStage, LogRunEnded
    <3>2. exec'[r].pc = "done"
      BY <1>0, <3>1 DEF LogRunEnded
    <3>3. EndEntries(r) = {}
      BY <2>0, <2>4, <3>1 DEF EndsOf
    <3>4. \A e \in EndEntries(r)' :
            \/ exec[r].pc = "logEnd" /\ e.status = exec[r].verdict
            \/ exec[r].pc = "logFailed" /\ e.status = "FAILED"
      BY <1>1, <3>3 DEF EndEntries
    <3>5. \A e \in EndEntries(r)' : EndedAs(r, e.status)'
      BY <2>0, <2>1, <2>4, <3>1, <3>4 DEF EndsOf
    <3> QED BY <2>4, <3>1, <3>2, <3>4, <3>5 DEF EndsOf
  <2> QED BY <2>2, <2>3, <2>4
<1>7. EndWritten'
  <2> SUFFICES ASSUME lost' = 0, NEW q \in RunIds, exec'[q].pc = "done"
               PROVE  EndEntries(q)' # {}
    BY DEF EndWritten
  <2>1. lost = 0
    BY <1>1
  <2>2. CASE q # r
    BY <1>2, <1>3, <2>1, <2>2 DEF HistInv, EndWritten
  <2>3. CASE q = r
    <3>1. ~Live(r)
      BY <1>0, <2>3, ExecuteEnds
    <3>2. LogRunEnded(r)
      BY <3>1 DEF Execute, Live, LogRunStarted, BeginStage, PassReturns, PassThrows,
                  EndStage, LogStage
    <3>3. PICK entry :
            /\ WriteLog(entry) /\ entry.runId = r
            /\ entry.event \in {"run_completed", "run_failed"}
      <4>1. CASE exec[r].pc = "logEnd"
        <5> DEFINE entry == Entry(r, "run_completed", exec[r].stage, exec[r].verdict,
                                  exec[r].final)
        <5>1. WriteLog(entry)
          BY <3>2, <4>1 DEF LogRunEnded
        <5>2. entry.runId = r /\ entry.event = "run_completed"
          BY DEF Entry
        <5> QED BY <5>1, <5>2
      <4>2. CASE exec[r].pc = "logFailed"
        <5> DEFINE entry == Entry(r, "run_failed", exec[r].stage, "FAILED", exec[r].final)
        <5>1. WriteLog(entry)
          BY <3>2, <4>2 DEF LogRunEnded
        <5>2. entry.runId = r /\ entry.event = "run_failed"
          BY DEF Entry
        <5> QED BY <5>1, <5>2
      <4> QED BY <3>2, <4>1, <4>2 DEF LogRunEnded
    <3>4. log' = log \cup {entry}
      BY <2>1, <3>3 DEF WriteLog
    <3>5. entry \in EndEntries(r)'
      BY <3>3, <3>4 DEF EndEntries
    <3> QED BY <2>3, <3>5
  <2> QED BY <2>2, <2>3
<1>8. LinesWritten'
  <2> SUFFICES ASSUME lost' = 0, NEW q \in RunIds, NEW k \in Stages,
                      exec'[q].pc \notin {"unused", "dead"}, exec'[q].results[k] # "none",
                      ~(exec'[q].pc = "logStage" /\ k = exec'[q].stage)
               PROVE  HasLine(q, k)'
    BY DEF LinesWritten
  <2>1. lost = 0
    BY <1>1
  <2>2. HasLine(q, k) => HasLine(q, k)'
    BY <1>1 DEF HasLine
  <2>3. CASE q # r
    BY <1>2, <2>1, <2>2, <2>3 DEF HistInv, LinesWritten
  <2>4. ASSUME exec[r].results[k] # "none", ~(exec[r].pc = "logStage" /\ k = exec[r].stage)
        PROVE  HasLine(r, k)
    <3>1. exec[r].pc # "dead"
      BY DEF Execute, LogRunStarted, BeginStage, PassReturns, PassThrows, EndStage, LogStage,
             LogRunEnded
    <3> QED BY <1>0, <2>1, <2>4, <3>1 DEF HistInv, LinesWritten
  <2>5. CASE q = r /\ EndStage(r)
    <3>1. exec[r].pc = "after"
          /\ exec' = [exec EXCEPT ![r].pc = "logStage",
                                  ![r].results[exec[r].stage] = exec[r].verdict]
      BY <2>5 DEF EndStage
    <3>2. k # exec[r].stage /\ exec'[r].results[k] = exec[r].results[k]
      BY <1>0, <2>5, <3>1 DEF ExecRecord
    <3> QED BY <2>2, <2>4, <2>5, <3>1, <3>2
  <2>6. CASE q = r /\ LogStage(r) /\ k = exec[r].stage
    <3> DEFINE entry == Entry(r, "stage", exec[r].stage, exec[r].verdict, PendingStates)
    <3>1. WriteLog(entry)
      BY <2>6 DEF LogStage
    <3>2. log' = log \cup {entry}
      BY <2>1, <3>1 DEF WriteLog
    <3>3. entry.runId = r /\ entry.event = "stage" /\ entry.stage = k
      BY <2>6 DEF Entry
    <3> QED BY <2>6, <3>2, <3>3 DEF HasLine
  <2>7. CASE q = r /\ LogStage(r) /\ k # exec[r].stage
    <3>1. exec'[r].results = exec[r].results
      BY <1>0, <2>7, ExecuteKeepsResults DEF LogStage, EndStage
    <3> QED BY <2>2, <2>4, <2>7, <3>1
  <2>8. CASE q = r /\ ~EndStage(r) /\ ~LogStage(r)
    <3>1. exec'[r].results = exec[r].results
      BY <1>0, <2>8, ExecuteKeepsResults
    <3>2. exec[r].pc # "logStage"
      BY <2>8 DEF Execute, LogRunStarted, BeginStage, PassReturns, PassThrows, LogRunEnded
    <3> QED BY <2>2, <2>4, <2>8, <3>1, <3>2
  <2> QED BY <2>3, <2>5, <2>6, <2>7, <2>8
<1> QED BY <1>4, <1>5, <1>6, <1>7, <1>8

LEMMA StepHistInv == HistInv /\ [Next]_vars => HistInv'
<1> SUFFICES ASSUME HistInv, [Next]_vars
             PROVE  (LogKnown /\ EndsKnown /\ LinesKnown /\ EndWritten /\ LinesWritten)'
  BY StepPlaceInv, StepResultsKnown DEF HistInv, PlaceInv, SlotInv
<1>0. /\ PlaceInv /\ exec \in [RunIds -> ExecRecord] /\ log \subseteq LogEntry
      /\ runs \in [Servers -> [Owners -> RunRecord]] /\ NoOne \notin RunIds
      /\ \A q \in RunIds : exec[q].pc # "unused" =>
            exec[q].server \in Servers /\ exec[q].owner \in Owners
  BY PipelineAssumption DEF HistInv, PlaceInv, SlotInv, TypeInv, TypeOK, Placed
<1>1. CASE UNCHANGED vars
  BY <1>1 DEF vars, HistInv, LogKnown, EndsKnown, EndsOf, LinesKnown, EndWritten,
              LinesWritten, EndEntries, EndedAs, HasLine, IsLatest, LatestRun
<1>2. ASSUME NEW s \in Servers, NEW o \in Owners, NEW k \in Stages, Start(s, o, k)
      PROVE  (LogKnown /\ EndsKnown /\ LinesKnown /\ EndWritten /\ LinesWritten)'
  <2>1. PICK r \in RunIds :
          /\ exec[r].pc = "unused"
          /\ runs' = [runs EXCEPT ![s][o] =
                         [runId |-> r, status |-> "RUNNING",
                          states |-> PendingStates, results |-> NoResults]]
          /\ exec' = [exec EXCEPT ![r] =
                         [NoExec EXCEPT !.pc = "logStart", !.server = s,
                                        !.owner = o, !.first = k, !.stage = k]]
    BY <1>2 DEF Start
  <2>2. /\ log' = log /\ lost' = lost /\ \A q \in RunIds : EndEntries(q)' = EndEntries(q)
        /\ \A q \in RunIds, j \in Stages : HasLine(q, j)' <=> HasLine(q, j)
    BY <1>2 DEF Start, EndEntries, HasLine
  <2>3. /\ exec'[r].pc = "logStart" /\ exec'[r].results = NoResults
        /\ \A q \in RunIds \ {r} : exec'[q] = exec[q]
    BY <1>0, <2>1 DEF NoExec
  <2>4. \A e \in log : e.runId # r
    BY <2>1 DEF HistInv, LogKnown
  <2>5. EndEntries(r) = {}
    BY <2>4 DEF EndEntries
  <2>6. ASSUME NEW q \in RunIds \ {r}, exec[q].pc # "unused", IsLatest(q)'
        PROVE  IsLatest(q) /\ LatestRun(q)' = LatestRun(q)
    <3>1. exec[q].server # s \/ exec[q].owner # o
      BY <1>0, <2>1, <2>3, <2>6 DEF IsLatest
    <3>2. runs'[exec[q].server][exec[q].owner] = runs[exec[q].server][exec[q].owner]
      BY <1>0, <2>1, <2>6, <3>1
    <3> QED BY <2>3, <2>6, <3>2 DEF IsLatest, LatestRun
  <2>7. ASSUME NEW q \in RunIds
        PROVE  EndsOf(q)'
    <3>1. CASE q = r
      BY <2>2, <2>3, <2>5, <3>1 DEF EndsOf
    <3>2. CASE q # r
      BY <2>2, <2>3, <2>6, <3>2, EndsCarried DEF HistInv, EndsKnown
    <3> QED BY <3>1, <3>2
  <2>8. EndsKnown'
    BY <2>7 DEF EndsKnown
  <2> QED
    BY <1>0, <2>2, <2>3, <2>4, <2>8
    DEF HistInv, LogKnown, LinesKnown, EndWritten, LinesWritten, NoResults, LogEntry
<1>3. ASSUME NEW r \in RunIds, Execute(r)
      PROVE  (LogKnown /\ EndsKnown /\ LinesKnown /\ EndWritten /\ LinesWritten)'
  BY <1>3, ExecuteHist
<1>4. ASSUME NEW s \in Servers, Crash(s)
      PROVE  (LogKnown /\ EndsKnown /\ LinesKnown /\ EndWritten /\ LinesWritten)'
  <2>1. ASSUME NEW q \in RunIds
        PROVE  \/ exec'[q] = exec[q]
               \/ /\ exec[q].pc \notin {"unused", "done"} /\ exec'[q].pc = "dead"
                  /\ exec'[q].results = exec[q].results
    <3>1. exec'[q] = IF exec[q].server = s /\ exec[q].pc \notin {"unused", "done"}
                     THEN [exec[q] EXCEPT !.pc = "dead"] ELSE exec[q]
      BY <1>4 DEF Crash
    <3>2. CASE exec[q].server = s /\ exec[q].pc \notin {"unused", "done"}
      BY <1>0, <3>1, <3>2 DEF ExecRecord
    <3> QED BY <3>1, <3>2
  <2>2. /\ log' = log /\ lost' = lost /\ \A q \in RunIds : EndEntries(q)' = EndEntries(q)
        /\ \A q \in RunIds, j \in Stages : HasLine(q, j)' <=> HasLine(q, j)
    BY <1>4 DEF Crash, EndEntries, HasLine
  <2>3. ASSUME NEW q \in RunIds, exec[q].pc # "unused", exec'[q] = exec[q], IsLatest(q)'
        PROVE  IsLatest(q) /\ LatestRun(q)' = LatestRun(q)
    <3>1. exec[q].server # s
      BY <1>0, <1>4, <2>3 DEF Crash, IsLatest, IdleRun
    <3>2. runs'[exec[q].server] = runs[exec[q].server]
      BY <1>0, <1>4, <2>3, <3>1 DEF Crash
    <3> QED BY <2>3, <3>2 DEF IsLatest, LatestRun
  <2>4. EndsKnown'
    <3> SUFFICES ASSUME NEW q \in RunIds PROVE EndsOf(q)'
      BY DEF EndsKnown
    <3>1. CASE exec'[q] = exec[q]
      BY <2>2, <2>3, <3>1, EndsCarried DEF HistInv, EndsKnown
    <3>2. CASE exec[q].pc \notin {"unused", "done"} /\ exec'[q].pc = "dead"
      <4>1. EndEntries(q)' = {}
        BY <2>2, <3>2 DEF HistInv, EndsKnown, EndsOf
      <4> QED BY <3>2, <4>1 DEF EndsOf
    <3> QED BY <2>1, <3>1, <3>2
  <2> QED
    BY <1>0, <2>1, <2>2, <2>4
    DEF HistInv, LogKnown, LinesKnown, EndWritten, LinesWritten, LogEntry
<1> QED BY <1>1, <1>2, <1>3, <1>4 DEF Next

LEMMA HistInvariant == Spec => []HistInv
<1>1. Init => HistInv
  BY InitSlotInv
  DEF Init, HistInv, PlaceInv, EntryPlaced, ResultsKnown, LogKnown, EndsKnown, EndsOf,
      EndEntries, LinesKnown, EndWritten, LinesWritten, IdleRun, NoExec
<1> QED BY <1>1, StepHistInv, PTL DEF Spec

\* The history rebuilt from the log never contradicts the executions, and lacks
\* nothing while no log write was lost: see HistorySound.
THEOREM HistoryIsSound == Spec => []HistorySound
<1>1. HistInv => HistorySound
  <2> SUFFICES ASSUME HistInv, NEW r \in RunIds
               PROVE  /\ Cardinality(HistoryStatuses(r)) = 1
                      /\ \A status \in HistoryStatuses(r) \ {"RUNNING"} :
                          /\ exec[r].pc \in {"done", "dead"}
                          /\ IsLatest(r) => LatestRun(r).status = status
                          /\ status = "COMPLETED" =>
                              \A k \in exec[r].first..StageCount :
                                  exec[r].results[k] = "COMPLETED"
                      /\ \A line \in HistoryStages(r) : exec[r].results[line[1]] = line[2]
                      /\ lost = 0 /\ exec[r].pc = "done" =>
                          /\ HistoryStatuses(r) # {"RUNNING"}
                          /\ HistoryStages(r) =
                              {<<k, exec[r].results[k]>> :
                                  k \in {j \in Stages : exec[r].results[j] # "none"}}
    BY DEF HistorySound
  <2>0. log \subseteq LogEntry /\ EndsOf(r)
    BY DEF HistInv, EndsKnown, PlaceInv, SlotInv, TypeInv, TypeOK
  <2>3. \A e \in log : e.runId = r /\ e.event = "stage" =>
          /\ e.stage \in Stages /\ exec[r].results[e.stage] = e.status /\ e.status # "none"
    BY <2>0 DEF HistInv, LinesKnown, LogEntry, Verdict
  <2>4. \A line \in HistoryStages(r) : exec[r].results[line[1]] = line[2]
    BY <2>3 DEF HistoryStages
  <2>5. ASSUME lost = 0, exec[r].pc = "done"
        PROVE  HistoryStages(r) =
                 {<<k, exec[r].results[k]>> : k \in {j \in Stages : exec[r].results[j] # "none"}}
    <3>1. \A k \in Stages : exec[r].results[k] # "none" => HasLine(r, k)
      BY <2>5 DEF HistInv, LinesWritten
    <3>2. ASSUME NEW line \in HistoryStages(r)
          PROVE  line \in {<<k, exec[r].results[k]>> :
                              k \in {j \in Stages : exec[r].results[j] # "none"}}
      BY <2>3, <3>2 DEF HistoryStages
    <3>3. ASSUME NEW k \in Stages, exec[r].results[k] # "none"
          PROVE  <<k, exec[r].results[k]>> \in HistoryStages(r)
      <4>1. PICK e \in log : e.runId = r /\ e.event = "stage" /\ e.stage = k
        BY <3>1, <3>3 DEF HasLine
      <4>2. e.status = exec[r].results[k]
        BY <2>3, <4>1
      <4> QED BY <4>1, <4>2 DEF HistoryStages
    <3> QED BY <3>2, <3>3
  <2>1. CASE EndEntries(r) = {}
    <3>1. HistoryStatuses(r) = {"RUNNING"}
      BY <2>1 DEF HistoryStatuses
    <3>2. ~(lost = 0 /\ exec[r].pc = "done")
      BY <2>1 DEF HistInv, EndWritten
    <3> QED BY <2>4, <3>1, <3>2, FS_Singleton
  <2>2. CASE EndEntries(r) # {}
    <3>1. PICK e : e \in EndEntries(r)
      BY <2>2
    <3>2. HistoryStatuses(r) = {e.status}
      BY <2>0, <2>2, <3>1 DEF HistoryStatuses, EndsOf
    <3>3. e.status \in Verdict /\ EndedAs(r, e.status) /\ exec[r].pc = "done"
      BY <2>0, <2>2, <3>1 DEF EndsOf, EndedAs
    <3>4. Cardinality(HistoryStatuses(r)) = 1 /\ HistoryStatuses(r) # {"RUNNING"}
      BY <3>2, <3>3, FS_Singleton DEF Verdict
    <3>5. \A status \in HistoryStatuses(r) \ {"RUNNING"} :
            /\ exec[r].pc \in {"done", "dead"}
            /\ IsLatest(r) => LatestRun(r).status = status
            /\ status = "COMPLETED" =>
                \A k \in exec[r].first..StageCount : exec[r].results[k] = "COMPLETED"
      BY <3>2, <3>3 DEF EndedAs
    <3> QED BY <2>4, <2>5, <3>4, <3>5
  <2> QED BY <2>1, <2>2
<1> QED BY <1>1, HistInvariant, PTL
==============================================================================
