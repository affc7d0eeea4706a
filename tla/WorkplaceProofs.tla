----------------------------- MODULE WorkplaceProofs -----------------------------
(***************************************************************************)
(* Proofs about Workplace, for any number of runs, clients, tests,         *)
(* administrators and tabs, and whatever the bounds.  The parts share no   *)
(* variable: a step of the system is a step of one part and leaves the     *)
(* variables of the others alone (PartsMoveAlone), so that each part has   *)
(* an invariant of its own.                                                *)
(***************************************************************************)
EXTENDS Workplace, SequenceTheorems, FiniteSetTheorems, WellFoundedInduction, TLAPS

\* What a step of the system is to each of its parts.
LEMMA PartsMoveAlone ==
    ASSUME [AllNext]_allVars
    PROVE  /\ [Next]_vars /\ [Tests!Next]_testVars /\ [Screen!Next]_screenVars
           /\ [Admin!Next]_adminVars /\ [Help!Next]_helpVars
           /\ [Review!Next]_reviewVars /\ [Log!Next]_logVars
<1>1. CASE UNCHANGED allVars
  BY <1>1 DEF allVars, vars, runVars
<1>2. CASE Only("runs") /\ Next
  BY <1>2 DEF Only
<1>3. CASE Only("tests") /\ Tests!Next
  BY <1>3 DEF Only, vars, runVars
<1>4. CASE Only("screen") /\ Screen!Next
  BY <1>4 DEF Only, vars, runVars
<1>5. CASE Only("admin") /\ Admin!Next
  BY <1>5 DEF Only, vars, runVars
<1>6. CASE Only("help") /\ Help!Next
  BY <1>6 DEF Only, vars, runVars
<1>7. CASE Only("review") /\ Review!Next
  BY <1>7 DEF Only, vars, runVars
<1>8. CASE Only("log") /\ Log!Next
  BY <1>8 DEF Only, vars, runVars
<1> QED BY <1>1, <1>2, <1>3, <1>4, <1>5, <1>6, <1>7, <1>8 DEF AllNext

-----------------------------------------------------------------------------
(* Agent runs.  Requests act on what they read before, so the invariant    *)
(* says what stays true of it: an approval once read has been recorded for *)
(* good, in verdicts (TasksAreEntitled), and the task of a new run is      *)
(* alone with its run, which has neither approval request nor artifact yet *)
(* (NewTaskIsAlone).                                                       *)

\* TypeOK without the bounds on counters.
RunsTyped ==
    /\ status \in [Runs -> RunStatus \cup {"none"}]
    /\ approval \in [Runs -> {"none", "PENDING"} \cup Decisions]
    /\ artifacts \in [Runs -> Nat]
    /\ holder \in [Runs -> Clients \cup {Nobody}]
    /\ request \in [Clients -> RequestRecord]
    /\ verdicts \in [Runs -> SUBSET Decisions]

NewTask(c) == request[c].pc \in {"begin", "work"}

ResumedTask(c) == request[c].pc \in {"load", "final"}

\* A request under way is about a run that has a row.
RequestsHaveRuns ==
    \A c \in Clients :
        request[c].pc # "idle" => request[c].run \in Runs /\ status[request[c].run] # "none"

\* A run without a row has nothing else either.
NothingBeforeRow ==
    \A r \in Runs : status[r] = "none" => approval[r] = "none" /\ artifacts[r] = 0

\* The task of a new run is the only one of its run, before any approval request.
NewTaskIsAlone ==
    \A c \in Clients :
        NewTask(c) =>
            /\ approval[request[c].run] = "none" /\ artifacts[request[c].run] = 0
            /\ status[request[c].run] # "WAITING_FOR_APPROVAL"
            /\ \A d \in Clients : NewTask(d) /\ request[d].run = request[c].run => c = d

\* A decision that shows in the approval request has been recorded.
VerdictsRecorded ==
    \A r \in Runs : approval[r] \in Decisions => approval[r] \in verdicts[r]

\* What decides and resumes has an approval request; who resumes, an approval.
TasksAreEntitled ==
    \A c \in Clients :
        LET r == request[c].run IN
        /\ request[c].pc = "decide" => approval[r] # "none" /\ request[c].value \in Decisions
        /\ \/ request[c].pc = "pending" /\ request[c].value = "APPROVED"
           \/ request[c].pc \in {"resume", "load", "final"}
           => approval[r] # "none" /\ "APPROVED" \in verdicts[r]
        /\ ResumedTask(c) => status[r] # "WAITING_FOR_APPROVAL"

\* A row is locked by a task of its run.
LockGoesWithTask ==
    \A r \in Runs :
        holder[r] # Nobody => /\ request[holder[r]].pc \in {"work", "final"}
                              /\ request[holder[r]].run = r

Inv ==
    /\ RunsTyped /\ RequestsHaveRuns /\ NothingBeforeRow /\ NewTaskIsAlone /\ VerdictsRecorded
    /\ TasksAreEntitled /\ LockGoesWithTask
    /\ ReleaseIsReviewed /\ WaitingCanGoOn


LEMMA InitInv == Init => Inv
<1> SUFFICES ASSUME Init PROVE Inv OBVIOUS
<1>1. NoRequest \in RequestRecord /\ NoRequest.pc = "idle"
  BY DEF NoRequest, RequestRecord
<1>2. RunsTyped
  BY <1>1 DEF Init, RunsTyped
<1>3. \A c \in Clients : request[c].pc = "idle"
  BY <1>1 DEF Init
<1>4. RequestsHaveRuns /\ NewTaskIsAlone /\ TasksAreEntitled
  BY <1>3 DEF RequestsHaveRuns, NewTaskIsAlone, TasksAreEntitled, NewTask, ResumedTask
<1>5. NothingBeforeRow /\ VerdictsRecorded /\ LockGoesWithTask /\ ReleaseIsReviewed /\ WaitingCanGoOn
  BY DEF Init, NothingBeforeRow, VerdictsRecorded, LockGoesWithTask, ReleaseIsReviewed,
         WaitingCanGoOn, Decisions, Free
<1> QED BY <1>2, <1>4, <1>5 DEF Inv

\* What the three ways to go on do to the requests.
LEMMA RequestSteps ==
    ASSUME RunsTyped, NEW c \in Clients
    PROVE  /\ \A pc \in {"cancel", "decide", "pending", "resume", "begin", "work", "load", "final"} :
                Goes(c, pc) =>
                    /\ request' \in [Clients -> RequestRecord]
                    /\ request'[c].pc = pc
                    /\ request'[c].run = request[c].run /\ request'[c].value = request[c].value
                    /\ \A d \in Clients \ {c} : request'[d] = request[d]
           /\ \A r \in Runs, value \in {"none", "PENDING"} \cup Decisions,
                 pc \in {"cancel", "decide", "pending", "resume", "begin", "work", "load", "final"} :
                Asks(c, r, pc, value) =>
                    /\ request' \in [Clients -> RequestRecord]
                    /\ request'[c].pc = pc /\ request'[c].run = r /\ request'[c].value = value
                    /\ \A d \in Clients \ {c} : request'[d] = request[d]
           /\ Ends(c) =>
                /\ request' \in [Clients -> RequestRecord]
                /\ request'[c].pc = "idle"
                /\ \A d \in Clients \ {c} : request'[d] = request[d]
<1>0. request \in [Clients -> RequestRecord] /\ request[c] \in RequestRecord
  BY DEF RunsTyped
<1>1. ASSUME NEW pc \in {"cancel", "decide", "pending", "resume", "begin", "work", "load", "final"},
             Goes(c, pc)
      PROVE  /\ request' \in [Clients -> RequestRecord]
             /\ request'[c].pc = pc
             /\ request'[c].run = request[c].run /\ request'[c].value = request[c].value
             /\ \A d \in Clients \ {c} : request'[d] = request[d]
  BY <1>0, <1>1 DEF Goes, RequestRecord
<1>2. ASSUME NEW r \in Runs, NEW value \in {"none", "PENDING"} \cup Decisions,
             NEW pc \in {"cancel", "decide", "pending", "resume", "begin", "work", "load", "final"},
             Asks(c, r, pc, value)
      PROVE  /\ request' \in [Clients -> RequestRecord]
             /\ request'[c].pc = pc /\ request'[c].run = r /\ request'[c].value = value
             /\ \A d \in Clients \ {c} : request'[d] = request[d]
  BY <1>0, <1>2 DEF Asks, RequestRecord
<1>3. ASSUME Ends(c)
      PROVE  /\ request' \in [Clients -> RequestRecord]
             /\ request'[c].pc = "idle"
             /\ \A d \in Clients \ {c} : request'[d] = request[d]
  BY <1>0, <1>3 DEF Ends, NoRequest, RequestRecord
<1> QED BY <1>1, <1>2, <1>3

\* A request that reads remembers a run with a row, and what it read there.
LEMMA ReadKeepsInv ==
    ASSUME Inv, NEW c \in Clients, NEW r \in Runs, NEW pc \in {"cancel", "decide", "pending"},
           NEW value \in {"none", "PENDING"} \cup Decisions,
           status[r] # "none",
           pc = "decide" => approval[r] # "none" /\ value \in Decisions,
           pc = "pending" => value = approval[r],
           Asks(c, r, pc, value),
           UNCHANGED <<status, approval, artifacts, holder, verdicts>>,
           request[c].pc = "idle"
    PROVE  Inv'
<1>1. /\ request' \in [Clients -> RequestRecord]
      /\ request'[c].pc = pc /\ request'[c].run = r /\ request'[c].value = value
      /\ \A d \in Clients \ {c} : request'[d] = request[d]
  BY RequestSteps DEF Inv
<1>2. RunsTyped' /\ NothingBeforeRow' /\ VerdictsRecorded' /\ ReleaseIsReviewed' /\ WaitingCanGoOn'
  BY <1>1
  DEF Inv, RunsTyped, NothingBeforeRow, VerdictsRecorded, ReleaseIsReviewed, WaitingCanGoOn, Free
<1>3. RequestsHaveRuns'
  BY <1>1 DEF Inv, RequestsHaveRuns
<1>4. NewTaskIsAlone'
  BY <1>1 DEF Inv, NewTaskIsAlone, NewTask
<1>5. TasksAreEntitled'
  BY <1>1 DEF Inv, TasksAreEntitled, ResumedTask, VerdictsRecorded, Decisions
<1>6. LockGoesWithTask'
  BY <1>1, AgentRunsAssumption DEF Inv, LockGoesWithTask, RunsTyped
<1> QED BY <1>2, <1>3, <1>4, <1>5, <1>6 DEF Inv

LEMMA HandleKeepsInv ==
    ASSUME Inv, NEW c \in Clients, Handle(c)
    PROVE  Inv'
<1> USE DEF Inv, RunsTyped
<1>1. ASSUME NEW r \in Runs, StartRun(c, r)
      PROVE  Inv'
  <2>1. /\ request' \in [Clients -> RequestRecord]
        /\ request'[c].pc = "begin" /\ request'[c].run = r /\ request'[c].value = "none"
        /\ \A d \in Clients \ {c} : request'[d] = request[d]
    BY <1>1, RequestSteps DEF StartRun
  <2>2. /\ status[r] = "none" /\ approval[r] = "none" /\ artifacts[r] = 0
        /\ status' = [status EXCEPT ![r] = "PENDING"]
        /\ UNCHANGED <<approval, artifacts, holder, verdicts>>
        /\ request[c].pc = "idle"
    BY <1>1 DEF StartRun, NothingBeforeRow
  <2>3. \A d \in Clients : request[d].pc # "idle" => request[d].run # r
    BY <2>2 DEF RequestsHaveRuns
  <2>4. RunsTyped'
    BY <2>1, <2>2 DEF RunStatus
  <2>5. RequestsHaveRuns'
    BY <2>1, <2>2 DEF RequestsHaveRuns
  <2>6. NothingBeforeRow' /\ VerdictsRecorded'
    BY <2>2 DEF NothingBeforeRow, VerdictsRecorded
  <2>7. NewTaskIsAlone'
    BY <2>1, <2>2, <2>3 DEF NewTaskIsAlone, NewTask
  <2>8. TasksAreEntitled'
    BY <2>1, <2>2, <2>3 DEF TasksAreEntitled, ResumedTask, RequestsHaveRuns
  <2>9. LockGoesWithTask'
    BY <2>1, <2>2, AgentRunsAssumption DEF LockGoesWithTask
  <2>10. ReleaseIsReviewed' /\ WaitingCanGoOn'
    BY <2>2 DEF ReleaseIsReviewed, WaitingCanGoOn, Free
  <2> QED BY <2>4, <2>5, <2>6, <2>7, <2>8, <2>9, <2>10
<1>2. ASSUME NEW r \in Runs, ReadToCancel(c, r)
      PROVE  Inv'
  BY <1>2, ReadKeepsInv DEF ReadToCancel
<1>3. ASSUME NEW r \in Runs, ReadToDecide(c, r)
      PROVE  Inv'
  <2>1. PICK verdict \in Decisions : Asks(c, r, "decide", verdict)
    BY <1>3 DEF ReadToDecide
  <2>2. status[r] # "none" /\ approval[r] # "none"
    BY <1>3 DEF ReadToDecide, NothingBeforeRow
  <2> QED BY <1>3, <2>1, <2>2, ReadKeepsInv DEF ReadToDecide
<1>4. ASSUME NEW r \in Runs, ReadToResume(c, r)
      PROVE  Inv'
  <2>1. status[r] # "none" /\ approval[r] \in {"none", "PENDING"} \cup Decisions
    BY <1>4 DEF ReadToResume, Resumable
  <2> QED BY <1>4, <2>1, ReadKeepsInv DEF ReadToResume
<1> DEFINE mine == request[c].run
<1>5. CASE CancelRun(c)
  <2>1. /\ request' \in [Clients -> RequestRecord] /\ request'[c].pc = "idle"
        /\ \A d \in Clients \ {c} : request'[d] = request[d]
    BY <1>5, RequestSteps DEF CancelRun
  <2>2. mine \in Runs /\ status[mine] # "none" /\ holder[mine] = Nobody
    BY <1>5 DEF CancelRun, RequestsHaveRuns, Free
  <2>3. /\ status' = [status EXCEPT ![mine] = "CANCELLED"]
        /\ UNCHANGED <<approval, artifacts, holder, verdicts>>
    BY <1>5 DEF CancelRun
  <2>4. RunsTyped' /\ RequestsHaveRuns' /\ NothingBeforeRow' /\ VerdictsRecorded'
    BY <2>1, <2>2, <2>3 DEF RunStatus, Terminal, RequestsHaveRuns, NothingBeforeRow, VerdictsRecorded
  <2>5. NewTaskIsAlone'
    BY <2>1, <2>2, <2>3 DEF NewTaskIsAlone, NewTask, RequestsHaveRuns
  <2>6. TasksAreEntitled'
    BY <2>1, <2>2, <2>3 DEF TasksAreEntitled, ResumedTask, RequestsHaveRuns
  <2>7. LockGoesWithTask'
    BY <1>5, <2>1, <2>3, AgentRunsAssumption DEF LockGoesWithTask, CancelRun
  <2>8. ReleaseIsReviewed' /\ WaitingCanGoOn'
    BY <2>2, <2>3 DEF ReleaseIsReviewed, WaitingCanGoOn, Free
  <2> QED BY <2>4, <2>5, <2>6, <2>7, <2>8
<1>6. CASE Decide(c)
  <2>1. /\ request' \in [Clients -> RequestRecord] /\ request'[c].pc = "idle"
        /\ \A d \in Clients \ {c} : request'[d] = request[d]
    BY <1>6, RequestSteps DEF Decide
  <2>2. /\ mine \in Runs /\ status[mine] # "none"
        /\ approval[mine] # "none" /\ request[c].value \in Decisions
    BY <1>6 DEF Decide, RequestsHaveRuns, TasksAreEntitled
  <2>3. /\ approval' = [approval EXCEPT ![mine] = request[c].value]
        /\ verdicts' = [verdicts EXCEPT ![mine] = @ \cup {request[c].value}]
        /\ UNCHANGED <<artifacts, holder>>
        /\ \/ request[c].value # "REJECTED" /\ status' = status
           \/ request[c].value = "REJECTED" /\ status' = [status EXCEPT ![mine] = "CANCELLED"]
    BY <1>6 DEF Decide, StatusAfterDecision
  <2>4. /\ \A r \in Runs : verdicts[r] \subseteq verdicts'[r]
        /\ \A r \in Runs : (approval[r] = "none") <=> (approval'[r] = "none")
    BY <2>2, <2>3 DEF Decisions
  <2>5. /\ status' \in [Runs -> RunStatus \cup {"none"}]
        /\ \A r \in Runs : (status[r] = "none") <=> (status'[r] = "none")
        /\ \A r \in Runs : status'[r] \in {status[r], "CANCELLED"}
    BY <2>2, <2>3 DEF RunStatus, Terminal
  <2>6. RunsTyped' /\ RequestsHaveRuns' /\ NothingBeforeRow'
    <3>1. RunsTyped'
      BY <2>1, <2>2, <2>3, <2>5
    <3>2. RequestsHaveRuns'
      BY <2>1, <2>5 DEF RequestsHaveRuns
    <3>3. NothingBeforeRow'
      BY <2>3, <2>4, <2>5 DEF NothingBeforeRow
    <3> QED BY <3>1, <3>2, <3>3
  <2>7. VerdictsRecorded'
    BY <2>2, <2>3 DEF VerdictsRecorded
  <2>8. NewTaskIsAlone'
    BY <2>1, <2>2, <2>3, <2>4, <2>5 DEF NewTaskIsAlone, NewTask, RequestsHaveRuns
  <2>9. TasksAreEntitled'
    BY <2>1, <2>4, <2>5 DEF TasksAreEntitled, ResumedTask, RequestsHaveRuns
  <2>10. LockGoesWithTask'
    BY <1>6, <2>1, <2>3, AgentRunsAssumption DEF LockGoesWithTask, Decide
  <2>11. ReleaseIsReviewed'
    BY <2>3, <2>4, <2>5 DEF ReleaseIsReviewed
  <2>12. WaitingCanGoOn'
    BY <2>2, <2>3, <2>5 DEF WaitingCanGoOn, Free, Decisions
  <2> QED BY <2>6, <2>7, <2>8, <2>9, <2>10, <2>11, <2>12
<1>7. CASE CheckApprovals(c)
  <2>1. /\ request' \in [Clients -> RequestRecord]
        /\ \/ request'[c].pc = "idle"
           \/ /\ MayResume(c) /\ request'[c].pc = "resume"
              /\ request'[c].run = mine /\ request'[c].value = request[c].value
        /\ \A d \in Clients \ {c} : request'[d] = request[d]
    BY <1>7, RequestSteps DEF CheckApprovals
  <2>2. UNCHANGED <<status, approval, artifacts, holder, verdicts>> /\ request[c].pc = "pending"
    BY <1>7 DEF CheckApprovals
  <2>3. RunsTyped' /\ RequestsHaveRuns' /\ NothingBeforeRow' /\ VerdictsRecorded'
    BY <2>1, <2>2 DEF RequestsHaveRuns, NothingBeforeRow, VerdictsRecorded
  <2>4. NewTaskIsAlone'
    BY <2>1, <2>2 DEF NewTaskIsAlone, NewTask
  <2>5. TasksAreEntitled'
    BY <2>1, <2>2 DEF TasksAreEntitled, ResumedTask, MayResume
  <2>6. LockGoesWithTask'
    BY <2>1, <2>2, AgentRunsAssumption DEF LockGoesWithTask
  <2>7. ReleaseIsReviewed' /\ WaitingCanGoOn'
    BY <2>2 DEF ReleaseIsReviewed, WaitingCanGoOn, Free
  <2> QED BY <2>3, <2>4, <2>5, <2>6, <2>7
<1>8. CASE ResumeRun(c)
  <2>1. /\ request' \in [Clients -> RequestRecord]
        /\ request'[c].pc = "load" /\ request'[c].run = mine
        /\ \A d \in Clients \ {c} : request'[d] = request[d]
    BY <1>8, RequestSteps DEF ResumeRun
  <2>2. /\ mine \in Runs /\ status[mine] # "none" /\ request[c].pc = "resume"
        /\ approval[mine] # "none" /\ "APPROVED" \in verdicts[mine]
    BY <1>8 DEF ResumeRun, RequestsHaveRuns, TasksAreEntitled
  <2>3. /\ status' = [status EXCEPT ![mine] = "RUNNING"]
        /\ UNCHANGED <<approval, artifacts, holder, verdicts>>
    BY <1>8 DEF ResumeRun
  <2>4. RunsTyped' /\ RequestsHaveRuns' /\ NothingBeforeRow' /\ VerdictsRecorded'
    BY <2>1, <2>2, <2>3 DEF RunStatus, RequestsHaveRuns, NothingBeforeRow, VerdictsRecorded
  <2>5. NewTaskIsAlone'
    BY <2>1, <2>2, <2>3 DEF NewTaskIsAlone, NewTask, RequestsHaveRuns
  <2>6. TasksAreEntitled'
    BY <2>1, <2>2, <2>3 DEF TasksAreEntitled, ResumedTask, RequestsHaveRuns
  <2>7. LockGoesWithTask'
    BY <2>1, <2>2, <2>3, AgentRunsAssumption DEF LockGoesWithTask
  <2>8. ReleaseIsReviewed' /\ WaitingCanGoOn'
    BY <2>2, <2>3 DEF ReleaseIsReviewed, WaitingCanGoOn, Free
  <2> QED BY <2>4, <2>5, <2>6, <2>7, <2>8
<1> QED BY <1>1, <1>2, <1>3, <1>4, <1>5, <1>6, <1>7, <1>8 DEF Handle

\* A task that commits: the run gets status and artifact, or approval request
\* and status.  Only the task of a new run makes it wait.
LEMMA CommitKeepsInv ==
    ASSUME Inv, NEW c \in Clients, NEW newStatus \in {"COMPLETED", "FAILED", "WAITING_FOR_APPROVAL"},
           Commits(c, newStatus),
           NewTask(c) \/ (ResumedTask(c) /\ newStatus = "COMPLETED"),
           holder[request[c].run] \in {c, Nobody},
           UNCHANGED verdicts,
           artifacts' = IF newStatus = "COMPLETED"
                        THEN [artifacts EXCEPT ![request[c].run] = @ + 1] ELSE artifacts,
           approval' = IF newStatus = "WAITING_FOR_APPROVAL"
                       THEN [approval EXCEPT ![request[c].run] = "PENDING"] ELSE approval
    PROVE  Inv'
<1> USE DEF Inv, RunsTyped
<1> DEFINE mine == request[c].run
<1>1. /\ request' \in [Clients -> RequestRecord] /\ request'[c].pc = "idle"
      /\ \A d \in Clients \ {c} : request'[d] = request[d]
  BY RequestSteps DEF Commits
<1>2. mine \in Runs /\ status[mine] # "none"
  BY DEF RequestsHaveRuns, NewTask, ResumedTask
<1>3. /\ status' = [status EXCEPT ![mine] = newStatus]
      /\ holder' = [holder EXCEPT ![mine] = Nobody]
  BY DEF Commits
<1>4. /\ RunsTyped'
      /\ \A r \in Runs : (status[r] = "none") <=> (status'[r] = "none")
  BY <1>1, <1>2, <1>3 DEF RunStatus, Terminal
<1>5. RequestsHaveRuns'
  BY <1>1, <1>4 DEF RequestsHaveRuns
<1>6. NothingBeforeRow'
  BY <1>2, <1>3 DEF NothingBeforeRow
<1>7. \A d \in Clients \ {c} : NewTask(d) => request[d].run # mine
  <2>1. CASE NewTask(c)
    BY <2>1 DEF NewTaskIsAlone
  <2>2. CASE ResumedTask(c)
    BY <2>2 DEF NewTaskIsAlone, TasksAreEntitled, ResumedTask
  <2> QED BY <2>1, <2>2
<1>8. NewTaskIsAlone'
  BY <1>1, <1>2, <1>3, <1>7 DEF NewTaskIsAlone, NewTask, RequestsHaveRuns
<1>9. VerdictsRecorded'
  BY <1>2 DEF VerdictsRecorded, Decisions
<1>10. newStatus = "WAITING_FOR_APPROVAL" => \A d \in Clients : ResumedTask(d) => request[d].run # mine
  BY DEF NewTaskIsAlone, NewTask, TasksAreEntitled, ResumedTask
<1>11. \A r \in Runs : approval[r] # "none" => approval'[r] # "none"
  BY <1>2
<1>12. TasksAreEntitled'
  BY <1>1, <1>2, <1>3, <1>10, <1>11 DEF TasksAreEntitled, ResumedTask, RequestsHaveRuns
<1>13. LockGoesWithTask'
  <2> SUFFICES ASSUME NEW r \in Runs, holder'[r] # Nobody
               PROVE  request'[holder'[r]].pc \in {"work", "final"} /\ request'[holder'[r]].run = r
    BY DEF LockGoesWithTask
  <2>1. r # mine /\ holder'[r] = holder[r] /\ holder[r] \in Clients
    BY <1>2, <1>3
  <2>2. request[holder[r]].pc \in {"work", "final"} /\ request[holder[r]].run = r
    BY <2>1 DEF LockGoesWithTask
  <2> QED BY <1>1, <2>1, <2>2
<1>14. ReleaseIsReviewed'
  <2>1. NewTask(c) => artifacts[mine] = 0 /\ approval[mine] = "none"
    BY DEF NewTaskIsAlone
  <2>2. ResumedTask(c) => "APPROVED" \in verdicts[mine]
    BY DEF TasksAreEntitled, ResumedTask
  <2> QED BY <1>2, <1>3, <2>1, <2>2 DEF ReleaseIsReviewed
<1>15. WaitingCanGoOn'
  BY <1>2, <1>3 DEF WaitingCanGoOn, Free
<1> QED BY <1>4, <1>5, <1>6, <1>8, <1>9, <1>12, <1>13, <1>14, <1>15

\* A task goes on without committing: it may take the lock of its run, or die
\* and give it back.
LEMMA TaskMovesKeepInv ==
    ASSUME Inv, NEW c \in Clients,
           UNCHANGED <<status, approval, artifacts, verdicts>>,
           \/ Goes(c, "work") /\ request[c].pc = "begin"
           \/ Goes(c, "final") /\ request[c].pc = "load"
           \/ Ends(c) /\ request[c].pc \in {"begin", "work", "load", "final"},
           \/ holder' = holder /\ (Ends(c) => holder[request[c].run] # c)
           \/ ~Ends(c) /\ holder' = [holder EXCEPT ![request[c].run] = c] /\ Free(request[c].run)
           \/ Ends(c) /\ holder' = [holder EXCEPT ![request[c].run] = Nobody]
              /\ holder[request[c].run] = c
    PROVE  Inv'
<1> USE DEF Inv, RunsTyped
<1> DEFINE mine == request[c].run
<1>1. /\ request' \in [Clients -> RequestRecord]
      /\ \/ Ends(c) /\ request'[c].pc = "idle"
         \/ /\ request[c].pc = "begin" /\ request'[c].pc = "work"
            /\ request'[c].run = mine /\ ~Ends(c)
         \/ /\ request[c].pc = "load" /\ request'[c].pc = "final"
            /\ request'[c].run = mine /\ ~Ends(c)
      /\ \A d \in Clients \ {c} : request'[d] = request[d]
  BY RequestSteps
<1>2. mine \in Runs /\ request[c].pc \in {"begin", "work", "load", "final"}
  BY DEF RequestsHaveRuns
<1>3. holder' \in [Runs -> Clients \cup {Nobody}]
  BY <1>2
<1>4. RunsTyped' /\ RequestsHaveRuns' /\ NothingBeforeRow' /\ VerdictsRecorded' /\ ReleaseIsReviewed'
  BY <1>1, <1>3 DEF RequestsHaveRuns, NothingBeforeRow, VerdictsRecorded, ReleaseIsReviewed
<1>5. NewTaskIsAlone'
  BY <1>1 DEF NewTaskIsAlone, NewTask
<1>6. TasksAreEntitled'
  BY <1>1 DEF TasksAreEntitled, ResumedTask
<1>7. LockGoesWithTask'
  <2> SUFFICES ASSUME NEW r \in Runs, holder'[r] # Nobody
               PROVE  request'[holder'[r]].pc \in {"work", "final"} /\ request'[holder'[r]].run = r
    BY DEF LockGoesWithTask
  <2>1. CASE holder'[r] = c
    BY <1>1, <1>2, <2>1, AgentRunsAssumption DEF LockGoesWithTask
  <2>2. CASE holder'[r] # c
    <3>1. holder'[r] = holder[r] /\ holder[r] \in Clients \ {c}
      BY <1>2, <2>2
    <3> QED BY <1>1, <3>1 DEF LockGoesWithTask
  <2> QED BY <2>1, <2>2
<1>8. WaitingCanGoOn'
  <2>1. status[mine] # "WAITING_FOR_APPROVAL"
    BY <1>2 DEF NewTaskIsAlone, NewTask, TasksAreEntitled, ResumedTask
  <2> QED BY <1>2, <2>1 DEF WaitingCanGoOn, Free
<1> QED BY <1>4, <1>5, <1>6, <1>7, <1>8

LEMMA TaskKeepsInv ==
    ASSUME Inv, NEW c \in Clients, Task(c) \/ TaskDies(c)
    PROVE  Inv'
<1>0. \A pc \in {"work", "final"} : ~(Goes(c, pc) /\ Ends(c))
  <2> SUFFICES ASSUME NEW pc \in {"work", "final"}, Goes(c, pc), Ends(c) PROVE FALSE
    OBVIOUS
  <2> QED BY RequestSteps DEF Inv
<1>1. CASE BeginTask(c)
  BY <1>0, <1>1, TaskMovesKeepInv DEF BeginTask
<1>2. CASE ExecuteRun(c)
  <2>0. NewTask(c) /\ UNCHANGED verdicts
    BY <1>2 DEF ExecuteRun, NewTask
  <2>1. holder[request[c].run] \in {c, Nobody}
    <3> PICK d \in Clients \cup {Nobody} : d = holder[request[c].run]
      BY <2>0 DEF Inv, RunsTyped, RequestsHaveRuns, NewTask
    <3>1. CASE d = Nobody
      BY <3>1
    <3>2. CASE d # Nobody
      <4>1. request[d].pc \in {"work", "final"} /\ request[d].run = request[c].run
        BY <2>0, <3>2 DEF Inv, LockGoesWithTask, RequestsHaveRuns, NewTask
      <4>2. request[d].pc # "final"
        BY <2>0, <3>2, <4>1 DEF Inv, NewTaskIsAlone, TasksAreEntitled
      <4> QED BY <2>0, <3>2, <4>1, <4>2 DEF Inv, NewTaskIsAlone, NewTask
    <3> QED BY <3>1, <3>2
  <2>2. CASE Finalize(c)
    BY <2>0, <2>1, <2>2, CommitKeepsInv DEF Finalize
  <2>3. CASE PauseForApproval(c)
    BY <2>0, <2>1, <2>3, CommitKeepsInv DEF PauseForApproval
  <2>4. CASE FailRun(c)
    BY <2>0, <2>1, <2>4, CommitKeepsInv DEF FailRun
  <2> QED BY <1>2, <2>2, <2>3, <2>4 DEF ExecuteRun
<1>3. CASE LoadCheckpoint(c)
  BY <1>0, <1>3, TaskMovesKeepInv DEF LoadCheckpoint
<1>4. CASE FinishResumed(c)
  BY <1>4, CommitKeepsInv DEF FinishResumed, Finalize, ResumedTask
<1>5. CASE TaskDies(c)
  BY <1>5, TaskMovesKeepInv DEF TaskDies
<1> QED BY <1>1, <1>2, <1>3, <1>4, <1>5 DEF Task

LEMMA RunsKeepInv == Inv /\ [Next]_vars => Inv'
<1> SUFFICES ASSUME Inv, [Next]_vars PROVE Inv' OBVIOUS
<1>1. CASE UNCHANGED vars
  BY <1>1
  DEF vars, Inv, RunsTyped, RequestsHaveRuns, NothingBeforeRow, NewTaskIsAlone, VerdictsRecorded,
      TasksAreEntitled, LockGoesWithTask, ReleaseIsReviewed, WaitingCanGoOn, NewTask, ResumedTask,
      Free
<1> QED BY <1>1, HandleKeepsInv, TaskKeepsInv DEF Next

\* The invariant holds of the runs by themselves and beside the other parts.
LEMMA SpecInv == (Spec => []Inv) /\ (AllSpec => []Inv)
<1>1. AllInit => Inv
  BY InitInv DEF AllInit
<1>2. Inv /\ [AllNext]_allVars => Inv'
  BY RunsKeepInv, PartsMoveAlone
<1>3. Spec => []Inv
  BY InitInv, RunsKeepInv, PTL DEF Spec
<1>4. AllSpec => []Inv
  BY <1>1, <1>2, PTL DEF AllSpec
<1> QED BY <1>3, <1>4

\* Whatever the number of clients, and however their reads and writes
\* interleave: an artifact that needed a review was approved before, and a
\* completed run has one.
THEOREM NothingUnreviewed == (Spec => []ReleaseIsReviewed) /\ (AllSpec => []ReleaseIsReviewed)
<1>1. Inv => ReleaseIsReviewed
  BY DEF Inv
<1> QED BY <1>1, SpecInv, PTL

\* A run that waits for approval is free, and its request is not rejected.
THEOREM WaitingRunsCanGoOn == (Spec => []WaitingCanGoOn) /\ (AllSpec => []WaitingCanGoOn)
<1>1. Inv => WaitingCanGoOn
  BY DEF Inv
<1> QED BY <1>1, SpecInv, PTL

-----------------------------------------------------------------------------
(* The tests of agents.  Only a worker's last commit and a transcript that *)
(* came with its request complete a run; a request that read the run       *)
(* earlier never writes that status, and clears what is stored only of a   *)
(* run that is deleted by then.                                            *)

TestRequest ==
    [pc : {"idle", "commit"}, kind : {"none", "execute", "stop", "resume", "delete"},
     run : Tests!TestRuns \cup {0}, seen : Tests!Status \cup {"none"}]

TestsInv ==
    /\ testRow \in [Tests!TestRuns -> Tests!Status \cup {"none", "deleted"}]
    /\ stored \in [Tests!TestRuns -> Nat]
    /\ testRequest \in [Requests -> TestRequest]
    /\ \A q \in Requests :
          testRequest[q].pc = "commit" =>
              testRequest[q].kind # "none" /\ testRequest[q].seen \in Tests!Status
    /\ CompletedIsWhole

LEMMA TestsInitInv == Tests!Init => TestsInv
<1>1. Tests!NoRequest \in TestRequest /\ Tests!NoRequest.pc = "idle"
  BY DEF Tests!NoRequest, TestRequest
<1> QED BY <1>1 DEF Tests!Init, TestsInv, CompletedIsWhole, Tests!CompletedIsWhole

LEMMA TestsKeepInv == TestsInv /\ [Tests!Next]_testVars => TestsInv'
<1> SUFFICES ASSUME TestsInv, [Tests!Next]_testVars PROVE TestsInv' OBVIOUS
<1> DEFINE RowType == Tests!Status \cup {"none", "deleted"}
<1>0. /\ testRow \in [Tests!TestRuns -> RowType] /\ stored \in [Tests!TestRuns -> Nat]
      /\ testRequest \in [Requests -> TestRequest]
      /\ \A r \in Tests!TestRuns : testRow[r] = "completed" => stored[r] = 1
  BY DEF TestsInv, CompletedIsWhole, Tests!CompletedIsWhole
<1>a. \A s \in {"draft", "queued", "running", "stopping", "stopped", "completed", "failed",
                "none", "deleted"} : s \in RowType
  BY DEF Tests!Status
<1> HIDE DEF RowType
\* A run gets a status and, with it, what it has stored.
<1>1. ASSUME NEW r, NEW s \in RowType, NEW n \in Nat, UNCHANGED testRequest,
             s = "completed" => n = 1,
             testRow' = [testRow EXCEPT ![r] = s],
             stored' = [stored EXCEPT ![r] = n]
      PROVE  TestsInv'
  BY <1>0, <1>1 DEF TestsInv, CompletedIsWhole, Tests!CompletedIsWhole, RowType
<1>2. ASSUME NEW r, NEW s \in RowType, UNCHANGED <<testRequest, stored>>,
             s # "completed", testRow' = [testRow EXCEPT ![r] = s]
      PROVE  TestsInv'
  BY <1>0, <1>2 DEF TestsInv, CompletedIsWhole, Tests!CompletedIsWhole, RowType
\* The requests move and the rows do not.
<1>3. ASSUME NEW q \in Requests, NEW new \in TestRequest, UNCHANGED <<testRow, stored>>,
             testRequest' = [testRequest EXCEPT ![q] = new],
             new.pc = "commit" => new.kind # "none" /\ new.seen \in Tests!Status
      PROVE  TestsInv'
  BY <1>0, <1>3 DEF TestsInv, CompletedIsWhole, Tests!CompletedIsWhole
<1>4. UNCHANGED <<testRow, stored, testRequest>> => TestsInv'
  BY DEF TestsInv, CompletedIsWhole, Tests!CompletedIsWhole
<1>5. Tests!NoRequest \in TestRequest /\ Tests!NoRequest.pc = "idle"
  BY DEF Tests!NoRequest, TestRequest
<1>6. CASE UNCHANGED testVars
  BY <1>4, <1>6 DEF testVars
<1>7. ASSUME NEW r \in Tests!TestRuns, Tests!Create(r) PROVE TestsInv'
  BY <1>2, <1>7, <1>a DEF Tests!Create
<1>8. ASSUME NEW r \in Tests!TestRuns, Tests!Evaluate(r) PROVE TestsInv'
  BY <1>1, <1>8, <1>a DEF Tests!Evaluate
<1>9. ASSUME NEW q \in Requests, NEW kind \in {"execute", "stop", "resume", "delete"},
             NEW r \in Tests!TestRuns, Tests!Exists(r), Tests!BeginRequest(q, kind, r)
      PROVE  TestsInv'
  <2> DEFINE new == [pc |-> "commit", kind |-> kind, run |-> r, seen |-> testRow[r]]
  <2>1. testRow[r] \in Tests!Status
    BY <1>9 DEF Tests!Exists
  <2>2. new \in TestRequest /\ new.kind # "none" /\ new.seen \in Tests!Status
    BY <2>1 DEF TestRequest
  <2>3. testRequest' = [testRequest EXCEPT ![q] = new] /\ UNCHANGED <<testRow, stored>>
    BY <1>9 DEF Tests!BeginRequest
  <2> HIDE DEF new
  <2> QED BY <1>3, <2>2, <2>3
<1>10. ASSUME NEW q \in Requests, Tests!CommitRequest(q) PROVE TestsInv'
  <2> DEFINE r == testRequest[q].run
             s == Tests!Requested(testRequest[q].kind, testRequest[q].seen)
             writes_ == Tests!Exists(r) /\ s # testRequest[q].seen
  <2>1. /\ testRequest[q].pc = "commit"
        /\ testRow' = IF writes_ THEN [testRow EXCEPT ![r] = s] ELSE testRow
        /\ stored' = [stored EXCEPT ![r] = IF s = "deleted" THEN 0 ELSE stored[r]]
        /\ testRequest' = [testRequest EXCEPT ![q] = Tests!NoRequest]
    BY <1>10 DEF Tests!CommitRequest
  <2>2. testRequest[q].kind \in {"execute", "stop", "resume", "delete"}
        /\ testRequest[q].seen \in Tests!Status
    BY <1>0, <2>1 DEF TestsInv, TestRequest
  <2>3. s \in {"deleted", "queued", "stopped", "stopping"}
    BY <2>2 DEF Tests!Requested
  <2>4. s = "deleted" => s # testRequest[q].seen
    BY <2>2 DEF Tests!Status
  <2>5. s \in RowType
    BY <2>3, <1>a
  <2>6. testRow' \in [Tests!TestRuns -> RowType] /\ stored' \in [Tests!TestRuns -> Nat]
    BY <1>0, <2>1, <2>5
  <2>7. \A t \in Tests!TestRuns : testRow'[t] = "completed" => stored'[t] = 1
    <3> SUFFICES ASSUME NEW t \in Tests!TestRuns, testRow'[t] = "completed"
                 PROVE  stored'[t] = 1
      OBVIOUS
    <3>1. ~ (writes_ /\ t = r) /\ testRow[t] = "completed"
      BY <1>0, <2>1, <2>3
    <3>2. t = r => s # "deleted"
      BY <2>4, <3>1 DEF Tests!Exists, Tests!Status
    <3> QED BY <1>0, <2>1, <3>1, <3>2
  <2>8. testRequest' \in [Requests -> TestRequest]
        /\ \A p \in Requests : testRequest'[p] = IF p = q THEN Tests!NoRequest ELSE testRequest[p]
    BY <1>0, <1>5, <2>1
  <2> QED
    BY <1>5, <2>6, <2>7, <2>8
    DEF TestsInv, CompletedIsWhole, Tests!CompletedIsWhole, RowType
<1>11. ASSUME NEW q \in Requests, Tests!RequestThrows(q) PROVE TestsInv'
  BY <1>3, <1>5, <1>11 DEF Tests!RequestThrows
<1>12. CASE Tests!Poll \/ Tests!TakeNext \/ Tests!BeginCall \/ Tests!CallReturns \/ Tests!CallThrows
  BY <1>4, <1>12
  DEF Tests!Poll, Tests!TakeNext, Tests!BeginCall, Tests!CallReturns, Tests!CallThrows
<1>13. ASSUME NEW known \in BOOLEAN, Tests!StartRun(known) PROVE TestsInv'
  <2>1. CASE Tests!Exists(worker.cur)
    <3> DEFINE s == IF known THEN "running" ELSE "failed"
    <3>1. s \in RowType /\ s # "completed"
      BY <1>a
    <3>2. testRow' = [testRow EXCEPT ![worker.cur] = s] /\ UNCHANGED <<stored, testRequest>>
      BY <1>13, <2>1 DEF Tests!StartRun
    <3> HIDE DEF s
    <3> QED BY <1>2, <3>1, <3>2
  <2>2. CASE ~ Tests!Exists(worker.cur)
    BY <1>4, <1>13, <2>2 DEF Tests!StartRun, Tests!Abort
  <2> QED BY <2>1, <2>2
<1>14. CASE Tests!EndRun
  <2>1. CASE Tests!Exists(worker.cur)
    <3>1. /\ worker.pc \in {"completed", "stopped", "failed"}
          /\ testRow' = [testRow EXCEPT ![worker.cur] = worker.pc]
          /\ stored' = [stored EXCEPT ![worker.cur] = IF worker.pc = "completed" THEN 1 ELSE 0]
          /\ UNCHANGED testRequest
      BY <1>14, <2>1 DEF Tests!EndRun, Tests!FinalStatus, Tests!Transcripts
    <3> DEFINE n == IF worker.pc = "completed" THEN 1 ELSE 0
    <3>2. worker.pc \in RowType /\ n \in Nat /\ (worker.pc = "completed" => n = 1)
      BY <3>1, <1>a
    <3> HIDE DEF n
    <3>3. stored' = [stored EXCEPT ![worker.cur] = n]
      BY <3>1 DEF n
    <3> QED BY <1>1, <3>1, <3>2, <3>3
  <2>2. CASE ~ Tests!Exists(worker.cur)
    BY <1>4, <1>14, <2>2 DEF Tests!EndRun, Tests!Abort
  <2> QED BY <2>1, <2>2
<1>15. CASE Tests!WorkerThrows
  BY <1>4, <1>15 DEF Tests!WorkerThrows, Tests!Abort
<1>16. CASE Tests!Restart
  BY <1>0, <1>5, <1>16
  DEF Tests!Restart, TestsInv, CompletedIsWhole, Tests!CompletedIsWhole
<1> QED
  BY <1>6, <1>7, <1>8, <1>9, <1>10, <1>11, <1>12, <1>13, <1>14, <1>15, <1>16
  DEF Tests!Next, Tests!Work

\* However requests, the worker and restarts interleave: a completed run holds
\* the transcript of one execution (agent_test_tasks.py, agent_tests.py).
THEOREM CompletedRunsAreWhole == AllSpec => []CompletedIsWhole
<1>1. AllInit => TestsInv
  BY TestsInitInv DEF AllInit
<1>2. TestsInv /\ [AllNext]_allVars => TestsInv'
  BY TestsKeepInv, PartsMoveAlone
<1>3. TestsInv => CompletedIsWhole
  BY DEF TestsInv
<1> QED BY <1>1, <1>2, <1>3, PTL DEF AllSpec

-----------------------------------------------------------------------------
(* The review of tickets.  An approval is settled statements after it was  *)
(* asked for, and other reviews and investigations go on in between: what  *)
(* stays true is that the text of a request that may end in APPROVED has   *)
(* been sent.                                                              *)

AnyText == {Blank, Typed} \cup Nat

ReviewCall ==
    [at : {"none", "recommend", "propose", "latest", "decide", "settle", "respond"},
     action : Review!ReviewActions, text : AnyText, row : Nat, decision : Review!Reviews]

ReviewedTicket == [status : Review!Statuses, review : Review!Reviews, fix : AnyText]

Recommendation == [text : AnyText, status : Review!Reviews]

Dashboard == [selected : BOOLEAN, draft : AnyText, busy : {"no", "running", "left"}]

ReviewTyped ==
    /\ ticket \in ReviewedTicket /\ recommendations \in Seq(Recommendation)
    /\ dashboard \in [Admins -> Dashboard] /\ call \in [Admins -> ReviewCall]

\* A request that may end in APPROVED brought its text along.
TextIsSent(c, texts) ==
    /\ c.at = "latest" /\ c.action # "reject" => c.text \in texts
    /\ c.at \in {"decide", "settle"} /\ c.decision = "APPROVED" => c.text \in texts

ReviewInv ==
    /\ ReviewTyped /\ ApprovedFixWasSent
    /\ \A a \in Admins : TextIsSent(call[a], sent)
    /\ \A a \in Admins : call[a].at = "decide" => call[a].row \in 1 .. Len(recommendations)

LEMMA ReviewInitInv == Review!Init => ReviewInv
<1> SUFFICES ASSUME Review!Init PROVE ReviewInv OBVIOUS
<1>1. ticket.review = "PENDING"
  BY DEF Review!Init
<1>2. ticket \in ReviewedTicket
  BY DEF ReviewedTicket, Review!Init, Review!Statuses, Review!Reviews, AnyText
<1>3. dashboard \in [Admins -> Dashboard]
  BY DEF Dashboard, Review!Init, Review!Opened, AnyText
<1>4. Review!Idle \in ReviewCall /\ Review!Idle.at = "none"
  BY DEF Review!Idle, ReviewCall, Review!ReviewActions, Review!Reviews, AnyText
<1>5. call \in [Admins -> ReviewCall] /\ \A a \in Admins : call[a].at = "none"
  BY <1>4 DEF Review!Init
<1>6. recommendations = << >>
  BY DEF Review!Init
<1> QED
  BY <1>1, <1>2, <1>3, <1>5, <1>6
  DEF ReviewInv, ReviewTyped, ApprovedFixWasSent, Review!ApprovedFixWasSent, TextIsSent

\* The request of a is now at new.
NowAt(a, new) == call' = [call EXCEPT ![a] = new]

\* A request that goes on with another value in call, and texts that are only added.
LEMMA ReviewCallGoesOn ==
    ASSUME ReviewInv, NEW a \in Admins, NEW new \in ReviewCall,
           NowAt(a, new),
           sent \subseteq sent', TextIsSent(new, sent'),
           new.at = "decide" => new.row \in 1 .. Len(recommendations'),
           Len(recommendations) <= Len(recommendations'),
           recommendations' \in Seq(Recommendation),
           ticket' \in ReviewedTicket,
           ApprovedFixWasSent',
           dashboard' \in [Admins -> Dashboard]
    PROVE  ReviewInv'
<1>1. ReviewTyped'
  BY DEF ReviewInv, ReviewTyped, NowAt
<1>2. \A b \in Admins : call'[b] = IF b = a THEN new ELSE call[b]
  BY DEF ReviewInv, ReviewTyped, NowAt
<1>3. \A b \in Admins : TextIsSent(call'[b], sent')
  BY <1>2 DEF ReviewInv, TextIsSent
<1>4. \A b \in Admins : call'[b].at = "decide" => call'[b].row \in 1 .. Len(recommendations')
  <2>1. Len(recommendations) \in Nat /\ Len(recommendations') \in Nat
    BY DEF ReviewInv, ReviewTyped
  <2> QED BY <1>2, <2>1 DEF ReviewInv
<1> QED BY <1>1, <1>3, <1>4 DEF ReviewInv

LEMMA ReviewsKeepInv == ReviewInv /\ [Review!Next]_reviewVars => ReviewInv'
<1> SUFFICES ASSUME ReviewInv, [Review!Next]_reviewVars PROVE ReviewInv' OBVIOUS
<1>0. /\ ticket \in ReviewedTicket /\ recommendations \in Seq(Recommendation)
      /\ dashboard \in [Admins -> Dashboard] /\ call \in [Admins -> ReviewCall]
      /\ Len(recommendations) \in Nat
  BY DEF ReviewInv, ReviewTyped
<1>a. ApprovedFixWasSent /\ \A a \in Admins : TextIsSent(call[a], sent)
  BY DEF ReviewInv
<1>b. UNCHANGED ticket /\ sent \subseteq sent' => ApprovedFixWasSent'
  BY <1>a DEF ApprovedFixWasSent, Review!ApprovedFixWasSent
<1>1. CASE UNCHANGED reviewVars
  BY <1>1
  DEF reviewVars, ReviewInv, ReviewTyped, ApprovedFixWasSent, Review!ApprovedFixWasSent
<1>2. ASSUME UNCHANGED <<recommendations, call, sent>>, ticket' = ticket,
             dashboard' \in [Admins -> Dashboard]
      PROVE  ReviewInv'
  BY <1>2 DEF ReviewInv, ReviewTyped, ApprovedFixWasSent, Review!ApprovedFixWasSent
<1>3. ASSUME NEW a \in Admins, Review!SelectTicket(a) PROVE ReviewInv'
  <2>1. Review!Shown(dashboard[a]) \in Dashboard
    BY <1>0 DEF Review!Shown, Dashboard, ReviewedTicket
  <2>2. dashboard' = [dashboard EXCEPT ![a] = Review!Shown(dashboard[a])]
    BY <1>3 DEF Review!SelectTicket
  <2>3. dashboard' \in [Admins -> Dashboard]
    BY <1>0, <2>1, <2>2
  <2> QED BY <1>2, <1>3, <2>3 DEF Review!SelectTicket
<1>4. ASSUME NEW a \in Admins, Review!TypeRecommendation(a) PROVE ReviewInv'
  <2>1. dashboard' \in [Admins -> Dashboard]
    BY <1>0, <1>4 DEF Review!TypeRecommendation, AnyText, Dashboard
  <2> QED BY <1>2, <1>4, <2>1 DEF Review!TypeRecommendation
<1>5. ASSUME NEW a \in Admins, Review!InvestigateSelectedTicket(a) PROVE ReviewInv'
  <2> DEFINE new == [call[a] EXCEPT !.at = "recommend"]
  <2>1. new \in ReviewCall
    BY <1>0 DEF ReviewCall
  <2>2. new.at = "recommend"
    BY <1>0 DEF ReviewCall
  <2>3. dashboard' \in [Admins -> Dashboard]
    BY <1>0, <1>5 DEF Review!InvestigateSelectedTicket, Dashboard
  <2>4. /\ NowAt(a, new)
        /\ UNCHANGED <<ticket, recommendations, sent>>
    BY <1>5 DEF Review!InvestigateSelectedTicket, NowAt
  <2> HIDE DEF new
  <2>5. TextIsSent(new, sent')
    BY <2>2 DEF TextIsSent
  <2> QED BY <1>0, <1>b, <2>1, <2>2, <2>3, <2>4, <2>5, ReviewCallGoesOn
<1>6. ASSUME NEW a \in Admins, NEW action_ \in Review!ReviewActions,
             Review!ReviewSelectedTicket(a, action_)
      PROVE  ReviewInv'
  <2> DEFINE new == [Review!Idle EXCEPT !.at = "latest", !.action = action_,
                                        !.text = dashboard[a].draft]
  <2>1. Review!Idle \in ReviewCall
    BY DEF Review!Idle, ReviewCall, Review!ReviewActions, Review!Reviews, AnyText
  <2>2. new \in ReviewCall /\ new.at = "latest" /\ new.action = action_
        /\ new.text = dashboard[a].draft
    BY <1>0, <2>1 DEF ReviewCall, Dashboard
  <2>3. NowAt(a, new) /\ UNCHANGED <<ticket, recommendations, dashboard>>
    BY <1>6 DEF Review!ReviewSelectedTicket, NowAt
  <2>4. sent \subseteq sent' /\ (action_ # "reject" => dashboard[a].draft \in sent')
    BY <1>6 DEF Review!ReviewSelectedTicket
  <2> HIDE DEF new
  <2>5. TextIsSent(new, sent')
    BY <2>2, <2>4 DEF TextIsSent
  <2> QED BY <1>0, <1>b, <2>2, <2>3, <2>4, <2>5, ReviewCallGoesOn
<1>7. ASSUME NEW a \in Admins, Review!CreateRecommendation(a) PROVE ReviewInv'
  <2> DEFINE row == Len(recommendations) + 1
             new == [call[a] EXCEPT !.at = "propose", !.row = row]
  <2>1. NowAt(a, new) /\ UNCHANGED <<ticket, dashboard, sent>>
        /\ recommendations' = Append(recommendations, [text |-> row, status |-> "PENDING_REVIEW"])
    BY <1>7 DEF Review!CreateRecommendation, NowAt
  <2>2. [text |-> row, status |-> "PENDING_REVIEW"] \in Recommendation
    BY <1>0 DEF AnyText, Review!Reviews, Recommendation
  <2>3. recommendations' \in Seq(Recommendation) /\ Len(recommendations') = Len(recommendations) + 1
    BY <1>0, <2>1, <2>2
  <2>4. row \in Nat
    BY <1>0
  <2> HIDE DEF row
  <2>5. new \in ReviewCall /\ new.at = "propose"
    BY <1>0, <2>4 DEF ReviewCall
  <2> HIDE DEF new
  <2>6. TextIsSent(new, sent')
    BY <2>5 DEF TextIsSent
  <2> QED BY <1>0, <1>b, <2>1, <2>3, <2>5, <2>6, ReviewCallGoesOn
<1>8. ASSUME NEW a \in Admins, Review!ProposeFix(a) PROVE ReviewInv'
  <2> DEFINE new == [call[a] EXCEPT !.at = "respond"]
  <2>1. NowAt(a, new) /\ UNCHANGED <<recommendations, dashboard, sent>>
        /\ ticket' = [status |-> "WAITING_FOR_HUMAN_REVIEW", review |-> "PENDING",
                      fix |-> call[a].row]
    BY <1>8 DEF Review!ProposeFix, NowAt
  <2>2. call[a].row \in Nat /\ new \in ReviewCall /\ new.at = "respond"
    BY <1>0 DEF ReviewCall
  <2>3. ticket' \in ReviewedTicket /\ ticket'.review = "PENDING"
    BY <2>1, <2>2 DEF AnyText, Review!Statuses, Review!Reviews, ReviewedTicket
  <2> HIDE DEF new
  <2>4. TextIsSent(new, sent') /\ ApprovedFixWasSent'
    BY <2>2, <2>3 DEF TextIsSent, ApprovedFixWasSent, Review!ApprovedFixWasSent
  <2> QED BY <1>0, <2>1, <2>2, <2>3, <2>4, ReviewCallGoesOn
<1>9. ASSUME NEW a \in Admins, Review!FindLatest(a) PROVE ReviewInv'
  <2>0. UNCHANGED <<ticket, recommendations, dashboard, sent>> /\ call[a].at = "latest"
    BY <1>9 DEF Review!FindLatest
  <2>1. CASE call' = [call EXCEPT ![a] = Review!Idle]
    <3>1. Review!Idle \in ReviewCall /\ Review!Idle.at = "none"
      BY DEF Review!Idle, ReviewCall, Review!ReviewActions, Review!Reviews, AnyText
    <3>2. TextIsSent(Review!Idle, sent')
      BY <3>1 DEF TextIsSent
    <3>3. NowAt(a, Review!Idle)
      BY <2>1 DEF NowAt
    <3> QED BY <1>0, <1>b, <2>0, <3>1, <3>2, <3>3, ReviewCallGoesOn
  <2>2. CASE recommendations # << >>
    <3> DEFINE row == Len(recommendations)
               decision == CASE call[a].action = "approve" -> "APPROVED"
                             [] call[a].action = "reject" -> "REJECTED"
                             [] OTHER -> recommendations[row].status
               new == [call[a] EXCEPT !.at = "decide", !.row = row, !.decision = decision]
    <3>1. NowAt(a, new)
      BY <1>9, <2>2 DEF Review!FindLatest, NowAt
    <3>2. row \in 1 .. Len(recommendations)
      BY <1>0, <2>2
    <3>3. decision \in Review!Reviews /\ (call[a].action = "reject" => decision = "REJECTED")
      <4>1. recommendations[row] \in Recommendation
        BY <1>0, <3>2
      <4>2. recommendations[row].status \in Review!Reviews
        BY <4>1 DEF Recommendation
      <4> QED BY <4>2 DEF Review!Reviews
    <3>r. row \in Nat
      BY <1>0
    <3> HIDE DEF decision, row
    <3>4. new \in ReviewCall /\ new.at = "decide" /\ new.row = row /\ new.decision = decision
          /\ new.text = call[a].text
      BY <1>0, <3>r, <3>3 DEF ReviewCall
    <3> HIDE DEF new
    <3>5. TextIsSent(new, sent')
      BY <1>a, <2>0, <3>3, <3>4 DEF TextIsSent
    <3> QED BY <1>0, <1>b, <2>0, <3>1, <3>2, <3>4, <3>5, ReviewCallGoesOn
  <2> QED BY <1>9, <2>1, <2>2 DEF Review!FindLatest
<1>10. ASSUME NEW a \in Admins, Review!UpdateRecommendation(a) PROVE ReviewInv'
  <2> DEFINE new == [call[a] EXCEPT !.at = "settle"]
             written == [text |-> call[a].text, status |-> call[a].decision]
  <2>1. NowAt(a, new) /\ UNCHANGED <<ticket, dashboard, sent>>
        /\ recommendations' = [recommendations EXCEPT ![call[a].row] = written]
        /\ call[a].at = "decide"
    BY <1>10 DEF Review!UpdateRecommendation, NowAt
  <2>2. new \in ReviewCall /\ new.at = "settle" /\ new.text = call[a].text
        /\ new.decision = call[a].decision
    BY <1>0 DEF ReviewCall
  <2>3. written \in Recommendation
    BY <1>0 DEF ReviewCall, Recommendation
  <2> HIDE DEF new, written
  <2>4. recommendations' \in Seq(Recommendation) /\ Len(recommendations') = Len(recommendations)
    <3>1. call[a].row \in 1 .. Len(recommendations)
      BY <2>1 DEF ReviewInv
    <3> QED BY <1>0, <2>1, <2>3, <3>1, ExceptSeq
  <2>5. TextIsSent(new, sent')
    BY <1>a, <2>1, <2>2 DEF TextIsSent
  <2> QED BY <1>0, <1>b, <2>1, <2>2, <2>4, <2>5, ReviewCallGoesOn
<1>11. ASSUME NEW a \in Admins, Review!SettleTicket(a) PROVE ReviewInv'
  <2> DEFINE new == [call[a] EXCEPT !.at = "respond"]
  <2>1. NowAt(a, new) /\ UNCHANGED <<recommendations, dashboard, sent>>
        /\ ticket' = [status |-> Review!NextTicketStatus(call[a].action),
                      review |-> call[a].decision, fix |-> call[a].text]
        /\ call[a].at = "settle"
    BY <1>11 DEF Review!SettleTicket, NowAt
  <2>2. new \in ReviewCall /\ new.at = "respond"
    BY <1>0 DEF ReviewCall
  <2>3. Review!NextTicketStatus(call[a].action) \in Review!Statuses
    BY DEF Review!NextTicketStatus, Review!Statuses
  <2>4. ticket' \in ReviewedTicket /\ ticket'.review = call[a].decision /\ ticket'.fix = call[a].text
    BY <1>0, <2>1, <2>3 DEF ReviewCall, ReviewedTicket
  <2> HIDE DEF new
  <2>5. TextIsSent(new, sent')
    BY <2>2 DEF TextIsSent
  <2>6. ApprovedFixWasSent'
    BY <1>a, <2>1, <2>4 DEF TextIsSent, ApprovedFixWasSent, Review!ApprovedFixWasSent
  <2> QED BY <1>0, <2>1, <2>2, <2>4, <2>5, <2>6, ReviewCallGoesOn
<1>12. ASSUME NEW a \in Admins, Review!Respond(a) PROVE ReviewInv'
  <2> DEFINE shown == Review!Answered(dashboard[a])
  <2>1. NowAt(a, Review!Idle) /\ UNCHANGED <<ticket, recommendations, sent>>
        /\ dashboard' = [dashboard EXCEPT ![a] = shown]
    BY <1>12 DEF Review!Respond, NowAt
  <2>2. Review!Shown(dashboard[a]) \in Dashboard
    BY <1>0 DEF Review!Shown, Dashboard, ReviewedTicket
  <2>3. shown \in Dashboard
    BY <1>0, <2>2 DEF Dashboard, Review!Answered
  <2> HIDE DEF shown
  <2>4. dashboard' \in [Admins -> Dashboard]
    BY <1>0, <2>1, <2>3
  <2>5. Review!Idle \in ReviewCall /\ Review!Idle.at = "none"
    BY DEF Review!Idle, ReviewCall, Review!ReviewActions, Review!Reviews, AnyText
  <2>6. TextIsSent(Review!Idle, sent')
    BY <2>5 DEF TextIsSent
  <2> QED BY <1>0, <1>b, <2>1, <2>4, <2>5, <2>6, ReviewCallGoesOn
<1>13. ASSUME NEW fix \in {ticket.fix, Typed}, Review!UpdateTicket("CLOSED", fix)
       PROVE  ReviewInv'
  <2>1. ticket' = [ticket EXCEPT !.status = "CLOSED", !.fix = fix]
        /\ UNCHANGED <<recommendations, dashboard, call>>
        /\ sent' = IF fix = ticket.fix THEN sent ELSE sent \cup {fix}
    BY <1>13 DEF Review!UpdateTicket
  <2>2. ticket' \in ReviewedTicket /\ ticket'.review = ticket.review /\ ticket'.fix = fix
    BY <1>0, <2>1 DEF AnyText, ReviewedTicket, Review!Statuses
  <2>3. ApprovedFixWasSent'
    BY <1>a, <2>1, <2>2 DEF ApprovedFixWasSent, Review!ApprovedFixWasSent
  <2>4. \A a \in Admins : TextIsSent(call[a], sent')
    BY <1>a, <2>1 DEF TextIsSent
  <2> QED BY <1>0, <2>1, <2>2, <2>3, <2>4 DEF ReviewInv, ReviewTyped
<1>14. ASSUME NEW a \in Admins, Review!NgOnInit(a) PROVE ReviewInv'
  <2>1. Review!Opened \in Dashboard
    BY DEF Review!Opened, Dashboard, AnyText
  <2>2. dashboard' = [dashboard EXCEPT ![a] = Review!Opened]
    BY <1>14 DEF Review!NgOnInit
  <2>3. dashboard' \in [Admins -> Dashboard]
    BY <1>0, <2>1, <2>2
  <2> QED BY <1>2, <1>14, <2>3 DEF Review!NgOnInit
<1>15. ASSUME NEW a \in Admins, Review!StatementFails(a) PROVE ReviewInv'
  <2> DEFINE shown == [dashboard[a] EXCEPT !.busy = IF @ = "running" THEN "left" ELSE @]
  <2>1. NowAt(a, Review!Idle) /\ UNCHANGED <<ticket, recommendations, sent>>
        /\ dashboard' = [dashboard EXCEPT ![a] = shown]
    BY <1>15 DEF Review!StatementFails, NowAt
  <2>2. shown \in Dashboard
    BY <1>0 DEF Dashboard
  <2> HIDE DEF shown
  <2>3. dashboard' \in [Admins -> Dashboard]
    BY <1>0, <2>1, <2>2
  <2>4. Review!Idle \in ReviewCall /\ Review!Idle.at = "none"
    BY DEF Review!Idle, ReviewCall, Review!ReviewActions, Review!Reviews, AnyText
  <2>5. TextIsSent(Review!Idle, sent')
    BY <2>4 DEF TextIsSent
  <2> QED BY <1>0, <1>b, <2>1, <2>3, <2>4, <2>5, ReviewCallGoesOn
<1> QED
  BY <1>1, <1>3, <1>4, <1>5, <1>6, <1>7, <1>8, <1>9, <1>10, <1>11, <1>12, <1>13,
     <1>14, <1>15
  DEF Review!Next, Review!ServiceStep

\* Whatever the number of administrators, and however their reviews, patches
\* and investigations of a ticket overlap: a ticket that says it was approved
\* has a fix that somebody sent (reviewRecommendation(), updateTicket()).
THEOREM ApprovedFixesWereSent == AllSpec => []ApprovedFixWasSent
<1>1. AllInit => ReviewInv
  BY ReviewInitInv DEF AllInit
<1>2. ReviewInv /\ [AllNext]_allVars => ReviewInv'
  BY ReviewsKeepInv, PartsMoveAlone
<1>3. ReviewInv => ApprovedFixWasSent
  BY DEF ReviewInv
<1> QED BY <1>1, <1>2, <1>3, PTL DEF AllSpec

-----------------------------------------------------------------------------
(* The log.  What is known of a response is an entry or a write on its     *)
(* way; a response that has not been given is not known (NothingYet), and  *)
(* a write moves or vanishes without bringing another entry.               *)

LogStatus == {200, 500}

LogResponse == [kind : Log!Kinds, status : LogStatus, at : {"none", "open", "json", "sent"}]

LogWrite == [entry : Log!Entry, at : {"create", "ensure", "retry"}]

Known(rows, pending) == rows \cup {w.entry : w \in pending}

\* A response that has not been given has no entry, now or later.
NothingYet(responses, known) ==
    \A i \in Log!Responses : responses[i].at \in {"none", "open"} => \A e \in known : e.request # i

\* A response has one entry, which says how it was answered.
OneEach(responses, known) ==
    /\ \A e, f \in known : e.request = f.request => e = f
    /\ \A e \in known : /\ responses[e.request].kind = "api"
                        /\ responses[e.request].at = "json" => e.body = "object"
                        /\ e.level = Log!BuildLevel(responses[e.request].status)

LogInv ==
    /\ entries \subseteq Log!Entry /\ writes \subseteq LogWrite
    /\ response \in [Log!Responses -> LogResponse]
    /\ NothingYet(response, Known(entries, writes))
    /\ OneEach(response, Known(entries, writes))

LEMMA LogInitInv == Log!Init => LogInv
<1> SUFFICES ASSUME Log!Init PROVE LogInv OBVIOUS
<1>1. Known(entries, writes) = {} /\ entries = {} /\ writes = {}
  BY DEF Log!Init, Known
<1>2. response \in [Log!Responses -> LogResponse]
  BY DEF Log!Init, LogResponse, Log!Kinds, LogStatus
<1> QED BY <1>1, <1>2 DEF LogInv, NothingYet, OneEach

\* Writes and rows that bring no other entry.
LEMMA NoOtherEntry ==
    ASSUME LogInv, UNCHANGED response,
           entries' \subseteq Log!Entry, writes' \subseteq LogWrite,
           Known(entries', writes') \subseteq Known(entries, writes)
    PROVE  LogInv'
<1> DEFINE before == Known(entries, writes)
           after == Known(entries', writes')
<1>1. NothingYet(response, before) /\ OneEach(response, before) /\ after \subseteq before
  BY DEF LogInv
<1> HIDE DEF before, after
<1>2. NothingYet(response', after) /\ OneEach(response', after)
  BY <1>1 DEF NothingYet, OneEach
<1> QED BY <1>2 DEF LogInv, after

Answered(responses, i, place, n) == [responses EXCEPT ![i].at = place, ![i].status = n]

LEMMA AnsweredOne ==
    ASSUME NEW responses \in [Log!Responses -> LogResponse], NEW i \in Log!Responses,
           NEW place \in {"json", "sent"}, NEW n \in LogStatus
    PROVE  LET new == Answered(responses, i, place, n) IN
           /\ new \in [Log!Responses -> LogResponse]
           /\ \A j \in Log!Responses \ {i} : new[j] = responses[j]
           /\ new[i].kind = responses[i].kind /\ new[i].at = place /\ new[i].status = n
BY DEF Answered, LogResponse

\* A response is given: at most one entry more, and it says what was answered.
LEMMA ResponseGiven ==
    ASSUME LogInv, NEW i \in Log!Responses, NEW status_ \in {200, 500}, NEW json \in BOOLEAN,
           Log!Respond(i, status_, json)
    PROVE  LogInv'
<1> DEFINE body == IF json THEN "object" ELSE "text"
           entry == [request |-> i, level |-> Log!BuildLevel(status_), body |-> body]
           new == [entry |-> entry, at |-> "create"]
           place == IF json THEN "json" ELSE "sent"
           given == response'[i]
<1>3. response[i] \in LogResponse /\ response \in [Log!Responses -> LogResponse]
  BY DEF LogInv
<1>1. /\ response[i].at = "open" /\ UNCHANGED entries
      /\ response' = Answered(response, i, place, status_)
  BY Zenon DEF Log!Respond, Answered
<1>2. \/ response[i].kind # "api" /\ writes' = writes
      \/ response[i].kind = "api" /\ writes' = writes \cup {new}
  <2>1. CASE response[i].kind # "api"
    BY <2>1 DEF Log!Respond, Log!PersistLogEntry, Log!ShouldSuppressRequestLog
  <2>2. CASE response[i].kind = "api" /\ json
    BY <2>2 DEF Log!Respond, Log!PersistLogEntry, Log!ShouldSuppressRequestLog
  <2>3. CASE response[i].kind = "api" /\ ~ json
    BY <2>3 DEF Log!Respond, Log!PersistLogEntry, Log!ShouldSuppressRequestLog
  <2> QED BY <2>1, <2>2, <2>3
<1>4. /\ response' \in [Log!Responses -> LogResponse]
      /\ \A j \in Log!Responses \ {i} : response'[j] = response[j]
      /\ given.kind = response[i].kind /\ given.at = place /\ given.status = status_
  <2>1. place \in {"json", "sent"}
    OBVIOUS
  <2>2. status_ \in LogStatus
    BY DEF LogStatus
  <2> HIDE DEF place
  <2> QED BY <1>1, <1>3, <2>1, <2>2, AnsweredOne
<1>5. entry \in Log!Entry /\ entry.request = i /\ entry.body = body
      /\ entry.level = Log!BuildLevel(status_)
  BY DEF Log!Entry, Log!BuildLevel, Log!SupportedLevels
<1>6. new \in LogWrite /\ new.entry = entry
  BY <1>5 DEF LogWrite
<1>b. given.at = "json" => body = "object"
  BY <1>4
<1>c. place \notin {"none", "open"}
  OBVIOUS
<1> HIDE DEF entry, new, given, body, place
<1>7. \A j \in Log!Responses : response'[j] = IF j = i THEN given ELSE response[j]
  BY <1>4 DEF given
<1> DEFINE before == Known(entries, writes)
           after == Known(entries', writes')
<1>8. \/ response[i].kind # "api" /\ after = before
      \/ response[i].kind = "api" /\ after = before \cup {entry}
  <2>1. Known(entries, writes \cup {new}) = Known(entries, writes) \cup {entry}
    BY <1>6 DEF Known
  <2> QED BY <1>1, <1>2, <2>1
<1>9. before \subseteq Log!Entry /\ \A e \in Log!Entry : e.request \in Log!Responses
  BY DEF Known, LogInv, LogWrite, Log!Entry
<1>10. NothingYet(response, before) /\ OneEach(response, before)
  BY DEF LogInv
<1> HIDE DEF before, after
<1>11. \A e \in before : e.request \in Log!Responses \ {i}
  BY <1>1, <1>9, <1>10 DEF NothingYet
<1>12. NothingYet(response', after)
  BY <1>4, <1>5, <1>7, <1>8, <1>10, <1>c DEF NothingYet
<1>13. OneEach(response', after)
  <2>1. \A e \in before : response'[e.request] = response[e.request]
    BY <1>7, <1>11
  <2>2. response'[entry.request] = given
    BY <1>5, <1>7
  <2>3. \A e, f \in after : e.request = f.request => e = f
    BY <1>5, <1>8, <1>10, <1>11 DEF OneEach
  <2>4. \A e \in before : /\ response'[e.request].kind = "api"
                          /\ response'[e.request].at = "json" => e.body = "object"
                          /\ e.level = Log!BuildLevel(response'[e.request].status)
    BY <1>10, <2>1 DEF OneEach
  <2>5. response[i].kind = "api" =>
            /\ response'[entry.request].kind = "api"
            /\ response'[entry.request].at = "json" => entry.body = "object"
            /\ entry.level = Log!BuildLevel(response'[entry.request].status)
    BY <1>4, <1>5, <1>b, <2>2
  <2> QED BY <1>8, <2>3, <2>4, <2>5 DEF OneEach
<1>14. writes' \subseteq LogWrite /\ entries' \subseteq Log!Entry
  BY <1>1, <1>2, <1>6 DEF LogInv
<1> QED BY <1>4, <1>12, <1>13, <1>14 DEF LogInv, after

LEMMA LogKeepsInv == LogInv /\ [Log!Next]_logVars => LogInv'
<1> SUFFICES ASSUME LogInv, [Log!Next]_logVars PROVE LogInv' OBVIOUS
<1>1. ASSUME UNCHANGED <<response, writes, entries>> PROVE LogInv'
  BY <1>1 DEF LogInv
<1>2. CASE UNCHANGED logVars
  BY <1>1, <1>2 DEF logVars
<1>3. ASSUME NEW i \in Log!Responses, NEW kind \in Log!Kinds, Log!Arrive(i, kind) PROVE LogInv'
  <2> DEFINE arrived == [response[i] EXCEPT !.at = "open", !.kind = kind]
  <2>1. response' = [response EXCEPT ![i] = arrived] /\ response[i].at = "none"
        /\ UNCHANGED <<writes, entries>>
    BY <1>3 DEF Log!Arrive, Log!logVars
  <2>2. response[i] \in LogResponse /\ response \in [Log!Responses -> LogResponse]
    BY DEF LogInv
  <2>3. arrived \in LogResponse /\ arrived.at = "open"
    BY <2>2 DEF LogResponse
  <2> HIDE DEF arrived
  <2> DEFINE known == Known(entries, writes)
  <2>4. known \subseteq Log!Entry /\ \A e \in Log!Entry : e.request \in Log!Responses
    BY DEF Known, LogInv, LogWrite, Log!Entry
  <2>5. NothingYet(response, known) /\ OneEach(response, known)
    BY DEF LogInv
  <2> HIDE DEF known
  <2>6. \A j \in Log!Responses : response'[j] = IF j = i THEN arrived ELSE response[j]
    BY <2>1, <2>2
  <2>7. \A e \in known : e.request \in Log!Responses \ {i}
    BY <2>1, <2>4, <2>5 DEF NothingYet
  <2>8. NothingYet(response', known)
    BY <2>1, <2>5, <2>6 DEF NothingYet
  <2>9. OneEach(response', known)
    <3>1. \A e \in known : response'[e.request] = response[e.request]
      BY <2>6, <2>7
    <3> QED BY <2>5, <3>1 DEF OneEach
  <2>10. response' \in [Log!Responses -> LogResponse] /\ Known(entries', writes') = known
    BY <2>1, <2>2, <2>3 DEF known
  <2> QED BY <2>1, <2>8, <2>9, <2>10 DEF LogInv
<1>4. ASSUME NEW w \in writes, Log!WriteStep(w) \/ Log!LoseLogEntry(w) PROVE LogInv'
  <2>1. w \in LogWrite /\ entries \subseteq Log!Entry /\ writes \subseteq LogWrite
    BY DEF LogInv
  <2>2. \A at \in {"ensure", "retry"} :
            [w EXCEPT !.at = at] \in LogWrite /\ [w EXCEPT !.at = at].entry = w.entry
    BY <2>1 DEF LogWrite
  <2>3. w.entry \in Log!Entry
    BY <2>1 DEF LogWrite
  <2>4. \E n \in {w, [w EXCEPT !.at = "ensure"], [w EXCEPT !.at = "retry"]} :
            /\ writes' \subseteq (writes \ {w}) \cup {n}
            /\ entries' \subseteq entries \cup {w.entry}
            /\ UNCHANGED response
    BY <1>4
    DEF Log!WriteStep, Log!CreateLogEntry, Log!EnsureLogEntriesTable, Log!RetryLogEntry,
        Log!LoseLogEntry
  <2>5. PICK n \in LogWrite :
            /\ n.entry = w.entry
            /\ writes' \subseteq (writes \ {w}) \cup {n}
            /\ entries' \subseteq entries \cup {w.entry}
            /\ UNCHANGED response
    BY <2>1, <2>2, <2>4
  <2>6. Known(entries', writes') \subseteq Known(entries, writes)
    BY <2>5 DEF Known
  <2>7. entries' \subseteq Log!Entry /\ writes' \subseteq LogWrite
    BY <2>1, <2>3, <2>5
  <2> QED BY <2>5, <2>6, <2>7, NoOtherEntry
<1>5. ASSUME \/ \E levels \in {Log!SupportedLevels, {"error"}} : Log!Analyze(levels)
             \/ Log!NgOnInit \/ Log!AutoRefresh \/ Log!NgOnDestroy
             \/ \E level \in Log!SupportedLevels : Log!ToggleLevel(level)
             \/ \E enabled \in BOOLEAN : Log!SetAutoRefresh(enabled)
             \/ \E read \in reads : Log!ApplySnapshot(read) \/ Log!RefreshFails(read)
             \/ \E e \in logScreen.logs : Log!ToggleContext(e)
      PROVE  LogInv'
  BY <1>1, <1>5
  DEF Log!Analyze, Log!NgOnInit, Log!AutoRefresh, Log!NgOnDestroy, Log!ToggleLevel,
      Log!SetAutoRefresh, Log!ApplySnapshot, Log!RefreshFails, Log!ToggleContext, Log!logVars
<1> QED BY <1>2, <1>3, <1>4, <1>5, ResponseGiven DEF Log!Next

\* Whatever the number of requests, and however their entries are written: a
\* response is logged at most once, with what was answered
\* (request-log-middleware.js).
THEOREM ResponsesLoggedOnce == AllSpec => []OneEntryPerResponse
<1>1. AllInit => LogInv
  BY LogInitInv DEF AllInit
<1>2. LogInv /\ [AllNext]_allVars => LogInv'
  BY LogKeepsInv, PartsMoveAlone
<1>3. LogInv => OneEntryPerResponse
  BY DEF LogInv, OneEach, Known, OneEntryPerResponse, Log!OneEntryPerResponse
<1> QED BY <1>1, <1>2, <1>3, PTL DEF AllSpec

-----------------------------------------------------------------------------
(* The help desk.  Two turns may hold the same index, counted before       *)
(* either is written; an index that is counted but not taken is the next   *)
(* one when it is written (the index of an append is at most one past the  *)
(* thread), and a turn has replied only at its end.                        *)

HelpRow == [index : Nat, from : {"user", "agent"}, turn : Help!Turns]

HelpPlaces == {"none", "find", "create", "count", "append", "bug", "question", "escalate",
               "answer", "answered", "failed"}

HelpTurn == [at : HelpPlaces, kind : Help!Kinds, index : Nat]

Asked(rows, i) == \E row \in rows : row.from = "user" /\ row.turn = i

\* The rows of a thread in order, each answer after its question.
InOrder(rows) ==
    /\ rows \subseteq HelpRow /\ IsFiniteSet(rows)
    /\ {row.index : row \in rows} = 1 .. Cardinality(rows)
    /\ \A a \in rows : a.from = "agent" =>
          \E q \in rows : q.from = "user" /\ q.turn = a.turn /\ q.index < a.index
    /\ \A a, b \in rows : a.from = b.from /\ a.turn = b.turn => a = b

\* What a turn knows of the thread: its next index, that its question is
\* stored, and that it has not replied yet.
TurnFits(t, i, rows) ==
    /\ t.at = "append" => t.index \in 1 .. Cardinality(rows) + 1
    /\ t.at = "bug" => Asked(rows, i)
    /\ t.at \notin {"answer", "answered", "failed"} =>
          ~ \E row \in rows : row.from = "agent" /\ row.turn = i

HelpInv ==
    /\ InOrder(thread)
    /\ turn \in [Help!Turns -> HelpTurn]
    /\ \A i \in Help!Turns : TurnFits(turn[i], i, thread)
    /\ \A i \in tickets : Asked(thread, i)

LEMMA HelpInitInv == Help!Init => HelpInv
<1> SUFFICES ASSUME Help!Init PROVE HelpInv OBVIOUS
<1>1. thread = {} /\ tickets = {}
  BY DEF Help!Init
<1>2. Help!NotSent \in HelpTurn /\ Help!NotSent.at = "none"
  BY DEF Help!NotSent, HelpTurn, HelpPlaces, Help!Kinds
<1>3. turn \in [Help!Turns -> HelpTurn] /\ \A i \in Help!Turns : turn[i].at = "none"
  BY <1>2 DEF Help!Init
<1>4. IsFiniteSet({}) /\ Cardinality({}) = 0
  BY FS_EmptySet
<1>5. InOrder({})
  BY <1>4 DEF InOrder
<1> QED BY <1>1, <1>3, <1>5 DEF HelpInv, TurnFits

LEMMA SameHelp ==
    /\ Help!Cardinality(thread) = Cardinality(thread)
    /\ \A i : Help!StoredQuestion(i) <=> Asked(thread, i)
<1>1. Help!Cardinality(thread) = Cardinality(thread)
  BY DEF Help!Cardinality, Cardinality
<1> QED BY <1>1 DEF Help!StoredQuestion, Asked

\* A row at the first index that is free.
LEMMA RowAdded ==
    ASSUME NEW rows, InOrder(rows), NEW row \in HelpRow,
           row.index \in 1 .. Cardinality(rows) + 1,
           \A r \in rows : r.index # row.index,
           row.from = "agent" => Asked(rows, row.turn),
           \A r \in rows : ~ (r.from = row.from /\ r.turn = row.turn)
    PROVE  /\ InOrder(rows \cup {row})
           /\ Cardinality(rows \cup {row}) = Cardinality(rows) + 1
<1> DEFINE n == Cardinality(rows)
           more == rows \cup {row}
<1>1. n \in Nat /\ IsFiniteSet(rows)
  BY FS_CardinalityType DEF InOrder
<1>2. row.index \notin 1 .. n
  <2>1. {r.index : r \in rows} = 1 .. n
    BY DEF InOrder
  <2> QED BY <2>1
<1>3. row.index = n + 1
  BY <1>1, <1>2
<1>4. row \notin rows
  OBVIOUS
<1>5. IsFiniteSet(more) /\ Cardinality(more) = n + 1
  BY <1>1, <1>4, FS_AddElement
<1>6. {r.index : r \in more} = 1 .. n + 1
  <2>1. {r.index : r \in more} = {r.index : r \in rows} \cup {n + 1}
    BY <1>3
  <2>2. {r.index : r \in rows} = 1 .. n
    BY DEF InOrder
  <2>3. (1 .. n) \cup {n + 1} = 1 .. n + 1
    BY <1>1
  <2> QED BY <2>1, <2>2, <2>3
<1>7. \A r \in rows : r.index \in 1 .. n
  BY DEF InOrder
<1>8. \A a \in more : a.from = "agent" =>
          \E q \in more : q.from = "user" /\ q.turn = a.turn /\ q.index < a.index
  <2> SUFFICES ASSUME NEW a \in more, a.from = "agent"
               PROVE  \E q \in more : q.from = "user" /\ q.turn = a.turn /\ q.index < a.index
    OBVIOUS
  <2>1. CASE a \in rows
    BY <2>1 DEF InOrder
  <2>2. CASE a = row
    <3>1. PICK q \in rows : q.from = "user" /\ q.turn = row.turn
      BY <2>2 DEF Asked
    <3>2. q.index \in 1 .. n
      BY <1>7
    <3>3. q.index < row.index
      BY <1>1, <1>3, <3>2
    <3> QED BY <2>2, <3>1, <3>3
  <2> QED BY <2>1, <2>2
<1>9. \A a, b \in more : a.from = b.from /\ a.turn = b.turn => a = b
  BY DEF InOrder
<1> HIDE DEF n, more
<1>10. more \subseteq HelpRow
  BY DEF InOrder, more
<1>11. InOrder(more)
  BY <1>5, <1>6, <1>8, <1>9, <1>10 DEF InOrder
<1> QED BY <1>5, <1>11 DEF more, n

\* The turn of i is now at new.
TurnNow(i, new) == turn' = [turn EXCEPT ![i] = new]

\* A turn goes on and the thread stays as it is.
LEMMA TurnMoves ==
    ASSUME HelpInv, NEW i \in Help!Turns, NEW new \in HelpTurn, TurnNow(i, new),
           UNCHANGED thread,
           tickets' = tickets \/ (turn[i].at = "bug" /\ tickets' = tickets \cup {i}),
           TurnFits(new, i, thread)
    PROVE  HelpInv'
<1>1. \A j \in Help!Turns : turn'[j] = IF j = i THEN new ELSE turn[j]
  BY DEF HelpInv, TurnNow
<1>2. turn' \in [Help!Turns -> HelpTurn]
  BY DEF HelpInv, TurnNow
<1>3. turn[i].at = "bug" => Asked(thread, i)
  BY DEF HelpInv, TurnFits
<1> QED BY <1>1, <1>2, <1>3 DEF HelpInv

\* Only the place of a turn changes.
LEMMA PlaceMoves ==
    ASSUME HelpInv, NEW i \in Help!Turns, NEW place \in HelpPlaces \ {"append", "bug"},
           Help!Goto(i, place), UNCHANGED thread,
           tickets' = tickets \/ (turn[i].at = "bug" /\ tickets' = tickets \cup {i}),
           turn[i].at \notin {"answer", "answered", "failed"}
               \/ place \in {"answer", "answered", "failed"}
    PROVE  HelpInv'
<1> DEFINE new == [turn[i] EXCEPT !.at = place]
<1>1. new \in HelpTurn /\ new.at = place
  BY DEF HelpInv, HelpTurn
<1>2. TurnNow(i, new)
  BY DEF Help!Goto, TurnNow
<1> HIDE DEF new
<1>3. TurnFits(new, i, thread)
  BY <1>1 DEF HelpInv, TurnFits
<1> QED BY <1>1, <1>2, <1>3, TurnMoves

\* The message of a turn is written: at an index that was free.
LEMMA MessageAppended ==
    ASSUME HelpInv, NEW i \in Help!Turns, Help!AppendMessage(i)
    PROVE  HelpInv'
<1> DEFINE reply == Asked(thread, i)
           row == [index |-> turn[i].index, from |-> IF reply THEN "agent" ELSE "user",
                   turn |-> i]
<1>0. turn[i] \in HelpTurn /\ turn[i].at = "append"
  BY DEF HelpInv, Help!AppendMessage
<1>1. \A r \in thread : r \in HelpRow
  BY DEF HelpInv, InOrder
<1>2. CASE Help!IndexTaken(turn[i].index) /\ Help!Fail(i)
  BY <1>0, <1>2, PlaceMoves DEF Help!Fail, HelpPlaces
<1>3. CASE ~ (Help!IndexTaken(turn[i].index) /\ Help!Fail(i))
  <2>1. /\ ~ Help!IndexTaken(turn[i].index) /\ thread' = thread \cup {row}
        /\ Help!Goto(i, IF reply THEN "answer" ELSE turn[i].kind)
        /\ UNCHANGED tickets
    BY <1>3, SameHelp DEF Help!AppendMessage
  <2>2. row \in HelpRow /\ row.index = turn[i].index /\ row.turn = i
        /\ row.from = IF reply THEN "agent" ELSE "user"
    BY <1>0 DEF HelpRow, HelpTurn
  <2>3. \A r \in thread : r.index # turn[i].index
    BY <2>1 DEF Help!IndexTaken
  <2>4. TurnFits(turn[i], i, thread) /\ InOrder(thread)
    BY DEF HelpInv
  <2> DEFINE place == IF reply THEN "answer" ELSE turn[i].kind
             new == [turn[i] EXCEPT !.at = place]
  <2>5. place \in {"answer", "bug", "question"} /\ (reply <=> place = "answer")
    BY <1>0 DEF HelpTurn, Help!Kinds
  <2> HIDE DEF place
  <2>6. new \in HelpTurn /\ new.at = place
    BY <1>0, <2>5 DEF HelpTurn, HelpPlaces
  <2>7. TurnNow(i, new)
    BY <2>1 DEF Help!Goto, TurnNow, place
  <2> HIDE DEF new, row, reply
  <2>8. row.index \in 1 .. Cardinality(thread) + 1
    BY <1>0, <2>2, <2>4 DEF TurnFits
  <2>9. \A r \in thread : ~ (r.from = row.from /\ r.turn = row.turn)
    BY <1>0, <2>2, <2>4 DEF TurnFits, Asked, reply
  <2>10. row.from = "agent" => Asked(thread, row.turn)
    BY <2>2 DEF reply
  <2>11. InOrder(thread') /\ Cardinality(thread') = Cardinality(thread) + 1
    BY <2>1, <2>2, <2>3, <2>4, <2>8, <2>9, <2>10, RowAdded
  <2>12. \A j : Asked(thread, j) => Asked(thread', j)
    BY <2>1 DEF Asked
  <2>13. turn' \in [Help!Turns -> HelpTurn]
         /\ \A j \in Help!Turns : turn'[j] = IF j = i THEN new ELSE turn[j]
    BY <2>6, <2>7 DEF TurnNow, HelpInv
  <2>14. Cardinality(thread) \in Nat
    BY <2>4, FS_CardinalityType DEF InOrder
  <2>15. TurnFits(new, i, thread')
    <3>1. place = "bug" => Asked(thread', i)
      BY <2>1, <2>2, <2>5 DEF Asked
    <3>2. place # "answer" => ~ \E r \in thread' : r.from = "agent" /\ r.turn = i
      BY <1>0, <2>1, <2>2, <2>4, <2>5 DEF TurnFits
    <3> QED BY <2>5, <2>6, <3>1, <3>2 DEF TurnFits
  <2>16. ASSUME NEW j \in Help!Turns, j # i PROVE TurnFits(turn[j], j, thread')
    <3>1. TurnFits(turn[j], j, thread)
      BY DEF HelpInv
    <3>2. \A r \in thread' : r.turn = j => r \in thread
      BY <2>1, <2>2, <2>16
    <3>3. turn[j].at = "append" => turn[j].index \in 1 .. Cardinality(thread') + 1
      BY <2>11, <2>14, <3>1 DEF TurnFits
    <3> QED BY <2>12, <3>1, <3>2, <3>3 DEF TurnFits
  <2> QED BY <2>1, <2>11, <2>12, <2>13, <2>15, <2>16 DEF HelpInv
<1> QED BY <1>2, <1>3

LEMMA HelpKeepsInv == HelpInv /\ [Help!Next]_helpVars => HelpInv'
<1> SUFFICES ASSUME HelpInv, [Help!Next]_helpVars PROVE HelpInv' OBVIOUS
<1>1. ASSUME UNCHANGED <<thread, tickets, turn>> PROVE HelpInv'
  BY <1>1 DEF HelpInv
<1>2. CASE UNCHANGED helpVars
  BY <1>1, <1>2 DEF helpVars
<1>3. ASSUME NEW t \in Tabs, Help!TabStep(t) \/ Help!Reload(t) PROVE HelpInv'
  BY <1>1, <1>3
  DEF Help!TabStep, Help!GetCurrentConversation, Help!Initialize, Help!Reload
<1>4. ASSUME NEW t \in Tabs, NEW k \in Help!Kinds, Help!SendMessage(t, k) PROVE HelpInv'
  <2>1. PICK i \in Help!Turns :
            /\ turn[i].at = "none" /\ UNCHANGED <<thread, tickets>>
            /\ TurnNow(i, [at |-> "find", kind |-> k, index |-> 0])
    BY <1>4 DEF Help!SendMessage, TurnNow
  <2> DEFINE new == [at |-> "find", kind |-> k, index |-> 0]
  <2>2. new \in HelpTurn /\ new.at = "find"
    BY DEF HelpTurn, HelpPlaces
  <2> HIDE DEF new
  <2>3. TurnFits(new, i, thread)
    BY <2>1, <2>2 DEF TurnFits, HelpInv
  <2>4. TurnNow(i, new)
    BY <2>1 DEF new
  <2> QED BY <2>1, <2>2, <2>3, <2>4, TurnMoves
<1>5. ASSUME NEW i \in Help!Turns, Help!FindConversation(i) PROVE HelpInv'
  <2>1. CASE Help!Goto(i, "create")
    BY <1>5, <2>1, PlaceMoves DEF Help!FindConversation, HelpPlaces
  <2>2. CASE Help!Goto(i, "count")
    BY <1>5, <2>2, PlaceMoves DEF Help!FindConversation, HelpPlaces
  <2> QED BY <1>5, <2>1, <2>2 DEF Help!FindConversation
<1>6. ASSUME NEW i \in Help!Turns, Help!Fail(i) PROVE HelpInv'
  BY <1>6, PlaceMoves DEF Help!Fail, HelpPlaces
<1>7. ASSUME NEW i \in Help!Turns, Help!CreateConversation(i) PROVE HelpInv'
  <2>1. CASE Help!Goto(i, "count") /\ UNCHANGED <<thread, tickets>>
    BY <1>7, <2>1, PlaceMoves DEF Help!CreateConversation, HelpPlaces
  <2> QED BY <1>6, <1>7, <2>1 DEF Help!CreateConversation
<1>8. ASSUME NEW i \in Help!Turns, Help!CountMessages(i) PROVE HelpInv'
  <2> DEFINE n == Cardinality(thread) + 1
             new == [turn[i] EXCEPT !.at = "append", !.index = n]
  <2>1. Cardinality(thread) \in Nat
    BY FS_CardinalityType DEF HelpInv, InOrder
  <2>2. n \in Nat /\ n \in 1 .. Cardinality(thread) + 1
    BY <2>1
  <2>3. turn[i].at = "count" /\ TurnNow(i, new) /\ UNCHANGED <<thread, tickets>>
    BY <1>8, SameHelp DEF Help!CountMessages, TurnNow
  <2>4. turn[i] \in HelpTurn
    BY DEF HelpInv
  <2> HIDE DEF n
  <2>5. new \in HelpTurn /\ new.at = "append" /\ new.index = n
    BY <2>2, <2>4 DEF HelpTurn, HelpPlaces
  <2> HIDE DEF new
  <2>6. TurnFits(new, i, thread)
    BY <2>2, <2>3, <2>5 DEF TurnFits, HelpInv
  <2> QED BY <2>3, <2>5, <2>6, TurnMoves
<1>9. ASSUME NEW i \in Help!Turns, Help!SearchHelp(i) PROVE HelpInv'
  BY <1>9, PlaceMoves DEF Help!SearchHelp, HelpPlaces
<1>10. ASSUME NEW i \in Help!Turns, Help!CreateTicket(i) PROVE HelpInv'
  BY <1>10, PlaceMoves DEF Help!CreateTicket, HelpPlaces
<1>11. ASSUME NEW i \in Help!Turns, Help!EscalateConversation(i) PROVE HelpInv'
  BY <1>11, PlaceMoves DEF Help!EscalateConversation, HelpPlaces
<1>12. ASSUME NEW i \in Help!Turns, Help!Answer(i) PROVE HelpInv'
  BY <1>12, PlaceMoves DEF Help!Answer, HelpPlaces
<1>13. ASSUME NEW i \in Help!Turns, Help!StatementFails(i) PROVE HelpInv'
  BY <1>6, <1>13 DEF Help!StatementFails
<1> QED
  BY <1>2, <1>3, <1>4, <1>5, <1>7, <1>8, <1>9, <1>10, <1>11, <1>12, <1>13, MessageAppended
  DEF Help!Next, Help!TurnStep

\* Whatever the number of tabs and turns, and however their statements
\* interleave or fail: the thread is numbered without a gap, every answer has
\* its question before it, and every ticket its message (support.service.js).
THEOREM ThreadsAreWhole == AllSpec => []ThreadIsWhole
<1>1. AllInit => HelpInv
  BY HelpInitInv DEF AllInit
<1>2. HelpInv /\ [AllNext]_allVars => HelpInv'
  BY HelpKeepsInv, PartsMoveAlone
<1>3. HelpInv => ThreadIsWhole
  BY SameHelp DEF HelpInv, InOrder, ThreadIsWhole, Help!ThreadIsWhole
<1> QED BY <1>1, <1>2, <1>3, PTL DEF AllSpec

-----------------------------------------------------------------------------
(* The administration of agents.  What is written for an agent is stamped  *)
(* later than all before, so it wins whatever else is in force             *)
(* (LastInForce).  That nothing else is takes more: a save sees which      *)
(* versions are active some statements before it puts them out of force;   *)
(* they are still the active ones, for the row of the agent is locked by   *)
(* then (HoldsItsRows) and another agent's save has other rows.  A start   *)
(* does not lock the row of its agent.  What the screens and answers under *)
(* way show of an agent is of a registered one.                            *)

Prompt == [key : Admin!Keys, version : Nat, text : Nat, active : BOOLEAN, updated : Nat]

Fields == [version : Nat, text : Nat]

Start == [at : {"up", "find", "absent", "put off"}, version : Nat, starts : Nat]

AdminTx ==
    [at : {"none", "update", "hold", "saved", "create", "keyed", "created"},
     key : Admin!Keys \cup {0}, version : Nat, text : Nat, active : BOOLEAN,
     rows : SUBSET (Nat \X Nat)]

AdminScreen == [agents : [Admin!Keys -> Fields], selected : Admin!Keys]

AdminDetail == [key : Admin!Keys \cup {0}, at : {"none", "asked", "read"}, got : Fields]

AdminTyped ==
    /\ agentRow \in [Admin!Keys -> {"none", "active", "inactive"}] /\ agentRow[1] # "none"
    /\ prompts \subseteq Prompt /\ last \in [Admin!Keys -> Nat]
    /\ clock \in Nat /\ boot \in Start
    /\ tx \in [Admins -> AdminTx] /\ promptWrites \in Nat
    /\ adminScreen \in [Admins -> AdminScreen] /\ agentDetail \in [Admins -> AdminDetail]

InForce(rows, k) == {p \in rows : p.key = k /\ p.active}

Ids(rows) == {Admin!Id(p) : p \in rows}

\* No prompt is from the future, and none is in force for an agent that is
\* not registered.
Dated(rows, now) == \A p \in rows : p.updated <= now

OfRegistered(agents, rows) ==
    \A k \in Admin!Keys : agents[k] = "none" => InForce(rows, k) = {}

\* The text is that of the latest version in force.
Wins(rows, k, text) ==
    \E p \in InForce(rows, k) :
        p.text = text /\ \A q \in InForce(rows, k) \ {p} : q.updated < p.updated

LastInForce(rows, lasts) ==
    \A k \in Admin!Keys : InForce(rows, k) # {} => Wins(rows, k, lasts[k])

\* No start has written prompts of the agent.
Untouched(k, b) == k # 1 \/ b.starts = 0

OneInForce(agents, rows, b) ==
    \A k \in Admin!Keys :
        agents[k] # "none" /\ Untouched(k, b) => \E p \in rows : InForce(rows, k) = {p}

\* A save is of a registered agent, and holds the rows it saw.
TxFits(t, agents, rows, b) ==
    /\ t.at \in {"update", "hold", "saved", "create", "keyed", "created"} => t.key \in Admin!Keys
    /\ t.at \in {"update", "hold"} => agents[t.key] # "none"
    /\ t.at = "hold" => \A i \in t.rows : i[1] = t.key
    /\ t.at = "hold" /\ Untouched(t.key, b) => t.rows = Ids(InForce(rows, t.key))

HoldsItsRows(txs) ==
    \A a, b \in Admins :
        txs[a].at = "hold" /\ txs[b].at = "hold" /\ txs[a].key = txs[b].key => a = b

\* An agent that is shown is registered.
Shows(s, agents) == \A k \in Admin!Keys : s.agents[k] # Admin!Unknown => agents[k] # "none"

Brings(d, agents) ==
    d.at # "none" => /\ d.key \in Admin!Keys
                     /\ d.got # Admin!Unknown => agents[d.key] # "none"

Started(b) == b.at # "up" => b.starts # 0

RowsInv(agents, rows, lasts, now, b) ==
    /\ Dated(rows, now) /\ OfRegistered(agents, rows)
    /\ LastInForce(rows, lasts) /\ OneInForce(agents, rows, b)

AdminInv ==
    /\ AdminTyped /\ RowsInv(agentRow, prompts, last, clock, boot)
    /\ HoldsItsRows(tx) /\ Started(boot)
    /\ \A a \in Admins : /\ TxFits(tx[a], agentRow, prompts, boot)
                         /\ Shows(adminScreen[a], agentRow)
                         /\ Brings(agentDetail[a], agentRow)

LEMMA KeysAreNumbers == Admin!Keys \subseteq Nat /\ 0 \notin Admin!Keys /\ 1 \in Admin!Keys
BY WorkplaceAssumption DEF Admin!Keys

LEMMA LeastNumber ==
    ASSUME NEW T \in SUBSET Nat, T # {}
    PROVE  \E x \in T : \A y \in T : x <= y
<1> DEFINE R == {ss \in Nat \X Nat : ss[1] < ss[2]}
<1>1. IsWellFoundedOn(R, Nat)
  BY NatLessThanWellFounded, Zenon DEF OpToRel
<1>2. PICK x \in T : \A y \in T : ~ (<<y, x>> \in R)
  <2> HIDE DEF R
  <2> QED BY <1>1, WFMin, Zenon
<1>3. \A y \in T : ~ (y < x)
  BY <1>2
<1> QED BY <1>3

LEMMA LegacyKeysAreKeys == LegacyKeys \subseteq Admin!Keys /\ 1 \notin LegacyKeys
BY WorkplaceAssumption DEF Admin!Keys

\* What is left when versions of an agent are put out of force.
IsOutOfForce(off, rows, ids, k, now) ==
    /\ off \subseteq Prompt /\ Dated(off, now)
    /\ ids = Ids(InForce(rows, k)) => InForce(off, k) = {}
    /\ \A j \in Admin!Keys \ {k} : InForce(off, j) = InForce(rows, j)

LEMMA PutOutOfForce ==
    ASSUME NEW rows \in SUBSET Prompt, NEW k \in Admin!Keys, NEW now \in Nat, Dated(rows, now),
           NEW ids, \A i \in ids : i[1] = k
    PROVE  IsOutOfForce(Admin!Off(rows, ids), rows, ids, k, now)
<1> DEFINE off == Admin!Off(rows, ids)
<1>1. off = {IF Admin!Id(p) \in ids THEN [p EXCEPT !.active = FALSE] ELSE p : p \in rows}
  BY DEF Admin!Off
<1>2. \A p \in rows : Admin!Id(p) \in ids => p.key = k
  BY DEF Admin!Id
<1>3. ids = Ids(InForce(rows, k)) => \A p \in rows : p.key = k /\ p.active => Admin!Id(p) \in ids
  BY DEF Ids, InForce
<1>4. \A p \in rows : /\ [p EXCEPT !.active = FALSE] \in Prompt
                      /\ [p EXCEPT !.active = FALSE].key = p.key
                      /\ [p EXCEPT !.active = FALSE].updated = p.updated
                      /\ ~ [p EXCEPT !.active = FALSE].active
  BY DEF Prompt
<1> HIDE DEF off
<1>5. off \subseteq Prompt
  BY <1>1, <1>4
<1>6. Dated(off, now)
  BY <1>1, <1>4 DEF Dated
<1>7. ids = Ids(InForce(rows, k)) => InForce(off, k) = {}
  BY <1>1, <1>3, <1>4 DEF InForce
<1>8. ASSUME NEW j \in Admin!Keys \ {k} PROVE InForce(off, j) = InForce(rows, j)
  BY <1>1, <1>2, <1>4, <1>8 DEF InForce
<1>9. IsOutOfForce(off, rows, ids, k, now)
  BY <1>5, <1>6, <1>7, <1>8 DEF IsOutOfForce
<1> QED BY <1>9 DEF off

Saving(rows, ids, k, version, text, now) ==
    {p \in Admin!Off(rows, ids) : Admin!Id(p) # <<k, version>>}
        \cup {[key |-> k, version |-> version, text |-> text, active |-> TRUE, updated |-> now + 1]}

\* What a save leaves: its text wins, and is the only one if all others were
\* put out of force; no other agent's prompts have changed.
IsInForce(new, rows, ids, k, text, now) ==
    /\ new \subseteq Prompt /\ Dated(new, now + 1)
    /\ Wins(new, k, text) /\ InForce(new, k) # {}
    /\ ids = Ids(InForce(rows, k)) => \E p \in new : InForce(new, k) = {p}
    /\ \A j \in Admin!Keys \ {k} : InForce(new, j) = InForce(rows, j)

LEMMA PromptSaved ==
    ASSUME NEW rows \in SUBSET Prompt, NEW k \in Admin!Keys, NEW version \in Nat, NEW text \in Nat,
           NEW now \in Nat, Dated(rows, now), NEW ids, \A i \in ids : i[1] = k
    PROVE  IsInForce(Saving(rows, ids, k, version, text, now), rows, ids, k, text, now)
<1> DEFINE off == Admin!Off(rows, ids)
           mark == [key |-> k, version |-> version, text |-> text, active |-> TRUE,
                    updated |-> now + 1]
           new == Saving(rows, ids, k, version, text, now)
<1>1. /\ mark \in Prompt /\ mark.key = k /\ mark.text = text /\ mark.active
      /\ mark.updated = now + 1 /\ Admin!Id(mark) = <<k, version>>
  BY DEF Prompt, Admin!Id
<1>2. new = {p \in off : Admin!Id(p) # <<k, version>>} \cup {mark}
  BY DEF Saving
<1>a. IsOutOfForce(off, rows, ids, k, now)
  BY PutOutOfForce
<1> HIDE DEF off, mark, new
<1>3. /\ off \subseteq Prompt /\ Dated(off, now)
      /\ ids = Ids(InForce(rows, k)) => InForce(off, k) = {}
      /\ \A j \in Admin!Keys \ {k} : InForce(off, j) = InForce(rows, j)
  BY <1>a DEF IsOutOfForce
<1>4. new \subseteq Prompt
  BY <1>1, <1>2, <1>3
<1>5. \A p \in off : p.updated \in Nat /\ p.updated <= now
  BY <1>3 DEF Prompt, Dated
<1>6. Dated(new, now + 1) /\ \A p \in new \ {mark} : p.updated < mark.updated
  BY <1>1, <1>2, <1>5 DEF Dated
<1>7. mark \in InForce(new, k) /\ InForce(new, k) \subseteq InForce(off, k) \cup {mark}
  BY <1>1, <1>2 DEF InForce
<1>8. Wins(new, k, text)
  <2>1. \A q \in InForce(new, k) \ {mark} : q.updated < mark.updated
    BY <1>6 DEF InForce
  <2> QED BY <1>1, <1>7, <2>1 DEF Wins
<1>9. ids = Ids(InForce(rows, k)) => \E p \in new : InForce(new, k) = {p}
  <2>1. mark \in new
    BY <1>2
  <2> QED BY <1>3, <1>7, <2>1
<1>10. ASSUME NEW j \in Admin!Keys \ {k} PROVE InForce(new, j) = InForce(rows, j)
  <2>1. \A p \in off : p.key = j => Admin!Id(p) # <<k, version>>
    BY <1>10 DEF Admin!Id
  <2>2. InForce(new, j) = InForce(off, j)
    BY <1>1, <1>2, <1>10, <2>1 DEF InForce
  <2> QED BY <1>3, <2>2
<1> QED BY <1>4, <1>6, <1>7, <1>8, <1>9, <1>10 DEF new, IsInForce

LEMMA NewestIs ==
    ASSUME NEW rows \in SUBSET Prompt, NEW p \in rows, \A q \in rows \ {p} : q.updated < p.updated
    PROVE  Admin!Newest(rows) = p
<1>1. \A q \in rows : q.updated \in Nat
  BY DEF Prompt
<1>2. \A q \in rows : q.updated <= p.updated
  BY <1>1
<1>3. \A q \in rows \ {p} : ~ (p.updated <= q.updated)
  BY <1>1
<1> QED BY <1>2, <1>3 DEF Admin!Newest

LEMMA ShownWins ==
    ASSUME prompts \subseteq Prompt, LastInForce(prompts, last), NEW k \in Admin!Keys,
           Admin!Active(k) # {}
    PROVE  Admin!Shown(k) \in Prompt /\ Admin!Shown(k).text = last[k]
<1>1. Admin!Active(k) = InForce(prompts, k)
  BY DEF Admin!Active, InForce
<1>2. PICK p \in InForce(prompts, k) :
         p.text = last[k] /\ \A q \in InForce(prompts, k) \ {p} : q.updated < p.updated
  BY <1>1 DEF LastInForce, Wins
<1>3. InForce(prompts, k) \in SUBSET Prompt
  BY DEF InForce
<1>4. Admin!Newest(InForce(prompts, k)) = p
  BY <1>2, <1>3, NewestIs
<1> QED BY <1>1, <1>2, <1>3, <1>4 DEF Admin!Shown

\* What the control plane shows of an agent.
LEMMA EditableFits ==
    ASSUME prompts \subseteq Prompt, LastInForce(prompts, last), NEW k
    PROVE  /\ Admin!Editable(k) \in Fields
           /\ Admin!Editable(k) # Admin!Unknown => k \in Admin!Keys /\ agentRow[k] # "none"
<1>1. CASE k \in Admin!Registered /\ Admin!Active(k) # {}
  <2>1. k \in Admin!Keys /\ agentRow[k] # "none"
    BY <1>1 DEF Admin!Registered
  <2>2. Admin!Shown(k) \in Prompt
    BY <1>1, <2>1, ShownWins
  <2>3. Admin!ExtractFields(Admin!Shown(k)) \in Fields
    BY <2>2 DEF Admin!ExtractFields, Prompt, Fields
  <2> QED BY <1>1, <2>1, <2>3 DEF Admin!Editable
<1>2. CASE k \in Admin!Registered /\ Admin!Active(k) = {}
  BY <1>2 DEF Admin!Registered, Admin!Editable, Admin!Bare, Fields
<1>3. CASE k \notin Admin!Registered
  BY <1>3 DEF Admin!Editable, Admin!Unknown, Fields
<1> QED BY <1>1, <1>2, <1>3

LEMMA SnapshotFits ==
    ASSUME prompts \subseteq Prompt, LastInForce(prompts, last)
    PROVE  /\ Admin!Snapshot \in [Admin!Keys -> Fields]
           /\ \A k \in Admin!Keys : Admin!Snapshot[k] # Admin!Unknown => agentRow[k] # "none"
BY EditableFits DEF Admin!Snapshot

LEMMA AdminInitInv == Admin!Init => AdminInv
<1> SUFFICES ASSUME Admin!Init PROVE AdminInv OBVIOUS
<1> DEFINE text == Admin!Brought(1)
           first == [key |-> 1, version |-> 1, text |-> text, active |-> TRUE, updated |-> 1]
<1>0. text \in Nat
  BY WorkplaceAssumption DEF Admin!Brought
<1>1. /\ prompts = {first} /\ last = [k \in Admin!Keys |-> IF k = 1 THEN text ELSE 0]
      /\ clock = 1 /\ boot = [at |-> "up", version |-> 1, starts |-> 0]
  BY DEF Admin!Init
<1> HIDE DEF text
<1>2. /\ first \in Prompt /\ first.key = 1 /\ first.text = text /\ first.active
      /\ first.updated = 1
  BY <1>0, KeysAreNumbers DEF Prompt
<1> HIDE DEF first
<1>3. /\ agentRow \in [Admin!Keys -> {"none", "active", "inactive"}] /\ agentRow[1] # "none"
      /\ last \in [Admin!Keys -> Nat] /\ last[1] = text
      /\ \A k \in Admin!Keys : agentRow[k] # "none" => k = 1
      /\ clock \in Nat /\ boot \in Start
  BY <1>0, <1>1, KeysAreNumbers DEF Admin!Init, Start
<1>4. RowsInv(agentRow, prompts, last, clock, boot)
  <2>1. InForce({first}, 1) = {first} /\ \A k \in Admin!Keys \ {1} : InForce({first}, k) = {}
    BY <1>2 DEF InForce
  <2>2. Dated(prompts, clock)
    BY <1>1, <1>2 DEF Dated
  <2>3. OfRegistered(agentRow, prompts)
    BY <1>1, <1>3, <2>1 DEF OfRegistered
  <2>4. LastInForce(prompts, last)
    BY <1>1, <1>2, <1>3, <2>1 DEF LastInForce, Wins
  <2>5. OneInForce(agentRow, prompts, boot)
    BY <1>1, <1>3, <2>1 DEF OneInForce
  <2> QED BY <2>2, <2>3, <2>4, <2>5 DEF RowsInv
<1>5. Admin!NoTx \in AdminTx /\ Admin!NoTx.at = "none"
  BY DEF Admin!NoTx, AdminTx
<1>6. tx \in [Admins -> AdminTx] /\ \A a \in Admins : tx[a].at = "none"
  BY <1>5 DEF Admin!Init
<1>7. Admin!NoDetail \in AdminDetail /\ Admin!NoDetail.at = "none"
  BY DEF Admin!NoDetail, AdminDetail, Fields
<1>8. agentDetail \in [Admins -> AdminDetail] /\ \A a \in Admins : agentDetail[a].at = "none"
  BY <1>7 DEF Admin!Init
<1>9. /\ adminScreen \in [Admins -> AdminScreen]
      /\ \A a \in Admins : Shows(adminScreen[a], agentRow)
  <2>1. adminScreen = [a \in Admins |-> [agents |-> Admin!Snapshot, selected |-> 1]]
    BY DEF Admin!Init
  <2>2. prompts \subseteq Prompt /\ LastInForce(prompts, last)
    BY <1>1, <1>2, <1>4 DEF RowsInv
  <2>3. /\ Admin!Snapshot \in [Admin!Keys -> Fields]
        /\ \A k \in Admin!Keys : Admin!Snapshot[k] # Admin!Unknown => agentRow[k] # "none"
    BY <2>2, SnapshotFits
  <2> QED BY <2>1, <2>3, KeysAreNumbers DEF AdminScreen, Shows
<1>10. promptWrites \in Nat
  BY DEF Admin!Init
<1> QED
  BY <1>1, <1>2, <1>3, <1>4, <1>6, <1>8, <1>9, <1>10
  DEF AdminInv, AdminTyped, TxFits, HoldsItsRows, Brings, Started

\* The request of a is now new.
TxNow(a, new) == tx' = [tx EXCEPT ![a] = new]

\* A request that moves without a commit; the screens as they were, or with
\* agents that are registered.
LEMMA TxMoves ==
    ASSUME AdminInv, NEW a \in Admins, NEW new \in AdminTx, TxNow(a, new),
           UNCHANGED <<agentRow, prompts, clock, last, boot, agentDetail>>,
           TxFits(new, agentRow, prompts, boot),
           new.at = "hold" => \A b \in Admins \ {a} : ~ (tx[b].at = "hold" /\ tx[b].key = new.key),
           promptWrites' \in Nat,
           adminScreen' \in [Admins -> AdminScreen],
           \A b \in Admins : Shows(adminScreen'[b], agentRow)
    PROVE  AdminInv'
<1>1. tx' \in [Admins -> AdminTx] /\ \A b \in Admins : tx'[b] = IF b = a THEN new ELSE tx[b]
  BY DEF AdminInv, AdminTyped, TxNow
<1>2. AdminTyped'
  BY <1>1 DEF AdminInv, AdminTyped
<1>3. HoldsItsRows(tx')
  BY <1>1 DEF AdminInv, HoldsItsRows
<1>4. \A b \in Admins : TxFits(tx'[b], agentRow, prompts, boot)
  BY <1>1 DEF AdminInv
<1> QED BY <1>2, <1>3, <1>4 DEF AdminInv

\* The screens and details move; what they show is registered.
LEMMA ScreensMove ==
    ASSUME AdminInv, UNCHANGED <<agentRow, prompts, clock, last, boot, tx, promptWrites>>,
           adminScreen' \in [Admins -> AdminScreen],
           agentDetail' \in [Admins -> AdminDetail],
           \A b \in Admins : Shows(adminScreen'[b], agentRow),
           \A b \in Admins : Brings(agentDetail'[b], agentRow)
    PROVE  AdminInv'
BY DEF AdminInv, AdminTyped

\* What a save writes, and that its agent is registered.
SaveWrites(ids, k, version, text) ==
    /\ prompts' = Saving(prompts, ids, k, version, text, clock)
    /\ last' = [last EXCEPT ![k] = text]
    /\ clock' = clock + 1

\* A save that brings a prompt, or one of an agent that has been registered.
Saves(ids, k, version, text) ==
    \/ SaveWrites(ids, k, version, text)
    \/ UNCHANGED <<prompts, clock, last>> /\ agentRow[k] # "none"

Registers(k, s) == agentRow' = [agentRow EXCEPT ![k] = s]

\* What a text written for a registered agent leaves of the rows.
LEMMA RowsWritten ==
    ASSUME AdminInv, NEW k \in Admin!Keys, NEW version \in Nat, NEW text \in Nat,
           NEW ids, \A i \in ids : i[1] = k, SaveWrites(ids, k, version, text),
           agentRow' \in [Admin!Keys -> {"none", "active", "inactive"}], agentRow'[k] # "none",
           \A j \in Admin!Keys \ {k} : agentRow'[j] = agentRow[j],
           boot'.starts = boot.starts,
           Untouched(k, boot) => ids = Ids(InForce(prompts, k))
    PROVE  /\ prompts' \subseteq Prompt /\ last' \in [Admin!Keys -> Nat] /\ clock' \in Nat
           /\ RowsInv(agentRow', prompts', last', clock', boot')
           /\ \A j \in Admin!Keys \ {k} : InForce(prompts', j) = InForce(prompts, j)
<1> DEFINE w == Saving(prompts, ids, k, version, text, clock)
<1>0. /\ prompts \in SUBSET Prompt /\ clock \in Nat /\ last \in [Admin!Keys -> Nat]
      /\ Dated(prompts, clock) /\ OfRegistered(agentRow, prompts)
      /\ LastInForce(prompts, last) /\ OneInForce(agentRow, prompts, boot)
  BY DEF AdminInv, AdminTyped, RowsInv
<1>1. IsInForce(w, prompts, ids, k, text, clock)
  BY <1>0, PromptSaved
<1>2. prompts' = w
  BY DEF SaveWrites
<1> HIDE DEF w
<1>3. /\ prompts' \subseteq Prompt /\ Dated(prompts', clock')
      /\ Wins(prompts', k, text) /\ InForce(prompts', k) # {}
      /\ Untouched(k, boot) => \E p \in prompts' : InForce(prompts', k) = {p}
      /\ \A j \in Admin!Keys \ {k} : InForce(prompts', j) = InForce(prompts, j)
  BY <1>1, <1>2 DEF IsInForce, SaveWrites
<1>4. /\ last' \in [Admin!Keys -> Nat] /\ last'[k] = text /\ clock' \in Nat
      /\ \A j \in Admin!Keys \ {k} : last'[j] = last[j]
  BY <1>0 DEF SaveWrites
<1>5. OfRegistered(agentRow', prompts')
  BY <1>0, <1>3 DEF OfRegistered
<1>6. LastInForce(prompts', last')
  <2> SUFFICES ASSUME NEW j \in Admin!Keys, InForce(prompts', j) # {}
               PROVE  Wins(prompts', j, last'[j])
    BY DEF LastInForce
  <2>1. CASE j = k
    BY <1>3, <1>4, <2>1
  <2>2. CASE j # k
    <3>1. InForce(prompts', j) = InForce(prompts, j) /\ last'[j] = last[j]
      BY <1>3, <1>4, <2>2
    <3>2. Wins(prompts, j, last[j])
      BY <1>0, <3>1 DEF LastInForce
    <3> QED BY <3>1, <3>2 DEF Wins
  <2> QED BY <2>1, <2>2
<1>7. OneInForce(agentRow', prompts', boot')
  <2> SUFFICES ASSUME NEW j \in Admin!Keys, agentRow'[j] # "none", Untouched(j, boot)
               PROVE  \E p \in prompts' : InForce(prompts', j) = {p}
    BY DEF OneInForce, Untouched
  <2>1. CASE j = k
    BY <1>3, <2>1
  <2>2. CASE j # k
    <3>1. PICK p \in prompts : InForce(prompts, j) = {p}
      BY <1>0, <2>2 DEF OneInForce
    <3>2. InForce(prompts', j) = {p}
      BY <1>3, <2>2, <3>1
    <3>3. p \in prompts'
      BY <3>2 DEF InForce
    <3> QED BY <3>2, <3>3
  <2> QED BY <2>1, <2>2
<1> QED BY <1>3, <1>4, <1>5, <1>6, <1>7 DEF RowsInv

\* A save or a creation commits: the text is in force, the agent registered,
\* and what other requests hold is as they saw it.
LEMMA SaveCommits ==
    ASSUME AdminInv, NEW a \in Admins, NEW k \in Admin!Keys,
           NEW version \in Nat, NEW text \in Nat, NEW new \in AdminTx, TxNow(a, new),
           new.at \in {"saved", "created"}, new.key = k,
           NEW s \in {"active", "inactive"}, Registers(k, s),
           NEW ids, \A i \in ids : i[1] = k,
           Untouched(k, boot) => ids = Ids(InForce(prompts, k)),
           Saves(ids, k, version, text),
           \A b \in Admins \ {a} : ~ (tx[b].at = "hold" /\ tx[b].key = k),
           UNCHANGED <<boot, adminScreen, agentDetail, promptWrites>>
    PROVE  AdminInv'
<1>0. AdminTyped /\ RowsInv(agentRow, prompts, last, clock, boot)
  BY DEF AdminInv
<1>1. tx' \in [Admins -> AdminTx] /\ \A b \in Admins : tx'[b] = IF b = a THEN new ELSE tx[b]
  BY <1>0 DEF AdminTyped, TxNow
<1>2. /\ agentRow' \in [Admin!Keys -> {"none", "active", "inactive"}]
      /\ \A j \in Admin!Keys : agentRow[j] # "none" => agentRow'[j] # "none"
      /\ \A j \in Admin!Keys \ {k} : agentRow'[j] = agentRow[j]
      /\ agentRow'[k] # "none" /\ agentRow'[1] # "none"
  BY <1>0, KeysAreNumbers DEF AdminTyped, Registers
<1>3. /\ prompts' \subseteq Prompt /\ last' \in [Admin!Keys -> Nat] /\ clock' \in Nat
      /\ RowsInv(agentRow', prompts', last', clock', boot')
      /\ \A j \in Admin!Keys \ {k} : InForce(prompts', j) = InForce(prompts, j)
  <2>1. CASE UNCHANGED <<prompts, clock, last>> /\ agentRow[k] # "none"
    <3>1. OfRegistered(agentRow', prompts) /\ OneInForce(agentRow', prompts, boot)
      BY <1>0, <1>2, <2>1 DEF RowsInv, OfRegistered, OneInForce
    <3> QED BY <1>0, <2>1, <3>1 DEF AdminTyped, RowsInv
  <2>2. CASE SaveWrites(ids, k, version, text)
    BY <1>2, <2>2, RowsWritten
  <2> QED BY <2>1, <2>2 DEF Saves
<1>5. HoldsItsRows(tx')
  BY <1>1 DEF AdminInv, HoldsItsRows
<1>6. ASSUME NEW b \in Admins PROVE TxFits(tx'[b], agentRow', prompts', boot)
  <2>1. CASE b = a
    BY <1>1, <1>2, <2>1 DEF TxFits
  <2>2. CASE b # a
    <3>1. TxFits(tx[b], agentRow, prompts, boot) /\ tx'[b] = tx[b]
      BY <1>1, <2>2 DEF AdminInv
    <3>2. tx[b].at = "hold" => InForce(prompts', tx[b].key) = InForce(prompts, tx[b].key)
      BY <1>3, <2>2, <3>1 DEF TxFits
    <3> QED BY <1>2, <3>1, <3>2 DEF TxFits
  <2> QED BY <2>1, <2>2
<1>7. \A b \in Admins : Shows(adminScreen'[b], agentRow') /\ Brings(agentDetail'[b], agentRow')
  BY <1>2 DEF AdminInv, Shows, Brings
<1>8. AdminTyped'
  BY <1>0, <1>1, <1>2, <1>3 DEF AdminTyped
<1> QED BY <1>3, <1>5, <1>6, <1>7, <1>8 DEF AdminInv

\* The statements of a start: what a request holds of another agent, or of an
\* agent no start has touched, is as it saw it.
LEMMA StartWrites ==
    ASSUME AdminInv, boot' \in Start, (boot'.starts = 0 => boot.starts = 0), Started(boot'),
           agentRow' \in [Admin!Keys -> {"none", "active", "inactive"}],
           \A j \in Admin!Keys : (agentRow[j] # "none") <=> (agentRow'[j] # "none"),
           prompts' \subseteq Prompt, last' \in [Admin!Keys -> Nat], clock' \in Nat,
           RowsInv(agentRow', prompts', last', clock', boot'),
           \A j \in Admin!Keys : Untouched(j, boot') =>
              InForce(prompts', j) = InForce(prompts, j),
           UNCHANGED <<tx, adminScreen, agentDetail, promptWrites>>
    PROVE  AdminInv'
<1>0. AdminTyped /\ boot \in Start /\ boot.starts \in Nat /\ boot'.starts \in Nat
  BY DEF AdminInv, AdminTyped, Start
<1>1. AdminTyped'
  BY <1>0, KeysAreNumbers DEF AdminTyped
<1>2. \A k \in Admin!Keys : Untouched(k, boot') => Untouched(k, boot)
  BY <1>0 DEF Untouched
<1>3. ASSUME NEW a \in Admins PROVE TxFits(tx[a], agentRow', prompts', boot')
  <2>1. TxFits(tx[a], agentRow, prompts, boot)
    BY DEF AdminInv
  <2>2. tx[a].at = "hold" /\ Untouched(tx[a].key, boot') =>
           InForce(prompts', tx[a].key) = InForce(prompts, tx[a].key)
    BY <2>1 DEF TxFits
  <2> QED BY <1>2, <2>1, <2>2 DEF TxFits
<1>4. \A a \in Admins : Shows(adminScreen[a], agentRow') /\ Brings(agentDetail[a], agentRow')
  BY DEF AdminInv, Shows, Brings
<1> QED BY <1>1, <1>3, <1>4 DEF AdminInv

\* The steps of the screen.
LEMMA AdminScreenSteps ==
    ASSUME AdminInv, NEW a \in Admins,
           \/ Admin!LoadAgents(a) \/ Admin!ReadDetail(a) \/ Admin!HydrateSelectedAgent(a)
           \/ \E k \in Admin!Keys : Admin!SelectAgent(a, k)
    PROVE  AdminInv'
<1>0. /\ AdminTyped /\ LastInForce(prompts, last) /\ prompts \subseteq Prompt
      /\ adminScreen \in [Admins -> AdminScreen] /\ agentDetail \in [Admins -> AdminDetail]
      /\ adminScreen[a] \in AdminScreen /\ agentDetail[a] \in AdminDetail
      /\ \A b \in Admins : Shows(adminScreen[b], agentRow) /\ Brings(agentDetail[b], agentRow)
  BY DEF AdminInv, AdminTyped, RowsInv
<1>1. /\ Admin!Snapshot \in [Admin!Keys -> Fields]
      /\ \A k \in Admin!Keys : Admin!Snapshot[k] # Admin!Unknown => agentRow[k] # "none"
  BY <1>0, SnapshotFits
<1>2. ASSUME NEW k \in Admin!Keys
      PROVE  LET d == [Admin!NoDetail EXCEPT !.key = k, !.at = "asked"] IN
             d \in AdminDetail /\ Brings(d, agentRow)
  <2>1. /\ Admin!NoDetail \in AdminDetail
        /\ Admin!NoDetail.got = Admin!Unknown
    BY DEF Admin!NoDetail, AdminDetail, Fields, Admin!Unknown
  <2> DEFINE d == [Admin!NoDetail EXCEPT !.key = k, !.at = "asked"]
  <2>2. d \in AdminDetail /\ d.key = k /\ d.got = Admin!Unknown
    BY <2>1 DEF AdminDetail
  <2> HIDE DEF d
  <2>3. d \in AdminDetail /\ Brings(d, agentRow)
    BY <2>2 DEF Brings
  <2> QED BY <2>3 DEF d
\* One detail, one screen.
<1>3. ASSUME NEW d \in AdminDetail, Brings(d, agentRow),
             agentDetail' = [agentDetail EXCEPT ![a] = d]
      PROVE  /\ agentDetail' \in [Admins -> AdminDetail]
             /\ \A b \in Admins : Brings(agentDetail'[b], agentRow)
  BY <1>0, <1>3
<1>4. ASSUME NEW s \in AdminScreen, Shows(s, agentRow),
             adminScreen' = [adminScreen EXCEPT ![a] = s]
      PROVE  /\ adminScreen' \in [Admins -> AdminScreen]
             /\ \A b \in Admins : Shows(adminScreen'[b], agentRow)
  BY <1>0, <1>4
<1>5. CASE Admin!LoadAgents(a)
  <2> DEFINE k == adminScreen[a].selected
             d == [Admin!NoDetail EXCEPT !.key = k, !.at = "asked"]
             s == [adminScreen[a] EXCEPT !.agents = Admin!Snapshot]
  <2>1. /\ adminScreen' = [adminScreen EXCEPT ![a] = s]
        /\ agentDetail' = [agentDetail EXCEPT ![a] = d]
        /\ UNCHANGED <<agentRow, prompts, clock, last, boot, tx, promptWrites>>
    BY <1>5 DEF Admin!LoadAgents
  <2>2. k \in Admin!Keys
    BY <1>0 DEF AdminScreen
  <2>3. d \in AdminDetail /\ Brings(d, agentRow)
    BY <1>2, <2>2
  <2>4. s \in AdminScreen /\ s.agents = Admin!Snapshot
    BY <1>0, <1>1 DEF AdminScreen
  <2> HIDE DEF s, d, k
  <2>5. Shows(s, agentRow)
    BY <1>1, <2>4 DEF Shows
  <2> QED BY <1>3, <1>4, <2>1, <2>3, <2>4, <2>5, ScreensMove
<1>6. CASE Admin!ReadDetail(a)
  <2> DEFINE got == Admin!Editable(agentDetail[a].key)
             d == [agentDetail[a] EXCEPT !.at = "read", !.got = got]
  <2>1. /\ agentDetail' = [agentDetail EXCEPT ![a] = d] /\ agentDetail[a].at = "asked"
        /\ UNCHANGED <<agentRow, prompts, clock, last, boot, tx, promptWrites, adminScreen>>
    BY <1>6 DEF Admin!ReadDetail
  <2>2. got \in Fields /\ (got # Admin!Unknown => agentRow[agentDetail[a].key] # "none")
    BY <1>0, EditableFits
  <2> HIDE DEF got
  <2>3. d \in AdminDetail /\ d.key = agentDetail[a].key /\ d.got = got
    BY <1>0, <2>2 DEF AdminDetail
  <2> HIDE DEF d
  <2>4. Brings(d, agentRow)
    BY <1>0, <2>1, <2>2, <2>3 DEF Brings
  <2> QED BY <1>0, <1>3, <2>1, <2>3, <2>4, ScreensMove
<1>7. CASE Admin!HydrateSelectedAgent(a)
  <2> DEFINE k == agentDetail[a].key
             got == agentDetail[a].got
             s == [adminScreen[a] EXCEPT !.agents = [adminScreen[a].agents EXCEPT ![k] = got]]
  <2>1. /\ agentDetail' = [agentDetail EXCEPT ![a] = Admin!NoDetail] /\ agentDetail[a].at = "read"
        /\ UNCHANGED <<agentRow, prompts, clock, last, boot, tx, promptWrites>>
        /\ adminScreen' = IF adminScreen[a].selected = k
                          THEN [adminScreen EXCEPT ![a].agents[k] = got] ELSE adminScreen
    BY <1>7 DEF Admin!HydrateSelectedAgent
  <2>2. k \in Admin!Keys /\ got \in Fields /\ (got # Admin!Unknown => agentRow[k] # "none")
    BY <1>0, <2>1 DEF Brings, AdminDetail
  <2>3. Admin!NoDetail \in AdminDetail /\ Admin!NoDetail.at = "none"
    BY DEF Admin!NoDetail, AdminDetail, Fields
  <2>4. Brings(Admin!NoDetail, agentRow)
    BY <2>3 DEF Brings
  <2> HIDE DEF k, got
  <2>5. s \in AdminScreen /\ s.agents = [adminScreen[a].agents EXCEPT ![k] = got]
    BY <1>0, <2>2 DEF AdminScreen
  <2>6. [adminScreen EXCEPT ![a].agents[k] = got] = [adminScreen EXCEPT ![a] = s]
    BY Zenon
  <2> HIDE DEF s
  <2>7. adminScreen[a].agents \in [Admin!Keys -> Fields]
    BY <1>0 DEF AdminScreen
  <2>8. Shows(s, agentRow)
    BY <1>0, <2>2, <2>5, <2>7 DEF Shows
  <2>9. adminScreen' = [adminScreen EXCEPT ![a] = s] \/ adminScreen' = adminScreen
    BY <2>1, <2>6
  <2>10. /\ adminScreen' \in [Admins -> AdminScreen]
         /\ \A b \in Admins : Shows(adminScreen'[b], agentRow)
    BY <1>0, <1>4, <2>5, <2>8, <2>9
  <2> QED BY <1>3, <2>1, <2>3, <2>4, <2>10, ScreensMove
<1>8. ASSUME NEW k \in Admin!Keys, Admin!SelectAgent(a, k) PROVE AdminInv'
  <2> DEFINE d == [Admin!NoDetail EXCEPT !.key = k, !.at = "asked"]
             s == [adminScreen[a] EXCEPT !.selected = k]
  <2>1. /\ adminScreen' = [adminScreen EXCEPT ![a] = s]
        /\ agentDetail' = [agentDetail EXCEPT ![a] = d]
        /\ UNCHANGED <<agentRow, prompts, clock, last, boot, tx, promptWrites>>
    BY <1>8 DEF Admin!SelectAgent
  <2>2. d \in AdminDetail /\ Brings(d, agentRow)
    BY <1>2
  <2>3. s \in AdminScreen /\ s.agents = adminScreen[a].agents
    BY <1>0 DEF AdminScreen
  <2> HIDE DEF s, d
  <2>4. Shows(s, agentRow)
    BY <1>0, <2>3 DEF Shows
  <2> QED BY <1>3, <1>4, <2>1, <2>2, <2>3, <2>4, ScreensMove
<1> QED BY <1>5, <1>6, <1>7, <1>8

\* A save or a creation is asked for.
LEMMA AdminAsks ==
    ASSUME AdminInv, NEW a \in Admins,
           \/ \E version \in Admin!Versions \cup {0}, active \in BOOLEAN :
                 Admin!SaveAgent(a, version, active)
           \/ \E seed \in {1} \cup LegacyKeys, active \in BOOLEAN :
                 Admin!CreateAgent(a, seed, active)
    PROVE  AdminInv'
<1>0. /\ adminScreen \in [Admins -> AdminScreen] /\ adminScreen[a] \in AdminScreen
      /\ promptWrites \in Nat /\ promptWrites + 1 \in Nat
      /\ \A b \in Admins : Shows(adminScreen[b], agentRow)
  BY DEF AdminInv, AdminTyped
<1>1. Admin!NoTx \in AdminTx
  BY DEF Admin!NoTx, AdminTx
<1>2. Admin!ComposedText \in Nat
  BY <1>0 DEF Admin!ComposedText
<1>3. ASSUME NEW version \in Admin!Versions \cup {0}, NEW active \in BOOLEAN,
             Admin!SaveAgent(a, version, active)
      PROVE  AdminInv'
  <2> DEFINE k == adminScreen[a].selected
             new == Admin!BuildUpdatePayload(k, version, active)
  <2>1. /\ TxNow(a, new) /\ promptWrites' = promptWrites + 1
        /\ UNCHANGED <<agentRow, prompts, clock, last, boot, agentDetail, adminScreen>>
        /\ adminScreen[a].agents[k] # Admin!Unknown
    BY <1>3 DEF Admin!SaveAgent, Admin!Ask, TxNow
  <2>2. k \in Admin!Keys /\ agentRow[k] # "none"
    BY <1>0, <2>1 DEF Shows, AdminScreen
  <2>3. version \in Nat
    BY DEF Admin!Versions
  <2> HIDE DEF k
  <2>4. new \in AdminTx /\ new.at = "update" /\ new.key = k
    BY <1>1, <1>2, <2>2, <2>3 DEF Admin!BuildUpdatePayload, AdminTx
  <2> HIDE DEF new
  <2>5. TxFits(new, agentRow, prompts, boot)
    BY <2>2, <2>4 DEF TxFits
  <2> QED BY <1>0, <2>1, <2>4, <2>5, TxMoves
<1>4. ASSUME NEW seed \in {1} \cup LegacyKeys, NEW active \in BOOLEAN,
             Admin!CreateAgent(a, seed, active)
      PROVE  AdminInv'
  <2> DEFINE new == Admin!BuildCreatePayload(seed, active)
  <2>1. /\ TxNow(a, new) /\ promptWrites' = promptWrites + 1
        /\ UNCHANGED <<agentRow, prompts, clock, last, boot, agentDetail, adminScreen>>
    BY <1>4 DEF Admin!CreateAgent, Admin!Ask, TxNow
  <2>a. seed \in Admin!Keys
    BY KeysAreNumbers, LegacyKeysAreKeys
  <2>2. new \in AdminTx /\ new.at = "create" /\ new.key \in Admin!Keys
    BY <1>1, <1>2, <2>a DEF Admin!BuildCreatePayload, AdminTx
  <2> HIDE DEF new
  <2>3. TxFits(new, agentRow, prompts, boot)
    BY <2>2 DEF TxFits
  <2> QED BY <1>0, <2>1, <2>2, <2>3, TxMoves
<1> QED BY <1>3, <1>4

\* The transactions.
LEMMA AdminWrites ==
    ASSUME AdminInv, NEW a \in Admins, Admin!Write(a) \/ Admin!WriteFails(a)
    PROVE  AdminInv'
<1>0. /\ AdminTyped /\ LastInForce(prompts, last) /\ prompts \subseteq Prompt
      /\ tx[a] \in AdminTx /\ TxFits(tx[a], agentRow, prompts, boot) /\ promptWrites \in Nat
      /\ adminScreen \in [Admins -> AdminScreen] /\ adminScreen[a] \in AdminScreen
      /\ \A b \in Admins : Shows(adminScreen[b], agentRow)
  BY DEF AdminInv, AdminTyped, RowsInv
<1>1. Admin!NoTx \in AdminTx /\ Admin!NoTx.at = "none"
  BY DEF Admin!NoTx, AdminTx
<1>2. TxFits(Admin!NoTx, agentRow, prompts, boot)
  BY <1>1 DEF TxFits
<1>3. ASSUME Admin!Rollback(a), UNCHANGED promptWrites PROVE AdminInv'
  <2>1. TxNow(a, Admin!NoTx) /\ UNCHANGED <<agentRow, prompts, clock, last, boot, agentDetail, adminScreen>>
    BY <1>3 DEF Admin!Rollback, TxNow
  <2> QED BY <1>0, <1>1, <1>2, <1>3, <2>1, TxMoves
<1>4. CASE Admin!RefuseWrite(a) \/ Admin!WriteFails(a)
  BY <1>3, <1>4 DEF Admin!RefuseWrite, Admin!WriteFails, Admin!Rollback
<1>5. CASE Admin!FindActive(a)
  <2> DEFINE k == tx[a].key
             rows == Ids(InForce(prompts, k))
             new == [tx[a] EXCEPT !.at = "hold", !.rows = rows]
  <2>1. tx[a].at = "update" /\ UNCHANGED <<agentRow, prompts, clock, last, boot, agentDetail, adminScreen, promptWrites>>
        /\ \A b \in Admins \ {a} : ~ (tx[b].at = "hold" /\ tx[b].key = k)
    BY <1>5 DEF Admin!FindActive, Admin!AgentRowIsFree
  <2>2. TxNow(a, new)
    BY <1>5 DEF Admin!FindActive, TxNow, Ids, Admin!Active, InForce
  <2>3. k \in Admin!Keys /\ agentRow[k] # "none"
    BY <1>0, <2>1 DEF TxFits
  <2>4. rows \in SUBSET (Nat \X Nat) /\ \A i \in rows : i[1] = k
    <3>1. \A p \in prompts : Admin!Id(p) \in Nat \X Nat /\ Admin!Id(p)[1] = p.key
      BY <1>0, KeysAreNumbers DEF Admin!Id, Prompt
    <3> QED BY <3>1 DEF Ids, InForce
  <2> HIDE DEF rows
  <2>5. new \in AdminTx /\ new.at = "hold" /\ new.key = k /\ new.rows = rows
    BY <1>0, <2>4 DEF AdminTx
  <2> HIDE DEF new, k
  <2>6. TxFits(new, agentRow, prompts, boot)
    BY <2>3, <2>4, <2>5 DEF TxFits, rows
  <2> QED BY <1>0, <2>1, <2>2, <2>5, <2>6, TxMoves
<1>6. CASE Admin!CommitUpdate(a)
  <2> DEFINE k == tx[a].key
             new == [tx[a] EXCEPT !.at = "saved", !.rows = {}]
             s == IF tx[a].active THEN "active" ELSE "inactive"
  <2>1. /\ tx[a].at = "hold" /\ TxNow(a, new)
        /\ Registers(k, s)
        /\ UNCHANGED <<boot, adminScreen, agentDetail, promptWrites>>
        /\ \/ UNCHANGED <<prompts, clock, last>>
           \/ /\ prompts' = Admin!Written(Admin!Off(prompts, tx[a].rows), k, tx[a].version, tx[a].text)
              /\ last' = [last EXCEPT ![k] = tx[a].text]
              /\ clock' = clock + 1
    BY <1>6 DEF Admin!CommitUpdate, Admin!Saved, TxNow, Registers
  <2>2. /\ k \in Admin!Keys /\ agentRow[k] # "none" /\ \A i \in tx[a].rows : i[1] = k
        /\ Untouched(k, boot) => tx[a].rows = Ids(InForce(prompts, k))
    BY <1>0, <2>1 DEF TxFits
  <2>3. \A b \in Admins \ {a} : ~ (tx[b].at = "hold" /\ tx[b].key = k)
    BY <2>1 DEF AdminInv, HoldsItsRows
  <2>4. tx[a].version \in Nat /\ tx[a].text \in Nat
    BY <1>0 DEF AdminTx
  <2>5. new \in AdminTx /\ new.at = "saved" /\ new.key = k
    BY <1>0 DEF AdminTx
  <2>6. s \in {"active", "inactive"}
    OBVIOUS
  <2>7. Saves(tx[a].rows, k, tx[a].version, tx[a].text)
    BY <2>1, <2>2 DEF Saves, Saving, SaveWrites, Admin!Written
  <2> HIDE DEF new, k, s
  <2> QED BY <2>1, <2>2, <2>3, <2>4, <2>5, <2>6, <2>7, SaveCommits
<1>7. CASE Admin!GenerateAgentKey(a)
  <2> DEFINE free == Admin!Free(a)
             k == CHOOSE i \in free : \A j \in free : i <= j
             new == [tx[a] EXCEPT !.at = "keyed", !.key = k]
  <2>0. TxNow(a, new)
    <3>1. tx' = [tx EXCEPT ![a].at = "keyed", ![a].key = k]
      BY <1>7, Zenon DEF Admin!GenerateAgentKey
    <3> HIDE DEF k
    <3> QED BY <3>1 DEF TxNow
  <2>1. /\ free # {} /\ TxNow(a, new)
        /\ UNCHANGED <<agentRow, prompts, clock, last, boot, agentDetail, adminScreen, promptWrites>>
    BY <1>7, <2>0 DEF Admin!GenerateAgentKey
  <2>2. free \in SUBSET Nat /\ free \subseteq Admin!Keys
    <3>1. Admin!Candidates(tx[a].key) \subseteq Admin!Keys
      BY LegacyKeysAreKeys DEF Admin!Candidates
    <3> QED BY <3>1, KeysAreNumbers DEF Admin!Free
  <2>3. \E x \in free : \A y \in free : x <= y
    BY <2>1, <2>2, LeastNumber
  <2>4. k \in free
    <3> HIDE DEF free
    <3> QED BY <2>3, Zenon
  <2>5. k \in Admin!Keys
    BY <2>2, <2>4
  <2> HIDE DEF k, free
  <2>6. new \in AdminTx /\ new.at = "keyed" /\ new.key = k
    BY <1>0, <2>5 DEF AdminTx
  <2> HIDE DEF new
  <2>7. TxFits(new, agentRow, prompts, boot)
    BY <2>5, <2>6 DEF TxFits
  <2> QED BY <1>0, <2>1, <2>6, <2>7, TxMoves
<1>8. CASE Admin!CommitCreate(a)
  <2> DEFINE k == tx[a].key
             new == [tx[a] EXCEPT !.at = "created", !.rows = {}]
             s == IF tx[a].active THEN "active" ELSE "inactive"
             ids == {Admin!Id(p) : p \in Admin!Active(k)}
  <2>0. \A asked : Admin!ResolvePromptKey(asked, k) = k
    BY DEF Admin!ResolvePromptKey
  <2>1. /\ tx[a].at = "keyed" /\ TxNow(a, new) /\ agentRow[k] = "none"
        /\ Registers(k, s)
        /\ UNCHANGED <<boot, adminScreen, agentDetail, promptWrites>>
        /\ prompts' = Admin!Written(Admin!Off(prompts, ids), k, 1, tx[a].text)
        /\ last' = [last EXCEPT ![k] = tx[a].text]
        /\ clock' = clock + 1
    <3>1. tx[a].at = "keyed" /\ agentRow[k] = "none" /\ Admin!Saved(a, k, "created")
          /\ UNCHANGED <<boot, adminScreen, agentDetail, promptWrites>>
      BY <1>8 DEF Admin!CommitCreate
    <3>2. /\ prompts' = Admin!Written(Admin!Off(prompts, ids), k, 1, tx[a].text)
          /\ last' = [last EXCEPT ![k] = tx[a].text] /\ clock' = clock + 1
      BY <1>8, <2>0 DEF Admin!CommitCreate
    <3> HIDE DEF ids
    <3> QED BY <3>1, <3>2 DEF Admin!Saved, TxNow, Registers
  <2>2. k \in Admin!Keys
    BY <1>0, <2>1 DEF TxFits
  <2>3. \A b \in Admins \ {a} : ~ (tx[b].at = "hold" /\ tx[b].key = k)
    BY <2>1 DEF AdminInv, TxFits
  <2>4. tx[a].text \in Nat /\ 1 \in Nat
    BY <1>0 DEF AdminTx
  <2>5. new \in AdminTx /\ new.at = "created" /\ new.key = k
    BY <1>0 DEF AdminTx
  <2>6. s \in {"active", "inactive"}
    OBVIOUS
  <2>7. Saves(ids, k, 1, tx[a].text)
    BY <2>1 DEF Saves, Saving, SaveWrites, Admin!Written
  <2>8. ids = Ids(InForce(prompts, k)) /\ \A i \in ids : i[1] = k
    BY DEF Ids, InForce, Admin!Active, Admin!Id
  <2> HIDE DEF new, k, s, ids
  <2> QED BY <2>1, <2>2, <2>3, <2>4, <2>5, <2>6, <2>7, <2>8, SaveCommits
<1>9. CASE Admin!Answer(a)
  <2> DEFINE k == tx[a].key
             got == Admin!Editable(k)
             s == [adminScreen[a] EXCEPT !.agents = [adminScreen[a].agents EXCEPT ![k] = got],
                                         !.selected = k]
  <2>1. /\ tx[a].at \in {"saved", "created"} /\ TxNow(a, Admin!NoTx)
        /\ UNCHANGED <<agentRow, prompts, clock, last, boot, agentDetail, promptWrites>>
        /\ adminScreen' = [adminScreen EXCEPT ![a] = s]
    BY <1>9 DEF Admin!Answer, TxNow
  <2>2. k \in Admin!Keys /\ got \in Fields /\ (got # Admin!Unknown => agentRow[k] # "none")
    BY <1>0, <2>1, EditableFits DEF TxFits
  <2>3. adminScreen[a].agents \in [Admin!Keys -> Fields]
    BY <1>0 DEF AdminScreen
  <2> HIDE DEF k, got
  <2>4. s \in AdminScreen /\ s.agents = [adminScreen[a].agents EXCEPT ![k] = got]
    BY <1>0, <2>2 DEF AdminScreen
  <2> HIDE DEF s
  <2>5. Shows(s, agentRow)
    BY <1>0, <2>2, <2>3, <2>4 DEF Shows
  <2>6. /\ adminScreen' \in [Admins -> AdminScreen]
        /\ \A b \in Admins : Shows(adminScreen'[b], agentRow)
    BY <1>0, <2>1, <2>4, <2>5
  <2> QED BY <1>0, <1>1, <1>2, <2>1, <2>6, TxMoves
<1> QED BY <1>4, <1>5, <1>6, <1>7, <1>8, <1>9 DEF Admin!Write

\* The start of the backend.
LEMMA AdminStarts ==
    ASSUME AdminInv,
           \/ \E v \in Admin!Versions : Admin!StartBackend(v)
           \/ Admin!FindPrompt \/ Admin!PutOff \/ Admin!EnsurePromptConfig \/ Admin!StartFails
    PROVE  AdminInv'
<1>0. /\ agentRow \in [Admin!Keys -> {"none", "active", "inactive"}] /\ agentRow[1] # "none"
      /\ prompts \in SUBSET Prompt /\ last \in [Admin!Keys -> Nat]
      /\ clock \in Nat /\ boot \in Start /\ boot.starts \in Nat /\ boot.version \in Nat
      /\ RowsInv(agentRow, prompts, last, clock, boot)
      /\ 1 \in Admin!Keys
  BY KeysAreNumbers DEF AdminInv, AdminTyped, Start
\* What the starts leave of a place they move to.
<1>1. ASSUME NEW place \in {"up", "find", "absent", "put off"}, Admin!Boot(place), boot.at # "up"
      PROVE  /\ boot' \in Start /\ boot'.starts = boot.starts /\ boot.starts # 0
             /\ (boot'.starts = 0 => boot.starts = 0) /\ Started(boot')
  <2>1. boot' \in Start /\ boot'.starts = boot.starts
    BY <1>0, <1>1 DEF Admin!Boot, Start
  <2>2. boot.starts # 0
    BY <1>1 DEF AdminInv, Started
  <2>3. Started(boot')
    BY <2>1, <2>2 DEF Started
  <2> QED BY <2>1, <2>2, <2>3
<1>2. ASSUME NEW v \in Admin!Versions, Admin!StartBackend(v) PROVE AdminInv'
  <2>1. /\ agentRow' = [agentRow EXCEPT ![1] = "active"]
        /\ boot' = [at |-> "find", version |-> v, starts |-> boot.starts + 1]
        /\ UNCHANGED <<prompts, clock, last, tx, adminScreen, agentDetail, promptWrites>>
    BY <1>2 DEF Admin!StartBackend
  <2>2. v \in Nat
    BY DEF Admin!Versions
  <2>3. boot' \in Start /\ (boot'.starts = 0 => boot.starts = 0) /\ boot'.starts # 0 /\ Started(boot')
    <3>1. boot.starts + 1 \in Nat /\ boot.starts + 1 # 0
      BY <1>0
    <3> QED BY <2>1, <2>2, <3>1 DEF Start, Started
  <2>4. /\ agentRow' \in [Admin!Keys -> {"none", "active", "inactive"}]
        /\ \A k \in Admin!Keys : (agentRow[k] # "none") <=> (agentRow'[k] # "none")
    BY <1>0, <2>1
  <2>5. RowsInv(agentRow', prompts', last', clock', boot')
    <3>1. OfRegistered(agentRow', prompts)
      BY <1>0, <2>4 DEF RowsInv, OfRegistered
    <3>2. OneInForce(agentRow', prompts, boot')
      BY <1>0, <2>3, <2>4 DEF RowsInv, OneInForce, Untouched
    <3> QED BY <1>0, <2>1, <3>1, <3>2 DEF RowsInv
  <2> QED BY <1>0, <2>1, <2>3, <2>4, <2>5, StartWrites
\* A step that writes nothing.
<1>3. ASSUME NEW place \in {"up", "find", "absent", "put off"}, Admin!Boot(place), boot.at # "up",
             UNCHANGED <<agentRow, prompts, clock, last, tx, adminScreen, agentDetail, promptWrites>>
      PROVE  AdminInv'
  <2>1. /\ boot' \in Start /\ boot'.starts = boot.starts /\ (boot'.starts = 0 => boot.starts = 0)
        /\ Started(boot')
    BY <1>1, <1>3
  <2>2. RowsInv(agentRow', prompts', last', clock', boot')
    BY <1>0, <1>3, <2>1 DEF RowsInv, OneInForce, Untouched
  <2> QED BY <1>0, <1>3, <2>1, <2>2, StartWrites
<1>4. CASE Admin!FindPrompt \/ Admin!StartFails
  BY <1>3, <1>4 DEF Admin!FindPrompt, Admin!StartFails
<1>5. CASE Admin!PutOff
  <2> DEFINE ids == Ids(InForce(prompts, 1))
             off == Admin!Off(prompts, ids)
  <2>1. /\ boot.at = "absent" /\ Admin!Boot("put off") /\ prompts' = off
        /\ UNCHANGED <<agentRow, clock, last, tx, adminScreen, agentDetail, promptWrites>>
    BY <1>5 DEF Admin!PutOff, Ids, InForce, Admin!Active
  <2>2. /\ boot' \in Start /\ boot'.starts = boot.starts /\ boot.starts # 0
        /\ (boot'.starts = 0 => boot.starts = 0) /\ Started(boot')
    BY <1>1, <2>1
  <2>3. \A i \in ids : i[1] = 1
    BY DEF Ids, InForce, Admin!Id
  <2>a. Dated(prompts, clock)
    BY <1>0 DEF RowsInv
  <2>b. IsOutOfForce(off, prompts, ids, 1, clock)
    BY <1>0, <2>3, <2>a, PutOutOfForce
  <2>4. /\ off \subseteq Prompt /\ Dated(off, clock) /\ InForce(off, 1) = {}
        /\ \A j \in Admin!Keys \ {1} : InForce(off, j) = InForce(prompts, j)
    <3> HIDE DEF off
    <3> QED BY <2>b DEF IsOutOfForce
  <2> HIDE DEF ids, off
  <2>5. OfRegistered(agentRow, off)
    BY <1>0, <2>4 DEF RowsInv, OfRegistered
  <2>6. LastInForce(off, last)
    <3> SUFFICES ASSUME NEW j \in Admin!Keys, InForce(off, j) # {} PROVE Wins(off, j, last[j])
      BY DEF LastInForce
    <3>1. j # 1 /\ InForce(off, j) = InForce(prompts, j)
      BY <2>4
    <3>2. Wins(prompts, j, last[j])
      BY <1>0, <3>1 DEF RowsInv, LastInForce
    <3> QED BY <3>1, <3>2 DEF Wins
  <2>7. OneInForce(agentRow, off, boot')
    <3> SUFFICES ASSUME NEW j \in Admin!Keys, agentRow[j] # "none", j # 1
                 PROVE  \E p \in off : InForce(off, j) = {p}
      BY <2>2 DEF OneInForce, Untouched
    <3>1. PICK p \in prompts : InForce(prompts, j) = {p}
      BY <1>0 DEF RowsInv, OneInForce, Untouched
    <3>2. InForce(off, j) = {p}
      BY <2>4, <3>1
    <3>3. p \in off
      BY <3>2 DEF InForce
    <3> QED BY <3>2, <3>3
  <2>8. RowsInv(agentRow', prompts', last', clock', boot')
    BY <2>1, <2>4, <2>5, <2>6, <2>7 DEF RowsInv
  <2>9. \A j \in Admin!Keys : Untouched(j, boot') => InForce(prompts', j) = InForce(prompts, j)
    BY <2>1, <2>2, <2>4 DEF Untouched
  <2> QED BY <1>0, <2>1, <2>2, <2>4, <2>8, <2>9, StartWrites
<1>6. CASE Admin!EnsurePromptConfig
  <2> DEFINE v == boot.version
             text == Admin!Brought(v)
  <2>1. /\ boot.at = "put off" /\ Admin!Boot("up")
        /\ UNCHANGED <<agentRow, tx, adminScreen, agentDetail, promptWrites>>
        /\ \/ UNCHANGED <<prompts, clock, last>>
           \/ /\ prompts' = Admin!Written(prompts, 1, v, text)
              /\ clock' = clock + 1
              /\ last' = [last EXCEPT ![1] = text]
    BY <1>6 DEF Admin!EnsurePromptConfig
  <2>2. /\ boot' \in Start /\ boot'.starts = boot.starts /\ boot.starts # 0
        /\ (boot'.starts = 0 => boot.starts = 0) /\ Started(boot')
    BY <1>1, <2>1
  <2>3. CASE UNCHANGED <<prompts, clock, last>>
    BY <1>3, <2>1, <2>3
  <2>4. CASE /\ prompts' = Admin!Written(prompts, 1, v, text)
             /\ clock' = clock + 1
             /\ last' = [last EXCEPT ![1] = text]
    <3>1. v \in Nat /\ text \in Nat
      <4>1. MaxWrites \in Nat
        BY WorkplaceAssumption
      <4> QED BY <1>0, <4>1 DEF Admin!Brought
    <3>2. Admin!Off(prompts, {}) = prompts
      BY DEF Admin!Off
    <3>3. SaveWrites({}, 1, v, text)
      BY <2>4, <3>2 DEF SaveWrites, Saving, Admin!Written
    <3> HIDE DEF v, text
    <3>4. /\ prompts' \subseteq Prompt /\ last' \in [Admin!Keys -> Nat] /\ clock' \in Nat
          /\ RowsInv(agentRow', prompts', last', clock', boot')
          /\ \A j \in Admin!Keys \ {1} : InForce(prompts', j) = InForce(prompts, j)
      <4>1. ~ Untouched(1, boot)
        BY <2>2 DEF Untouched
      <4>2. UNCHANGED agentRow
        BY <2>1
      <4> QED BY <1>0, <2>2, <3>1, <3>3, <4>1, <4>2, RowsWritten
    <3>5. \A j \in Admin!Keys : Untouched(j, boot') => InForce(prompts', j) = InForce(prompts, j)
      BY <2>2, <3>4 DEF Untouched
    <3> QED BY <1>0, <2>1, <2>2, <3>4, <3>5, StartWrites
  <2> QED BY <2>1, <2>3, <2>4
<1> QED BY <1>2, <1>4, <1>5, <1>6

LEMMA AdminKeepsInv == AdminInv /\ [Admin!Next]_adminVars => AdminInv'
<1> SUFFICES ASSUME AdminInv, [Admin!Next]_adminVars PROVE AdminInv' OBVIOUS
<1>1. CASE UNCHANGED adminVars
  BY <1>1
  DEF adminVars, AdminInv, AdminTyped
<1> QED BY <1>1, AdminStarts, AdminScreenSteps, AdminAsks, AdminWrites DEF Admin!Next

\* Whatever the number of administrators, and however their saves, creations
\* and the starts of the backend interleave or fail: of the versions in force
\* the one written last for an agent is shown, and run unless an agent of its
\* name with "-agent" behind it is registered; and it is the only one, unless
\* the agent belongs to the scaffolding and the backend has been started since
\* (agent-admin.service.js, support-bootstrap.service.js,
\* registry_repository.py).
THEOREM TheLastSaveRuns == AllSpec => []RunsTheLastSave
<1>1. AllInit => AdminInv
  BY AdminInitInv DEF AllInit
<1>2. AdminInv /\ [AllNext]_allVars => AdminInv'
  BY AdminKeepsInv, PartsMoveAlone
<1>3. AdminInv => RunsTheLastSave
  <2> SUFFICES ASSUME AdminInv, NEW k \in Admin!Registered
               PROVE  /\ Admin!Active(k) # {} => Admin!Shown(k).text = last[k]
                      /\ Untouched(k, boot) => Admin!Cardinality(Admin!Active(k)) = 1
                      /\ Admin!Registered \cap Admin!Prefixes(k) = {k} /\ Admin!Matching(k) # {} =>
                            Admin!GetPromptConfigForAgent(k).text = last[k]
    BY DEF RunsTheLastSave, Admin!RunsTheLastSave, Untouched
  <2>0. /\ prompts \subseteq Prompt /\ LastInForce(prompts, last)
        /\ OneInForce(agentRow, prompts, boot) /\ OfRegistered(agentRow, prompts)
    BY DEF AdminInv, AdminTyped, RowsInv
  <2>1. k \in Admin!Keys /\ agentRow[k] # "none"
    BY DEF Admin!Registered
  <2>2. Admin!Active(k) # {} => Admin!Shown(k).text = last[k]
    BY <2>0, <2>1, ShownWins
  <2>3. ASSUME Untouched(k, boot) PROVE Admin!Cardinality(Admin!Active(k)) = 1
    <3>1. PICK p \in prompts : InForce(prompts, k) = {p}
      BY <2>0, <2>1, <2>3 DEF OneInForce
    <3>2. Admin!Active(k) = {p}
      BY <3>1 DEF Admin!Active, InForce
    <3>3. Cardinality(Admin!Active(k)) = 1
      BY <3>2, FS_Singleton
    <3>4. Admin!Cardinality(Admin!Active(k)) = Cardinality(Admin!Active(k))
      BY DEF Admin!Cardinality, Cardinality
    <3> QED BY <3>3, <3>4
  <2>4. ASSUME Admin!Registered \cap Admin!Prefixes(k) = {k}, Admin!Matching(k) # {}
        PROVE  Admin!GetPromptConfigForAgent(k).text = last[k]
    <3>1. \A j \in Admin!Prefixes(k) \ {k} : Admin!Active(j) = {}
      <4>1. \A j \in Admin!Prefixes(k) : j \in Admin!Keys
        BY <2>1, LegacyKeysAreKeys DEF Admin!Prefixes
      <4>2. \A j \in Admin!Prefixes(k) \ {k} : agentRow[j] = "none"
        BY <2>4, <4>1 DEF Admin!Registered
      <4> QED BY <2>0, <4>1, <4>2 DEF OfRegistered, Admin!Active, InForce
    <3>2. Admin!Matching(k) = Admin!Active(k)
      BY <2>4, <3>1 DEF Admin!Matching
    <3> QED BY <2>2, <2>4, <3>2 DEF Admin!GetPromptConfigForAgent, Admin!Shown
  <2> QED BY <2>2, <2>3, <2>4
<1> QED BY <1>1, <1>2, <1>3, PTL DEF AllSpec

-----------------------------------------------------------------------------
(* The types.  Two bounds in them are more than types: a run gets no more  *)
(* artifacts than there are clients, for whoever adds one has asked to     *)
(* while the run was waiting, with no artifact, and has not asked again    *)
(* (MayFinish); and the thread of a session has at most two rows a turn.   *)

MayFinish(r, requests) ==
    {c \in Clients :
        requests[c].run = r /\ requests[c].pc \in {"pending", "resume", "load", "final"}}

ArtifactsInv ==
    /\ stranded \subseteq Runs /\ mishaps \in 0 .. MaxMishaps
    /\ \A r \in Runs :
          artifacts[r] + Cardinality(MayFinish(r, request)) <= Cardinality(Clients)
    /\ \A r \in Runs : status[r] = "WAITING_FOR_APPROVAL" => artifacts[r] = 0

LEMMA FinishersAreCounted ==
    ASSUME NEW r, NEW requests
    PROVE  /\ Cardinality(Clients) \in Nat /\ IsFiniteSet(MayFinish(r, requests))
           /\ Cardinality(MayFinish(r, requests)) \in Nat
           /\ Cardinality(MayFinish(r, requests)) <= Cardinality(Clients)
           /\ \A T : T \subseteq MayFinish(r, requests) =>
                 /\ Cardinality(T) \in Nat
                 /\ Cardinality(T) <= Cardinality(MayFinish(r, requests))
<1>1. MayFinish(r, requests) \subseteq Clients
  BY DEF MayFinish
<1>2. IsFiniteSet(MayFinish(r, requests))
      /\ Cardinality(MayFinish(r, requests)) <= Cardinality(Clients)
  BY <1>1, FS_Subset, AgentRunsAssumption
<1>3. Cardinality(Clients) \in Nat /\ Cardinality(MayFinish(r, requests)) \in Nat
  BY <1>2, FS_CardinalityType, AgentRunsAssumption
<1>4. ASSUME NEW T, T \subseteq MayFinish(r, requests)
      PROVE  /\ Cardinality(T) \in Nat
             /\ Cardinality(T) <= Cardinality(MayFinish(r, requests))
  BY <1>2, <1>4, FS_Subset, FS_CardinalityType
<1> QED BY <1>2, <1>3, <1>4

\* A client that adds its artifact is one less that may.
LEMMA OneFinishesLess ==
    ASSUME NEW S, IsFiniteSet(S), NEW c \in S
    PROVE  Cardinality(S \ {c}) = Cardinality(S) - 1 /\ Cardinality(S) \in Nat
BY FS_RemoveElement, FS_CardinalityType

\* Nobody new may finish, and nothing is added.
LEMMA NobodyNewFinishes ==
    ASSUME Inv, ArtifactsInv, UNCHANGED artifacts,
           stranded' \subseteq Runs, mishaps' \in 0 .. MaxMishaps,
           \A r \in Runs : MayFinish(r, request') \subseteq MayFinish(r, request),
           \A r \in Runs : status'[r] = "WAITING_FOR_APPROVAL" =>
              status[r] = "WAITING_FOR_APPROVAL" \/ artifacts[r] = 0
    PROVE  ArtifactsInv'
<1>1. ASSUME NEW r \in Runs
      PROVE  artifacts[r] + Cardinality(MayFinish(r, request')) <= Cardinality(Clients)
  <2>1. Cardinality(MayFinish(r, request')) <= Cardinality(MayFinish(r, request))
        /\ Cardinality(MayFinish(r, request')) \in Nat
        /\ Cardinality(MayFinish(r, request)) \in Nat /\ Cardinality(Clients) \in Nat
    BY FinishersAreCounted
  <2>2. artifacts[r] \in Nat
        /\ artifacts[r] + Cardinality(MayFinish(r, request)) <= Cardinality(Clients)
    BY DEF Inv, RunsTyped, ArtifactsInv
  <2> QED BY <2>1, <2>2
<1> QED BY <1>1 DEF ArtifactsInv

LEMMA FinishKeepsBound ==
    ASSUME Inv, ArtifactsInv, NEW c \in Clients, Finalize(c), UNCHANGED <<stranded, mishaps>>,
           request[c].pc \in {"work", "final"}
    PROVE  ArtifactsInv'
<1> DEFINE mine == request[c].run
<1>1. /\ mine \in Runs /\ artifacts \in [Runs -> Nat]
      /\ artifacts' = [artifacts EXCEPT ![mine] = @ + 1]
      /\ status' = [status EXCEPT ![mine] = "COMPLETED"]
      /\ status \in [Runs -> RunStatus \cup {"none"}]
  BY DEF Inv, RequestsHaveRuns, RunsTyped, Finalize, Commits
<1>2. request'[c].pc = "idle" /\ \A d \in Clients \ {c} : request'[d] = request[d]
  BY RequestSteps DEF Inv, Finalize, Commits
<1> HIDE DEF mine
<1>3. \A r \in Runs : MayFinish(r, request') \subseteq MayFinish(r, request) \ {c}
  BY <1>2 DEF MayFinish
<1>4. ASSUME NEW r \in Runs
      PROVE  artifacts'[r] + Cardinality(MayFinish(r, request')) <= Cardinality(Clients)
  <2> DEFINE old == Cardinality(MayFinish(r, request))
             new == Cardinality(MayFinish(r, request'))
  <2>1. /\ Cardinality(Clients) \in Nat /\ IsFiniteSet(MayFinish(r, request)) /\ old \in Nat
        /\ new \in Nat /\ new <= old
        /\ artifacts[r] + old <= Cardinality(Clients) /\ artifacts[r] \in Nat
    BY <1>1, <1>3, FinishersAreCounted DEF ArtifactsInv
  <2>2. CASE r # mine
    BY <1>1, <2>1, <2>2
  <2>3. CASE r = mine /\ request[c].pc = "final"
    <3>1. c \in MayFinish(r, request)
      BY <2>3 DEF MayFinish, mine
    <3>2. Cardinality(MayFinish(r, request) \ {c}) = old - 1
      BY <2>1, <3>1, OneFinishesLess
    <3>3. IsFiniteSet(MayFinish(r, request) \ {c})
      BY <2>1, FS_RemoveElement
    <3>4. new <= old - 1
      BY <1>3, <3>2, <3>3, FS_Subset
    <3>5. artifacts'[r] = artifacts[r] + 1
      BY <1>1, <2>3
    <3> HIDE DEF old, new
    <3> QED BY <2>1, <3>4, <3>5 DEF new
  <2>4. CASE r = mine /\ request[c].pc = "work"
    <3>1. artifacts[r] = 0
      BY <2>4 DEF Inv, NewTaskIsAlone, NewTask, mine
    <3>2. MayFinish(r, request') \subseteq Clients \ {c}
      BY <1>2 DEF MayFinish
    <3>3. Cardinality(Clients \ {c}) = Cardinality(Clients) - 1 /\ IsFiniteSet(Clients \ {c})
      BY OneFinishesLess, FS_RemoveElement, AgentRunsAssumption
    <3>4. new <= Cardinality(Clients) - 1
      BY <3>2, <3>3, FS_Subset
    <3>5. artifacts'[r] = 1
      BY <1>1, <2>4, <3>1
    <3> HIDE DEF old, new
    <3> QED BY <2>1, <3>4, <3>5 DEF new
  <2> QED BY <2>2, <2>3, <2>4
<1>5. \A r \in Runs : status'[r] = "WAITING_FOR_APPROVAL" => artifacts'[r] = 0
  BY <1>1 DEF ArtifactsInv
<1> QED BY <1>4, <1>5 DEF ArtifactsInv

LEMMA AskingKeepsBound ==
    ASSUME Inv, ArtifactsInv, NEW c \in Clients, NEW q \in Runs, ReadToResume(c, q)
    PROVE  ArtifactsInv'
<1>1. /\ status[q] = "WAITING_FOR_APPROVAL" /\ artifacts[q] = 0
      /\ UNCHANGED <<status, artifacts, stranded, mishaps>>
      /\ approval[q] \in {"none", "PENDING"} \cup Decisions
  BY DEF ReadToResume, Resumable, ArtifactsInv, Inv, RunsTyped
<1>2. request'[c].run = q /\ \A d \in Clients \ {c} : request'[d] = request[d]
  BY <1>1, RequestSteps DEF Inv, ReadToResume
<1>3. ASSUME NEW r \in Runs
      PROVE  artifacts[r] + Cardinality(MayFinish(r, request')) <= Cardinality(Clients)
  <2>1. CASE r = q
    BY <1>1, <2>1, FinishersAreCounted
  <2>2. CASE r # q
    <3>1. MayFinish(r, request') \subseteq MayFinish(r, request)
      BY <1>2, <2>2 DEF MayFinish
    <3>2. Cardinality(MayFinish(r, request')) <= Cardinality(MayFinish(r, request))
          /\ Cardinality(MayFinish(r, request')) \in Nat
          /\ Cardinality(MayFinish(r, request)) \in Nat /\ Cardinality(Clients) \in Nat
      BY <3>1, FinishersAreCounted
    <3>3. artifacts[r] \in Nat
          /\ artifacts[r] + Cardinality(MayFinish(r, request)) <= Cardinality(Clients)
      BY DEF Inv, RunsTyped, ArtifactsInv
    <3> QED BY <3>2, <3>3
  <2> QED BY <2>1, <2>2
<1> QED BY <1>1, <1>3 DEF ArtifactsInv

LEMMA RunsKeepBound == Inv /\ ArtifactsInv /\ [Next]_vars => ArtifactsInv'
<1> SUFFICES ASSUME Inv, ArtifactsInv, [Next]_vars PROVE ArtifactsInv'
  OBVIOUS
<1>1. CASE UNCHANGED vars
  BY <1>1 DEF vars, ArtifactsInv
<1> SUFFICES ASSUME NEW c \in Clients, Handle(c) \/ Task(c) \/ TaskDies(c) PROVE ArtifactsInv'
  BY <1>1 DEF Next
<1>2. CASE Finalize(c) /\ request[c].pc \in {"work", "final"} /\ UNCHANGED <<stranded, mishaps>>
  BY <1>2, FinishKeepsBound
<1>3. CASE \E q \in Runs : ReadToResume(c, q)
  BY <1>3, AskingKeepsBound
<1>4. CASE \E q \in Runs : StartRun(c, q) \/ ReadToCancel(c, q) \/ ReadToDecide(c, q)
  <2>1. PICK q \in Runs : StartRun(c, q) \/ ReadToCancel(c, q) \/ ReadToDecide(c, q)
    BY <1>4
  <2>2. request'[c].pc \in {"begin", "cancel", "decide"}
        /\ \A d \in Clients \ {c} : request'[d] = request[d]
    BY <2>1, RequestSteps DEF Inv, StartRun, ReadToCancel, ReadToDecide
  <2>3. \A r \in Runs : MayFinish(r, request') \subseteq MayFinish(r, request)
    BY <2>2 DEF MayFinish
  <2>4. UNCHANGED <<artifacts, stranded, mishaps>>
        /\ \A r \in Runs : status'[r] = "WAITING_FOR_APPROVAL" => status[r] = "WAITING_FOR_APPROVAL"
    BY <2>1 DEF StartRun, ReadToCancel, ReadToDecide, Inv, RunsTyped
  <2> QED BY <2>3, <2>4, NobodyNewFinishes DEF ArtifactsInv
<1>5. CASE \/ CancelRun(c) \/ Decide(c) \/ CheckApprovals(c) \/ ResumeRun(c)
           \/ BeginTask(c) \/ LoadCheckpoint(c) \/ TaskDies(c)
           \/ ExecuteRun(c) /\ ~ Finalize(c)
  <2>1. /\ \/ request'[c].pc \in {"idle", "work"}
           \/ /\ request'[c].pc \in {"resume", "load", "final"}
              /\ request'[c].run = request[c].run
              /\ request[c].pc \in {"pending", "resume", "load"}
        /\ \A d \in Clients \ {c} : request'[d] = request[d]
    BY <1>5, RequestSteps
       DEF Inv, CancelRun, Decide, CheckApprovals, ResumeRun, BeginTask, LoadCheckpoint, TaskDies,
           ExecuteRun, PauseForApproval, FailRun, Commits
  <2>2. \A r \in Runs : MayFinish(r, request') \subseteq MayFinish(r, request)
    BY <2>1 DEF MayFinish
  <2>3. UNCHANGED artifacts /\ stranded' \subseteq Runs /\ mishaps' \in 0 .. MaxMishaps
    <3>1. CASE TaskDies(c)
      <4>1. request[c].run \in Runs /\ mishaps < MaxMishaps
        BY <3>1 DEF Inv, RequestsHaveRuns, TaskDies
      <4> QED BY <3>1, <4>1, AgentRunsAssumption DEF TaskDies, ArtifactsInv
    <3>2. CASE ~ TaskDies(c)
      BY <1>5, <3>2
         DEF ArtifactsInv, CancelRun, Decide, CheckApprovals, ResumeRun, BeginTask,
             LoadCheckpoint, ExecuteRun, PauseForApproval, FailRun, Commits
    <3> QED BY <3>1, <3>2
  <2>4. ASSUME NEW r \in Runs, status'[r] = "WAITING_FOR_APPROVAL"
        PROVE  status[r] = "WAITING_FOR_APPROVAL" \/ artifacts[r] = 0
    <3>1. CASE ExecuteRun(c) /\ PauseForApproval(c)
      <4>1. artifacts[request[c].run] = 0
        BY <3>1 DEF ExecuteRun, Inv, NewTaskIsAlone, NewTask
      <4>2. status' = [status EXCEPT ![request[c].run] = "WAITING_FOR_APPROVAL"]
        BY <3>1 DEF PauseForApproval, Commits
      <4> QED BY <2>4, <4>1, <4>2 DEF Inv, RunsTyped
    <3>2. CASE ~ (ExecuteRun(c) /\ PauseForApproval(c))
      BY <1>5, <2>4, <3>2
         DEF Inv, RunsTyped, CancelRun, Decide, StatusAfterDecision, CheckApprovals, ResumeRun,
             BeginTask, LoadCheckpoint, TaskDies, ExecuteRun, FailRun, Commits
    <3> QED BY <3>1, <3>2
  <2> QED BY <2>2, <2>3, <2>4, NobodyNewFinishes
<1> QED
  BY <1>2, <1>3, <1>4, <1>5 DEF Handle, Task, ExecuteRun, FinishResumed

LEMMA ArtifactsBounded == AllSpec => []TypeOK
<1>1. AllInit => ArtifactsInv
  <2> SUFFICES ASSUME Init PROVE ArtifactsInv
    BY DEF AllInit
  <2>1. \A r \in Runs : artifacts[r] = 0 /\ status[r] = "none"
        /\ Cardinality(MayFinish(r, request)) <= Cardinality(Clients)
        /\ Cardinality(MayFinish(r, request)) \in Nat /\ Cardinality(Clients) \in Nat
    BY FinishersAreCounted DEF Init
  <2> QED BY <2>1, AgentRunsAssumption DEF Init, ArtifactsInv
<1>2. Inv /\ ArtifactsInv /\ [AllNext]_allVars => ArtifactsInv'
  BY RunsKeepBound, PartsMoveAlone
<1>3. Inv /\ ArtifactsInv => TypeOK
  <2> SUFFICES ASSUME Inv, ArtifactsInv PROVE TypeOK
    OBVIOUS
  <2>1. ASSUME NEW r \in Runs PROVE artifacts[r] \in 0 .. Cardinality(Clients)
    <3>1. artifacts[r] \in Nat
          /\ artifacts[r] + Cardinality(MayFinish(r, request)) <= Cardinality(Clients)
      BY DEF Inv, RunsTyped, ArtifactsInv
    <3>2. Cardinality(MayFinish(r, request)) \in Nat /\ Cardinality(Clients) \in Nat
      BY FinishersAreCounted
    <3> QED BY <3>1, <3>2
  <2> QED BY <2>1 DEF Inv, RunsTyped, ArtifactsInv, TypeOK
<1> QED BY <1>1, <1>2, <1>3, SpecInv, PTL DEF AllSpec

(* The worker of the tests has a run while it executes one, and a call     *)
(* left when it goes on.                                                   *)

TestWorker ==
    [pc : {"poll", "take", "start", "turn", "call", "completed", "stopped", "failed"},
     batch : SUBSET Tests!TestRuns, cur : Tests!TestRuns \cup {0}, calls : 0 .. MaxCalls]

WorkerFits(w) ==
    /\ w \in TestWorker
    /\ w.pc \notin {"poll", "take"} => w.cur \in Tests!TestRuns
    /\ w.pc \in {"poll", "take", "start"} => w.calls = 0
    /\ w.pc = "turn" => w.calls < MaxCalls

TestTypes ==
    /\ stored \in [Tests!TestRuns -> 0 .. 2]
    /\ event \in [Tests!TestRuns -> {"none", "clear", "set"}]
    /\ WorkerFits(worker)
    /\ testMishaps \in 0 .. MaxMishaps

LEMMA PollingFits == WorkerFits(Tests!Polling)
BY WorkplaceAssumption DEF Tests!Polling, WorkerFits, TestWorker

LEMMA FirstOfTheBatch ==
    ASSUME NEW batch \in SUBSET Tests!TestRuns, batch # {}
    PROVE  Tests!Min(batch) \in batch
<1>1. batch \subseteq Nat
  BY DEF Tests!TestRuns
<1>2. \E m \in batch : \A j \in batch : m <= j
  BY <1>1, LeastNumber
<1> QED BY <1>2, Zenon DEF Tests!Min

\* An execution ends early: the worker polls again.
LEMMA AbortFits == ASSUME TestTypes, Tests!Abort, UNCHANGED testMishaps PROVE TestTypes'
BY PollingFits DEF TestTypes, Tests!Abort, Tests!AfterAbort

LEMMA TestsKeepTypes == TestsInv /\ TestTypes /\ [Tests!Next]_testVars => TestTypes'
<1> SUFFICES ASSUME TestsInv, TestTypes, [Tests!Next]_testVars PROVE TestTypes'
  OBVIOUS
<1>0. /\ MaxCalls \in Nat /\ 1 <= MaxCalls /\ worker \in TestWorker
      /\ MaxMishaps \in Nat /\ WorkerFits(worker)
  BY WorkplaceAssumption, AgentRunsAssumption DEF TestTypes, WorkerFits
<1>1. CASE UNCHANGED testVars
  BY <1>1 DEF testVars, TestTypes
<1>2. ASSUME NEW r \in Tests!TestRuns, Tests!Create(r) \/ Tests!Evaluate(r)
      PROVE  TestTypes'
  BY <1>2 DEF Tests!Create, Tests!Evaluate, TestTypes
<1>3. ASSUME NEW q \in Requests, NEW kind, NEW r \in Tests!TestRuns,
             Tests!BeginRequest(q, kind, r)
      PROVE  TestTypes'
  BY <1>3 DEF Tests!BeginRequest, TestTypes
<1>4. ASSUME NEW q \in Requests, Tests!CommitRequest(q) PROVE TestTypes'
  <2>1. PICK r, n : n \in {0, stored[r]} /\ stored' = [stored EXCEPT ![r] = n]
    <3> DEFINE r == testRequest[q].run
               n == IF Tests!Requested(testRequest[q].kind, testRequest[q].seen) = "deleted" THEN 0
                    ELSE stored[r]
    <3>1. stored' = [stored EXCEPT ![r] = n]
      BY <1>4 DEF Tests!CommitRequest
    <3> HIDE DEF r
    <3>2. n \in {0, stored[r]}
      OBVIOUS
    <3> QED BY <3>1, <3>2
  <2>2. stored' \in [Tests!TestRuns -> 0 .. 2]
    <3>1. stored \in [Tests!TestRuns -> 0 .. 2] /\ 0 \in 0 .. 2
      BY DEF TestTypes
    <3>2. CASE r \in Tests!TestRuns
      <4>1. n \in 0 .. 2
        BY <2>1, <3>1, <3>2
      <4> QED BY <2>1, <3>1, <4>1
    <3>3. CASE r \notin Tests!TestRuns
      BY <2>1, <3>1, <3>3
    <3> QED BY <3>2, <3>3
  <2> QED BY <1>4, <2>2 DEF Tests!CommitRequest, TestTypes
<1>5. ASSUME NEW q \in Requests, Tests!RequestThrows(q) PROVE TestTypes'
  BY <1>0, <1>5 DEF Tests!RequestThrows, TestTypes
\* The worker moves, and its run keeps what it has stored.
<1>6. ASSUME NEW w, WorkerFits(w), worker' = w, UNCHANGED <<stored, testMishaps>>,
             event' \in [Tests!TestRuns -> {"none", "clear", "set"}]
      PROVE  TestTypes'
  BY <1>6 DEF TestTypes
<1>7. event \in [Tests!TestRuns -> {"none", "clear", "set"}]
  BY DEF TestTypes
<1>8. CASE Tests!Poll
  <2> DEFINE queued == {r \in Tests!TestRuns : Tests!Listable(testRow[r])}
             first == {r \in queued : Cardinality({s \in queued : s < r}) < BatchSize}
             w == [worker EXCEPT !.pc = "take", !.batch = first]
  <2>1. worker' = w /\ worker.pc = "poll" /\ UNCHANGED <<stored, event, testMishaps>>
    <3>1. \A S : Tests!Cardinality(S) = Cardinality(S)
      BY DEF Tests!Cardinality, Cardinality
    <3>2. first = {r \in queued : Tests!Cardinality({s \in queued : s < r}) < BatchSize}
      BY <3>1
    <3> QED BY <1>8, <3>2, Zenon DEF Tests!Poll
  <2>2. first \in SUBSET Tests!TestRuns
    OBVIOUS
  <2> HIDE DEF first
  <2>3. WorkerFits(w)
    BY <1>0, <2>1, <2>2 DEF WorkerFits, TestWorker
  <2> QED BY <1>6, <1>7, <2>1, <2>3
<1>9. CASE Tests!TakeNext
  <2>1. CASE worker.batch = {}
    BY <1>6, <1>7, <1>9, <2>1, PollingFits DEF Tests!TakeNext
  <2>2. CASE worker.batch # {}
    <3> DEFINE r == Tests!Min(worker.batch)
               w == [worker EXCEPT !.pc = "start", !.cur = r, !.batch = worker.batch \ {r}]
    <3>1. /\ worker' = w /\ worker.pc = "take" /\ event' = [event EXCEPT ![r] = "clear"]
          /\ UNCHANGED <<stored, testMishaps>>
      BY <1>9, <2>2 DEF Tests!TakeNext
    <3>2. r \in Tests!TestRuns
      BY <1>0, <2>2, FirstOfTheBatch DEF TestWorker
    <3> HIDE DEF r
    <3>3. WorkerFits(w)
      BY <1>0, <3>1, <3>2 DEF WorkerFits, TestWorker
    <3>4. event' \in [Tests!TestRuns -> {"none", "clear", "set"}]
      BY <1>7, <3>1
    <3> QED BY <1>6, <3>1, <3>3, <3>4
  <2> QED BY <2>1, <2>2
<1>10. ASSUME NEW known \in BOOLEAN, Tests!StartRun(known) PROVE TestTypes'
  <2>1. CASE ~ Tests!Exists(worker.cur)
    BY <1>10, <2>1, AbortFits DEF Tests!StartRun
  <2>2. CASE Tests!Exists(worker.cur) /\ known
    <3>1. /\ worker' = [worker EXCEPT !.pc = "turn"] /\ worker.pc = "start"
          /\ UNCHANGED <<stored, event, testMishaps>>
      BY <1>10, <2>2 DEF Tests!StartRun
    <3>2. WorkerFits([worker EXCEPT !.pc = "turn"])
      BY <1>0, <3>1 DEF WorkerFits, TestWorker
    <3> QED BY <1>6, <1>7, <3>1, <3>2
  <2>3. CASE Tests!Exists(worker.cur) /\ ~ known
    <3> DEFINE w == [worker EXCEPT !.pc = "take", !.cur = 0]
    <3>1. /\ worker' = w /\ worker.pc = "start"
          /\ event' = [event EXCEPT ![worker.cur] = "none"]
          /\ UNCHANGED <<stored, testMishaps>>
      BY <1>10, <2>3 DEF Tests!StartRun
    <3>2. WorkerFits(w)
      BY <1>0, <3>1 DEF WorkerFits, TestWorker
    <3>3. event' \in [Tests!TestRuns -> {"none", "clear", "set"}]
      BY <1>7, <3>1
    <3> QED BY <1>6, <3>1, <3>2, <3>3
  <2> QED BY <2>1, <2>2, <2>3
<1>11. CASE Tests!BeginCall
  <2>1. CASE Tests!GoesOn
    <3> DEFINE w == [worker EXCEPT !.pc = "call", !.calls = worker.calls + 1]
    <3>1. worker' = w /\ worker.pc = "turn" /\ UNCHANGED <<stored, event, testMishaps>>
      BY <1>11, <2>1 DEF Tests!BeginCall
    <3>2. worker.calls + 1 \in 0 .. MaxCalls
      BY <1>0, <3>1 DEF WorkerFits, TestWorker
    <3>3. WorkerFits(w)
      BY <1>0, <3>1, <3>2 DEF WorkerFits, TestWorker
    <3> QED BY <1>6, <1>7, <3>1, <3>3
  <2>2. CASE ~ Tests!GoesOn
    <3> DEFINE w == [worker EXCEPT !.pc = "stopped"]
    <3>1. worker' = w /\ worker.pc = "turn" /\ UNCHANGED <<stored, event, testMishaps>>
      BY <1>11, <2>2 DEF Tests!BeginCall
    <3>2. WorkerFits(w)
      BY <1>0, <3>1 DEF WorkerFits, TestWorker
    <3> QED BY <1>6, <1>7, <3>1, <3>2
  <2> QED BY <2>1, <2>2
<1>12. CASE Tests!CallReturns \/ Tests!CallThrows
  <2>1. PICK next \in {"stopped", "completed", "turn", "failed"} :
           /\ worker' = [worker EXCEPT !.pc = next] /\ worker.pc = "call"
           /\ next = "turn" => worker.calls < MaxCalls
           /\ UNCHANGED <<stored, event, testMishaps>>
    BY <1>12 DEF Tests!CallReturns, Tests!CallThrows, Tests!MayContinue
  <2>2. WorkerFits([worker EXCEPT !.pc = next])
    BY <1>0, <2>1 DEF WorkerFits, TestWorker
  <2> QED BY <1>6, <1>7, <2>1, <2>2
<1>13. CASE Tests!EndRun
  <2>1. CASE ~ Tests!Exists(worker.cur)
    BY <1>13, <2>1, AbortFits DEF Tests!EndRun
  <2>2. CASE Tests!Exists(worker.cur)
    <3> DEFINE w == [worker EXCEPT !.pc = "take", !.cur = 0, !.calls = 0]
               n == IF worker.pc = "completed" THEN 1 ELSE 0
    <3>1. /\ worker' = w /\ stored' = [stored EXCEPT ![worker.cur] = n]
          /\ event' = [event EXCEPT ![worker.cur] = "none"] /\ UNCHANGED testMishaps
      BY <1>13, <2>2 DEF Tests!EndRun, Tests!Transcripts
    <3>2. n \in 0 .. 2
      OBVIOUS
    <3> HIDE DEF n
    <3>3. WorkerFits(w)
      <4>1. 0 \in 0 .. MaxCalls /\ 0 \in Tests!TestRuns \cup {0}
        BY <1>0
      <4> QED BY <1>0, <4>1 DEF WorkerFits, TestWorker
    <3>4. /\ event' \in [Tests!TestRuns -> {"none", "clear", "set"}]
          /\ stored' \in [Tests!TestRuns -> 0 .. 2]
      BY <1>7, <3>1, <3>2 DEF TestTypes
    <3> QED BY <3>1, <3>3, <3>4 DEF TestTypes
  <2> QED BY <2>1, <2>2
<1>14. CASE Tests!WorkerThrows
  <2>1. testMishaps' \in 0 .. MaxMishaps
    BY <1>0, <1>14 DEF Tests!WorkerThrows, TestTypes
  <2>2. /\ worker' = Tests!Polling /\ stored' = stored
        /\ event' \in [Tests!TestRuns -> {"none", "clear", "set"}]
    BY <1>7, <1>14 DEF Tests!WorkerThrows, Tests!Abort, Tests!AfterAbort
  <2> QED BY <2>1, <2>2, PollingFits DEF TestTypes
<1>15. CASE Tests!Restart
  <2>1. testMishaps' \in 0 .. MaxMishaps
    BY <1>0, <1>15 DEF Tests!Restart, TestTypes
  <2> QED BY <1>15, <2>1, PollingFits DEF Tests!Restart, TestTypes
<1> QED
  BY <1>1, <1>2, <1>3, <1>4, <1>5, <1>8, <1>9, <1>10, <1>11, <1>12, <1>13, <1>14, <1>15
  DEF Tests!Next, Tests!Work

LEMMA TestsAreTyped == AllSpec => []Tests!TypeOK
<1>1. AllInit => TestsInv /\ TestTypes
  <2>1. Tests!Init => TestTypes
    BY PollingFits, AgentRunsAssumption DEF Tests!Init, TestTypes
  <2> QED BY <2>1, TestsInitInv DEF AllInit
<1>2. TestsInv /\ TestTypes /\ [AllNext]_allVars => (TestsInv /\ TestTypes)'
  BY TestsKeepInv, TestsKeepTypes, PartsMoveAlone
<1>3. TestsInv /\ TestTypes => Tests!TypeOK
  BY DEF TestsInv, TestTypes, WorkerFits, TestWorker, TestRequest, Tests!TypeOK
<1> QED BY <1>1, <1>2, <1>3, PTL DEF AllSpec

-----------------------------------------------------------------------------
(* The screen of the tests.  What it asks the gateway about is a run: a    *)
(* detail on its way and an action under way have the number of one.       *)

ShownDetail == [id : Screen!TestRuns \cup {None}, status : Screen!Status]
DetailOnItsWay ==
    [id : Screen!TestRuns, by : {"select", "refresh"}, got : Screen!Status \cup {"asked"}]
ScreenAction ==
    [kind : {"none", "execute", "stop", "resume", "delete"},
     id : Screen!TestRuns \cup {None}, at : {"none", "asked", "list", "detail"}]

ScreenInv ==
    /\ run \in [Screen!TestRuns -> Screen!Status]
    /\ agent \in Screen!Agents
    /\ key \in Screen!TestRuns \cup {None}
    /\ detail \in ShownDetail
    /\ list \in SUBSET Screen!TestRuns
    /\ timer \in BOOLEAN
    /\ details \in SUBSET DetailOnItsWay
    /\ action \in ScreenAction
    /\ action.at # "none" => action.id \in Screen!TestRuns

LEMMA NothingShownIsTyped ==
    /\ Screen!NoDetail \in ShownDetail
    /\ Screen!NoAction \in ScreenAction /\ Screen!NoAction.at = "none"
BY DEF Screen!NoDetail, Screen!NoAction, ShownDetail, ScreenAction, Screen!Status

LEMMA ScreenInitInv == Screen!Init => ScreenInv
<1> SUFFICES ASSUME Screen!Init PROVE ScreenInv
  OBVIOUS
<1>1. run \in [Screen!TestRuns -> Screen!Status]
  BY DEF Screen!Init, Screen!Status, Screen!Live
<1>2. agent \in Screen!Agents /\ list \in SUBSET Screen!TestRuns /\ timer \in BOOLEAN
      /\ details \in SUBSET DetailOnItsWay /\ key \in Screen!TestRuns \cup {None}
  BY DEF Screen!Init, Screen!Agents
<1>3. detail \in ShownDetail /\ action \in ScreenAction /\ action.at = "none"
  BY NothingShownIsTyped DEF Screen!Init
<1> QED BY <1>1, <1>2, <1>3 DEF ScreenInv

LEMMA AskIsTyped ==
    ASSUME details \in SUBSET DetailOnItsWay, NEW r \in Screen!TestRuns,
           NEW by \in {"select", "refresh"}
    PROVE  Screen!Ask(r, by) \in SUBSET DetailOnItsWay
BY DEF Screen!Ask, DetailOnItsWay

\* What loading the list leaves on the screen.
LEMMA ListLoadedIsTyped ==
    ASSUME ScreenInv, NEW g, NEW wanted, Screen!ListLoaded(g, wanted)
    PROVE  /\ list' \in SUBSET Screen!TestRuns
           /\ key' \in Screen!TestRuns \cup {None}
           /\ detail' \in ShownDetail
           /\ details' \in SUBSET DetailOnItsWay
           /\ timer' \in BOOLEAN
<1>1. Screen!RunsOf(g) \in SUBSET Screen!TestRuns
  BY DEF Screen!RunsOf
<1>2. list' \in SUBSET Screen!TestRuns /\ timer' \in BOOLEAN
  BY <1>1 DEF Screen!ListLoaded, Screen!Sync
<1>3. CASE wanted \in Screen!RunsOf(g)
  <2>1. /\ key' = wanted /\ detail' = detail
        /\ details' \in {details, Screen!Ask(wanted, "refresh")}
    BY <1>3 DEF Screen!ListLoaded
  <2>2. wanted \in Screen!TestRuns
    BY <1>1, <1>3
  <2>3. Screen!Ask(wanted, "refresh") \in SUBSET DetailOnItsWay
    BY <2>2, AskIsTyped DEF ScreenInv
  <2> QED BY <1>2, <2>1, <2>2, <2>3 DEF ScreenInv
<1>4. CASE wanted \notin Screen!RunsOf(g)
  BY <1>2, <1>4, NothingShownIsTyped DEF Screen!ListLoaded, ScreenInv
<1> QED BY <1>3, <1>4

LEMMA ScreenKeepsInv == ScreenInv /\ [Screen!Next]_screenVars => ScreenInv'
<1> SUFFICES ASSUME ScreenInv, [Screen!Next]_screenVars PROVE ScreenInv'
  OBVIOUS
<1>0. /\ run \in [Screen!TestRuns -> Screen!Status] /\ detail \in ShownDetail
      /\ details \in SUBSET DetailOnItsWay /\ action \in ScreenAction
      /\ key \in Screen!TestRuns \cup {None} /\ list \in SUBSET Screen!TestRuns
      /\ action.at # "none" => action.id \in Screen!TestRuns
  BY DEF ScreenInv
<1>1. CASE UNCHANGED screenVars
  BY <1>1 DEF screenVars, ScreenInv
<1>2. ASSUME NEW g \in Screen!Agents, Screen!SelectAgent(g) PROVE ScreenInv'
  BY <1>2, NothingShownIsTyped DEF Screen!SelectAgent, ScreenInv
<1>3. ASSUME NEW r \in Screen!TestRuns, Screen!SelectRun(r) PROVE ScreenInv'
  <2>1. Screen!Ask(r, "select") \in SUBSET DetailOnItsWay
    BY <1>0, AskIsTyped
  <2> QED BY <1>3, <2>1 DEF Screen!SelectRun, ScreenInv
<1>4. ASSUME NEW r \in Screen!TestRuns, Screen!WorkerStep(r) PROVE ScreenInv'
  <2>1. run' \in [Screen!TestRuns -> Screen!Status]
    <3>1. PICK s \in {"running", "completed", "failed", "stopped"} : run' = [run EXCEPT ![r] = s]
      BY <1>4 DEF Screen!WorkerStep
    <3>2. s \in Screen!Status
      BY DEF Screen!Status, Screen!Live
    <3> QED BY <1>0, <3>1, <3>2
  <2> QED BY <1>4, <2>1 DEF Screen!WorkerStep, ScreenInv
<1>5. CASE Screen!CreateDraftRun
  <2>1. 2 \in Screen!TestRuns /\ "draft" \in Screen!Status
    BY DEF Screen!TestRuns, Screen!Status
  <2>2. Screen!Ask(2, "refresh") \in SUBSET DetailOnItsWay
    BY <1>0, <2>1, AskIsTyped
  <2>3. [id |-> 2, status |-> "draft"] \in ShownDetail
    BY <2>1 DEF ShownDetail
  <2>4. run' \in [Screen!TestRuns -> Screen!Status] /\ list' \in SUBSET Screen!TestRuns
    BY <1>0, <1>5, <2>1 DEF Screen!CreateDraftRun
  <2> QED BY <1>5, <2>1, <2>2, <2>3, <2>4 DEF Screen!CreateDraftRun, ScreenInv
<1>6. ASSUME NEW kind \in {"execute", "stop", "resume", "delete"}, Screen!StartAction(kind)
      PROVE  ScreenInv'
  <2>1. detail.id \in Screen!TestRuns
    BY <1>0, <1>6 DEF Screen!StartAction, ShownDetail
  <2>2. [kind |-> kind, id |-> detail.id, at |-> "asked"] \in ScreenAction
    BY <2>1 DEF ScreenAction
  <2> QED BY <1>6, <2>1, <2>2 DEF Screen!StartAction, ScreenInv
<1>7. CASE Screen!RefuseAction
  <2>1. timer' \in BOOLEAN
    <3>1. timer' = timer \/ Screen!Sync(detail)
      BY <1>7, Zenon DEF Screen!RefuseAction
    <3>2. CASE timer' = timer
      BY <3>2 DEF ScreenInv
    <3>3. CASE Screen!Sync(detail)
      BY <3>3 DEF Screen!Sync
    <3> QED BY <3>1, <3>2, <3>3
  <2> QED BY <1>7, <2>1, NothingShownIsTyped DEF Screen!RefuseAction, ScreenInv
<1>8. CASE Screen!PerformAction
  <2>1. action.id \in Screen!TestRuns
    BY <1>0, <1>8 DEF Screen!PerformAction
  <2>2. run' \in [Screen!TestRuns -> Screen!Status]
    <3> DEFINE s == Screen!After(action.kind, run[action.id])
    <3>1. s \in Screen!Status
      BY DEF Screen!After, Screen!Status, Screen!Live
    <3>2. run' = [run EXCEPT ![action.id] = s]
      BY <1>8 DEF Screen!PerformAction
    <3> HIDE DEF s
    <3> QED BY <1>0, <3>1, <3>2
  <2>3. CASE action.kind = "delete"
    <3>1. list' \in SUBSET Screen!TestRuns /\ key' = None /\ detail' = Screen!NoDetail
          /\ action' = Screen!NoAction /\ UNCHANGED <<agent, timer, details>>
      BY <1>0, <1>8, <2>3 DEF Screen!PerformAction
    <3> QED BY <2>2, <3>1, NothingShownIsTyped DEF ScreenInv
  <2>4. CASE action.kind # "delete"
    <3>1. /\ list' = list /\ key' = action.id
          /\ detail' = [id |-> action.id, status |-> run'[action.id]]
          /\ action' = [action EXCEPT !.at = "list"] /\ UNCHANGED <<agent, timer, details>>
      BY <1>8, <2>4 DEF Screen!PerformAction
    <3>2. detail' \in ShownDetail
      BY <2>1, <2>2, <3>1 DEF ShownDetail
    <3>3. action' \in ScreenAction /\ action'.id = action.id
      BY <1>0, <3>1 DEF ScreenAction
    <3> QED BY <2>1, <2>2, <3>1, <3>2, <3>3 DEF ScreenInv
  <2> QED BY <2>3, <2>4
<1>9. ASSUME NEW g \in Screen!Agents, Screen!LoadRuns(g) PROVE ScreenInv'
  <2>1. Screen!ListLoaded(g, key) /\ UNCHANGED <<run, agent, action>>
    BY <1>9 DEF Screen!LoadRuns
  <2> QED BY <2>1, ListLoadedIsTyped DEF ScreenInv
<1>10. CASE Screen!ListAfterAction
  <2>1. /\ Screen!ListLoaded(agent, action.id) /\ UNCHANGED <<run, agent>>
        /\ action.at = "list" /\ action' = [action EXCEPT !.at = "detail"]
    BY <1>10 DEF Screen!ListAfterAction
  <2>2. action' \in ScreenAction /\ action'.id = action.id
    BY <1>0, <2>1 DEF ScreenAction
  <2> QED BY <1>0, <2>1, <2>2, ListLoadedIsTyped DEF ScreenInv
<1>11. CASE Screen!DetailAfterAction
  <2>1. /\ action.at = "detail" /\ action' = Screen!NoAction
        /\ detail' \in {[id |-> action.id, status |-> run[action.id]], detail}
        /\ UNCHANGED <<run, agent, key, list, details>>
    BY <1>11 DEF Screen!DetailAfterAction
  <2>2. timer' \in BOOLEAN
    BY <1>11 DEF Screen!DetailAfterAction, Screen!Sync
  <2>3. action.id \in Screen!TestRuns /\ run[action.id] \in Screen!Status
    BY <1>0, <2>1
  <2>4. detail' \in ShownDetail
    BY <1>0, <2>1, <2>3 DEF ShownDetail
  <2> QED BY <2>1, <2>2, <2>4, NothingShownIsTyped DEF ScreenInv
<1>12. CASE Screen!Tick
  <2>1. key \in Screen!TestRuns
    BY <1>0, <1>12 DEF Screen!Tick
  <2>2. Screen!Ask(key, "refresh") \in SUBSET DetailOnItsWay
    BY <1>0, <2>1, AskIsTyped
  <2> QED BY <1>12, <2>2 DEF Screen!Tick, ScreenInv
<1>13. ASSUME NEW d \in details, Screen!ReadRun(d) PROVE ScreenInv'
  <2>1. d \in DetailOnItsWay /\ run[d.id] \in Screen!Status
    BY <1>0 DEF DetailOnItsWay
  <2>2. [d EXCEPT !.got = run[d.id]] \in DetailOnItsWay
    BY <2>1 DEF DetailOnItsWay
  <2>3. details' \in SUBSET DetailOnItsWay
    BY <1>0, <1>13, <2>2 DEF Screen!ReadRun
  <2> QED BY <1>13, <2>3 DEF Screen!ReadRun, ScreenInv
<1>14. ASSUME NEW d \in details, Screen!ApplyDetail(d) PROVE ScreenInv'
  <2>1. /\ details' = details \ {d} /\ d.got # "asked"
        /\ detail' \in {[id |-> d.id, status |-> d.got], detail}
        /\ UNCHANGED <<run, agent, key, list, action>>
    BY <1>14 DEF Screen!ApplyDetail
  <2>2. timer' \in BOOLEAN
    <3>1. timer' = timer \/ Screen!Sync(detail')
      BY <1>14, Zenon DEF Screen!ApplyDetail
    <3>2. CASE timer' = timer
      BY <3>2 DEF ScreenInv
    <3>3. CASE Screen!Sync(detail')
      BY <3>3 DEF Screen!Sync
    <3> QED BY <3>1, <3>2, <3>3
  <2>3. d.id \in Screen!TestRuns /\ d.got \in Screen!Status
    BY <1>0, <2>1 DEF DetailOnItsWay
  <2>4. detail' \in ShownDetail
    BY <1>0, <2>1, <2>3 DEF ShownDetail
  <2> QED BY <1>0, <2>1, <2>2, <2>4 DEF ScreenInv
<1> QED
  BY <1>1, <1>2, <1>3, <1>4, <1>5, <1>6, <1>7, <1>8, <1>9, <1>10, <1>11, <1>12, <1>13, <1>14
  DEF Screen!Next, Screen!ActionStep, Screen!ListStep, Screen!ReadStep, Screen!ApplyStep

LEMMA ScreenIsTyped == AllSpec => []Screen!TypeOK
<1>1. AllInit => ScreenInv
  BY ScreenInitInv DEF AllInit
<1>2. ScreenInv /\ [AllNext]_allVars => ScreenInv'
  BY ScreenKeepsInv, PartsMoveAlone
<1>3. ScreenInv => Screen!TypeOK
  BY DEF ScreenInv, ShownDetail, Screen!TypeOK
<1> QED BY <1>1, <1>2, <1>3, PTL DEF AllSpec

-----------------------------------------------------------------------------
(* The screen of the log: the last level cannot be switched off.           *)

LogLevels == (SUBSET Log!SupportedLevels) \ {{}}

LogScreenInv ==
    /\ table \in BOOLEAN
    /\ logScreen = [open |-> logScreen.open, loading |-> logScreen.loading,
                    levels |-> logScreen.levels, refreshes |-> logScreen.refreshes,
                    logs |-> logScreen.logs, expanded |-> logScreen.expanded,
                    timer |-> logScreen.timer]
    /\ logScreen.levels \in LogLevels

LEMMA LogScreenInitInv == Log!Init => LogScreenInv
<1> SUFFICES ASSUME Log!Init PROVE LogScreenInv
  OBVIOUS
<1>1. Log!SupportedLevels \in LogLevels
  <2>1. "info" \in Log!SupportedLevels
    BY DEF Log!SupportedLevels
  <2>2. Log!SupportedLevels # {}
    BY <2>1
  <2> QED BY <2>2 DEF LogLevels
<1>2. table = FALSE
      /\ logScreen = [open |-> FALSE, loading |-> FALSE, levels |-> Log!SupportedLevels,
                      refreshes |-> 0, logs |-> {}, expanded |-> {}, timer |-> FALSE]
  BY DEF Log!Init
<1> QED BY <1>1, <1>2 DEF LogScreenInv

LEMMA LogKeepsScreenInv == LogScreenInv /\ [Log!Next]_logVars => LogScreenInv'
<1> SUFFICES ASSUME LogScreenInv, [Log!Next]_logVars PROVE LogScreenInv'
  OBVIOUS
<1>1. CASE UNCHANGED logVars
  BY <1>1 DEF logVars, LogScreenInv
\* The server.
<1>2. ASSUME NEW i \in Log!Responses, NEW kind \in Log!Kinds, Log!Arrive(i, kind)
      PROVE  LogScreenInv'
  BY <1>2 DEF Log!Arrive, Log!logVars, Log!screenVars, LogScreenInv
<1>3. ASSUME NEW i \in Log!Responses, NEW n \in {200, 500}, NEW json \in BOOLEAN,
             Log!Respond(i, n, json)
      PROVE  LogScreenInv'
  <2>1. UNCHANGED <<table, logScreen>>
    BY <1>3 DEF Log!Respond, Log!screenVars
  <2> QED BY <2>1 DEF LogScreenInv
<1>4. ASSUME NEW w \in writes, Log!WriteStep(w) \/ Log!LoseLogEntry(w) PROVE LogScreenInv'
  <2>1. table' \in {table, TRUE} /\ UNCHANGED logScreen
    BY <1>4
    DEF Log!WriteStep, Log!CreateLogEntry, Log!EnsureLogEntriesTable, Log!RetryLogEntry,
        Log!LoseLogEntry, Log!screenVars
  <2> QED BY <2>1 DEF LogScreenInv
<1>5. ASSUME NEW levels, Log!Analyze(levels) PROVE LogScreenInv'
  BY <1>5 DEF Log!Analyze, Log!logVars, Log!screenVars, LogScreenInv
\* The screen.
<1>6. CASE Log!NgOnInit \/ Log!AutoRefresh \/ Log!NgOnDestroy
           \/ \E enabled \in BOOLEAN : Log!SetAutoRefresh(enabled)
  <2>1. UNCHANGED table
    BY <1>6 DEF Log!NgOnInit, Log!AutoRefresh, Log!NgOnDestroy, Log!SetAutoRefresh, Log!logVars
  <2>2. \/ logScreen' = [logScreen EXCEPT !.open = TRUE, !.loading = TRUE,
                                          !.refreshes = logScreen.refreshes + 1]
        \/ logScreen' = [logScreen EXCEPT !.loading = TRUE,
                                          !.refreshes = logScreen.refreshes + 1]
        \/ logScreen' = [logScreen EXCEPT !.open = FALSE, !.timer = FALSE]
        \/ \E enabled \in BOOLEAN : logScreen' = [logScreen EXCEPT !.timer = enabled]
    BY <1>6
    DEF Log!NgOnInit, Log!AutoRefresh, Log!NgOnDestroy, Log!SetAutoRefresh, Log!Refreshing,
        LogScreenInv
  <2> QED BY <2>1, <2>2 DEF LogScreenInv
<1>7. ASSUME NEW level \in Log!SupportedLevels, Log!ToggleLevel(level) PROVE LogScreenInv'
  <2> DEFINE levels == IF level \in logScreen.levels THEN logScreen.levels \ {level}
                                                     ELSE logScreen.levels \cup {level}
  <2>1. /\ logScreen' = [logScreen EXCEPT !.levels = levels, !.loading = TRUE,
                                          !.refreshes = logScreen.refreshes + 1]
        /\ levels # {} /\ UNCHANGED table
    BY <1>7 DEF Log!ToggleLevel, Log!Refreshing, Log!logVars, LogScreenInv
  <2>2. levels \in LogLevels
    <3>1. logScreen.levels \in SUBSET Log!SupportedLevels
      BY DEF LogScreenInv, LogLevels
    <3>2. levels \in SUBSET Log!SupportedLevels
      BY <3>1
    <3> HIDE DEF levels
    <3> QED BY <2>1, <3>2 DEF LogLevels
  <2> HIDE DEF levels
  <2> QED BY <2>1, <2>2 DEF LogScreenInv
<1>8. ASSUME NEW read \in reads, Log!ApplySnapshot(read) \/ Log!RefreshFails(read)
      PROVE  LogScreenInv'
  <2> DEFINE logs == Log!SearchLogEntries(read.levels)
  <2>1. /\ UNCHANGED table
        /\ \/ logScreen' = [logScreen EXCEPT !.loading = FALSE, !.logs = logs,
                                             !.expanded = logScreen.expanded \cap logs]
           \/ logScreen' = [logScreen EXCEPT !.loading = FALSE, !.logs = {}]
    BY <1>8 DEF Log!ApplySnapshot, Log!RefreshFails, Log!logVars
  <2> HIDE DEF logs
  <2> QED BY <2>1 DEF LogScreenInv
<1>9. ASSUME NEW e \in logScreen.logs, Log!ToggleContext(e) PROVE LogScreenInv'
  <2>1. /\ UNCHANGED table
        /\ \E expanded : logScreen' = [logScreen EXCEPT !.expanded = expanded]
    BY <1>9 DEF Log!ToggleContext, Log!logVars
  <2> QED BY <2>1 DEF LogScreenInv
<1> QED
  BY <1>1, <1>2, <1>3, <1>4, <1>5, <1>6, <1>7, <1>8, <1>9 DEF Log!Next

LEMMA LogIsTyped == AllSpec => []Log!TypeOK
<1>1. AllInit => LogInv /\ LogScreenInv
  BY LogInitInv, LogScreenInitInv DEF AllInit
<1>2. LogInv /\ LogScreenInv /\ [AllNext]_allVars => (LogInv /\ LogScreenInv)'
  BY LogKeepsInv, LogKeepsScreenInv, PartsMoveAlone
<1>3. LogInv /\ LogScreenInv => Log!TypeOK
  BY DEF LogInv, LogWrite, LogScreenInv, LogLevels, Log!TypeOK
<1> QED BY <1>1, <1>2, <1>3, PTL DEF AllSpec

-----------------------------------------------------------------------------
(* The rows of prompts: a version is written over the row that has it, and *)
(* putting a row out of force does not change which row it is.             *)

OneRowPerVersion(rows) ==
    /\ rows \subseteq Prompt
    /\ \A p \in rows : p.version \in Admin!Versions
    /\ \A p, q \in rows : Admin!Id(p) = Admin!Id(q) => p = q

VersionsInv ==
    /\ OneRowPerVersion(prompts)
    /\ boot.version \in Admin!Versions
    /\ \A a \in Admins : tx[a].version \in Admin!Versions \cup {0}

LEMMA FirstVersion == 1 \in Admin!Versions /\ Admin!Versions \subseteq Nat /\ 0 \notin Admin!Versions
<1>1. MaxVersion \in Nat \ {0}
  BY WorkplaceAssumption
<1> QED BY <1>1 DEF Admin!Versions

\* A row that may be put out of force.
Kept(p, ids) == IF Admin!Id(p) \in ids THEN [p EXCEPT !.active = FALSE] ELSE p

LEMMA KeptIsTheSameRow ==
    ASSUME NEW p \in Prompt, NEW ids
    PROVE  /\ Kept(p, ids) \in Prompt
           /\ Kept(p, ids).version = p.version
           /\ Admin!Id(Kept(p, ids)) = Admin!Id(p)
<1>1. CASE Admin!Id(p) \in ids
  BY <1>1 DEF Kept, Prompt, Admin!Id
<1>2. CASE Admin!Id(p) \notin ids
  BY <1>2 DEF Kept, Prompt, Admin!Id
<1> QED BY <1>1, <1>2

LEMMA PuttingOffKeepsOneRow ==
    ASSUME NEW rows, OneRowPerVersion(rows), NEW ids
    PROVE  OneRowPerVersion(Admin!Off(rows, ids))
<1> DEFINE off == Admin!Off(rows, ids)
<1>1. /\ rows \subseteq Prompt
      /\ \A p \in rows : p.version \in Admin!Versions
      /\ \A p, q \in rows : Admin!Id(p) = Admin!Id(q) => p = q
  BY DEF OneRowPerVersion
<1>2. off = {Kept(p, ids) : p \in rows}
  BY DEF Admin!Off, Kept
<1> HIDE DEF off
<1>3. off \subseteq Prompt /\ \A p \in off : p.version \in Admin!Versions
  BY <1>1, <1>2, KeptIsTheSameRow
<1>4. \A p, q \in off : Admin!Id(p) = Admin!Id(q) => p = q
  <2> SUFFICES ASSUME NEW x \in rows, NEW y \in rows,
                      Admin!Id(Kept(x, ids)) = Admin!Id(Kept(y, ids))
               PROVE  Kept(x, ids) = Kept(y, ids)
    BY <1>2
  <2>1. Admin!Id(x) = Admin!Id(y)
    BY <1>1, KeptIsTheSameRow
  <2> QED BY <1>1, <2>1
<1> QED BY <1>3, <1>4 DEF off, OneRowPerVersion

LEMMA WritingKeepsOneRow ==
    ASSUME clock \in Nat, NEW rows, OneRowPerVersion(rows),
           NEW k \in Admin!Keys, NEW version \in Admin!Versions, NEW text \in Nat
    PROVE  OneRowPerVersion(Admin!Written(rows, k, version, text))
<1> DEFINE mark == [key |-> k, version |-> version, text |-> text, active |-> TRUE,
                    updated |-> clock + 1]
           new == Admin!Written(rows, k, version, text)
<1>1. new = {p \in rows : Admin!Id(p) # <<k, version>>} \cup {mark}
  BY DEF Admin!Written
<1>2. mark \in Prompt /\ mark.version = version /\ Admin!Id(mark) = <<k, version>>
  BY FirstVersion DEF Prompt, Admin!Id
<1> HIDE DEF mark, new
<1>3. new \subseteq Prompt /\ \A p \in new : p.version \in Admin!Versions
  BY <1>1, <1>2 DEF OneRowPerVersion
<1>4. \A p, q \in new : Admin!Id(p) = Admin!Id(q) => p = q
  BY <1>1, <1>2 DEF OneRowPerVersion
<1> QED BY <1>3, <1>4 DEF new, OneRowPerVersion

LEMMA VersionsInitInv == Admin!Init => VersionsInv
<1> SUFFICES ASSUME Admin!Init PROVE VersionsInv
  OBVIOUS
<1> DEFINE text == Admin!Brought(1)
           first == [key |-> 1, version |-> 1, text |-> text, active |-> TRUE, updated |-> 1]
<1>0. text \in Nat
  BY WorkplaceAssumption DEF Admin!Brought
<1>1. prompts = {first} /\ boot = [at |-> "up", version |-> 1, starts |-> 0]
  BY DEF Admin!Init
<1> HIDE DEF text
<1>2. first \in Prompt /\ first.version = 1
  BY <1>0, KeysAreNumbers DEF Prompt
<1> HIDE DEF first
<1>3. OneRowPerVersion(prompts) /\ boot.version \in Admin!Versions
  BY <1>1, <1>2, FirstVersion DEF OneRowPerVersion
<1>4. \A a \in Admins : tx[a].version = 1
  BY DEF Admin!Init, Admin!NoTx
<1> QED BY <1>3, <1>4, FirstVersion DEF VersionsInv

\* The steps of a start.
LEMMA StartsKeepVersions ==
    ASSUME AdminInv, VersionsInv,
           \/ \E v \in Admin!Versions : Admin!StartBackend(v)
           \/ Admin!FindPrompt \/ Admin!PutOff \/ Admin!EnsurePromptConfig \/ Admin!StartFails
    PROVE  VersionsInv'
<1>0. /\ boot \in Start /\ clock \in Nat /\ OneRowPerVersion(prompts)
      /\ boot.version \in Admin!Versions
      /\ \A a \in Admins : tx[a].version \in Admin!Versions \cup {0}
  BY DEF AdminInv, AdminTyped, VersionsInv
<1>1. ASSUME NEW place, Admin!Boot(place) PROVE boot'.version = boot.version
  BY <1>0, <1>1 DEF Admin!Boot, Start
<1>2. ASSUME NEW v \in Admin!Versions, Admin!StartBackend(v) PROVE VersionsInv'
  <2>1. boot'.version = v /\ UNCHANGED <<prompts, tx>>
    BY <1>2 DEF Admin!StartBackend
  <2> QED BY <1>0, <2>1 DEF VersionsInv
<1>3. CASE Admin!FindPrompt \/ Admin!StartFails
  <2>1. UNCHANGED <<prompts, tx>> /\ \E place : Admin!Boot(place)
    BY <1>3 DEF Admin!FindPrompt, Admin!StartFails
  <2> QED BY <1>0, <1>1, <2>1 DEF VersionsInv
<1>4. CASE Admin!PutOff
  <2> DEFINE ids == {Admin!Id(p) : p \in Admin!Active(1)}
  <2>1. Admin!Boot("put off") /\ UNCHANGED tx /\ prompts' = Admin!Off(prompts, ids)
    BY <1>4 DEF Admin!PutOff
  <2> HIDE DEF ids
  <2>2. OneRowPerVersion(prompts')
    BY <1>0, <2>1, PuttingOffKeepsOneRow
  <2> QED BY <1>0, <1>1, <2>1, <2>2 DEF VersionsInv
<1>5. CASE Admin!EnsurePromptConfig
  <2> DEFINE text == Admin!Brought(boot.version)
  <2>1. /\ Admin!Boot("up") /\ UNCHANGED tx
        /\ \/ UNCHANGED prompts
           \/ prompts' = Admin!Written(prompts, 1, boot.version, text)
    BY <1>5 DEF Admin!EnsurePromptConfig
  <2>2. text \in Nat
    <3>1. MaxWrites \in Nat /\ boot.version \in Nat
      BY <1>0, FirstVersion, WorkplaceAssumption
    <3> QED BY <3>1 DEF Admin!Brought
  <2> HIDE DEF text
  <2>3. OneRowPerVersion(prompts')
    BY <1>0, <2>1, <2>2, KeysAreNumbers, WritingKeepsOneRow
  <2> QED BY <1>0, <1>1, <2>1, <2>3 DEF VersionsInv
<1> QED BY <1>2, <1>3, <1>4, <1>5

LEMMA AdminKeepsVersions == AdminInv /\ VersionsInv /\ [Admin!Next]_adminVars => VersionsInv'
<1> SUFFICES ASSUME AdminInv, VersionsInv, [Admin!Next]_adminVars PROVE VersionsInv'
  OBVIOUS
<1>0. /\ tx \in [Admins -> AdminTx] /\ clock \in Nat
      /\ \A a \in Admins : TxFits(tx[a], agentRow, prompts, boot)
  BY DEF AdminInv, AdminTyped
<1>1. /\ OneRowPerVersion(prompts) /\ boot.version \in Admin!Versions
      /\ \A a \in Admins : tx[a].version \in Admin!Versions \cup {0}
  BY DEF VersionsInv
\* One request moves.
<1>2. ASSUME NEW a \in Admins, NEW new, new.version \in Admin!Versions \cup {0},
             tx' = [tx EXCEPT ![a] = new], OneRowPerVersion(prompts'), UNCHANGED boot
      PROVE  VersionsInv'
  BY <1>0, <1>1, <1>2 DEF VersionsInv
<1>3. Admin!NoTx.version \in Admin!Versions \cup {0}
  BY FirstVersion DEF Admin!NoTx
<1>4. CASE UNCHANGED adminVars
           \/ \E a \in Admins :
                 \/ Admin!LoadAgents(a) \/ Admin!ReadDetail(a) \/ Admin!HydrateSelectedAgent(a)
                 \/ \E k \in Admin!Keys : Admin!SelectAgent(a, k)
  <2>1. UNCHANGED <<prompts, boot, tx>>
    BY <1>4
    DEF adminVars, Admin!LoadAgents, Admin!ReadDetail, Admin!HydrateSelectedAgent,
        Admin!SelectAgent
  <2> QED BY <1>1, <2>1 DEF VersionsInv
<1>5. ASSUME NEW a \in Admins, NEW version \in Admin!Versions \cup {0}, NEW active \in BOOLEAN,
             Admin!SaveAgent(a, version, active)
      PROVE  VersionsInv'
  <2> DEFINE new == Admin!BuildUpdatePayload(adminScreen[a].selected, version, active)
  <2>1. tx' = [tx EXCEPT ![a] = new] /\ UNCHANGED <<prompts, boot>>
    BY <1>5 DEF Admin!SaveAgent, Admin!Ask
  <2>2. new.version = version
    BY DEF Admin!BuildUpdatePayload, Admin!NoTx
  <2> HIDE DEF new
  <2> QED BY <1>1, <1>2, <2>1, <2>2
<1>6. ASSUME NEW a \in Admins, NEW seed, NEW active, Admin!CreateAgent(a, seed, active)
      PROVE  VersionsInv'
  <2> DEFINE new == Admin!BuildCreatePayload(seed, active)
  <2>1. tx' = [tx EXCEPT ![a] = new] /\ UNCHANGED <<prompts, boot>>
    BY <1>6 DEF Admin!CreateAgent, Admin!Ask
  <2>2. new.version = Admin!NoTx.version
    BY DEF Admin!BuildCreatePayload, Admin!NoTx
  <2> HIDE DEF new
  <2> QED BY <1>1, <1>2, <1>3, <2>1, <2>2
<1>7. ASSUME NEW a \in Admins, Admin!FindActive(a) PROVE VersionsInv'
  <2> DEFINE ids == {Admin!Id(p) : p \in Admin!Active(tx[a].key)}
             new == [tx[a] EXCEPT !.at = "hold", !.rows = ids]
  <2>1. tx' = [tx EXCEPT ![a] = new] /\ UNCHANGED <<prompts, boot>>
    BY <1>7 DEF Admin!FindActive
  <2> HIDE DEF ids
  <2>2. new.version = tx[a].version
    BY <1>0 DEF AdminTx
  <2> HIDE DEF new
  <2> QED BY <1>1, <1>2, <2>1, <2>2
<1>8. ASSUME NEW a \in Admins, NEW place, NEW ids, NEW version,
             tx[a].key \in Admin!Keys, version \in Admin!Versions \cup {0},
             Admin!Saved(a, tx[a].key, place), UNCHANGED boot,
             \/ UNCHANGED prompts
             \/ /\ version # 0
                /\ prompts' = Admin!Written(Admin!Off(prompts, ids), tx[a].key, version, tx[a].text)
      PROVE  VersionsInv'
  <2> DEFINE new == [tx[a] EXCEPT !.at = place, !.rows = {}]
             off == Admin!Off(prompts, ids)
  <2>1. tx' = [tx EXCEPT ![a] = new]
    BY <1>8 DEF Admin!Saved
  <2>2. new.version = tx[a].version /\ tx[a].text \in Nat
    BY <1>0 DEF AdminTx
  <2>3. OneRowPerVersion(off)
    BY <1>1, PuttingOffKeepsOneRow
  <2> HIDE DEF new, off
  <2>4. CASE UNCHANGED prompts
    BY <1>1, <1>2, <1>8, <2>1, <2>2, <2>4
  <2>5. CASE version # 0 /\ prompts' = Admin!Written(off, tx[a].key, version, tx[a].text)
    <3>1. OneRowPerVersion(prompts')
      BY <1>0, <1>8, <2>2, <2>3, <2>5, WritingKeepsOneRow
    <3> QED BY <1>1, <1>2, <1>8, <2>1, <2>2, <3>1
  <2> QED BY <1>8, <2>4, <2>5 DEF off
<1>9. ASSUME NEW a \in Admins, Admin!CommitUpdate(a) PROVE VersionsInv'
  <2>1. /\ tx[a].at = "hold" /\ Admin!Saved(a, tx[a].key, "saved") /\ UNCHANGED boot
        /\ \/ UNCHANGED prompts
           \/ /\ tx[a].version # 0
              /\ prompts' = Admin!Written(Admin!Off(prompts, tx[a].rows), tx[a].key,
                                          tx[a].version, tx[a].text)
    BY <1>9 DEF Admin!CommitUpdate
  <2>2. tx[a].key \in Admin!Keys
    BY <1>0, <2>1 DEF TxFits
  <2> QED BY <1>1, <1>8, <2>1, <2>2
<1>10. ASSUME NEW a \in Admins, Admin!GenerateAgentKey(a) PROVE VersionsInv'
  <2>1. UNCHANGED <<prompts, boot>> /\ \E k : tx' = [tx EXCEPT ![a].at = "keyed", ![a].key = k]
    BY <1>10, Zenon DEF Admin!GenerateAgentKey
  <2>2. PICK k : tx' = [tx EXCEPT ![a] = [tx[a] EXCEPT !.at = "keyed", !.key = k]]
    BY <2>1
  <2> DEFINE new == [tx[a] EXCEPT !.at = "keyed", !.key = k]
  <2>3. new.version = tx[a].version
    BY <1>0 DEF AdminTx
  <2> HIDE DEF new
  <2>4. tx' = [tx EXCEPT ![a] = new]
    BY <2>2 DEF new
  <2> QED BY <1>1, <1>2, <2>1, <2>3, <2>4
<1>11. ASSUME NEW a \in Admins, Admin!CommitCreate(a) PROVE VersionsInv'
  <2> DEFINE ids == {Admin!Id(p) : p \in Admin!Active(tx[a].key)}
  <2>1. \A asked : Admin!ResolvePromptKey(asked, tx[a].key) = tx[a].key
    BY DEF Admin!ResolvePromptKey
  <2>2. /\ tx[a].at = "keyed" /\ Admin!Saved(a, tx[a].key, "created") /\ UNCHANGED boot
        /\ prompts' = Admin!Written(Admin!Off(prompts, ids), tx[a].key, 1, tx[a].text)
    BY <1>11, <2>1 DEF Admin!CommitCreate
  <2> HIDE DEF ids
  <2>3. tx[a].key \in Admin!Keys
    BY <1>0, <2>2 DEF TxFits
  <2> QED BY <1>8, <2>2, <2>3, FirstVersion
<1>12. ASSUME NEW a \in Admins,
              Admin!RefuseWrite(a) \/ Admin!WriteFails(a) \/ Admin!Answer(a)
       PROVE  VersionsInv'
  <2>1. tx' = [tx EXCEPT ![a] = Admin!NoTx] /\ UNCHANGED <<prompts, boot>>
    BY <1>12 DEF Admin!RefuseWrite, Admin!WriteFails, Admin!Rollback, Admin!Answer
  <2> QED BY <1>1, <1>2, <1>3, <2>1
<1> QED
  BY <1>4, <1>5, <1>6, <1>7, <1>9, <1>10, <1>11, <1>12, StartsKeepVersions
  DEF Admin!Next, Admin!Write

LEMMA AdminIsTyped == AllSpec => []Admin!TypeOK
<1>1. AllInit => AdminInv /\ VersionsInv
  BY AdminInitInv, VersionsInitInv DEF AllInit
<1>2. AdminInv /\ VersionsInv /\ [AllNext]_allVars => (AdminInv /\ VersionsInv)'
  BY AdminKeepsInv, AdminKeepsVersions, PartsMoveAlone
<1>3. AdminInv /\ VersionsInv => Admin!TypeOK
  BY DEF AdminInv, AdminTyped, AdminScreen, VersionsInv, OneRowPerVersion, Prompt, Admin!TypeOK
<1> QED BY <1>1, <1>2, <1>3, PTL DEF AllSpec

-----------------------------------------------------------------------------
(* The help desk writes no index beyond the bound: a turn has one question *)
(* and one answer in the thread, and one that counts the messages has not  *)
(* replied yet.                                                            *)

HelpIndices == 0 .. 2 * MaxTurns

HelpTab ==
    [loading : {"no", "reading", "read", "sending"}, sent : Help!Turns \cup {0},
     seen : SUBSET HelpRow, shown : SUBSET HelpRow,
     shownTickets : SUBSET Help!Turns, seenTickets : SUBSET Help!Turns]

HelpTypes ==
    /\ conversation \in {"none", "open", "escalated"}
    /\ tickets \in SUBSET Help!Turns
    /\ \A i \in Help!Turns : turn[i].index \in HelpIndices
    /\ widget \in [Tabs -> HelpTab]

\* What a row says, whatever its index.
Said == {"user", "agent"} \X Help!Turns

LEMMA SaidIsFinite ==
    /\ MaxTurns \in Nat /\ IsFiniteSet(Said) /\ Cardinality(Said) = 2 * MaxTurns
<1>1. MaxTurns \in Nat
  BY WorkplaceAssumption
<1>2. IsFiniteSet(Help!Turns) /\ Cardinality(Help!Turns) = MaxTurns
  BY <1>1, FS_Interval DEF Help!Turns
<1>3. IsFiniteSet({"user", "agent"}) /\ Cardinality({"user", "agent"}) = 2
  <2>1. IsFiniteSet({"user"}) /\ Cardinality({"user"}) = 1
    BY FS_Singleton
  <2>2. {"user", "agent"} = {"user"} \cup {"agent"}
    OBVIOUS
  <2>3. /\ IsFiniteSet({"user"} \cup {"agent"})
        /\ Cardinality({"user"} \cup {"agent"}) =
             IF "agent" \in {"user"} THEN Cardinality({"user"}) ELSE Cardinality({"user"}) + 1
    BY <2>1, FS_AddElement, Zenon
  <2>4. "agent" \notin {"user"}
    OBVIOUS
  <2> QED BY <2>1, <2>2, <2>3, <2>4
<1>4. IsFiniteSet(Said) /\ Cardinality(Said) = Cardinality({"user", "agent"}) * Cardinality(Help!Turns)
  BY <1>2, <1>3, FS_Product, Zenon DEF Said
<1> QED BY <1>1, <1>2, <1>3, <1>4

\* Rows that say different things.
LEMMA AtMostWhatIsSaid ==
    ASSUME NEW rows, InOrder(rows), NEW S \in SUBSET Said,
           \A row \in rows : <<row.from, row.turn>> \in S
    PROVE  Cardinality(rows) <= Cardinality(S)
<1> DEFINE f == [row \in rows |-> <<row.from, row.turn>>]
<1>1. IsFiniteSet(S)
  BY SaidIsFinite, FS_Subset
<1>2. \A row \in rows : f[row] = <<row.from, row.turn>> /\ f[row] \in S
  OBVIOUS
<1>3. \A a, b \in rows : f[a] = f[b] => a = b
  BY <1>2 DEF InOrder
<1>4. f \in [rows -> S]
  BY <1>2
<1> HIDE DEF f
<1>5. f \in Injection(rows, S)
  BY <1>3, <1>4, Zenon DEF Injection, IsInjective
<1> QED BY <1>1, <1>5, FS_Injection

LEMMA ThreadFitsTheBound ==
    ASSUME NEW rows, InOrder(rows)
    PROVE  /\ Cardinality(rows) \in Nat /\ Cardinality(rows) <= 2 * MaxTurns
           /\ \A i \in Help!Turns : (~ \E row \in rows : row.from = "agent" /\ row.turn = i)
                 => Cardinality(rows) + 1 <= 2 * MaxTurns
<1>1. Cardinality(rows) \in Nat
  BY FS_CardinalityType DEF InOrder
<1>2. \A row \in rows : <<row.from, row.turn>> \in Said
  BY DEF InOrder, HelpRow, Said
<1>3. Cardinality(rows) <= 2 * MaxTurns
  BY <1>2, AtMostWhatIsSaid, SaidIsFinite
<1>4. ASSUME NEW i \in Help!Turns, ~ \E row \in rows : row.from = "agent" /\ row.turn = i
      PROVE  Cardinality(rows) + 1 <= 2 * MaxTurns
  <2> DEFINE x == <<"agent", i>>
  <2>1. x \in Said
    BY DEF Said
  <2>2. \A row \in rows : <<row.from, row.turn>> \in Said \ {x}
    BY <1>2, <1>4
  <2> HIDE DEF x
  <2>3. Cardinality(rows) <= Cardinality(Said \ {x})
    BY <2>2, AtMostWhatIsSaid
  <2>4. Cardinality(Said \ {x}) = Cardinality(Said) - 1
    BY <2>1, SaidIsFinite, FS_RemoveElement
  <2> QED BY <1>1, <2>3, <2>4, SaidIsFinite
<1> QED BY <1>1, <1>3, <1>4

LEMMA HelpInitTypes == Help!Init => HelpTypes
<1> SUFFICES ASSUME Help!Init PROVE HelpTypes
  OBVIOUS
<1>1. Help!NewTab \in HelpTab
  BY DEF Help!NewTab, HelpTab
<1>2. widget \in [Tabs -> HelpTab]
  BY <1>1 DEF Help!Init
<1>3. \A i \in Help!Turns : turn[i].index = 0
  BY DEF Help!Init, Help!NotSent
<1>4. 0 \in HelpIndices
  BY SaidIsFinite DEF HelpIndices
<1> QED BY <1>2, <1>3, <1>4 DEF Help!Init, HelpTypes

\* A tab whose request comes back.
LEMMA TabsAnswered ==
    ASSUME widget \in [Tabs -> HelpTab], thread \in SUBSET HelpRow, NEW i,
           NEW answered \in BOOLEAN, tickets \in SUBSET Help!Turns,
           \A t \in Tabs :
               \/ widget'[t] = widget[t]
               \/ widget'[t] = [widget[t] EXCEPT !.loading = "no", !.sent = 0]
               \/ widget'[t] = [widget[t] EXCEPT !.loading = "no", !.sent = 0, !.shown = thread,
                                     !.shownTickets = widget[t].shownTickets \cup (tickets \cap {i})],
           widget' = [t \in Tabs |-> widget'[t]]
    PROVE  widget' \in [Tabs -> HelpTab]
<1>1. ASSUME NEW t \in Tabs PROVE widget'[t] \in HelpTab
  <2>1. widget[t] \in HelpTab
    OBVIOUS
  <2>2. [widget[t] EXCEPT !.loading = "no", !.sent = 0] \in HelpTab
    BY <2>1 DEF HelpTab
  <2> DEFINE known == widget[t].shownTickets \cup (tickets \cap {i})
  <2>3. known \in SUBSET Help!Turns
    BY <2>1 DEF HelpTab
  <2> HIDE DEF known
  <2>4. [widget[t] EXCEPT !.loading = "no", !.sent = 0, !.shown = thread, !.shownTickets = known]
           \in HelpTab
    BY <2>1, <2>3 DEF HelpTab
  <2> QED BY <2>1, <2>2, <2>4 DEF known
<1> QED BY <1>1

LEMMA HelpKeepsTypes == HelpInv /\ HelpTypes /\ [Help!Next]_helpVars => HelpTypes'
<1> SUFFICES ASSUME HelpInv, HelpTypes, [Help!Next]_helpVars PROVE HelpTypes'
  OBVIOUS
<1>0. /\ turn \in [Help!Turns -> HelpTurn] /\ thread \in SUBSET HelpRow
      /\ widget \in [Tabs -> HelpTab] /\ tickets \in SUBSET Help!Turns
      /\ \A i \in Help!Turns : turn[i].index \in HelpIndices
  BY DEF HelpInv, HelpTypes, InOrder
\* A tab moves on.
<1>1. ASSUME NEW t \in Tabs, NEW w \in HelpTab, widget' = [widget EXCEPT ![t] = w],
             UNCHANGED <<conversation, tickets>>,
             \A i \in Help!Turns : turn'[i].index \in HelpIndices
      PROVE  HelpTypes'
  BY <1>0, <1>1 DEF HelpTypes
\* A turn moves on.
<1>2. ASSUME NEW i \in Help!Turns, NEW place, Help!Goto(i, place)
      PROVE  \A j \in Help!Turns : turn'[j].index \in HelpIndices
  BY <1>0, <1>2 DEF Help!Goto, HelpTurn
<1>3. ASSUME NEW i \in Help!Turns, Help!Fail(i) PROVE HelpTypes'
  <2>1. widget' \in [Tabs -> HelpTab]
    <3>1. /\ widget' = [t \in Tabs |-> widget'[t]]
          /\ \A t \in Tabs :
               \/ widget'[t] = widget[t]
               \/ widget'[t] = [widget[t] EXCEPT !.loading = "no", !.sent = 0]
      BY <1>3 DEF Help!Fail
    <3> QED BY <1>0, <3>1, TabsAnswered
  <2> QED BY <1>2, <1>3, <2>1 DEF Help!Fail, HelpTypes
<1>4. CASE UNCHANGED helpVars
  BY <1>4 DEF helpVars, HelpTypes
<1>5. ASSUME NEW t \in Tabs, Help!GetCurrentConversation(t) PROVE HelpTypes'
  <2> DEFINE w == [widget[t] EXCEPT !.loading = "read", !.seen = thread, !.seenTickets = tickets]
  <2>1. widget' = [widget EXCEPT ![t] = w] /\ UNCHANGED <<conversation, tickets, turn>>
    BY <1>5 DEF Help!GetCurrentConversation
  <2>2. w \in HelpTab
    BY <1>0 DEF HelpTab
  <2> HIDE DEF w
  <2> QED BY <1>0, <1>1, <2>1, <2>2
<1>6. ASSUME NEW t \in Tabs, Help!Initialize(t) PROVE HelpTypes'
  <2>1. PICK rows, turns :
           /\ widget' = [widget EXCEPT ![t] =
                 [widget[t] EXCEPT !.loading = "no", !.seen = {}, !.seenTickets = {},
                                   !.shown = rows, !.shownTickets = turns]]
           /\ rows \in {widget[t].seen, widget[t].shown}
           /\ turns \in {widget[t].seenTickets, widget[t].shownTickets}
           /\ UNCHANGED <<conversation, tickets, turn>>
    <3>1. CASE widget[t].seen # {} \/ widget[t].seenTickets # {}
      BY <1>6, <3>1 DEF Help!Initialize
    <3>2. CASE ~ (widget[t].seen # {} \/ widget[t].seenTickets # {})
      BY <1>6, <3>2 DEF Help!Initialize
    <3> QED BY <3>1, <3>2
  <2> DEFINE w == [widget[t] EXCEPT !.loading = "no", !.seen = {}, !.seenTickets = {},
                                    !.shown = rows, !.shownTickets = turns]
  <2>2. rows \in SUBSET HelpRow /\ turns \in SUBSET Help!Turns
    BY <1>0, <2>1 DEF HelpTab
  <2>3. w \in HelpTab
    BY <1>0, <2>2 DEF HelpTab
  <2>4. widget' = [widget EXCEPT ![t] = w]
    BY <2>1
  <2> HIDE DEF w
  <2> QED BY <1>0, <1>1, <2>1, <2>3, <2>4
<1>7. ASSUME NEW t \in Tabs, Help!Reload(t) PROVE HelpTypes'
  <2> DEFINE w == [widget[t] EXCEPT !.loading = "reading", !.sent = 0]
  <2>1. widget' = [widget EXCEPT ![t] = w] /\ UNCHANGED <<conversation, tickets, turn>>
    BY <1>7 DEF Help!Reload
  <2>2. w \in HelpTab
    BY <1>0 DEF HelpTab
  <2> HIDE DEF w
  <2> QED BY <1>0, <1>1, <2>1, <2>2
<1>8. ASSUME NEW t \in Tabs, NEW k \in Help!Kinds, Help!SendMessage(t, k) PROVE HelpTypes'
  <2>1. PICK i \in Help!Turns :
            /\ widget' = [widget EXCEPT ![t].loading = "sending", ![t].sent = i]
            /\ turn' = [turn EXCEPT ![i] = [at |-> "find", kind |-> k, index |-> 0]]
            /\ UNCHANGED <<conversation, tickets>>
    BY <1>8 DEF Help!SendMessage
  <2> DEFINE w == [widget[t] EXCEPT !.loading = "sending", !.sent = i]
  <2>2. w \in HelpTab
    BY <1>0 DEF HelpTab
  <2>3. widget' = [widget EXCEPT ![t] = w]
    BY <1>0, <2>1 DEF HelpTab
  <2> HIDE DEF w
  <2>4. 0 \in HelpIndices
    BY SaidIsFinite DEF HelpIndices
  <2>5. \A j \in Help!Turns : turn'[j].index \in HelpIndices
    BY <1>0, <2>1, <2>4
  <2> QED BY <1>1, <2>1, <2>2, <2>3, <2>5
<1>9. ASSUME NEW i \in Help!Turns, Help!CountMessages(i) PROVE HelpTypes'
  <2> DEFINE n == Cardinality(thread) + 1
  <2>1. n \in HelpIndices
    <3>1. turn[i].at = "count" /\ TurnFits(turn[i], i, thread) /\ InOrder(thread)
      BY <1>9 DEF Help!CountMessages, HelpInv
    <3>2. ~ \E row \in thread : row.from = "agent" /\ row.turn = i
      BY <3>1 DEF TurnFits
    <3>3. Cardinality(thread) \in Nat /\ Cardinality(thread) + 1 <= 2 * MaxTurns
      BY <3>1, <3>2, ThreadFitsTheBound
    <3> QED BY <3>3, SaidIsFinite DEF HelpIndices
  <2>2. turn' = [turn EXCEPT ![i].at = "append", ![i].index = n]
        /\ UNCHANGED <<conversation, tickets, widget>>
    BY <1>9, SameHelp DEF Help!CountMessages
  <2> HIDE DEF n
  <2>3. \A j \in Help!Turns : turn'[j].index \in HelpIndices
    BY <1>0, <2>1, <2>2 DEF HelpTurn
  <2> QED BY <2>2, <2>3 DEF HelpTypes
<1>10. ASSUME NEW i \in Help!Turns,
              Help!FindConversation(i) \/ Help!SearchHelp(i) \/ Help!EscalateConversation(i)
              \/ Help!CreateTicket(i)
       PROVE  HelpTypes'
  <2>1. /\ \E place : Help!Goto(i, place)
        /\ UNCHANGED widget /\ tickets' \in {tickets, tickets \cup {i}}
        /\ conversation' \in {conversation, "escalated"}
    BY <1>10
    DEF Help!FindConversation, Help!SearchHelp, Help!EscalateConversation, Help!CreateTicket
  <2> QED BY <1>0, <1>2, <2>1 DEF HelpTypes
<1>11. ASSUME NEW i \in Help!Turns, Help!CreateConversation(i) PROVE HelpTypes'
  <2>1. CASE conversation' = "open" /\ Help!Goto(i, "count") /\ UNCHANGED <<thread, tickets, widget>>
    BY <1>0, <1>2, <2>1 DEF HelpTypes
  <2> QED BY <1>3, <1>11, <2>1 DEF Help!CreateConversation
<1>12. ASSUME NEW i \in Help!Turns, Help!AppendMessage(i) PROVE HelpTypes'
  <2>1. CASE (\E place : Help!Goto(i, place)) /\ UNCHANGED <<conversation, tickets, widget>>
    BY <1>0, <1>2, <2>1 DEF HelpTypes
  <2> QED BY <1>3, <1>12, <2>1 DEF Help!AppendMessage
<1>13. ASSUME NEW i \in Help!Turns, Help!Answer(i) PROVE HelpTypes'
  <2>1. widget' \in [Tabs -> HelpTab]
    <3>1. /\ widget' = [t \in Tabs |-> widget'[t]]
          /\ \A t \in Tabs :
               \/ widget'[t] = widget[t]
               \/ widget'[t] = [widget[t] EXCEPT !.loading = "no", !.sent = 0, !.shown = thread,
                                   !.shownTickets = widget[t].shownTickets \cup (tickets \cap {i})]
      BY <1>13 DEF Help!Answer
    <3> QED BY <1>0, <3>1, TabsAnswered
  <2> QED BY <1>2, <1>13, <2>1 DEF Help!Answer, HelpTypes
<1>14. ASSUME NEW i \in Help!Turns, Help!StatementFails(i) PROVE HelpTypes'
  BY <1>3, <1>14 DEF Help!StatementFails
<1> QED
  BY <1>4, <1>5, <1>6, <1>7, <1>8, <1>9, <1>10, <1>11, <1>12, <1>13, <1>14
  DEF Help!Next, Help!TabStep, Help!TurnStep

LEMMA HelpIsTyped == AllSpec => []Help!TypeOK
<1>1. AllInit => HelpInv /\ HelpTypes
  BY HelpInitInv, HelpInitTypes DEF AllInit
<1>2. HelpInv /\ HelpTypes /\ [AllNext]_allVars => (HelpInv /\ HelpTypes)'
  BY HelpKeepsInv, HelpKeepsTypes, PartsMoveAlone
<1>3. HelpInv /\ HelpTypes => Help!TypeOK
  <2> SUFFICES ASSUME HelpInv, HelpTypes PROVE Help!TypeOK
    OBVIOUS
  <2>1. ASSUME NEW row \in thread PROVE row \in Help!Row
    <3>1. row \in HelpRow /\ row.index \in 1 .. Cardinality(thread) /\ InOrder(thread)
      BY DEF HelpInv, InOrder
    <3>2. Cardinality(thread) \in Nat /\ Cardinality(thread) <= 2 * MaxTurns
      BY <3>1, ThreadFitsTheBound
    <3>3. row.index \in 1 .. 2 * MaxTurns
      BY <3>1, <3>2, SaidIsFinite
    <3> QED BY <3>1, <3>3 DEF HelpRow, Help!Row
  <2>2. \A i \in Help!Turns : turn[i].kind \in Help!Kinds /\ turn[i].index \in 0 .. 2 * MaxTurns
    BY DEF HelpInv, HelpTurn, HelpTypes, HelpIndices
  <2>3. \A t \in Tabs : widget[t].loading \in {"no", "reading", "read", "sending"}
    BY DEF HelpTypes, HelpTab
  <2> QED BY <2>1, <2>2, <2>3 DEF HelpTypes, Help!TypeOK
<1> QED BY <1>1, <1>2, <1>3, PTL DEF AllSpec

-----------------------------------------------------------------------------
(* The texts of a ticket.  A recommendation is numbered when it is stored, *)
(* statements after the investigation was asked for: its number stays      *)
(* within the bound because every request that has yet to store one was    *)
(* counted (InvestigationsCounted).                                        *)

DraftsFit(screens) == \A a \in Admins : screens[a].draft \in Review!Texts

RowsHaveTexts(rows) == \A i \in 1 .. Len(rows) : rows[i].text \in Review!Texts

CallFits(c) ==
    /\ c.text \in Review!Texts
    /\ c.at = "propose" => c.row \in 1 .. MaxInvestigations

ReviewTextsFit ==
    /\ ticket.fix \in Review!Texts
    /\ RowsHaveTexts(recommendations) /\ DraftsFit(dashboard)
    /\ \A a \in Admins : CallFits(call[a])

\* The requests that have yet to store a recommendation.
Recommending(calls) == {a \in Admins : calls[a].at = "recommend"}

ReviewsSpent == [investigations : 0 .. MaxInvestigations, reviews : 0 .. MaxReviews,
                 patches : 0 .. MaxPatches, failures : 0 .. MaxFailures]

InvestigationsCounted ==
    /\ reviewed \in ReviewsSpent
    /\ IsFiniteSet(Recommending(call))
    /\ Len(recommendations) + Cardinality(Recommending(call)) <= reviewed.investigations

LEMMA ReviewInitFits == Review!Init => ReviewTextsFit /\ InvestigationsCounted
<1> SUFFICES ASSUME Review!Init PROVE ReviewTextsFit /\ InvestigationsCounted
  OBVIOUS
<1>1. ticket.fix = Blank /\ recommendations = << >>
  BY DEF Review!Init
<1>2. \A a \in Admins : dashboard[a].draft = Blank
  BY DEF Review!Init, Review!Opened
<1>3. \A a \in Admins : call[a].at = "none" /\ call[a].text = Blank
  BY DEF Review!Init, Review!Idle
<1>4. Recommending(call) = {}
  BY <1>3 DEF Recommending
<1>5. IsFiniteSet(Recommending(call)) /\ Cardinality(Recommending(call)) = 0
  BY <1>4, FS_EmptySet
<1>6. reviewed = [investigations |-> 0, reviews |-> 0, patches |-> 0, failures |-> 0]
  BY DEF Review!Init
<1>7. MaxInvestigations \in Nat /\ MaxReviews \in Nat /\ MaxPatches \in Nat /\ MaxFailures \in Nat
  BY WorkplaceAssumption
<1>8. reviewed \in ReviewsSpent
  BY <1>6, <1>7 DEF ReviewsSpent
<1>9. Len(recommendations) = 0
  BY <1>1
<1>10. InvestigationsCounted
  BY <1>5, <1>6, <1>8, <1>9 DEF InvestigationsCounted
<1>11. ReviewTextsFit
  BY <1>1, <1>2, <1>3, <1>9
  DEF ReviewTextsFit, RowsHaveTexts, DraftsFit, CallFits, Review!Texts
<1> QED BY <1>10, <1>11

\* A request of a that is now at new, with texts that fit.
LEMMA ReviewTextsGoOn ==
    ASSUME ReviewInv, ReviewTextsFit, NEW a \in Admins, NEW new, NowAt(a, new), CallFits(new),
           ticket'.fix \in Review!Texts, RowsHaveTexts(recommendations'), DraftsFit(dashboard')
    PROVE  ReviewTextsFit'
<1>1. \A b \in Admins : call'[b] = IF b = a THEN new ELSE call[b]
  BY DEF ReviewInv, ReviewTyped, NowAt
<1>2. \A b \in Admins : CallFits(call'[b])
  BY <1>1 DEF ReviewTextsFit
<1> QED BY <1>2 DEF ReviewTextsFit

\* Who joins and who leaves the requests that have yet to store one.
LEMMA RecommendingMoves ==
    ASSUME ReviewInv, NEW a \in Admins, NEW new, NowAt(a, new)
    PROVE  Recommending(call') = IF new.at = "recommend" THEN Recommending(call) \cup {a}
                                                         ELSE Recommending(call) \ {a}
<1>1. \A b \in Admins : call'[b] = IF b = a THEN new ELSE call[b]
  BY DEF ReviewInv, ReviewTyped, NowAt
<1> QED BY <1>1 DEF Recommending

\* Requests that neither ask for an investigation nor store one.
LEMMA CountStays ==
    ASSUME ReviewInv, InvestigationsCounted, NEW a \in Admins, NEW new, NowAt(a, new),
           new.at # "recommend",
           Len(recommendations') = Len(recommendations),
           reviewed' \in ReviewsSpent, reviewed'.investigations = reviewed.investigations
    PROVE  InvestigationsCounted'
<1>1. Recommending(call') \subseteq Recommending(call)
  BY RecommendingMoves
<1>2. /\ IsFiniteSet(Recommending(call')) /\ Cardinality(Recommending(call')) \in Nat
      /\ Cardinality(Recommending(call)) \in Nat
      /\ Cardinality(Recommending(call')) <= Cardinality(Recommending(call))
  BY <1>1, FS_Subset, FS_CardinalityType DEF InvestigationsCounted
<1>3. Len(recommendations) \in Nat /\ reviewed.investigations \in Nat
  BY WorkplaceAssumption DEF ReviewInv, ReviewTyped, InvestigationsCounted, ReviewsSpent
<1>4. Len(recommendations') + Cardinality(Recommending(call')) <= reviewed'.investigations
  BY <1>2, <1>3 DEF InvestigationsCounted
<1> QED BY <1>2, <1>4 DEF InvestigationsCounted

LEMMA ReviewsKeepTexts ==
    ReviewInv /\ ReviewTextsFit /\ InvestigationsCounted /\ [Review!Next]_reviewVars
    => (ReviewTextsFit /\ InvestigationsCounted)'
<1> SUFFICES ASSUME ReviewInv, ReviewTextsFit, InvestigationsCounted, [Review!Next]_reviewVars
             PROVE  ReviewTextsFit' /\ InvestigationsCounted'
  OBVIOUS
<1>0. /\ ticket \in ReviewedTicket /\ recommendations \in Seq(Recommendation)
      /\ dashboard \in [Admins -> Dashboard] /\ call \in [Admins -> ReviewCall]
      /\ Len(recommendations) \in Nat
  BY DEF ReviewInv, ReviewTyped
<1>a. /\ ticket.fix \in Review!Texts /\ RowsHaveTexts(recommendations) /\ DraftsFit(dashboard)
      /\ \A a \in Admins : CallFits(call[a])
  BY DEF ReviewTextsFit
<1>b. /\ reviewed \in ReviewsSpent /\ IsFiniteSet(Recommending(call))
      /\ Cardinality(Recommending(call)) \in Nat
      /\ Len(recommendations) + Cardinality(Recommending(call)) <= reviewed.investigations
  BY FS_CardinalityType DEF InvestigationsCounted
<1>c. MaxInvestigations \in Nat /\ MaxReviews \in Nat /\ MaxPatches \in Nat /\ MaxFailures \in Nat
  BY WorkplaceAssumption
<1>d. Blank \in Review!Texts /\ Typed \in Review!Texts
      /\ \A n \in 1 .. MaxInvestigations : n \in Review!Texts
  BY DEF Review!Texts
<1>1. CASE UNCHANGED reviewVars
  BY <1>1 DEF reviewVars, ReviewTextsFit, InvestigationsCounted
<1>2. ASSUME UNCHANGED <<recommendations, call, reviewed>>, ticket' = ticket,
             DraftsFit(dashboard')
      PROVE  ReviewTextsFit' /\ InvestigationsCounted'
  BY <1>2 DEF ReviewTextsFit, InvestigationsCounted
<1>3. ASSUME NEW a \in Admins, Review!SelectTicket(a)
      PROVE  ReviewTextsFit' /\ InvestigationsCounted'
  <2>1. dashboard' = [dashboard EXCEPT ![a] = Review!Shown(dashboard[a])]
        /\ UNCHANGED <<ticket, recommendations, call, reviewed>>
    BY <1>3 DEF Review!SelectTicket
  <2>2. Review!Shown(dashboard[a]).draft = ticket.fix
    BY <1>0 DEF Review!Shown, Dashboard
  <2>3. DraftsFit(dashboard')
    BY <1>0, <1>a, <2>1, <2>2 DEF DraftsFit
  <2> QED BY <1>2, <2>1, <2>3
<1>4. ASSUME NEW a \in Admins, Review!TypeRecommendation(a)
      PROVE  ReviewTextsFit' /\ InvestigationsCounted'
  <2>1. dashboard' = [dashboard EXCEPT ![a].draft = Typed]
        /\ UNCHANGED <<ticket, recommendations, call, reviewed>>
    BY <1>4 DEF Review!TypeRecommendation
  <2>2. DraftsFit(dashboard')
    BY <1>0, <1>a, <1>d, <2>1 DEF DraftsFit, Dashboard
  <2> QED BY <1>2, <2>1, <2>2
<1>5. ASSUME NEW a \in Admins, Review!InvestigateSelectedTicket(a)
      PROVE  ReviewTextsFit' /\ InvestigationsCounted'
  <2> DEFINE new == [call[a] EXCEPT !.at = "recommend"]
             next == [reviewed EXCEPT !.investigations = @ + 1]
  <2>1. /\ NowAt(a, new) /\ UNCHANGED <<ticket, recommendations, sent>>
        /\ call[a].at = "none" /\ reviewed.investigations < MaxInvestigations
        /\ reviewed' = next
        /\ dashboard' = [dashboard EXCEPT ![a].busy = "running"]
    BY <1>5 DEF Review!InvestigateSelectedTicket, NowAt
  <2>2. new.at = "recommend" /\ new.text = call[a].text
    BY <1>0 DEF ReviewCall
  <2>3. next \in ReviewsSpent /\ next.investigations = reviewed.investigations + 1
    BY <1>b, <1>c, <2>1 DEF ReviewsSpent
  <2>4. DraftsFit(dashboard')
    BY <1>0, <1>a, <2>1 DEF DraftsFit, Dashboard
  <2> HIDE DEF new, next
  <2>5. CallFits(new)
    BY <1>a, <2>2 DEF CallFits
  <2>6. ReviewTextsFit'
    BY <1>a, <2>1, <2>4, <2>5, ReviewTextsGoOn
  <2>7. a \notin Recommending(call) /\ Recommending(call') = Recommending(call) \cup {a}
    BY <2>1, <2>2, RecommendingMoves DEF Recommending
  <2>8. /\ IsFiniteSet(Recommending(call'))
        /\ Cardinality(Recommending(call')) = Cardinality(Recommending(call)) + 1
    BY <1>b, <2>7, FS_AddElement
  <2>9. reviewed.investigations \in Nat
    BY <1>b, <1>c DEF ReviewsSpent
  <2>10. Len(recommendations) + (Cardinality(Recommending(call)) + 1) <= reviewed.investigations + 1
    BY <1>0, <1>b, <2>9
  <2>11. InvestigationsCounted'
    BY <2>1, <2>3, <2>8, <2>10 DEF InvestigationsCounted
  <2> QED BY <2>6, <2>11
<1>6. ASSUME NEW a \in Admins, NEW action_ \in Review!ReviewActions,
             Review!ReviewSelectedTicket(a, action_)
      PROVE  ReviewTextsFit' /\ InvestigationsCounted'
  <2> DEFINE new == [Review!Idle EXCEPT !.at = "latest", !.action = action_,
                                        !.text = dashboard[a].draft]
             next == [reviewed EXCEPT !.reviews = @ + 1]
  <2>1. /\ NowAt(a, new) /\ UNCHANGED <<ticket, recommendations, dashboard>>
        /\ call[a].at = "none" /\ reviewed.reviews < MaxReviews /\ reviewed' = next
    BY <1>6 DEF Review!ReviewSelectedTicket, NowAt
  <2>2. new.at = "latest" /\ new.text = dashboard[a].draft
    BY DEF Review!Idle
  <2>3. next \in ReviewsSpent /\ next.investigations = reviewed.investigations
    BY <1>b, <1>c, <2>1 DEF ReviewsSpent
  <2> HIDE DEF new, next
  <2>4. CallFits(new)
    BY <1>a, <2>2 DEF CallFits, DraftsFit
  <2>5. ReviewTextsFit'
    BY <1>a, <2>1, <2>4, ReviewTextsGoOn
  <2>6. InvestigationsCounted'
    BY <2>1, <2>2, <2>3, CountStays
  <2> QED BY <2>5, <2>6
<1>7. ASSUME NEW a \in Admins, Review!CreateRecommendation(a)
      PROVE  ReviewTextsFit' /\ InvestigationsCounted'
  <2> DEFINE row == Len(recommendations) + 1
             new == [call[a] EXCEPT !.at = "propose", !.row = row]
             written == [text |-> row, status |-> "PENDING_REVIEW"]
  <2>1. /\ NowAt(a, new) /\ UNCHANGED <<ticket, dashboard, reviewed>>
        /\ call[a].at = "recommend" /\ recommendations' = Append(recommendations, written)
    BY <1>7 DEF Review!CreateRecommendation, NowAt
  <2>2. new.at = "propose" /\ new.row = row /\ new.text = call[a].text
    BY <1>0 DEF ReviewCall
  <2>3. a \in Recommending(call) /\ Recommending(call') = Recommending(call) \ {a}
    BY <2>1, <2>2, RecommendingMoves DEF Recommending
  <2>4. /\ IsFiniteSet(Recommending(call'))
        /\ Cardinality(Recommending(call')) = Cardinality(Recommending(call)) - 1
        /\ Cardinality(Recommending(call')) \in Nat
    BY <1>b, <2>3, FS_RemoveElement, FS_CardinalityType
  <2>5. reviewed.investigations \in Nat /\ reviewed.investigations <= MaxInvestigations
    BY <1>b, <1>c DEF ReviewsSpent
  <2>6. row \in 1 .. MaxInvestigations
    BY <1>0, <1>b, <1>c, <2>4, <2>5
  <2>7. written.text = row
    OBVIOUS
  <2>8. Len(recommendations') = row
        /\ \A i \in 1 .. row : recommendations'[i] = IF i = row THEN written ELSE recommendations[i]
    BY <1>0, <2>1
  <2>r. row = Len(recommendations) + 1
    OBVIOUS
  <2> HIDE DEF row, new, written
  <2>9. RowsHaveTexts(recommendations')
    <3> SUFFICES ASSUME NEW i \in 1 .. row PROVE recommendations'[i].text \in Review!Texts
      BY <2>8 DEF RowsHaveTexts
    <3>1. CASE i = row
      BY <1>d, <2>6, <2>7, <2>8, <3>1
    <3>2. CASE i # row
      <4>1. i \in 1 .. Len(recommendations)
        BY <1>0, <2>r, <3>2
      <4> QED BY <1>a, <2>8, <3>2, <4>1 DEF RowsHaveTexts
    <3> QED BY <3>1, <3>2
  <2>10. CallFits(new)
    BY <1>a, <2>2, <2>6 DEF CallFits
  <2>11. ReviewTextsFit'
    BY <1>a, <2>1, <2>9, <2>10, ReviewTextsGoOn
  <2>12. row + (Cardinality(Recommending(call)) - 1) <= reviewed.investigations
    BY <1>0, <1>b, <2>5, <2>r
  <2>13. InvestigationsCounted'
    BY <1>b, <2>1, <2>4, <2>8, <2>12 DEF InvestigationsCounted
  <2> QED BY <2>11, <2>13
<1>8. ASSUME NEW a \in Admins, Review!ProposeFix(a)
      PROVE  ReviewTextsFit' /\ InvestigationsCounted'
  <2> DEFINE new == [call[a] EXCEPT !.at = "respond"]
  <2>1. /\ NowAt(a, new) /\ UNCHANGED <<recommendations, dashboard, reviewed>>
        /\ call[a].at = "propose" /\ ticket'.fix = call[a].row
    BY <1>8 DEF Review!ProposeFix, NowAt
  <2>2. new.at = "respond" /\ new.text = call[a].text
    BY <1>0 DEF ReviewCall
  <2> HIDE DEF new
  <2>3. CallFits(new) /\ ticket'.fix \in Review!Texts
    BY <1>a, <1>d, <2>1, <2>2 DEF CallFits
  <2> QED BY <1>a, <1>b, <2>1, <2>2, <2>3, ReviewTextsGoOn, CountStays
<1>9. ASSUME NEW a \in Admins, Review!FindLatest(a)
      PROVE  ReviewTextsFit' /\ InvestigationsCounted'
  <2>1. PICK new : NowAt(a, new) /\ new.text \in {Blank, call[a].text} /\ new.at \in {"none", "decide"}
    <3>1. Review!Idle.text = Blank /\ Review!Idle.at = "none"
      BY DEF Review!Idle
    <3>2. CASE call' = [call EXCEPT ![a] = Review!Idle]
      BY <3>1, <3>2 DEF NowAt
    <3>3. CASE \E row_, decision_ : call' = [call EXCEPT ![a].at = "decide", ![a].row = row_,
                                                         ![a].decision = decision_]
      <4>1. PICK row_, decision_ :
               call' = [call EXCEPT ![a].at = "decide", ![a].row = row_,
                                    ![a].decision = decision_]
        BY <3>3
      <4> DEFINE new == [call[a] EXCEPT !.at = "decide", !.row = row_, !.decision = decision_]
      <4>2. NowAt(a, new)
        BY <1>0, <4>1 DEF NowAt
      <4>3. new.at = "decide" /\ new.text = call[a].text
        BY <1>0 DEF ReviewCall
      <4> QED BY <4>2, <4>3
    <3> QED BY <1>9, <3>2, <3>3 DEF Review!FindLatest
  <2>2. UNCHANGED <<ticket, recommendations, dashboard, reviewed>> /\ call[a].at = "latest"
    BY <1>9 DEF Review!FindLatest
  <2>3. CallFits(new)
    BY <1>a, <1>d, <2>1 DEF CallFits
  <2> QED BY <1>a, <1>b, <2>1, <2>2, <2>3, ReviewTextsGoOn, CountStays
<1>10. ASSUME NEW a \in Admins, Review!UpdateRecommendation(a)
       PROVE  ReviewTextsFit' /\ InvestigationsCounted'
  <2> DEFINE new == [call[a] EXCEPT !.at = "settle"]
             written == [text |-> call[a].text, status |-> call[a].decision]
  <2>1. /\ NowAt(a, new) /\ UNCHANGED <<ticket, dashboard, reviewed>>
        /\ call[a].at = "decide"
        /\ recommendations' = [recommendations EXCEPT ![call[a].row] = written]
    BY <1>10 DEF Review!UpdateRecommendation, NowAt
  <2>2. new.at = "settle" /\ new.text = call[a].text
    BY <1>0 DEF ReviewCall
  <2>3. written.text = call[a].text
    OBVIOUS
  <2>4. /\ Len(recommendations') = Len(recommendations)
        /\ \A i \in 1 .. Len(recommendations) :
              recommendations'[i] \in {written, recommendations[i]}
    BY <1>0, <2>1
  <2> HIDE DEF new, written
  <2>5. CallFits(new)
    BY <1>a, <2>2 DEF CallFits
  <2>6. RowsHaveTexts(recommendations')
    BY <1>a, <2>3, <2>4 DEF RowsHaveTexts, CallFits
  <2> QED BY <1>a, <1>b, <2>1, <2>2, <2>4, <2>5, <2>6, ReviewTextsGoOn, CountStays
<1>11. ASSUME NEW a \in Admins, Review!SettleTicket(a)
       PROVE  ReviewTextsFit' /\ InvestigationsCounted'
  <2> DEFINE new == [call[a] EXCEPT !.at = "respond"]
  <2>1. /\ NowAt(a, new) /\ UNCHANGED <<recommendations, dashboard, reviewed>>
        /\ call[a].at = "settle" /\ ticket'.fix = call[a].text
    BY <1>11 DEF Review!SettleTicket, NowAt
  <2>2. new.at = "respond" /\ new.text = call[a].text
    BY <1>0 DEF ReviewCall
  <2> HIDE DEF new
  <2>3. CallFits(new) /\ ticket'.fix \in Review!Texts
    BY <1>a, <2>1, <2>2 DEF CallFits
  <2> QED BY <1>a, <1>b, <2>1, <2>2, <2>3, ReviewTextsGoOn, CountStays
<1>12. ASSUME NEW a \in Admins, Review!Respond(a)
       PROVE  ReviewTextsFit' /\ InvestigationsCounted'
  <2> DEFINE seen == Review!Answered(dashboard[a])
  <2>1. /\ NowAt(a, Review!Idle) /\ UNCHANGED <<ticket, recommendations, reviewed>>
        /\ call[a].at = "respond" /\ dashboard' = [dashboard EXCEPT ![a] = seen]
    BY <1>12 DEF Review!Respond, NowAt
  <2>2. seen.draft = ticket.fix
    BY <1>0 DEF Review!Answered, Review!Shown, Dashboard
  <2> HIDE DEF seen
  <2>3. DraftsFit(dashboard')
    BY <1>0, <1>a, <2>1, <2>2 DEF DraftsFit
  <2>4. Review!Idle.text = Blank /\ Review!Idle.at = "none"
    BY DEF Review!Idle
  <2>5. CallFits(Review!Idle)
    BY <1>d, <2>4 DEF CallFits
  <2> QED BY <1>a, <1>b, <2>1, <2>3, <2>4, <2>5, ReviewTextsGoOn, CountStays
<1>13. ASSUME NEW fix \in {ticket.fix, Typed}, Review!UpdateTicket("CLOSED", fix)
       PROVE  ReviewTextsFit' /\ InvestigationsCounted'
  <2> DEFINE next == [reviewed EXCEPT !.patches = @ + 1]
  <2>1. /\ ticket' = [ticket EXCEPT !.status = "CLOSED", !.fix = fix]
        /\ reviewed.patches < MaxPatches /\ reviewed' = next
        /\ UNCHANGED <<recommendations, dashboard, call>>
    BY <1>13 DEF Review!UpdateTicket
  <2>2. ticket'.fix \in Review!Texts
    BY <1>0, <1>a, <1>d, <2>1 DEF ReviewedTicket
  <2>3. next \in ReviewsSpent /\ next.investigations = reviewed.investigations
    BY <1>b, <1>c, <2>1 DEF ReviewsSpent
  <2> HIDE DEF next
  <2>4. ReviewTextsFit'
    BY <1>a, <2>1, <2>2 DEF ReviewTextsFit
  <2>5. InvestigationsCounted'
    BY <1>b, <2>1, <2>3 DEF InvestigationsCounted
  <2> QED BY <2>4, <2>5
<1>14. ASSUME NEW a \in Admins, Review!NgOnInit(a)
       PROVE  ReviewTextsFit' /\ InvestigationsCounted'
  <2>1. dashboard' = [dashboard EXCEPT ![a] = Review!Opened]
        /\ UNCHANGED <<ticket, recommendations, call, reviewed>>
    BY <1>14 DEF Review!NgOnInit
  <2>2. Review!Opened.draft = Blank
    BY DEF Review!Opened
  <2>3. DraftsFit(dashboard')
    BY <1>0, <1>a, <1>d, <2>1, <2>2 DEF DraftsFit
  <2> QED BY <1>2, <2>1, <2>3
<1>15. ASSUME NEW a \in Admins, Review!StatementFails(a)
       PROVE  ReviewTextsFit' /\ InvestigationsCounted'
  <2> DEFINE seen == [dashboard[a] EXCEPT !.busy = IF @ = "running" THEN "left" ELSE @]
             next == [reviewed EXCEPT !.failures = @ + 1]
  <2>1. /\ NowAt(a, Review!Idle) /\ UNCHANGED <<ticket, recommendations>>
        /\ reviewed.failures < MaxFailures /\ reviewed' = next
        /\ dashboard' = [dashboard EXCEPT ![a] = seen]
    BY <1>15 DEF Review!StatementFails, NowAt
  <2>2. seen.draft = dashboard[a].draft
    BY <1>0 DEF Dashboard
  <2>3. next \in ReviewsSpent /\ next.investigations = reviewed.investigations
    BY <1>b, <1>c, <2>1 DEF ReviewsSpent
  <2> HIDE DEF seen, next
  <2>4. DraftsFit(dashboard')
    BY <1>0, <1>a, <2>1, <2>2 DEF DraftsFit
  <2>5. Review!Idle.text = Blank /\ Review!Idle.at = "none"
    BY DEF Review!Idle
  <2>6. CallFits(Review!Idle)
    BY <1>d, <2>5 DEF CallFits
  <2> QED BY <1>a, <1>b, <2>1, <2>3, <2>4, <2>5, <2>6, ReviewTextsGoOn, CountStays
<1> QED
  BY <1>1, <1>3, <1>4, <1>5, <1>6, <1>7, <1>8, <1>9, <1>10, <1>11, <1>12, <1>13,
     <1>14, <1>15
  DEF Review!Next, Review!ServiceStep

LEMMA ReviewIsTyped == AllSpec => []Review!TypeOK
<1> DEFINE RInv == ReviewInv /\ ReviewTextsFit /\ InvestigationsCounted
<1>1. AllInit => RInv
  BY ReviewInitInv, ReviewInitFits DEF AllInit
<1>2. RInv /\ [AllNext]_allVars => RInv'
  BY ReviewsKeepInv, ReviewsKeepTexts, PartsMoveAlone
<1>3. RInv => Review!TypeOK
  <2> SUFFICES ASSUME RInv PROVE Review!TypeOK
    OBVIOUS
  <2>1. ticket \in [status : Review!Statuses, review : Review!Reviews, fix : Review!Texts]
    BY DEF ReviewInv, ReviewTyped, ReviewedTicket, ReviewTextsFit
  <2>2. \A i \in DOMAIN recommendations :
           recommendations[i] \in [text : Review!Texts, status : Review!Reviews]
    <3> SUFFICES ASSUME NEW i \in DOMAIN recommendations
                 PROVE  recommendations[i] \in [text : Review!Texts, status : Review!Reviews]
      OBVIOUS
    <3>1. recommendations \in Seq(Recommendation) /\ RowsHaveTexts(recommendations)
      BY DEF ReviewInv, ReviewTyped, ReviewTextsFit
    <3>2. i \in 1 .. Len(recommendations) /\ recommendations[i] \in Recommendation
      BY <3>1
    <3> QED BY <3>1, <3>2 DEF RowsHaveTexts, Recommendation
  <2>3. reviewed \in ReviewsSpent /\ \A a \in Admins : dashboard[a].busy \in {"no", "running", "left"}
    BY DEF InvestigationsCounted, ReviewInv, ReviewTyped, Dashboard
  <2> QED BY <2>1, <2>2, <2>3 DEF ReviewsSpent, Review!TypeOK
<1> QED BY <1>1, <1>2, <1>3, PTL DEF AllSpec

-----------------------------------------------------------------------------
\* The variables of every part hold values of their types in every state: no counter
\* passes its bound, a version has one row, what the screens show and what the
\* requests carry is what the services can send.
THEOREM WorkplaceTypes == AllSpec => []AllTypeOK
BY ArtifactsBounded, TestsAreTyped, ScreenIsTyped, AdminIsTyped, HelpIsTyped, ReviewIsTyped,
   LogIsTyped, PTL DEF AllTypeOK
=============================================================================
