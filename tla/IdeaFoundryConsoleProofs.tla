----------------------- MODULE IdeaFoundryConsoleProofs -----------------------
(***************************************************************************)
(* Proofs about IdeaFoundryConsole, for any number of processes, owners    *)
(* and operators, and whatever the bounds.  As in WorkplaceProofs, a step  *)
(* of the system is a step of one part (PartsMoveAlone), so that each part *)
(* has an invariant of its own.                                            *)
(***************************************************************************)
EXTENDS IdeaFoundryConsole, FiniteSetTheorems, SequenceTheorems, TLAPS

\* What a step of the system is to each of its parts.
LEMMA PartsMoveAlone ==
    ASSUME [Next]_vars
    PROVE  /\ [Schedule!Next]_scheduleVars /\ [Policy!Next]_policyVars
           /\ [Board!Next]_boardVars /\ [Contents!Next]_contentsVars
           /\ [History!Next]_historyVars /\ [Strategy!Next]_strategyVars
<1>1. CASE UNCHANGED vars
  BY <1>1 DEF vars
<1>2. CASE Only("schedule") /\ Schedule!Next
  BY <1>2 DEF Only
<1>3. CASE Only("policy") /\ Policy!Next
  BY <1>3 DEF Only
<1>4. CASE Only("board") /\ Board!Next
  BY <1>4 DEF Only
<1>5. CASE Only("contents") /\ Contents!Next
  BY <1>5 DEF Only
<1>6. CASE Only("history") /\ History!Next
  BY <1>6 DEF Only
<1>7. CASE Only("strategy") /\ Strategy!Next
  BY <1>7 DEF Only
<1> QED BY <1>1, <1>2, <1>3, <1>4, <1>5, <1>6, <1>7 DEF Next

-----------------------------------------------------------------------------
(* The policies of the stages.  A pass that wrote RUNNING ends through a   *)
(* statement that writes another word, or it leaves that it threw; a save  *)
(* and the passes of others leave both as they are, or write a word of     *)
(* their own.                                                              *)

PolicyNumbers == 0 .. MaxAsks
StageStatus == {"idle", "RUNNING", "COMPLETED", "FAILED"}
PolicyRow == [policy : PolicyNumbers, status : StageStatus, by : Policy!Runners \cup {"none"}]
PassRecord ==
    {p \in [at : {"none", "read", "running", "ended"}, left : BOOLEAN] :
        p.at \in {"running", "ended"} => p.left = FALSE}
DisplayRecord == [draft : PolicyNumbers, status : StageStatus]
BusyRecord == [kind : {"none", "load", "save", "run"}, at : {"none", "asked", "answered"},
               got : [policy : PolicyNumbers, status : StageStatus]]

\* A pass that may have left the word RUNNING where it is.
Runs(p) == p.at = "running" \/ p.left

StatusFits(r, passes) == r.status = "RUNNING" => r.by \in Policy!Runners /\ Runs(passes[r.by])

PolicyInv ==
    /\ asks \in Nat
    /\ policy \in PolicyRow
    /\ pass \in [Policy!Runners -> PassRecord]
    /\ display \in [Operators -> DisplayRecord]
    /\ busy \in [Operators -> BusyRecord]
    /\ StatusFits(policy, pass)

LEMMA DraftNumbers == 0 \in PolicyNumbers /\ \A n \in Nat : n < MaxAsks => n + 1 \in PolicyNumbers
<1>1. MaxAsks \in Nat
  BY ConsoleAssumption
<1> QED BY <1>1 DEF PolicyNumbers

LEMMA PolicyConstants ==
    /\ Policy!NoPass \in PassRecord /\ Policy!NoPass.at = "none" /\ Policy!Free \in BusyRecord
    /\ Operators \subseteq Policy!Runners /\ Callers \subseteq Policy!Runners
BY DraftNumbers
   DEF Policy!NoPass, Policy!Free, PassRecord, BusyRecord, StageStatus, Policy!Runners

LEMMA PolicyInitInv == Policy!Init => PolicyInv
<1> SUFFICES ASSUME Policy!Init PROVE PolicyInv
  OBVIOUS
<1>1. policy \in PolicyRow /\ policy.status = "idle" /\ asks \in Nat
  BY DraftNumbers DEF Policy!Init, PolicyRow, StageStatus
<1>2. pass \in [Policy!Runners -> PassRecord]
  BY PolicyConstants DEF Policy!Init
<1>3. display \in [Operators -> DisplayRecord]
  BY DraftNumbers DEF Policy!Init, DisplayRecord, StageStatus
<1>4. [Policy!Free EXCEPT !.kind = "load", !.at = "asked"] \in BusyRecord
  BY PolicyConstants DEF BusyRecord
<1>5. busy \in [Operators -> BusyRecord]
  BY <1>4 DEF Policy!Init
<1> QED BY <1>1, <1>2, <1>3, <1>5 DEF PolicyInv, StatusFits

\* Steps of the page and of the requests that no pass is about.
LEMMA PagesKeepPolicyInv ==
    ASSUME PolicyInv, UNCHANGED <<policy, pass>>, asks' \in Nat,
           display' \in [Operators -> DisplayRecord], busy' \in [Operators -> BusyRecord]
    PROVE  PolicyInv'
BY DEF PolicyInv

LEMMA AskingIsTyped ==
    ASSUME PolicyInv, NEW o \in Operators, NEW kind \in {"load", "save", "run"},
           Policy!Ask(o, kind)
    PROVE  /\ asks' \in Nat /\ asks + 1 \in PolicyNumbers
           /\ busy' \in [Operators -> BusyRecord] /\ UNCHANGED <<policy, pass>>
<1>1. asks' \in Nat /\ asks + 1 \in PolicyNumbers /\ UNCHANGED <<policy, pass>>
  BY DraftNumbers DEF PolicyInv, Policy!Ask
<1>2. [Policy!Free EXCEPT !.kind = kind, !.at = "asked"] \in BusyRecord
  BY PolicyConstants DEF BusyRecord
<1>3. busy' \in [Operators -> BusyRecord]
  BY <1>2 DEF PolicyInv, Policy!Ask
<1> QED BY <1>1, <1>3

LEMMA ReplyIsTyped ==
    ASSUME PolicyInv, NEW o \in Operators, NEW r \in PolicyRow
    PROVE  Policy!Reply(o, r) \in [Operators -> BusyRecord]
<1>1. [policy |-> r.policy, status |-> r.status] \in [policy : PolicyNumbers, status : StageStatus]
  BY DEF PolicyRow
<1> QED BY <1>1 DEF PolicyInv, Policy!Reply, BusyRecord

\* A pass goes on or ends.
LEMMA PassMoves ==
    ASSUME PolicyInv, NEW r \in Policy!Runners, NEW p \in PassRecord,
           pass' = [pass EXCEPT ![r] = p], policy' \in PolicyRow,
           \/ policy' = policy /\ (Runs(pass[r]) => Runs(p))
           \/ policy'.by = r /\ (policy'.status = "RUNNING" => Runs(p))
    PROVE  pass' \in [Policy!Runners -> PassRecord] /\ StatusFits(policy', pass')
<1>1. /\ pass' \in [Policy!Runners -> PassRecord] /\ pass'[r] = p
      /\ \A q \in Policy!Runners : q # r => pass'[q] = pass[q]
  BY DEF PolicyInv
<1>2. CASE policy' = policy /\ (Runs(pass[r]) => Runs(p))
  BY <1>1, <1>2 DEF PolicyInv, StatusFits
<1>3. CASE policy'.by = r /\ (policy'.status = "RUNNING" => Runs(p))
  BY <1>1, <1>3 DEF StatusFits
<1> QED BY <1>1, <1>2, <1>3

\* What the pass writes into the row.
LEMMA StatusWritten ==
    ASSUME PolicyInv, NEW r \in Policy!Runners, NEW status \in StageStatus,
           Policy!WriteStatus(r, status)
    PROVE  policy' \in PolicyRow /\ policy'.status = status /\ policy'.by = r
BY DEF PolicyInv, PolicyRow, Policy!WriteStatus

LEMMA ThrowsIsTyped ==
    ASSUME PolicyInv, NEW r \in Policy!Runners, Policy!Throws(r)
    PROVE  /\ busy' \in [Operators -> BusyRecord] /\ UNCHANGED <<display, asks>>
BY PolicyConstants DEF PolicyInv, Policy!Throws, Policy!Released

LEMMA PassKeepsPolicyInv ==
    ASSUME PolicyInv, NEW r \in Policy!Runners,
           \/ Policy!ReadPolicy(r) \/ Policy!BeginPass(r) \/ Policy!EndPass(r)
           \/ Policy!StageThrows(r) \/ Policy!PassThrows(r)
    PROVE  PolicyInv'
<1>0. /\ pass \in [Policy!Runners -> PassRecord] /\ pass[r] \in PassRecord
      /\ policy \in PolicyRow /\ asks \in Nat
      /\ display \in [Operators -> DisplayRecord] /\ busy \in [Operators -> BusyRecord]
  BY DEF PolicyInv
<1>1. CASE Policy!ReadPolicy(r)
  <2> DEFINE p == [pass[r] EXCEPT !.at = "read"]
  <2>1. pass' = [pass EXCEPT ![r] = p] /\ UNCHANGED <<policy, display, busy, asks>>
    BY <1>1 DEF Policy!ReadPolicy
  <2>2. p \in PassRecord /\ (Runs(pass[r]) => Runs(p))
    BY <1>0, <1>1 DEF Policy!ReadPolicy, PassRecord, Runs
  <2> HIDE DEF p
  <2>3. pass' \in [Policy!Runners -> PassRecord] /\ StatusFits(policy', pass')
    BY <1>0, <2>1, <2>2, PassMoves
  <2> QED BY <1>0, <2>1, <2>3 DEF PolicyInv
<1>2. CASE Policy!BeginPass(r)
  <2> DEFINE p == [pass[r] EXCEPT !.at = "running", !.left = FALSE]
  <2>1. pass' = [pass EXCEPT ![r] = p] /\ UNCHANGED <<display, busy, asks>>
    BY <1>2 DEF Policy!BeginPass
  <2>2. p \in PassRecord /\ Runs(p)
    BY <1>0 DEF PassRecord, Runs
  <2>3. policy' \in PolicyRow /\ policy'.by = r
    BY <1>2, StatusWritten DEF Policy!BeginPass, StageStatus
  <2> HIDE DEF p
  <2>4. pass' \in [Policy!Runners -> PassRecord] /\ StatusFits(policy', pass')
    BY <2>1, <2>2, <2>3, PassMoves
  <2> QED BY <1>0, <2>1, <2>3, <2>4 DEF PolicyInv
<1>3. CASE Policy!EndPass(r)
  <2> DEFINE p == IF r \in Operators THEN [pass[r] EXCEPT !.at = "ended"] ELSE Policy!NoPass
  <2>1. pass' = [pass EXCEPT ![r] = p] /\ UNCHANGED <<display, busy, asks>>
    BY <1>3 DEF Policy!EndPass
  <2>2. p \in PassRecord
    BY <1>0, <1>3, PolicyConstants DEF PassRecord, Policy!EndPass
  <2>3. policy' \in PolicyRow /\ policy'.by = r /\ policy'.status # "RUNNING"
    <3>1. PICK status \in {"COMPLETED", "FAILED"} : Policy!WriteStatus(r, status)
      BY <1>3 DEF Policy!EndPass
    <3> QED BY <3>1, StatusWritten DEF StageStatus
  <2> HIDE DEF p
  <2>4. pass' \in [Policy!Runners -> PassRecord] /\ StatusFits(policy', pass')
    BY <2>1, <2>2, <2>3, PassMoves
  <2> QED BY <1>0, <2>1, <2>3, <2>4 DEF PolicyInv
<1>4. CASE Policy!StageThrows(r)
  <2>1. pass' = [pass EXCEPT ![r] = Policy!NoPass]
    BY <1>4 DEF Policy!StageThrows
  <2>2. policy' \in PolicyRow /\ policy'.by = r /\ policy'.status # "RUNNING"
    BY <1>4, StatusWritten DEF Policy!StageThrows, StageStatus
  <2>3. pass' \in [Policy!Runners -> PassRecord] /\ StatusFits(policy', pass')
    BY <2>1, <2>2, PolicyConstants, PassMoves
  <2>4. busy' \in [Operators -> BusyRecord] /\ UNCHANGED <<display, asks>>
    BY <1>4, ThrowsIsTyped DEF Policy!StageThrows
  <2> QED BY <1>0, <2>2, <2>3, <2>4 DEF PolicyInv
<1>5. CASE Policy!PassThrows(r)
  <2> DEFINE p == [Policy!NoPass EXCEPT !.left = Policy!Left(r)]
  <2>1. pass' = [pass EXCEPT ![r] = p] /\ UNCHANGED policy
    BY <1>5 DEF Policy!PassThrows
  <2>2. p \in PassRecord /\ (Runs(pass[r]) => Runs(p))
    BY <1>0, Zenon DEF PassRecord, Runs, Policy!Left, Policy!NoPass
  <2> HIDE DEF p
  <2>3. pass' \in [Policy!Runners -> PassRecord] /\ StatusFits(policy', pass')
    BY <1>0, <2>1, <2>2, PassMoves
  <2>4. busy' \in [Operators -> BusyRecord] /\ UNCHANGED <<display, asks>>
    BY <1>5, ThrowsIsTyped DEF Policy!PassThrows
  <2> QED BY <1>0, <2>1, <2>3, <2>4 DEF PolicyInv
<1> QED BY <1>1, <1>2, <1>3, <1>4, <1>5

LEMMA PolicyStepInv == PolicyInv /\ [Policy!Next]_policyVars => PolicyInv'
<1> SUFFICES ASSUME PolicyInv, [Policy!Next]_policyVars PROVE PolicyInv'
  OBVIOUS
<1>0. CASE UNCHANGED policyVars
  BY <1>0 DEF policyVars, PolicyInv
<1>1. ASSUME NEW r \in Policy!Runners,
             \/ Policy!ReadPolicy(r) \/ Policy!BeginPass(r) \/ Policy!EndPass(r)
             \/ Policy!StageThrows(r) \/ Policy!PassThrows(r)
      PROVE  PolicyInv'
  BY <1>1, PassKeepsPolicyInv
<1>2. ASSUME NEW o \in Operators, Policy!Reload(o) \/ Policy!RunAgent(o) PROVE PolicyInv'
  BY <1>2, AskingIsTyped, PagesKeepPolicyInv DEF Policy!Reload, Policy!RunAgent, PolicyInv
<1>3. ASSUME NEW o \in Operators, Policy!SaveChanges(o) PROVE PolicyInv'
  <2>1. asks' \in Nat /\ asks + 1 \in PolicyNumbers
        /\ busy' \in [Operators -> BusyRecord] /\ UNCHANGED <<policy, pass>>
    BY <1>3, AskingIsTyped DEF Policy!SaveChanges
  <2>2. display' \in [Operators -> DisplayRecord]
    BY <1>3, <2>1 DEF Policy!SaveChanges, DisplayRecord, PolicyInv
  <2> QED BY <2>1, <2>2, PagesKeepPolicyInv
<1>4. ASSUME NEW o \in Operators, Policy!RequestFails(o) PROVE PolicyInv'
  BY <1>4, PolicyConstants, PagesKeepPolicyInv DEF Policy!RequestFails, Policy!Released, PolicyInv
<1>5. ASSUME NEW o \in Operators, Policy!Answered(o) PROVE PolicyInv'
  <2>1. [draft |-> busy[o].got.policy, status |-> busy[o].got.status] \in DisplayRecord
    BY <1>5 DEF BusyRecord, DisplayRecord, PolicyInv
  <2> QED BY <1>5, <2>1, PolicyConstants, PagesKeepPolicyInv DEF Policy!Answered, PolicyInv
<1>6. ASSUME NEW o \in Operators, Policy!GetConfiguration(o) PROVE PolicyInv'
  BY <1>6, ReplyIsTyped, PagesKeepPolicyInv DEF Policy!GetConfiguration, PolicyInv
<1>7. ASSUME NEW o \in Operators, Policy!SaveConfiguration(o) PROVE PolicyInv'
  <2>1. policy' \in PolicyRow /\ policy'.status = policy.status /\ policy'.by = policy.by
    BY <1>7 DEF Policy!SaveConfiguration, Policy!Saved, PolicyRow, DisplayRecord, PolicyInv
  <2>2. busy' \in [Operators -> BusyRecord] /\ UNCHANGED <<pass, display, asks>>
    BY <1>7, <2>1, ReplyIsTyped DEF Policy!SaveConfiguration
  <2> QED BY <2>1, <2>2 DEF PolicyInv, StatusFits
<1>8. ASSUME NEW o \in Operators, Policy!RefreshAfterRun(o) PROVE PolicyInv'
  <2>1. /\ busy' \in [Operators -> BusyRecord] /\ UNCHANGED <<policy, display, asks>>
        /\ pass' = [pass EXCEPT ![o] = Policy!NoPass] /\ pass[o].at = "ended"
    BY <1>8, ReplyIsTyped DEF Policy!RefreshAfterRun, PolicyInv
  <2>2. ~ Runs(pass[o])
    <3>1. pass[o] \in PassRecord
      BY PolicyConstants DEF PolicyInv
    <3> QED BY <2>1, <3>1 DEF Runs, PassRecord
  <2> QED BY <2>1, <2>2, PassMoves, PolicyConstants DEF PolicyInv
<1>9. CASE Policy!Next
  <2>1. Operators \subseteq Policy!Runners /\ Callers \subseteq Policy!Runners
    BY PolicyConstants
  <2> QED BY <1>1, <1>2, <1>3, <1>4, <1>5, <1>6, <1>7, <1>8, <1>9, <2>1, Zenon
      DEF Policy!Next, Policy!Serve
<1> QED BY <1>0, <1>9

LEMMA PolicyIsSound == Spec => []PolicyInv
<1>1. Init => PolicyInv
  BY PolicyInitInv DEF Init
<1>2. PolicyInv /\ [Next]_vars => PolicyInv'
  BY PolicyStepInv, PartsMoveAlone
<1> QED BY <1>1, <1>2, PTL DEF Spec

\* However many operators save and run the stage, and the executor with them: the row
\* says RUNNING for a pass that runs, or that threw where nobody records it.  No pass that
\* ended or was recorded as failed leaves the word behind, nor does a save bring it back.
THEOREM RunningIsNeverLeftBehind == Spec => []RunningIsTrue
<1>1. PolicyInv => RunningIsTrue
  BY DEF PolicyInv, StatusFits, Runs, RunningIsTrue, Policy!RunningIsTrue
<1> QED BY <1>1, PolicyIsSound, PTL

-----------------------------------------------------------------------------
(* The schedule.  A tick acts on the snapshots it loaded; the invariant    *)
(* says that they were due when the tick began (MayFire), and that the run *)
(* whose slot a tick is about to write back was really started (TickFits). *)

TickRecord ==
    [pc : {"idle", "load", "next", "start", "persist"}, at : Nat,
     due : SUBSET Schedule!Snapshot, cur : Schedule!Snapshot]

FiredRun == [owner : Owners, slot : Nat, at : Nat, by : Servers]

RowFits(r) == r \in Schedule!Row /\ (r.enabled => r.nextRun # 0)

\* What a tick that began at time may fire: a row whose slot had come.
MayFire(d, time) ==
    /\ d.owner \in Owners
    /\ d.row.nextRun # 0 /\ d.row.nextRun <= time

FiredFits(f, time) == f \in FiredRun /\ f.slot <= f.at /\ f.at <= time /\ 1 <= f.at

\* The run that t fired last.
Fires(t, f) == f.owner = t.cur.owner /\ f.at = t.at /\ f.slot = t.cur.row.nextRun

TickFits(t, time, runsFired) ==
    /\ t \in TickRecord
    /\ t.at <= time
    /\ t.pc # "idle" => 1 <= t.at
    /\ \A d \in t.due : MayFire(d, t.at)
    /\ t.pc \in {"start", "persist"} => MayFire(t.cur, t.at)
    /\ t.pc = "persist" => \E f \in runsFired : Fires(t, f)

TicksFit ==
    /\ tick \in [Servers -> TickRecord]
    /\ \A s \in Servers : TickFits(tick[s], now, fired)

ScheduleInv ==
    /\ now \in Nat /\ 1 <= now /\ now <= MaxTime
    /\ row \in [Owners -> Schedule!Row] /\ \A o \in Owners : RowFits(row[o])
    /\ TicksFit
    /\ \A f \in fired : FiredFits(f, now)
    /\ chosen \in [Owners -> Nat]
    /\ used \in [{"save", "manual", "fault", "crash"} -> Nat]

\* Adding an interval to a multiple of it gives another.
LEMMA MultiplesFollow ==
    ASSUME NEW a \in Nat, NEW i \in Nat, i # 0
    PROVE  (a - (a % i) + i) % i = 0 /\ a % i \in 0..(i - 1)
<1>1. a % i \in 0..(i - 1)
  OBVIOUS
<1>2. (a - (a % i) + i) % i = 0
  OBVIOUS
<1> QED BY <1>1, <1>2

LEMMA NextSlotIsLater ==
    ASSUME NEW r \in Schedule!Row, NEW time \in Nat, r.nextRun <= time
    PROVE  /\ Schedule!AnchoredNextRun(r, time) \in Nat
           /\ time < Schedule!AnchoredNextRun(r, time)
<1> DEFINE n == r.nextRun
           i == r.interval
<1>1. n \in Nat /\ i \in Nat /\ i # 0 /\ n <= time
  BY ConsoleAssumption DEF Schedule!Row, Schedule!Time
<1>2. \E t \in (time + 1)..(time + i) : (t - n) % i = 0
  <2> HIDE DEF n, i
  <2>1. time - n \in Nat
    BY <1>1
  <2>2. (time - n) % i \in 0..(i - 1)
    BY <1>1, <2>1, MultiplesFollow
  <2>3. ((time - n) - ((time - n) % i) + i) % i = 0
    <3> DEFINE a == time - n
    <3>1. a \in Nat
      BY <2>1
    <3> HIDE DEF a
    <3>2. (a - (a % i) + i) % i = 0
      BY <1>1, <3>1, MultiplesFollow
    <3> QED BY <3>2 DEF a
  <2> DEFINE t == time - ((time - n) % i) + i
  <2>4. t \in (time + 1)..(time + i)
    BY <1>1, <2>2
  <2>5. t - n = (time - n) - ((time - n) % i) + i
    BY <1>1, <2>2
  <2>6. (t - n) % i = 0
    BY <2>3, <2>5
  <2> QED BY <2>4, <2>6
<1>3. Schedule!AnchoredNextRun(r, time) \in (time + 1)..(time + i)
  BY <1>2, Zenon DEF Schedule!AnchoredNextRun
<1> HIDE DEF i
<1> QED BY <1>1, <1>3

LEMMA ChosenRowIsTyped ==
    ASSUME NEW o \in Owners, row[o] \in Schedule!Row, now \in Nat, 1 <= now,
           NEW enabled \in BOOLEAN, NEW interval \in Intervals, NEW w \in Servers \cup {User}
    PROVE  LET r == Schedule!ChosenRow(o, enabled, interval, w) IN
           /\ r \in Schedule!Row
           /\ enabled => r.nextRun = now + interval
           /\ ~ enabled => r.nextRun = 0
           /\ r.enabled = enabled
           /\ now + interval \in Nat /\ now < now + interval
           /\ RowFits(r) /\ (r.nextRun = 0 \/ now < r.nextRun)
<1>0. interval \in Nat \ {0}
  BY ConsoleAssumption, Zenon
<1>1. now + interval \in Nat /\ now < now + interval
  BY <1>0
<1> DEFINE next == Schedule!NextRunAt(enabled, interval)
<1>2. next \in Nat /\ <<now, w>> \in Nat \X (Servers \cup {User})
  BY <1>1 DEF Schedule!NextRunAt, Schedule!Never
<1>3. Schedule!ChosenRow(o, enabled, interval, w) =
        [row[o] EXCEPT !.enabled = enabled, !.interval = interval, !.nextRun = next,
                       !.updated = <<now, w>>]
  BY Zenon DEF Schedule!ChosenRow
<1>4. /\ enabled => next = now + interval
      /\ ~ enabled => next = 0
  BY DEF Schedule!NextRunAt, Schedule!Never
<1> HIDE DEF next
<1> DEFINE r == Schedule!ChosenRow(o, enabled, interval, w)
<1>5. r \in Schedule!Row /\ r.nextRun = next /\ r.enabled = enabled
  BY <1>2, <1>3 DEF Schedule!Row, Schedule!Time
<1> HIDE DEF r
<1>6. RowFits(r) /\ (r.nextRun = 0 \/ now < r.nextRun)
  <2>1. CASE enabled
    BY <2>1, <1>1, <1>4, <1>5 DEF RowFits
  <2>2. CASE ~ enabled
    BY <2>2, <1>4, <1>5 DEF RowFits
  <2> QED BY <2>1, <2>2
<1> QED BY <1>1, <1>4, <1>5, <1>6 DEF r

LEMMA ScheduleConstants ==
    /\ Schedule!NoRow \in Schedule!Row /\ ~ Schedule!NoRow.enabled
    /\ Schedule!NoRow.nextRun = 0
    /\ Schedule!Idle \in TickRecord
    /\ Schedule!Idle.pc = "idle" /\ Schedule!Idle.at = 0 /\ Schedule!Idle.due = {}
<1>1. Schedule!NoRow \in Schedule!Row
  BY ConsoleAssumption DEF Schedule!NoRow, Schedule!Row, Schedule!Time, Schedule!Never
<1>2. [owner |-> User, row |-> Schedule!NoRow] \in Schedule!Snapshot
  BY <1>1 DEF Schedule!Snapshot
<1>3. Schedule!NoRow.nextRun = 0 /\ ~ Schedule!NoRow.enabled
  BY DEF Schedule!NoRow, Schedule!Never
<1> QED BY <1>1, <1>2, <1>3 DEF Schedule!Idle, TickRecord, Schedule!Never

LEMMA IdleFits == \A time \in Nat : TickFits(Schedule!Idle, time, fired)
BY ScheduleConstants DEF TickFits

LEMMA ScheduleInitInv == Schedule!Init => ScheduleInv
<1> SUFFICES ASSUME Schedule!Init PROVE ScheduleInv
  OBVIOUS
<1>1. now \in Nat /\ 1 <= now /\ now <= MaxTime /\ fired = {}
  <2>1. MaxTime \in Nat /\ MaxTime # 0
    BY ConsoleAssumption
  <2>2. now = 1 /\ fired = {}
    BY DEF Schedule!Init
  <2> QED BY <2>1, <2>2
<1>2. row \in [Owners -> Schedule!Row] /\ \A o \in Owners : RowFits(row[o])
  BY ScheduleConstants DEF Schedule!Init, RowFits
<1>3. TicksFit
  <2>1. tick \in [Servers -> TickRecord] /\ \A s \in Servers : tick[s] = Schedule!Idle
    BY ScheduleConstants DEF Schedule!Init
  <2> QED BY <1>1, <2>1, IdleFits DEF TicksFit
<1>4. chosen \in [Owners -> Nat] /\ used \in [{"save", "manual", "fault", "crash"} -> Nat]
  BY DEF Schedule!Init
<1> QED BY <1>1, <1>2, <1>3, <1>4 DEF ScheduleInv

\* Time passes, and other ticks fire: what fits goes on fitting.
LEMMA TicksGoOnFitting ==
    ASSUME NEW t, NEW n \in Nat, NEW m \in Nat, n <= m, NEW F, NEW G, F \subseteq G,
           TickFits(t, n, F)
    PROVE  TickFits(t, m, G)
<1>1. t.at \in Nat
  BY DEF TickFits, TickRecord
<1> QED BY <1>1 DEF TickFits

\* One tick goes on from its record to t.
TickBecomes(s, t) == tick' = [tick EXCEPT ![s] = t]

LEMMA OneTickMoves ==
    ASSUME ScheduleInv, NEW s \in Servers, NEW t, TickBecomes(s, t), now' = now,
           fired \subseteq fired', TickFits(t, now, fired')
    PROVE  TicksFit'
<1>1. t \in TickRecord
  BY DEF TickFits
<1>2. tick' \in [Servers -> TickRecord]
  BY <1>1 DEF ScheduleInv, TicksFit, TickBecomes
<1>3. ASSUME NEW p \in Servers
      PROVE  TickFits(tick'[p], now, fired')
  <2>1. CASE p = s
    BY <2>1 DEF ScheduleInv, TicksFit, TickBecomes
  <2>2. CASE p # s
    <3>1. tick'[p] = tick[p]
      BY <2>2 DEF ScheduleInv, TicksFit, TickBecomes
    <3>2. TickFits(tick[p], now, fired) /\ now \in Nat
      BY DEF ScheduleInv, TicksFit
    <3> QED BY <3>1, <3>2, TicksGoOnFitting
  <2> QED BY <2>1, <2>2
<1> QED BY <1>2, <1>3 DEF TicksFit

LEMMA TicksStay ==
    ASSUME ScheduleInv, UNCHANGED <<tick, fired>>, now' \in Nat, now <= now'
    PROVE  TicksFit'
<1>1. \A s \in Servers : TickFits(tick[s], now', fired)
  BY TicksGoOnFitting DEF ScheduleInv, TicksFit
<1> QED BY <1>1 DEF ScheduleInv, TicksFit

\* What the ticks and the runs they fired become, action by action.
LEMMA TicksMove == ScheduleInv /\ [Schedule!Next]_scheduleVars => TicksFit'
<1> SUFFICES ASSUME ScheduleInv, [Schedule!Next]_scheduleVars PROVE TicksFit'
  OBVIOUS
<1>0. now \in Nat /\ now <= now
  BY DEF ScheduleInv
<1>1. CASE UNCHANGED scheduleVars
  BY <1>0, <1>1, TicksStay DEF scheduleVars
<1>2. CASE Schedule!TimePasses
  BY <1>0, <1>2, TicksStay DEF Schedule!TimePasses
<1>3. CASE \E o \in Owners, enabled \in BOOLEAN, interval \in Intervals :
              Schedule!Save(o, enabled, interval)
  BY <1>0, <1>3, TicksStay DEF Schedule!Save
<1>4. CASE \E s \in Servers, o \in Owners : Schedule!ManualStart(s, o) \/ Schedule!RunEnds(s, o)
  BY <1>0, <1>4, TicksStay DEF Schedule!ManualStart, Schedule!RunEnds
<1>5. ASSUME NEW s \in Servers,
             Schedule!Tick(s) \/ Schedule!TickThrows(s) \/ Schedule!Crash(s)
      PROVE  TicksFit'
  <2>0. tick[s] \in TickRecord /\ TickFits(tick[s], now, fired)
    BY DEF ScheduleInv, TicksFit
  <2>1. CASE Schedule!BeginTick(s)
    <3> DEFINE t == [Schedule!Idle EXCEPT !.pc = "load", !.at = now]
    <3>1. t \in TickRecord /\ t.pc = "load" /\ t.at = now /\ t.due = {}
      BY <1>0, ScheduleConstants DEF TickRecord
    <3>2. TickBecomes(s, t) /\ UNCHANGED <<now, fired>>
      BY <2>1, Zenon DEF Schedule!BeginTick, TickBecomes
    <3> HIDE DEF t
    <3>3. TickFits(t, now, fired')
      BY <3>1 DEF TickFits, ScheduleInv
    <3> QED BY <3>2, <3>3, OneTickMoves
  <2>2. CASE Schedule!LoadDue(s)
    <3> DEFINE D == {[owner |-> o, row |-> row[o]] :
                       o \in {p \in Owners : Schedule!Due(row[p], tick[s].at)}}
               t == [tick[s] EXCEPT !.pc = "next", !.due = D]
    <3>1. \A d \in D : d \in Schedule!Snapshot /\ MayFire(d, tick[s].at)
      BY DEF ScheduleInv, Schedule!Snapshot, MayFire, Schedule!Due, Schedule!Never
    <3>2. TickBecomes(s, t) /\ UNCHANGED <<now, fired>>
      BY <2>2, <2>0 DEF Schedule!LoadDue, TickBecomes, TickRecord, ScheduleInv, TicksFit
    <3>3. t \in TickRecord /\ t.pc = "next" /\ t.at = tick[s].at /\ t.due = D
      <4>1. D \in SUBSET Schedule!Snapshot
        BY <3>1
      <4> HIDE DEF D
      <4> QED BY <4>1, <2>0 DEF TickRecord
    <3> HIDE DEF D, t
    <3>4. TickFits(t, now, fired')
      BY <2>0, <2>2, <3>1, <3>2, <3>3 DEF TickFits, Schedule!LoadDue
    <3> QED BY <3>2, <3>4, OneTickMoves
  <2>3. CASE Schedule!Claim(s)
    <3>1. PICK c \in tick[s].due :
              tick' = [tick EXCEPT ![s].due = @ \ {c},
                                   ![s].pc = IF Schedule!Claims(c) THEN "start" ELSE "next",
                                   ![s].cur = c]
      BY <2>3 DEF Schedule!Claim
    <3> DEFINE pc == IF Schedule!Claims(c) THEN "start" ELSE "next"
               t == [tick[s] EXCEPT !.due = @ \ {c}, !.pc = pc, !.cur = c]
    <3>2. TickBecomes(s, t) /\ UNCHANGED <<now, fired>>
      BY <3>1, <2>3, <2>0 DEF Schedule!Claim, TickBecomes, TickRecord, ScheduleInv, TicksFit
    <3>3. pc \in {"start", "next"} /\ c \in Schedule!Snapshot
      BY <2>0 DEF TickRecord
    <3> HIDE DEF pc
    <3>4. t \in TickRecord /\ t.pc = pc /\ t.at = tick[s].at /\ t.due \subseteq tick[s].due
          /\ t.cur = c
      BY <2>0, <3>3 DEF TickRecord
    <3> HIDE DEF t
    <3>5. TickFits(t, now, fired')
      BY <2>0, <2>3, <3>2, <3>3, <3>4 DEF TickFits, Schedule!Claim
    <3> QED BY <3>2, <3>5, OneTickMoves
  <2>4. CASE Schedule!StartRun(s)
    <3> DEFINE f == [owner |-> tick[s].cur.owner, slot |-> tick[s].cur.row.nextRun,
                     at |-> tick[s].at, by |-> s]
    <3>1. CASE tick' = [tick EXCEPT ![s].pc = "persist"] /\ fired' = fired \cup {f}
      <4> DEFINE t == [tick[s] EXCEPT !.pc = "persist"]
      <4>1. TickBecomes(s, t) /\ now' = now
        BY <3>1, <2>4, <2>0 DEF Schedule!StartRun, TickBecomes, TickRecord, ScheduleInv, TicksFit
      <4>2. t \in TickRecord /\ t.pc = "persist" /\ t.at = tick[s].at /\ t.due = tick[s].due
            /\ t.cur = tick[s].cur
        BY <2>0 DEF TickRecord
      <4> HIDE DEF t
      <4>3. Fires(t, f) /\ f \in fired'
        BY <4>2, <3>1 DEF Fires
      <4> HIDE DEF f
      <4>4. TickFits(t, now, fired')
        BY <2>0, <2>4, <4>2, <4>3 DEF TickFits, Schedule!StartRun
      <4> QED BY <3>1, <4>1, <4>4, OneTickMoves
    <3>2. CASE tick' = [tick EXCEPT ![s].pc = "next"] /\ UNCHANGED fired
      <4> DEFINE t == [tick[s] EXCEPT !.pc = "next"]
      <4>1. TickBecomes(s, t) /\ now' = now
        BY <3>2, <2>4, <2>0 DEF Schedule!StartRun, TickBecomes, TickRecord, ScheduleInv, TicksFit
      <4>2. t \in TickRecord /\ t.pc = "next" /\ t.at = tick[s].at /\ t.due = tick[s].due
        BY <2>0 DEF TickRecord
      <4> HIDE DEF t
      <4>3. TickFits(t, now, fired')
        BY <2>0, <2>4, <4>2 DEF TickFits, Schedule!StartRun
      <4> QED BY <3>2, <4>1, <4>3, OneTickMoves
    <3> QED BY <2>4, <3>1, <3>2, Zenon DEF Schedule!StartRun
  <2>5. CASE Schedule!PersistTrigger(s)
    <3> DEFINE t == [tick[s] EXCEPT !.pc = "next"]
    <3>1. TickBecomes(s, t) /\ UNCHANGED <<now, fired>>
      BY <2>5, <2>0 DEF Schedule!PersistTrigger, TickBecomes, TickRecord, ScheduleInv, TicksFit
    <3>2. t \in TickRecord /\ t.pc = "next" /\ t.at = tick[s].at /\ t.due = tick[s].due
      BY <2>0 DEF TickRecord
    <3> HIDE DEF t
    <3>3. TickFits(t, now, fired')
      BY <2>0, <2>5, <3>1, <3>2 DEF TickFits, Schedule!PersistTrigger
    <3> QED BY <3>1, <3>3, OneTickMoves
  <2>6. CASE Schedule!EndTick(s) \/ Schedule!TickThrows(s) \/ Schedule!Crash(s)
    <3>1. TickBecomes(s, Schedule!Idle) /\ UNCHANGED <<now, fired>>
      BY <2>6, Zenon DEF Schedule!EndTick, Schedule!TickThrows, Schedule!Crash,
         Schedule!AfterThrow, TickBecomes
    <3>2. TickFits(Schedule!Idle, now, fired')
      BY <1>0, <3>1, IdleFits
    <3> QED BY <3>1, <3>2, OneTickMoves
  <2> QED BY <1>5, <2>1, <2>2, <2>3, <2>4, <2>5, <2>6 DEF Schedule!Tick
<1> QED BY <1>1, <1>2, <1>3, <1>4, <1>5 DEF Schedule!Next

\* What the rows and the runs that were fired become.
LEMMA RowWritten ==
    ASSUME ScheduleInv, NEW o \in Owners, NEW r, RowFits(r), row' = [row EXCEPT ![o] = r]
    PROVE  row' \in [Owners -> Schedule!Row] /\ \A p \in Owners : RowFits(row'[p])
BY DEF ScheduleInv, RowFits

\* The row that a tick writes back.
LEMMA WrittenBack ==
    ASSUME ScheduleInv, NEW s \in Servers, tick[s].pc = "persist"
    PROVE  LET r == Schedule!WriteBack(s) IN
           /\ RowFits(r) /\ tick[s].at < r.nextRun /\ r.lastRun = tick[s].at
           /\ tick[s].cur.owner \in Owners
<1>1. TickFits(tick[s], now, fired) /\ tick[s] \in TickRecord
  BY DEF ScheduleInv, TicksFit
<1>2. tick[s].at \in Nat /\ 1 <= tick[s].at /\ tick[s].cur.row \in Schedule!Row
      /\ MayFire(tick[s].cur, tick[s].at)
  BY <1>1 DEF TickFits, TickRecord, Schedule!Snapshot
<1> DEFINE next == Schedule!AnchoredNextRun(tick[s].cur.row, tick[s].at)
<1>3. next \in Nat /\ tick[s].at < next /\ next # 0
  BY <1>2, NextSlotIsLater DEF MayFire
<1>4. row[tick[s].cur.owner] \in Schedule!Row
  BY <1>2 DEF ScheduleInv, MayFire
<1>5. <<tick[s].at, s>> \in Nat \X (Servers \cup {User})
  BY <1>2
<1>6. Schedule!WriteBack(s) = [row[tick[s].cur.owner] EXCEPT
          !.lastRun = tick[s].at, !.updated = <<tick[s].at, s>>, !.nextRun = next]
  BY Zenon DEF Schedule!WriteBack
<1> HIDE DEF next
<1> QED BY <1>2, <1>3, <1>4, <1>5, <1>6 DEF RowFits, MayFire, Schedule!Row, Schedule!Time

LEMMA ClaimedFits ==
    ASSUME NEW r, RowFits(r), NEW time \in Nat, NEW s \in Servers
    PROVE  RowFits([r EXCEPT !.updated = <<time, s>>])
<1>1. <<time, s>> \in Nat \X (Servers \cup {User})
  OBVIOUS
<1> QED BY <1>1 DEF RowFits, Schedule!Row, Schedule!Time

LEMMA ScheduleStepInv == ScheduleInv /\ [Schedule!Next]_scheduleVars => ScheduleInv'
<1> SUFFICES ASSUME ScheduleInv, [Schedule!Next]_scheduleVars PROVE ScheduleInv'
  OBVIOUS
<1>1. TicksFit'
  BY TicksMove
<1>2. now' \in Nat /\ 1 <= now' /\ now' <= MaxTime /\ now <= now'
  <2>1. now' = now \/ (now < MaxTime /\ now' = now + 1)
    BY DEF Schedule!Next, scheduleVars, Schedule!TimePasses, Schedule!Save, Schedule!Tick,
       Schedule!BeginTick, Schedule!LoadDue, Schedule!Claim, Schedule!StartRun,
       Schedule!PersistTrigger, Schedule!EndTick, Schedule!TickThrows, Schedule!Crash,
       Schedule!ManualStart, Schedule!RunEnds
  <2>2. MaxTime \in Nat
    BY ConsoleAssumption
  <2> QED BY <2>1, <2>2 DEF ScheduleInv
<1>3. \A f \in fired' : FiredFits(f, now')
  <2>1. \A f \in fired : FiredFits(f, now')
    BY <1>2 DEF ScheduleInv, FiredFits, FiredRun
  <2>2. ASSUME NEW s \in Servers, Schedule!StartRun(s)
        PROVE  \A f \in fired' : FiredFits(f, now')
    <3>1. TickFits(tick[s], now, fired) /\ tick[s] \in TickRecord /\ now' = now
      BY <2>2 DEF ScheduleInv, TicksFit, Schedule!StartRun
    <3> DEFINE f == [owner |-> tick[s].cur.owner, slot |-> tick[s].cur.row.nextRun,
                     at |-> tick[s].at, by |-> s]
    <3>2. MayFire(tick[s].cur, tick[s].at) /\ tick[s].at <= now /\ 1 <= tick[s].at
      BY <2>2, <3>1 DEF TickFits, Schedule!StartRun
    <3>3. tick[s].cur.row.nextRun \in Nat /\ tick[s].at \in Nat
      BY <3>1 DEF TickRecord, Schedule!Snapshot, Schedule!Row, Schedule!Time
    <3>4. FiredFits(f, now')
      BY <3>1, <3>2, <3>3 DEF FiredFits, FiredRun, MayFire
    <3>5. fired' \subseteq fired \cup {f}
      BY <2>2 DEF Schedule!StartRun
    <3> QED BY <2>1, <3>4, <3>5
  <2>3. fired' = fired \/ \E s \in Servers : Schedule!StartRun(s)
    BY DEF Schedule!Next, scheduleVars, Schedule!TimePasses, Schedule!Save, Schedule!Tick,
       Schedule!BeginTick, Schedule!LoadDue, Schedule!Claim,
       Schedule!PersistTrigger, Schedule!EndTick, Schedule!TickThrows, Schedule!Crash,
       Schedule!ManualStart, Schedule!RunEnds
  <2> QED BY <2>1, <2>2, <2>3
<1>4. used' \in [{"save", "manual", "fault", "crash"} -> Nat]
  <2>1. used' = used \/ \E event \in {"save", "manual", "fault", "crash"} :
                           used' = [used EXCEPT ![event] = @ + 1]
    BY DEF Schedule!Next, scheduleVars, Schedule!TimePasses, Schedule!Save, Schedule!Tick,
       Schedule!BeginTick, Schedule!LoadDue, Schedule!Claim, Schedule!StartRun,
       Schedule!PersistTrigger, Schedule!EndTick, Schedule!TickThrows, Schedule!Crash,
       Schedule!ManualStart, Schedule!RunEnds, Schedule!Bounded
  <2> QED BY <2>1 DEF ScheduleInv
<1>5. /\ row' \in [Owners -> Schedule!Row] /\ \A p \in Owners : RowFits(row'[p])
      /\ chosen' \in [Owners -> Nat]
  <2>1. CASE UNCHANGED <<row, chosen>>
    BY <2>1 DEF ScheduleInv
  <2>2. ASSUME NEW o \in Owners, NEW enabled \in BOOLEAN, NEW interval \in Intervals,
               Schedule!Save(o, enabled, interval)
        PROVE  /\ row' \in [Owners -> Schedule!Row] /\ \A p \in Owners : RowFits(row'[p])
               /\ chosen' \in [Owners -> Nat]
    <3>1. RowFits(Schedule!ChosenRow(o, enabled, interval, User))
      <4>1. row[o] \in Schedule!Row /\ now \in Nat /\ 1 <= now /\ User \in Servers \cup {User}
        BY DEF ScheduleInv
      <4> QED BY <4>1, ChosenRowIsTyped
    <3>2. chosen' = [chosen EXCEPT ![o] = @ + 1]
      BY <2>2 DEF Schedule!Save
    <3>3. row' = [row EXCEPT ![o] = Schedule!ChosenRow(o, enabled, interval, User)]
      BY <2>2, Zenon DEF Schedule!Save
    <3>4. row' \in [Owners -> Schedule!Row] /\ \A p \in Owners : RowFits(row'[p])
      BY <3>1, <3>3, RowWritten
    <3>5. chosen' \in [Owners -> Nat]
      BY <3>2 DEF ScheduleInv
    <3> QED BY <3>4, <3>5
  <2>3. ASSUME NEW s \in Servers, Schedule!BeginTick(s)
        PROVE  /\ row' \in [Owners -> Schedule!Row] /\ \A p \in Owners : RowFits(row'[p])
               /\ chosen' \in [Owners -> Nat]
    <3>1. \A o \in Owners : RowFits(Schedule!ChosenRow(o, TRUE, DefaultInterval, s))
      <4>1. \A o \in Owners : row[o] \in Schedule!Row /\ now \in Nat /\ 1 <= now
        BY DEF ScheduleInv
      <4>2. DefaultInterval \in Intervals /\ s \in Servers \cup {User}
        BY ConsoleAssumption
      <4> QED BY <4>1, <4>2, ChosenRowIsTyped
    <3> DEFINE missing == {o \in Owners : row[o] = Schedule!NoRow}
    <3>2. row' = [o \in Owners |-> IF o \in missing
                    THEN Schedule!ChosenRow(o, TRUE, DefaultInterval, s) ELSE row[o]]
      BY <2>3 DEF Schedule!BeginTick
    <3>3. chosen' = [o \in Owners |-> IF o \in missing THEN chosen[o] + 1 ELSE chosen[o]]
      BY <2>3 DEF Schedule!BeginTick
    <3> HIDE DEF missing
    <3>4. row' \in [Owners -> Schedule!Row] /\ \A p \in Owners : RowFits(row'[p])
      BY <3>1, <3>2 DEF ScheduleInv, RowFits
    <3>5. chosen' \in [Owners -> Nat]
      BY <3>3 DEF ScheduleInv
    <3> QED BY <3>4, <3>5
  <2>4. ASSUME NEW s \in Servers, Schedule!Claim(s)
        PROVE  /\ row' \in [Owners -> Schedule!Row] /\ \A p \in Owners : RowFits(row'[p])
               /\ chosen' \in [Owners -> Nat]
    <3>1. PICK c \in tick[s].due :
              row' = IF Schedule!Claims(c)
                     THEN [row EXCEPT ![c.owner].updated = <<tick[s].at, s>>] ELSE row
      BY <2>4 DEF Schedule!Claim
    <3>2. tick[s].at \in Nat /\ c.owner \in Owners
      BY DEF ScheduleInv, TicksFit, TickFits, TickRecord, MayFire
    <3>3. RowFits([row[c.owner] EXCEPT !.updated = <<tick[s].at, s>>])
      BY <3>2, ClaimedFits DEF ScheduleInv
    <3>4. row' = row \/ row' = [row EXCEPT ![c.owner] =
                                   [row[c.owner] EXCEPT !.updated = <<tick[s].at, s>>]]
      BY <3>1 DEF ScheduleInv
    <3>5. chosen' = chosen
      BY <2>4 DEF Schedule!Claim
    <3> QED BY <3>2, <3>3, <3>4, <3>5, RowWritten DEF ScheduleInv
  <2>5. ASSUME NEW s \in Servers, Schedule!PersistTrigger(s)
        PROVE  /\ row' \in [Owners -> Schedule!Row] /\ \A p \in Owners : RowFits(row'[p])
               /\ chosen' \in [Owners -> Nat]
    <3>1. RowFits(Schedule!WriteBack(s)) /\ tick[s].cur.owner \in Owners
      BY <2>5, WrittenBack DEF Schedule!PersistTrigger
    <3> QED BY <2>5, <3>1, RowWritten DEF Schedule!PersistTrigger, ScheduleInv
  <2>6. ASSUME NEW s \in Servers, Schedule!StartRun(s)
        PROVE  UNCHANGED <<row, chosen>>
    BY <2>6 DEF Schedule!StartRun, Schedule!Skip
  <2> QED BY <2>1, <2>2, <2>3, <2>4, <2>5, <2>6
      DEF Schedule!Next, scheduleVars, Schedule!TimePasses, Schedule!Tick, Schedule!LoadDue,
       Schedule!EndTick, Schedule!TickThrows, Schedule!Crash,
       Schedule!ManualStart, Schedule!RunEnds
<1> QED BY <1>1, <1>2, <1>3, <1>4, <1>5 DEF ScheduleInv

LEMMA ScheduleIsSound == Spec => []ScheduleInv
<1>1. Init => ScheduleInv
  BY ScheduleInitInv DEF Init
<1>2. ScheduleInv /\ [Next]_vars => ScheduleInv'
  BY ScheduleStepInv, PartsMoveAlone
<1> QED BY <1>1, <1>2, PTL DEF Spec

\* Whatever other processes, saves and crashes come between the statements
\* of a tick: a slot is passed over only by a save or by the write-back of a
\* run that was really started for an earlier slot.
THEOREM SlotsAreNotLost == Spec => SlotsMoveWithRuns
<1>1. ScheduleInv /\ [Next]_vars =>
         [\A o \in Owners :
            row'[o].nextRun # row[o].nextRun /\ chosen'[o] = chosen[o] =>
               \E f \in fired : f.owner = o /\ f.at = row'[o].lastRun
                                /\ f.slot < row'[o].nextRun]_Schedule!vars
  <2> SUFFICES ASSUME ScheduleInv, Schedule!Next,
                      NEW o \in Owners, row'[o].nextRun # row[o].nextRun, chosen'[o] = chosen[o]
               PROVE  \E f \in fired : /\ f.owner = o /\ f.at = row'[o].lastRun
                                       /\ f.slot < row'[o].nextRun
    BY PartsMoveAlone DEF Schedule!vars, scheduleVars
  <2>1. \/ \E s \in Servers : Schedule!PersistTrigger(s) \/ Schedule!Claim(s)
                              \/ Schedule!StartRun(s) \/ Schedule!BeginTick(s)
        \/ \E p \in Owners, enabled \in BOOLEAN, interval \in Intervals :
              Schedule!Save(p, enabled, interval)
    BY DEF Schedule!Next, Schedule!TimePasses, Schedule!Tick, Schedule!LoadDue,
       Schedule!EndTick, Schedule!TickThrows, Schedule!Crash,
       Schedule!ManualStart, Schedule!RunEnds
  <2>2. ASSUME NEW p \in Owners, NEW enabled \in BOOLEAN, NEW interval \in Intervals,
               Schedule!Save(p, enabled, interval)
        PROVE  FALSE
    <3>1. row'[o] # row[o]
      OBVIOUS
    <3>2. p = o
      BY <2>2, <3>1 DEF Schedule!Save, ScheduleInv
    <3> QED BY <2>2, <3>2 DEF Schedule!Save, ScheduleInv
  <2>3. ASSUME NEW s \in Servers, Schedule!BeginTick(s)
        PROVE  FALSE
    <3>1. row'[o] # row[o]
      OBVIOUS
    <3>2. row[o] = Schedule!NoRow /\ chosen'[o] = chosen[o] + 1
      BY <2>3, <3>1 DEF Schedule!BeginTick
    <3> QED BY <3>2 DEF ScheduleInv
  <2>4. ASSUME NEW s \in Servers, Schedule!Claim(s)
        PROVE  FALSE
    BY <2>4 DEF Schedule!Claim, ScheduleInv, Schedule!Row
  <2>5. ASSUME NEW s \in Servers, Schedule!StartRun(s)
        PROVE  FALSE
    BY <2>5 DEF Schedule!StartRun, Schedule!Skip
  <2>6. ASSUME NEW s \in Servers, Schedule!PersistTrigger(s)
        PROVE  \E f \in fired : /\ f.owner = o /\ f.at = row'[o].lastRun
                                /\ f.slot < row'[o].nextRun
    <3>1. o = tick[s].cur.owner /\ row'[o] = Schedule!WriteBack(s)
      BY <2>6 DEF Schedule!PersistTrigger, ScheduleInv
    <3>2. tick[s].at < row'[o].nextRun /\ row'[o].lastRun = tick[s].at
          /\ row'[o] \in Schedule!Row
      BY <2>6, <3>1, WrittenBack DEF Schedule!PersistTrigger, RowFits
    <3>3. PICK f \in fired : Fires(tick[s], f)
      BY <2>6 DEF Schedule!PersistTrigger, ScheduleInv, TicksFit, TickFits
    <3>4. f.slot \in Nat /\ f.at \in Nat /\ f.slot <= f.at
      BY DEF ScheduleInv, FiredFits, FiredRun
    <3>5. row'[o].nextRun \in Nat
      BY <3>2 DEF Schedule!Row, Schedule!Time
    <3> QED BY <3>1, <3>2, <3>3, <3>4, <3>5 DEF Fires
  <2> QED BY <2>1, <2>2, <2>3, <2>4, <2>5, <2>6
<1> QED BY <1>1, ScheduleIsSound, PTL
        DEF Spec, SlotsMoveWithRuns, Schedule!SlotsMoveWithRuns

\* What follows is about one process.  Two processes may fire one slot: the
\* second loads the row between the claim and the write-back of the first.
OneProcess == \A s, p \in Servers : s = p

\* The slots that were fired for the owner of a snapshot lie before it.
Behind(d, runsFired) == \A f \in runsFired : f.owner = d.owner => f.slot < d.row.nextRun

\* A tick has one snapshot of an owner's row, none of the row it works on,
\* and no run was fired after it began.
TickAhead(t, runsFired) ==
    /\ t.pc # "idle" => \A f \in runsFired : f.at <= t.at
    /\ \A d \in t.due : Behind(d, runsFired)
    /\ \A d, e \in t.due : d.owner = e.owner => d = e
    /\ t.pc = "start" => Behind(t.cur, runsFired)
    /\ t.pc \in {"start", "persist"} => \A d \in t.due : d.owner # t.cur.owner

WritesBack(t, o) == t.pc = "persist" /\ t.cur.owner = o

\* The row has moved on from a slot that was fired, or is about to.
SlotWritten(f, r, ticks) ==
    \/ r.nextRun = 0 \/ f.slot < r.nextRun
    \/ \E s \in Servers : WritesBack(ticks[s], f.owner)

SlotsAreBehind ==
    Schedule!Undisturbed =>
        /\ \A f, g \in fired : f.owner = g.owner /\ f.slot = g.slot => f = g
        /\ \A s \in Servers : TickAhead(tick[s], fired)
        /\ \A f \in fired : SlotWritten(f, row[f.owner], tick)

\* A step that is no failure leaves a schedule undisturbed only if it was.
LEMMA DisturbedForGood ==
    ASSUME ScheduleInv, [Schedule!Next]_scheduleVars, Schedule!Undisturbed'
    PROVE  /\ Schedule!Undisturbed
           /\ \A s \in Servers : ~ Schedule!TickThrows(s) /\ ~ Schedule!Crash(s)
<1> USE DEF Schedule!Undisturbed
<1>1. ASSUME NEW event \in {"save", "manual", "fault", "crash"},
             NEW max, Schedule!Bounded(event, max)
      PROVE  Schedule!Undisturbed /\ event \notin {"fault", "crash"}
  BY <1>1 DEF Schedule!Bounded, ScheduleInv
<1>2. \A s \in Servers : ~ Schedule!TickThrows(s) /\ ~ Schedule!Crash(s)
  BY <1>1 DEF Schedule!TickThrows, Schedule!Crash
<1>3. \/ used' = used
      \/ \E event \in {"save", "manual", "fault", "crash"}, max \in Nat :
            Schedule!Bounded(event, max)
  BY ConsoleAssumption
     DEF Schedule!Next, scheduleVars, Schedule!TimePasses, Schedule!Save, Schedule!Tick,
       Schedule!BeginTick, Schedule!LoadDue, Schedule!Claim, Schedule!StartRun,
       Schedule!PersistTrigger, Schedule!EndTick, Schedule!TickThrows, Schedule!Crash,
       Schedule!ManualStart, Schedule!RunEnds
<1> QED BY <1>1, <1>2, <1>3

\* The tick of the only process goes on to t; nothing is fired, and every
\* slot is behind the rows.
LEMMA OnlyTickMoves ==
    ASSUME OneProcess, ScheduleInv, SlotsAreBehind, Schedule!Undisturbed,
           NEW s \in Servers, NEW t, TickBecomes(s, t), fired' = fired, TickAhead(t, fired),
           \A f \in fired : row'[f.owner].nextRun = 0 \/ f.slot < row'[f.owner].nextRun
    PROVE  SlotsAreBehind'
<1>1. \A p \in Servers : tick'[p] = t
  BY DEF OneProcess, TickBecomes, ScheduleInv, TicksFit
<1>2. \A p \in Servers : TickAhead(tick'[p], fired')
  BY <1>1
<1>3. \A f \in fired' : SlotWritten(f, row'[f.owner], tick')
  BY DEF SlotWritten
<1> QED BY <1>2, <1>3 DEF SlotsAreBehind

\* While the process writes nothing back, the rows are ahead of the slots.
LEMMA RowsAhead ==
    ASSUME OneProcess, SlotsAreBehind, Schedule!Undisturbed, NEW s \in Servers,
           tick[s].pc # "persist"
    PROVE  \A f \in fired : row[f.owner].nextRun = 0 \/ f.slot < row[f.owner].nextRun
BY DEF OneProcess, SlotsAreBehind, SlotWritten, WritesBack

\* A row that is chosen anew is ahead of every slot.
LEMMA ChosenIsAhead ==
    ASSUME ScheduleInv, NEW o \in Owners, NEW enabled \in BOOLEAN, NEW interval \in Intervals,
           NEW w \in Servers \cup {User}, NEW f \in fired
    PROVE  LET r == Schedule!ChosenRow(o, enabled, interval, w)
           IN r.nextRun = 0 \/ f.slot < r.nextRun
<1> DEFINE r == Schedule!ChosenRow(o, enabled, interval, w)
<1>1. r \in Schedule!Row /\ (r.nextRun = 0 \/ now < r.nextRun) /\ now \in Nat
  <2>1. row[o] \in Schedule!Row /\ now \in Nat /\ 1 <= now
    BY DEF ScheduleInv
  <2> QED BY <2>1, ChosenRowIsTyped
<1>2. f.slot \in Nat /\ f.at \in Nat /\ f.slot <= f.at /\ f.at <= now
  BY DEF ScheduleInv, FiredFits, FiredRun
<1>3. r.nextRun \in Nat
  BY <1>1 DEF Schedule!Row, Schedule!Time
<1> HIDE DEF r
<1> QED BY <1>1, <1>2, <1>3 DEF r

LEMMA SlotsStayBehind ==
    ASSUME OneProcess, ScheduleInv, SlotsAreBehind, [Schedule!Next]_scheduleVars
    PROVE  SlotsAreBehind'
<1> SUFFICES ASSUME Schedule!Undisturbed' PROVE SlotsAreBehind'
  BY DEF SlotsAreBehind
<1>0. /\ Schedule!Undisturbed
      /\ \A s \in Servers : ~ Schedule!TickThrows(s) /\ ~ Schedule!Crash(s)
  BY DisturbedForGood
<1>1. CASE UNCHANGED <<row, tick, fired>>
  BY <1>0, <1>1 DEF SlotsAreBehind, SlotWritten
<1>2. ASSUME NEW o \in Owners, NEW enabled \in BOOLEAN, NEW interval \in Intervals,
             Schedule!Save(o, enabled, interval)
      PROVE  SlotsAreBehind'
  <2>1. UNCHANGED <<tick, fired>>
        /\ row' = [row EXCEPT ![o] = Schedule!ChosenRow(o, enabled, interval, User)]
    BY <1>2, Zenon DEF Schedule!Save
  <2>2. ASSUME NEW f \in fired
        PROVE  SlotWritten(f, row'[f.owner], tick)
    <3>1. f.owner \in Owners
      BY DEF ScheduleInv, FiredFits, FiredRun
    <3>2. User \in Servers \cup {User}
      OBVIOUS
    <3>3. CASE f.owner = o
      <4>1. row'[f.owner] = Schedule!ChosenRow(o, enabled, interval, User)
        BY <2>1, <3>3, <3>1 DEF ScheduleInv
      <4> QED BY <4>1, <3>2, ChosenIsAhead DEF SlotWritten
    <3>4. CASE f.owner # o
      <4>1. row'[f.owner] = row[f.owner]
        BY <2>1, <3>4, <3>1 DEF ScheduleInv
      <4> QED BY <4>1, <1>0 DEF SlotsAreBehind
    <3> QED BY <3>3, <3>4
  <2> QED BY <1>0, <2>1, <2>2 DEF SlotsAreBehind, SlotWritten
<1>3. ASSUME NEW s \in Servers, Schedule!Tick(s)
      PROVE  SlotsAreBehind'
  <2>0. /\ tick[s] \in TickRecord /\ TickFits(tick[s], now, fired)
        /\ TickAhead(tick[s], fired)
    BY <1>0 DEF ScheduleInv, TicksFit, SlotsAreBehind
  <2>1. CASE Schedule!BeginTick(s)
    <3> DEFINE t == [Schedule!Idle EXCEPT !.pc = "load", !.at = now]
    <3>1. t.pc = "load" /\ t.at = now /\ t.due = {}
      BY ScheduleConstants DEF TickRecord
    <3>2. TickBecomes(s, t) /\ fired' = fired
      BY <2>1, Zenon DEF Schedule!BeginTick, TickBecomes
    <3> HIDE DEF t
    <3>3. TickAhead(t, fired)
      BY <3>1 DEF TickAhead, ScheduleInv, FiredFits
    <3>4. ASSUME NEW f \in fired
          PROVE  row'[f.owner].nextRun = 0 \/ f.slot < row'[f.owner].nextRun
      <4>1. f.owner \in Owners /\ s \in Servers \cup {User} /\ DefaultInterval \in Intervals
            /\ TRUE \in BOOLEAN
        BY ConsoleAssumption DEF ScheduleInv, FiredFits, FiredRun
      <4>2. \/ row'[f.owner] = row[f.owner]
            \/ row'[f.owner] = Schedule!ChosenRow(f.owner, TRUE, DefaultInterval, s)
        BY <2>1, <4>1 DEF Schedule!BeginTick
      <4>3. row[f.owner].nextRun = 0 \/ f.slot < row[f.owner].nextRun
        BY <2>1, <1>0, RowsAhead DEF Schedule!BeginTick
      <4>4. LET r == Schedule!ChosenRow(f.owner, TRUE, DefaultInterval, s)
            IN r.nextRun = 0 \/ f.slot < r.nextRun
        BY <4>1, ChosenIsAhead
      <4> QED BY <4>2, <4>3, <4>4
    <3> QED BY <1>0, <3>2, <3>3, <3>4, OnlyTickMoves
  <2>2. CASE Schedule!LoadDue(s)
    <3> DEFINE D == {[owner |-> o, row |-> row[o]] :
                       o \in {p \in Owners : Schedule!Due(row[p], tick[s].at)}}
               t == [tick[s] EXCEPT !.pc = "next", !.due = D]
    <3>1. TickBecomes(s, t) /\ UNCHANGED <<fired, row>>
      BY <2>2, <2>0 DEF Schedule!LoadDue, TickBecomes, TickRecord, ScheduleInv, TicksFit
    <3>2. t.pc = "next" /\ t.at = tick[s].at /\ t.due = D
      <4> HIDE DEF D
      <4> QED BY <2>0 DEF TickRecord
    <3>3. \A f \in fired : row[f.owner].nextRun = 0 \/ f.slot < row[f.owner].nextRun
      BY <2>2, <1>0, RowsAhead DEF Schedule!LoadDue
    <3>4. /\ \A d \in D : Behind(d, fired)
          /\ \A d, e \in D : d.owner = e.owner => d = e
      BY <3>3 DEF Behind, Schedule!Due, Schedule!Never
    <3> HIDE DEF D, t
    <3>5. TickAhead(t, fired)
      BY <2>0, <2>2, <3>2, <3>4 DEF TickAhead, Schedule!LoadDue
    <3> QED BY <1>0, <3>1, <3>3, <3>5, OnlyTickMoves
  <2>3. CASE Schedule!Claim(s)
    <3>1. PICK c \in tick[s].due :
              /\ tick' = [tick EXCEPT ![s].due = @ \ {c},
                                   ![s].pc = IF Schedule!Claims(c) THEN "start" ELSE "next",
                                   ![s].cur = c]
              /\ row' = IF Schedule!Claims(c)
                        THEN [row EXCEPT ![c.owner].updated = <<tick[s].at, s>>]
                        ELSE row
      BY <2>3 DEF Schedule!Claim
    <3> DEFINE pc == IF Schedule!Claims(c) THEN "start" ELSE "next"
               t == [tick[s] EXCEPT !.due = @ \ {c}, !.pc = pc, !.cur = c]
    <3>2. TickBecomes(s, t) /\ fired' = fired
      BY <3>1, <2>3, <2>0 DEF Schedule!Claim, TickBecomes, TickRecord, ScheduleInv, TicksFit
    <3>3. pc \in {"start", "next"}
      OBVIOUS
    <3> HIDE DEF pc
    <3>4. t.pc = pc /\ t.at = tick[s].at /\ t.due = tick[s].due \ {c} /\ t.cur = c
      BY <2>0 DEF TickRecord
    <3> HIDE DEF t
    <3>5. TickAhead(t, fired)
      BY <2>0, <2>3, <3>3, <3>4 DEF TickAhead, Schedule!Claim
    <3>6. \A o \in Owners : row'[o].nextRun = row[o].nextRun
      BY <3>1 DEF ScheduleInv, Schedule!Row
    <3>7. \A f \in fired : row'[f.owner].nextRun = 0 \/ f.slot < row'[f.owner].nextRun
      <4>1. \A f \in fired : row[f.owner].nextRun = 0 \/ f.slot < row[f.owner].nextRun
        BY <2>3, <1>0, RowsAhead DEF Schedule!Claim
      <4>2. \A f \in fired : f.owner \in Owners
        BY DEF ScheduleInv, FiredFits, FiredRun
      <4> QED BY <3>6, <4>1, <4>2
    <3> QED BY <1>0, <3>2, <3>5, <3>7, OnlyTickMoves
  <2>4. CASE Schedule!StartRun(s)
    <3> DEFINE f == [owner |-> tick[s].cur.owner, slot |-> tick[s].cur.row.nextRun,
                     at |-> tick[s].at, by |-> s]
    <3>0. /\ row' = row
          /\ \A g \in fired : row[g.owner].nextRun = 0 \/ g.slot < row[g.owner].nextRun
      <4>1. row' = row
        BY <2>4 DEF Schedule!StartRun, Schedule!Skip
      <4>2. tick[s].pc # "persist"
        BY <2>4 DEF Schedule!StartRun
      <4> QED BY <4>1, <4>2, <1>0, RowsAhead
    <3>1. CASE tick' = [tick EXCEPT ![s].pc = "persist"] /\ fired' = fired \cup {f}
      <4> DEFINE t == [tick[s] EXCEPT !.pc = "persist"]
      <4>1. \A p \in Servers : tick'[p] = t
        BY <3>1, <2>0 DEF OneProcess, TickRecord, ScheduleInv, TicksFit
      <4>2. t.pc = "persist" /\ t.at = tick[s].at /\ t.due = tick[s].due
            /\ t.cur = tick[s].cur
        BY <2>0 DEF TickRecord
      <4> HIDE DEF t
      <4>3. /\ f.owner = tick[s].cur.owner /\ f.at = tick[s].at
            /\ f.slot = tick[s].cur.row.nextRun
        OBVIOUS
      <4> HIDE DEF f
      <4>4. tick[s].pc = "start" /\ tick[s].at \in Nat /\ f.at <= tick[s].at
            /\ Behind(tick[s].cur, fired)
        BY <2>0, <2>4, <4>3 DEF Schedule!StartRun, TickAhead, TickRecord
      <4>5. TickAhead(t, fired')
        <5>1. \A g \in fired' : g.at <= t.at
          BY <2>0, <3>1, <4>2, <4>4 DEF TickAhead
        <5>2. \A d \in t.due : d.owner # t.cur.owner /\ Behind(d, fired)
          BY <2>0, <4>2, <4>4 DEF TickAhead
        <5>3. \A d \in t.due : Behind(d, fired')
          BY <5>2, <3>1, <4>2, <4>3 DEF Behind
        <5>4. \A d, e \in t.due : d.owner = e.owner => d = e
          BY <2>0, <4>2 DEF TickAhead
        <5> QED BY <5>1, <5>2, <5>3, <5>4, <4>2 DEF TickAhead
      <4>6. \A g \in fired' : SlotWritten(g, row'[g.owner], tick')
        BY <3>0, <3>1, <4>1, <4>2, <4>3 DEF SlotWritten, WritesBack
      <4>7. \A g \in fired : g.slot \in Nat
        BY DEF ScheduleInv, FiredFits, FiredRun
      <4>8. \A g \in fired : g.owner = f.owner => g.slot # f.slot
        BY <4>3, <4>4, <4>7 DEF Behind
      <4>9. \A g, h \in fired' : g.owner = h.owner /\ g.slot = h.slot => g = h
        BY <1>0, <3>1, <4>8 DEF SlotsAreBehind
      <4> QED BY <4>1, <4>5, <4>6, <4>9 DEF SlotsAreBehind
    <3>2. CASE tick' = [tick EXCEPT ![s].pc = "next"] /\ UNCHANGED fired
      <4> DEFINE t == [tick[s] EXCEPT !.pc = "next"]
      <4>1. TickBecomes(s, t)
        BY <3>2, <2>0 DEF TickBecomes, TickRecord, ScheduleInv, TicksFit
      <4>2. t.pc = "next" /\ t.at = tick[s].at /\ t.due = tick[s].due
        BY <2>0 DEF TickRecord
      <4> HIDE DEF t
      <4>3. TickAhead(t, fired)
        BY <2>0, <2>4, <4>2 DEF TickAhead, Schedule!StartRun
      <4> QED BY <1>0, <3>0, <3>2, <4>1, <4>3, OnlyTickMoves
    <3> QED BY <2>4, <3>1, <3>2, Zenon DEF Schedule!StartRun
  <2>5. CASE Schedule!PersistTrigger(s)
    <3> DEFINE t == [tick[s] EXCEPT !.pc = "next"]
               o == tick[s].cur.owner
    <3>1. TickBecomes(s, t) /\ fired' = fired
      BY <2>5, <2>0 DEF Schedule!PersistTrigger, TickBecomes, TickRecord, ScheduleInv, TicksFit
    <3>2. t.pc = "next" /\ t.at = tick[s].at /\ t.due = tick[s].due
      BY <2>0 DEF TickRecord
    <3> HIDE DEF t
    <3>3. TickAhead(t, fired)
      BY <2>0, <2>5, <3>2 DEF TickAhead, Schedule!PersistTrigger
    <3>4. row' = [row EXCEPT ![o] = Schedule!WriteBack(s)] /\ o \in Owners
          /\ tick[s].at < Schedule!WriteBack(s).nextRun
          /\ Schedule!WriteBack(s).nextRun \in Nat
      BY <2>5, WrittenBack DEF Schedule!PersistTrigger, RowFits, Schedule!Row, Schedule!Time
    <3>5. ASSUME NEW f \in fired
          PROVE  row'[f.owner].nextRun = 0 \/ f.slot < row'[f.owner].nextRun
      <4>0. f.owner \in Owners /\ f.slot \in Nat /\ f.at \in Nat /\ f.slot <= f.at
            /\ tick[s].at \in Nat /\ f.at <= tick[s].at
        BY <2>0, <2>5 DEF ScheduleInv, FiredFits, FiredRun, TickRecord, TickAhead,
           Schedule!PersistTrigger
      <4>1. CASE f.owner = o
        <5>1. row'[f.owner] = Schedule!WriteBack(s)
          BY <3>4, <4>1 DEF ScheduleInv
        <5> QED BY <5>1, <3>4, <4>0
      <4>2. CASE f.owner # o
        <5>1. row'[f.owner] = row[f.owner]
          BY <3>4, <4>2, <4>0 DEF ScheduleInv
        <5>2. SlotWritten(f, row[f.owner], tick)
          BY <1>0 DEF SlotsAreBehind
        <5> QED BY <5>1, <5>2, <4>2 DEF SlotWritten, WritesBack, OneProcess
      <4> QED BY <4>1, <4>2
    <3> QED BY <1>0, <3>1, <3>3, <3>5, OnlyTickMoves
  <2>6. CASE Schedule!EndTick(s)
    <3>1. TickBecomes(s, Schedule!Idle) /\ UNCHANGED <<row, fired>> /\ tick[s].pc = "next"
      BY <2>6, Zenon DEF Schedule!EndTick, TickBecomes
    <3>2. TickAhead(Schedule!Idle, fired)
      BY ScheduleConstants DEF TickAhead
    <3>3. \A f \in fired : row[f.owner].nextRun = 0 \/ f.slot < row[f.owner].nextRun
      BY <3>1, <1>0, RowsAhead
    <3> QED BY <1>0, <3>1, <3>2, <3>3, OnlyTickMoves
  <2> QED BY <1>3, <2>1, <2>2, <2>3, <2>4, <2>5, <2>6 DEF Schedule!Tick
<1> QED BY <1>0, <1>1, <1>2, <1>3
    DEF Schedule!Next, scheduleVars, Schedule!TimePasses, Schedule!ManualStart, Schedule!RunEnds

\* In one process, and with no crash and no failed statement, no slot of a
\* schedule is run twice, however many saves, manual runs and late ticks
\* there are.
THEOREM SlotsRunOnce == ASSUME OneProcess PROVE Spec => []OneRunPerSlot
<1>1. Init => SlotsAreBehind
  <2>1. ASSUME Schedule!Init
        PROVE  fired = {} /\ \A s \in Servers : tick[s] = Schedule!Idle
    BY <2>1 DEF Schedule!Init
  <2>2. TickAhead(Schedule!Idle, {})
    BY ScheduleConstants DEF TickAhead
  <2> QED BY <2>1, <2>2 DEF Init, SlotsAreBehind
<1>2. ScheduleInv /\ SlotsAreBehind /\ [Next]_vars => SlotsAreBehind'
  BY SlotsStayBehind, PartsMoveAlone
<1>3. SlotsAreBehind => OneRunPerSlot
  BY DEF SlotsAreBehind, OneRunPerSlot, Schedule!OneRunPerSlot
<1> QED BY <1>1, <1>2, <1>3, ScheduleIsSound, PTL DEF Spec

-----------------------------------------------------------------------------
(* The strategy.  A list of families that is in the order of its ranks     *)
(* stays so through every edit and conversion because ranks are given by   *)
(* position; that a sort by rank keeps the families is SortIsAPermutation. *)

FamilyRecord == [title : Nat, status : Strategy!Status, priorityRank : Nat]

StrategyFits(s) ==
    /\ s = [themes |-> s.themes, families |-> s.families]
    /\ s.families \in Seq(FamilyRecord)
    /\ Strategy!InRankOrder(s.families)

CallFits(c) ==
    /\ c = [at |-> c.at, sent |-> c.sent, repairs |-> c.repairs]
    /\ c.at \in {"none", "review", "execute", "done"}
    /\ c.repairs \in 0 .. MaxRepairs
    /\ StrategyFits(c.sent)

StrategyInv ==
    /\ StrategyFits(stored) /\ StrategyFits(snapshot) /\ StrategyFits(baseline)
    /\ StrategyFits(load.got)
    /\ CallFits(agentCall)

\* Families of the set S that a stable sort puts no later than i.
NoLater(families, S, i) ==
    {j \in S :
        \/ families[j].priorityRank < families[i].priorityRank
        \/ families[j].priorityRank = families[i].priorityRank /\ j <= i}

LEMMA PlaceCounts ==
    \A families, S, i : Strategy!Place(families, S, i) = Cardinality(NoLater(families, S, i))
<1>1. \A S : Strategy!Cardinality(S) = Cardinality(S)
  BY DEF Strategy!Cardinality, Cardinality
<1> QED BY <1>1, Zenon DEF Strategy!Place, NoLater

\* A stable sort gives every family a place of its own, and every place to
\* a family.
LEMMA SortIsAPermutation ==
    ASSUME NEW families, NEW S \in SUBSET Nat, IsFiniteSet(S),
           \A i \in S : families[i].priorityRank \in Nat
    PROVE  /\ \A p \in 1 .. Cardinality(S) :
                 /\ Strategy!AtPlace(families, S, p) \in S
                 /\ Strategy!Place(families, S, Strategy!AtPlace(families, S, p)) = p
           /\ \A i, k \in S :
                 i # k => Strategy!Place(families, S, i) # Strategy!Place(families, S, k)
<1> DEFINE P(i) == Strategy!Place(families, S, i)
           f == [i \in S |-> P(i)]
<1>1. ASSUME NEW i \in S
      PROVE  /\ NoLater(families, S, i) \in SUBSET S /\ IsFiniteSet(NoLater(families, S, i))
             /\ i \in NoLater(families, S, i)
  <2>1. NoLater(families, S, i) \in SUBSET S /\ i \in NoLater(families, S, i)
    BY DEF NoLater
  <2> QED BY <2>1, FS_Subset
<1>2. \A i \in S : P(i) \in 1 .. Cardinality(S)
  <2> TAKE i \in S
  <2>1. P(i) \in Nat /\ P(i) <= Cardinality(S) /\ Cardinality(S) \in Nat
    BY <1>1, PlaceCounts, FS_Subset, FS_CardinalityType
  <2>2. P(i) # 0
    BY <1>1, PlaceCounts, FS_EmptySet
  <2> HIDE DEF P
  <2> QED BY <2>1, <2>2
<1>3. ASSUME NEW i \in S, NEW k \in S, i # k,
             \/ families[i].priorityRank < families[k].priorityRank
             \/ families[i].priorityRank = families[k].priorityRank /\ i <= k
      PROVE  P(i) # P(k)
  <2> DEFINE Rank(j) == families[j].priorityRank
  <2>0. /\ \A j \in S : Rank(j) \in Nat /\ j \in Nat
        /\ Rank(i) < Rank(k) \/ (Rank(i) = Rank(k) /\ i <= k)
        /\ \A m : NoLater(families, S, m) =
                     {j \in S : Rank(j) < Rank(m) \/ (Rank(j) = Rank(m) /\ j <= m)}
    BY <1>3 DEF NoLater
  <2> HIDE DEF Rank
  <2>1. NoLater(families, S, i) \in SUBSET NoLater(families, S, k)
    <3>1. ASSUME NEW j \in NoLater(families, S, i)
          PROVE  j \in NoLater(families, S, k)
      <4>1. j \in S /\ (Rank(j) < Rank(i) \/ (Rank(j) = Rank(i) /\ j <= i))
        BY <2>0
      <4>2. Rank(j) \in Nat /\ Rank(i) \in Nat /\ Rank(k) \in Nat
            /\ j \in Nat /\ i \in Nat /\ k \in Nat
        BY <4>1, <2>0
      <4>3. Rank(j) < Rank(k) \/ (Rank(j) = Rank(k) /\ j <= k)
        BY <2>0, <4>1, <4>2
      <4> QED BY <2>0, <4>1, <4>3
    <3> QED BY <3>1
  <2>2. k \notin NoLater(families, S, i) /\ k \in NoLater(families, S, k)
    <3>1. k \in NoLater(families, S, k)
      BY <1>1, Zenon
    <3>2. ~ (Rank(k) < Rank(i) \/ (Rank(k) = Rank(i) /\ k <= i))
      <4>1. Rank(k) \in Nat /\ Rank(i) \in Nat /\ k \in Nat /\ i \in Nat
        BY <2>0
      <4> QED BY <1>3, <2>0, <4>1
    <3> QED BY <2>0, <3>1, <3>2
  <2>3. Cardinality(NoLater(families, S, i)) # Cardinality(NoLater(families, S, k))
    <3>1. IsFiniteSet(NoLater(families, S, k))
      BY <1>1
    <3>2. NoLater(families, S, i) # NoLater(families, S, k)
      BY <2>2
    <3> QED BY <2>1, <3>1, <3>2, FS_Subset, Zenon
  <2> QED BY <2>3, PlaceCounts, Zenon
<1>4. \A i, k \in S : i # k => P(i) # P(k)
  <2> SUFFICES ASSUME NEW i \in S, NEW k \in S, i # k PROVE P(i) # P(k)
    OBVIOUS
  <2> HIDE DEF P
  <2>1. /\ families[i].priorityRank \in Nat /\ families[k].priorityRank \in Nat
        /\ i \in Nat /\ k \in Nat
    OBVIOUS
  <2>2. \/ families[i].priorityRank < families[k].priorityRank
        \/ families[i].priorityRank = families[k].priorityRank /\ i <= k
        \/ families[k].priorityRank < families[i].priorityRank
        \/ families[k].priorityRank = families[i].priorityRank /\ k <= i
    BY <2>1
  <2> QED BY <1>3, <2>2, Zenon
<1>5. f \in Injection(S, 1 .. Cardinality(S))
  <2> HIDE DEF P
  <2> QED BY <1>2, <1>4, Zenon DEF Injection, IsInjective
<1>6. Cardinality(S) \in Nat /\ IsFiniteSet(1 .. Cardinality(S))
      /\ Cardinality(1 .. Cardinality(S)) = Cardinality(S)
  <2>1. Cardinality(S) \in Nat
    BY FS_CardinalityType
  <2> QED BY <2>1, FS_Interval
<1>7. f \in Surjection(S, 1 .. Cardinality(S))
  BY <1>5, <1>6, FS_Injection
<1>8. \A p \in 1 .. Cardinality(S) : \E i \in S : P(i) = p
  <2> HIDE DEF P
  <2> QED BY <1>7 DEF Surjection
<1> QED BY <1>4, <1>8, Zenon DEF Strategy!AtPlace

LEMMA SortedFamilies ==
    ASSUME NEW families \in Seq(FamilyRecord)
    PROVE  /\ Strategy!SortedByRank(families) \in Seq(FamilyRecord)
           /\ Len(Strategy!SortedByRank(families)) = Len(families)
<1> DEFINE S == DOMAIN families
<1>1. S = 1 .. Len(families) /\ Len(families) \in Nat
  OBVIOUS
<1>2. S \in SUBSET Nat /\ IsFiniteSet(S) /\ Cardinality(S) = Len(families)
  <2>1. IsFiniteSet(1 .. Len(families)) /\ Cardinality(1 .. Len(families)) = Len(families)
    BY <1>1, FS_Interval
  <2> QED BY <1>1, <2>1
<1>3. \A i \in S : families[i] \in FamilyRecord /\ families[i].priorityRank \in Nat
  <2>1. \A i \in S : families[i] \in FamilyRecord
    BY <1>1
  <2> QED BY <2>1 DEF FamilyRecord
<1> HIDE DEF S
<1>4. \A p \in 1 .. Cardinality(S) : Strategy!AtPlace(families, S, p) \in S
  BY <1>2, <1>3, SortIsAPermutation
<1>5. \A p \in S : families[Strategy!AtPlace(families, S, p)] \in FamilyRecord
  BY <1>1, <1>2, <1>3, <1>4
<1>6. Strategy!SortedByRank(families) = [p \in S |-> families[Strategy!AtPlace(families, S, p)]]
  BY Zenon DEF Strategy!SortedByRank, S
<1> HIDE DEF S
<1> QED BY <1>1, <1>5, <1>6

\* Ranks by position: what Ranked returns is in order whatever it is given.
LEMMA RankedFamilies ==
    ASSUME NEW n \in Nat, NEW families, DOMAIN families = 1 .. n,
           \A i \in 1 .. n : families[i].title \in Nat /\ families[i].status \in Strategy!Status
    PROVE  LET r == Strategy!Ranked(families) IN
           /\ r \in Seq(FamilyRecord) /\ Strategy!InRankOrder(r)
           /\ DOMAIN r = 1 .. n
           /\ \A i \in 1 .. n : /\ r[i].title = families[i].title
                                /\ r[i].status = families[i].status
<1> DEFINE r == Strategy!Ranked(families)
<1>1. r = [i \in 1 .. n |-> Strategy!Family(families[i].title, families[i].status, i)]
  BY DEF Strategy!Ranked
<1>2. \A i \in 1 .. n :
        /\ Strategy!Family(families[i].title, families[i].status, i) \in FamilyRecord
        /\ Strategy!Family(families[i].title, families[i].status, i).priorityRank = i
        /\ Strategy!Family(families[i].title, families[i].status, i).title = families[i].title
        /\ Strategy!Family(families[i].title, families[i].status, i).status = families[i].status
  BY DEF Strategy!Family, FamilyRecord
<1> HIDE DEF r
<1>3. r \in Seq(FamilyRecord)
  BY <1>1, <1>2
<1>4. DOMAIN r = 1 .. n /\ \A i \in 1 .. n : r[i].priorityRank = i
      /\ r[i].title = families[i].title /\ r[i].status = families[i].status
  BY <1>1, <1>2
<1> QED BY <1>3, <1>4 DEF r, Strategy!InRankOrder

LEMMA EmptyFits == StrategyFits(Strategy!Empty) /\ CallFits(Strategy!NoCall)
<1>1. StrategyFits(Strategy!Empty)
  BY DEF Strategy!Empty, StrategyFits, Strategy!InRankOrder
<1>2. 0 \in 0 .. MaxRepairs
  BY ConsoleAssumption
<1> QED BY <1>1, <1>2 DEF Strategy!NoCall, CallFits

\* A strategy with other families, or with other themes.
LEMMA OtherFamilies ==
    ASSUME NEW s, StrategyFits(s), NEW families \in Seq(FamilyRecord),
           Strategy!InRankOrder(families)
    PROVE  StrategyFits([s EXCEPT !.families = families])
<1>1. [s EXCEPT !.families = families] = [themes |-> s.themes, families |-> families]
  BY DEF StrategyFits
<1> QED BY <1>1 DEF StrategyFits

LEMMA OtherThemes ==
    ASSUME NEW s, StrategyFits(s), NEW themes
    PROVE  StrategyFits([s EXCEPT !.themes = themes])
<1>1. [s EXCEPT !.themes = themes] = [themes |-> themes, families |-> s.families]
  BY DEF StrategyFits
<1> QED BY <1>1 DEF StrategyFits

\* What is stored after a review, whatever the agent said.
LEMMA BuiltFits ==
    ASSUME NEW update, NEW n \in Nat, DOMAIN update.families = 1 .. n,
           \A i \in 1 .. n : /\ update.families[i].title \in Nat
                             /\ update.families[i].status \in Strategy!Status
    PROVE  StrategyFits(Strategy!BuildUiSnapshotFromAgentReview(update))
<1>1. Strategy!Ranked(update.families) \in Seq(FamilyRecord)
      /\ Strategy!InRankOrder(Strategy!Ranked(update.families))
  BY RankedFamilies
<1> QED BY <1>1 DEF Strategy!BuildUiSnapshotFromAgentReview, StrategyFits

LEMMA AnswersFit ==
    \A update \in Strategy!Answers : StrategyFits(Strategy!BuildUiSnapshotFromAgentReview(update))
<1> SUFFICES ASSUME NEW update \in Strategy!Answers
             PROVE  StrategyFits(Strategy!BuildUiSnapshotFromAgentReview(update))
  OBVIOUS
<1>1. CASE update.families = <<>>
  <2>1. 0 \in Nat /\ DOMAIN update.families = 1 .. 0
        /\ \A i \in 1 .. 0 : /\ update.families[i].title \in Nat
                             /\ update.families[i].status \in Strategy!Status
    BY <1>1
  <2> QED BY <2>1, BuiltFits
<1>2. CASE \E t \in Strategy!Titles, s \in Strategy!Status :
              update.families = <<[title |-> t, status |-> s]>>
  <2>1. PICK t \in Strategy!Titles, s \in Strategy!Status :
            update.families = <<[title |-> t, status |-> s]>>
    BY <1>2
  <2>2. t \in Nat
    BY ConsoleAssumption DEF Strategy!Titles
  <2>3. 1 \in Nat /\ DOMAIN update.families = 1 .. 1
        /\ \A i \in 1 .. 1 : /\ update.families[i].title \in Nat
                             /\ update.families[i].status \in Strategy!Status
    BY <2>1, <2>2
  <2> QED BY <2>3, BuiltFits
<1> QED BY <1>1, <1>2 DEF Strategy!Answers

\* What a fallback keeps of a list of families.
LEMMA FallbackFits ==
    ASSUME NEW s, StrategyFits(s)
    PROVE  LET n == Len(s.families)
               u == Strategy!BuildFallbackProspectingUpdate(s)
               r == Strategy!BuildUiSnapshotFromAgentReview(u)
           IN /\ n \in Nat /\ DOMAIN s.families = 1 .. n
              /\ StrategyFits(r) /\ r.themes = s.themes /\ DOMAIN r.families = 1 .. n
              /\ \A i \in 1 .. n :
                    /\ r.families[i].title = s.families[i].title
                    /\ r.families[i].status = "Paused" <=> s.families[i].status = "Paused"
                    /\ r.families[i].priorityRank = i /\ s.families[i].priorityRank = i
<1> DEFINE n == Len(s.families)
           u == Strategy!BuildFallbackProspectingUpdate(s)
           r == Strategy!BuildUiSnapshotFromAgentReview(u)
<1>1. n \in Nat /\ DOMAIN s.families = 1 .. n
      /\ \A i \in 1 .. n : s.families[i] \in FamilyRecord /\ s.families[i].priorityRank = i
  BY DEF StrategyFits, Strategy!InRankOrder
<1>2. /\ u.themes = s.themes
      /\ u.families = [i \in 1 .. n |->
             [title |-> s.families[i].title,
              status |-> Strategy!NormalizeQueryFamilyStatus(s.families[i].status)]]
  BY <1>1 DEF Strategy!BuildFallbackProspectingUpdate
<1>3. r = [themes |-> u.themes, families |-> Strategy!Ranked(u.families)]
  BY DEF Strategy!BuildUiSnapshotFromAgentReview
<1> HIDE DEF n, u, r
<1>4. DOMAIN u.families = 1 .. n
  BY <1>2
<1>5. \A i \in 1 .. n :
        /\ u.families[i].title = s.families[i].title /\ u.families[i].title \in Nat
        /\ u.families[i].status \in {"Active", "Paused"}
        /\ u.families[i].status = "Paused" <=> s.families[i].status = "Paused"
  BY <1>1, <1>2 DEF FamilyRecord, Strategy!NormalizeQueryFamilyStatus
<1>6. \A i \in 1 .. n : u.families[i].title \in Nat /\ u.families[i].status \in Strategy!Status
  BY <1>5 DEF Strategy!Status
<1>7. /\ r.families \in Seq(FamilyRecord) /\ Strategy!InRankOrder(r.families)
      /\ DOMAIN r.families = 1 .. n
      /\ \A i \in 1 .. n : /\ r.families[i].title = u.families[i].title
                           /\ r.families[i].status = u.families[i].status
  BY <1>1, <1>3, <1>4, <1>6, RankedFamilies
<1>8. StrategyFits(r) /\ r.themes = s.themes
  BY <1>2, <1>3, <1>7 DEF StrategyFits
<1>9. \A i \in 1 .. n : r.families[i].priorityRank = i
  BY <1>7 DEF Strategy!InRankOrder
<1>10. \A i \in 1 .. n : /\ r.families[i].title = s.families[i].title
                         /\ r.families[i].status = "Paused" <=> s.families[i].status = "Paused"
  BY <1>5, <1>7
<1> QED BY <1>1, <1>7, <1>8, <1>9, <1>10 DEF n, u, r

LEMMA TakenOver ==
    ASSUME NEW s, NEW fallback, StrategyFits(s), StrategyFits(fallback)
    PROVE  StrategyFits(Strategy!NormalizeIncomingSnapshot(s, fallback))
BY DEF Strategy!NormalizeIncomingSnapshot, StrategyFits

\* The edits of the operator.
LEMMA EditsFit ==
    ASSUME NEW s, StrategyFits(s), NEW i \in Nat
    PROVE  /\ i \in DOMAIN s.families =>
                /\ StrategyFits([s EXCEPT !.families = Append(s.families,
                       [s.families[i] EXCEPT !.priorityRank = Len(s.families) + 1])])
                /\ StrategyFits([s EXCEPT !.families[i].status =
                       IF @ = "Paused" THEN "Active" ELSE "Paused"])
                /\ StrategyFits([s EXCEPT !.families =
                       Strategy!Ranked(Strategy!SortedByRank(Strategy!Boosted(s.families, i)))])
                /\ StrategyFits([s EXCEPT !.families =
                       Strategy!Ranked(Strategy!SortedByRank(Strategy!Demoted(s.families, i)))])
<1> SUFFICES ASSUME i \in DOMAIN s.families
             PROVE  /\ StrategyFits([s EXCEPT !.families = Append(s.families,
                           [s.families[i] EXCEPT !.priorityRank = Len(s.families) + 1])])
                    /\ StrategyFits([s EXCEPT !.families[i].status =
                           IF @ = "Paused" THEN "Active" ELSE "Paused"])
                    /\ StrategyFits([s EXCEPT !.families =
                           Strategy!Ranked(Strategy!SortedByRank(Strategy!Boosted(s.families, i)))])
                    /\ StrategyFits([s EXCEPT !.families =
                           Strategy!Ranked(Strategy!SortedByRank(Strategy!Demoted(s.families, i)))])
  OBVIOUS
<1> DEFINE F == s.families
           n == Len(F)
<1>1. F \in Seq(FamilyRecord) /\ n \in Nat /\ DOMAIN F = 1 .. n /\ i \in 1 .. n
      /\ F[i] \in FamilyRecord
      /\ \A k \in 1 .. n : F[k].priorityRank = k
  BY DEF StrategyFits, Strategy!InRankOrder
<1>2. StrategyFits([s EXCEPT !.families = Append(F, [F[i] EXCEPT !.priorityRank = n + 1])])
  <2> DEFINE copy == [F[i] EXCEPT !.priorityRank = n + 1]
             G == Append(F, copy)
  <2>1. copy \in FamilyRecord /\ copy.priorityRank = n + 1
    <3> HIDE DEF F, n
    <3>1. n + 1 \in Nat
      BY <1>1
    <3> QED BY <1>1, <3>1 DEF FamilyRecord
  <2> HIDE DEF copy, F
  <2>2. G \in Seq(FamilyRecord) /\ DOMAIN G = 1 .. (n + 1)
        /\ \A k \in 1 .. n : G[k] = F[k]
        /\ G[n + 1] = copy
    BY <1>1, <2>1
  <2>3. Strategy!InRankOrder(G)
    <3> HIDE DEF G
    <3>1. \A k \in 1 .. (n + 1) : k \in 1 .. n \/ k = n + 1
      BY <1>1
    <3> QED BY <1>1, <2>1, <2>2, <3>1 DEF Strategy!InRankOrder
  <2> HIDE DEF G
  <2>4. StrategyFits([s EXCEPT !.families = G])
    BY <2>2, <2>3, OtherFamilies
  <2> QED BY <2>4, Zenon DEF G, copy
<1>3. StrategyFits([s EXCEPT !.families[i].status = IF @ = "Paused" THEN "Active" ELSE "Paused"])
  <2> DEFINE status == IF F[i].status = "Paused" THEN "Active" ELSE "Paused"
             G == [F EXCEPT ![i].status = status]
  <2>0. status \in Strategy!Status
    BY DEF Strategy!Status
  <2> HIDE DEF status, F
  <2>1. [F[i] EXCEPT !.status = status] \in FamilyRecord
        /\ [F[i] EXCEPT !.status = status].priorityRank = F[i].priorityRank
    BY <1>1, <2>0 DEF FamilyRecord
  <2>2. G \in Seq(FamilyRecord)
    BY <1>1, <2>1, ExceptSeq
  <2>3. Strategy!InRankOrder(G)
    BY <1>1, <2>1 DEF Strategy!InRankOrder
  <2> HIDE DEF G
  <2>4. StrategyFits([s EXCEPT !.families = G])
    BY <2>2, <2>3, OtherFamilies
  <2>5. [s EXCEPT !.families[i].status = IF @ = "Paused" THEN "Active" ELSE "Paused"]
          = [s EXCEPT !.families = G]
    BY DEF G, F, status, StrategyFits
  <2> QED BY <2>4, <2>5
<1>4. ASSUME NEW families, families \in Seq(FamilyRecord)
      PROVE  StrategyFits([s EXCEPT !.families =
                 Strategy!Ranked(Strategy!SortedByRank(families))])
  <2> DEFINE sorted == Strategy!SortedByRank(families)
  <2>1. sorted \in Seq(FamilyRecord)
    BY <1>4, SortedFamilies
  <2> HIDE DEF sorted
  <2>2. Len(sorted) \in Nat /\ DOMAIN sorted = 1 .. Len(sorted)
        /\ \A k \in 1 .. Len(sorted) :
              sorted[k].title \in Nat /\ sorted[k].status \in Strategy!Status
    <3>1. Len(sorted) \in Nat /\ DOMAIN sorted = 1 .. Len(sorted)
          /\ \A k \in 1 .. Len(sorted) : sorted[k] \in FamilyRecord
      BY <2>1
    <3> QED BY <3>1 DEF FamilyRecord
  <2>3. Strategy!Ranked(sorted) \in Seq(FamilyRecord)
        /\ Strategy!InRankOrder(Strategy!Ranked(sorted))
    BY <2>2, RankedFamilies
  <2> QED BY <2>3, OtherFamilies DEF sorted
<1>5. ASSUME NEW rank \in Nat
      PROVE  [F EXCEPT ![i].priorityRank = rank] \in Seq(FamilyRecord)
  <2> HIDE DEF F
  <2>1. [F[i] EXCEPT !.priorityRank = rank] \in FamilyRecord
    BY <1>1 DEF FamilyRecord
  <2> QED BY <1>1, <2>1, ExceptSeq
<1>6. Strategy!Boosted(F, i) \in Seq(FamilyRecord)
  <2> DEFINE rank == IF F[i].priorityRank > 1 THEN F[i].priorityRank - 1 ELSE 1
  <2>1. rank \in Nat
    BY <1>1
  <2>2. Strategy!Boosted(F, i) = [F EXCEPT ![i].priorityRank = rank]
    BY <1>1 DEF Strategy!Boosted
  <2> HIDE DEF rank, F
  <2> QED BY <1>5, <2>1, <2>2 DEF F
<1>7. Strategy!Demoted(F, i) \in Seq(FamilyRecord)
  <2>1. F[i].priorityRank + 1 \in Nat
    BY <1>1
  <2>2. Strategy!Demoted(F, i) = [F EXCEPT ![i].priorityRank = F[i].priorityRank + 1]
    BY <1>1 DEF Strategy!Demoted
  <2> QED BY <1>5, <2>1, <2>2
<1>8. /\ StrategyFits([s EXCEPT !.families =
             Strategy!Ranked(Strategy!SortedByRank(Strategy!Boosted(F, i)))])
      /\ StrategyFits([s EXCEPT !.families =
             Strategy!Ranked(Strategy!SortedByRank(Strategy!Demoted(F, i)))])
  BY <1>4, <1>6, <1>7
<1> QED BY <1>2, <1>3, <1>8

LEMMA StrategyInitInv == Strategy!Init => StrategyInv
<1> SUFFICES ASSUME Strategy!Init PROVE StrategyInv
  OBVIOUS
<1>1. PICK status \in {"Active", "Watch"} :
          stored = [themes |-> <<1>>, families |-> <<Strategy!Family(1, status, 1),
                                                     Strategy!Family(2, "Active", 2)>>]
  BY DEF Strategy!Init
<1>2. /\ Strategy!Family(1, status, 1) \in FamilyRecord
      /\ Strategy!Family(2, "Active", 2) \in FamilyRecord
      /\ Strategy!Family(1, status, 1).priorityRank = 1
      /\ Strategy!Family(2, "Active", 2).priorityRank = 2
  BY DEF Strategy!Family, FamilyRecord, Strategy!Status
<1>3. StrategyFits(stored)
  BY <1>1, <1>2 DEF StrategyFits, Strategy!InRankOrder
<1>4. load.got = Strategy!Empty
  BY DEF Strategy!Init
<1> QED BY <1>3, <1>4, EmptyFits DEF Strategy!Init, StrategyInv

\* What an edit makes of the draft.
LEMMA EditKeeps ==
    ASSUME StrategyInv, NEW s, StrategyFits(s), Strategy!Edit(s)
    PROVE  StrategyInv'
BY DEF StrategyInv, Strategy!Edit

LEMMA StrategyStepInv == StrategyInv /\ [Strategy!Next]_strategyVars => StrategyInv'
<1> SUFFICES ASSUME StrategyInv, [Strategy!Next]_strategyVars PROVE StrategyInv'
  OBVIOUS
<1>0. StrategyFits(stored) /\ StrategyFits(snapshot) /\ StrategyFits(baseline)
      /\ StrategyFits(load.got) /\ CallFits(agentCall)
  BY DEF StrategyInv
<1>1. CASE UNCHANGED strategyVars
  BY <1>1 DEF strategyVars, StrategyInv
<1>2. CASE Strategy!ReadConfiguration \/ Strategy!LoadFails
  BY <1>2, <1>0, EmptyFits
     DEF Strategy!ReadConfiguration, Strategy!LoadFails, Strategy!page, StrategyInv
<1>3. CASE Strategy!Loaded
  BY <1>3, <1>0, EmptyFits, TakenOver DEF Strategy!Loaded, Strategy!TakeOver, StrategyInv
<1>4. CASE Strategy!SaveChanges \/ Strategy!ResetChanges
  BY <1>4, <1>0 DEF Strategy!SaveChanges, Strategy!ResetChanges, StrategyInv
<1>5. ASSUME NEW l \in Strategy!Labels, Strategy!AddTheme(l) \/ Strategy!RemoveTheme(l)
      PROVE  StrategyInv'
  BY <1>5, <1>0, OtherThemes, EditKeeps DEF Strategy!AddTheme, Strategy!RemoveTheme
<1>6. ASSUME NEW i \in 1 .. 4,
             \/ Strategy!MoveTheme(i) \/ Strategy!DuplicateQueryFamily(i)
             \/ Strategy!ToggleQueryPause(i)
             \/ Strategy!BoostQueryPriority(i) \/ Strategy!DemoteQueryPriority(i)
      PROVE  StrategyInv'
  <2>0. i \in Nat
    OBVIOUS
  <2>1. CASE Strategy!MoveTheme(i)
    BY <2>1, <1>0, OtherThemes, EditKeeps DEF Strategy!MoveTheme
  <2>2. CASE Strategy!DuplicateQueryFamily(i)
    <3>1. StrategyFits([snapshot EXCEPT !.families = Append(snapshot.families,
              [snapshot.families[i] EXCEPT !.priorityRank = Len(snapshot.families) + 1])])
      BY <2>0, <2>2, <1>0, EditsFit DEF Strategy!DuplicateQueryFamily
    <3> QED BY <2>2, <3>1, EditKeeps DEF Strategy!DuplicateQueryFamily, Strategy!CopyRank
  <2>3. CASE Strategy!ToggleQueryPause(i)
    <3>1. StrategyFits([snapshot EXCEPT !.families[i].status =
              IF @ = "Paused" THEN "Active" ELSE "Paused"])
      BY <2>0, <2>3, <1>0, EditsFit DEF Strategy!ToggleQueryPause
    <3> QED BY <2>3, <3>1, EditKeeps DEF Strategy!ToggleQueryPause
  <2>4. CASE Strategy!BoostQueryPriority(i)
    <3>1. StrategyFits([snapshot EXCEPT !.families =
              Strategy!Ranked(Strategy!SortedByRank(Strategy!Boosted(snapshot.families, i)))])
      BY <2>0, <2>4, <1>0, EditsFit DEF Strategy!BoostQueryPriority
    <3> QED BY <2>4, <3>1, EditKeeps DEF Strategy!BoostQueryPriority
  <2>5. CASE Strategy!DemoteQueryPriority(i)
    <3>1. StrategyFits([snapshot EXCEPT !.families =
              Strategy!Ranked(Strategy!SortedByRank(Strategy!Demoted(snapshot.families, i)))])
      BY <2>0, <2>5, <1>0, EditsFit DEF Strategy!DemoteQueryPriority
    <3> QED BY <2>5, <3>1, EditKeeps DEF Strategy!DemoteQueryPriority
  <2> QED BY <1>6, <2>1, <2>2, <2>3, <2>4, <2>5
<1>7. CASE Strategy!HandleAgentAction \/ Strategy!RunNow
  <2>1. \A place \in {"review", "execute"} :
            CallFits([at |-> place, sent |-> snapshot, repairs |-> 0])
    BY <1>0, ConsoleAssumption DEF CallFits
  <2> QED BY <1>7, <1>0, <2>1
      DEF Strategy!HandleAgentAction, Strategy!RunNow, Strategy!Ask, Strategy!page, StrategyInv
<1>8. \A place \in {"execute", "done"} : CallFits([agentCall EXCEPT !.at = place])
  BY <1>0 DEF CallFits
<1>9. ASSUME NEW update \in Strategy!Answers, Strategy!ReviewComplies(update)
      PROVE  StrategyInv'
  BY <1>9, <1>0, <1>8, AnswersFit DEF Strategy!ReviewComplies, Strategy!page, StrategyInv
<1>10. CASE Strategy!AskForRepair
  <2>1. CallFits([agentCall EXCEPT !.repairs = agentCall.repairs + 1])
    <3>1. MaxRepairs \in Nat /\ agentCall.repairs \in 0 .. MaxRepairs
          /\ agentCall.repairs < MaxRepairs
      BY <1>0, <1>10, ConsoleAssumption DEF Strategy!AskForRepair, CallFits
    <3> DEFINE k == agentCall.repairs + 1
    <3>2. k \in 0 .. MaxRepairs
      BY <3>1
    <3> HIDE DEF k
    <3>3. CallFits([agentCall EXCEPT !.repairs = k])
      BY <1>0, <3>2 DEF CallFits
    <3> QED BY <3>3 DEF k
  <2>2. agentCall' = [agentCall EXCEPT !.repairs = agentCall.repairs + 1]
    BY <1>10 DEF Strategy!AskForRepair
  <2> QED BY <1>10, <1>0, <2>1, <2>2 DEF Strategy!AskForRepair, Strategy!page, StrategyInv
<1>11. CASE Strategy!ReviewFallsBack
  <2>1. StrategyFits(Strategy!BuildUiSnapshotFromAgentReview(
                         Strategy!BuildFallbackProspectingUpdate(agentCall.sent)))
    BY <1>0, FallbackFits DEF CallFits
  <2> QED BY <1>11, <1>0, <1>8, <2>1 DEF Strategy!ReviewFallsBack, Strategy!page, StrategyInv
<1>12. CASE Strategy!Execute \/ Strategy!CallFails
  BY <1>12, <1>0, <1>8, EmptyFits
     DEF Strategy!Execute, Strategy!CallFails, Strategy!page, StrategyInv
<1>13. CASE Strategy!Answered
  BY <1>13, <1>0, EmptyFits, TakenOver DEF Strategy!Answered, Strategy!TakeOver, StrategyInv
<1> QED BY <1>1, <1>2, <1>3, <1>4, <1>5, <1>6, <1>7, <1>9, <1>10, <1>11, <1>12, <1>13
    DEF Strategy!Next

LEMMA StrategyIsSound == Spec => []StrategyInv
<1>1. Init => StrategyInv
  BY StrategyInitInv DEF Init
<1>2. StrategyInv /\ [Next]_vars => StrategyInv'
  BY StrategyStepInv, PartsMoveAlone
<1> QED BY <1>1, <1>2, PTL DEF Spec

\* However often families are copied, boosted and demoted, and whatever
\* agents answer in between: the order of the list is that of the ranks.
THEOREM RanksAreTheOrder == Spec => []RanksFollowOrder
<1>1. StrategyInv => RanksFollowOrder
  BY DEF StrategyInv, CallFits, StrategyFits, RanksFollowOrder, Strategy!RanksFollowOrder
<1> QED BY <1>1, StrategyIsSound, PTL

\* Two lists that agree on titles, ranks and what is paused are searched for
\* alike.
LEMMA SamePlan ==
    ASSUME NEW before, NEW after, NEW n \in Nat,
           DOMAIN before.families = 1 .. n, DOMAIN after.families = 1 .. n,
           \A i \in 1 .. n :
              /\ after.families[i].title = before.families[i].title
              /\ after.families[i].status = "Paused" <=> before.families[i].status = "Paused"
              /\ after.families[i].priorityRank = i /\ before.families[i].priorityRank = i
    PROVE  Strategy!BuildProspectingExecutionPlan(after) =
               Strategy!BuildProspectingExecutionPlan(before)
<1> DEFINE A == after.families
           B == before.families
           S == {i \in 1 .. n : B[i].status # "Paused"}
           count == IF Strategy!Cardinality(S) < MaxQueries
                    THEN Strategy!Cardinality(S) ELSE MaxQueries
<1>1. {i \in DOMAIN A : A[i].status # "Paused"} = S /\ {i \in DOMAIN B : B[i].status # "Paused"} = S
  OBVIOUS
<1>2. /\ S \in SUBSET Nat /\ IsFiniteSet(S) /\ S \subseteq 1 .. n
      /\ \A i \in S : B[i].priorityRank \in Nat /\ A[i].priorityRank \in Nat
  <2>1. S \in SUBSET (1 .. n) /\ IsFiniteSet(1 .. n) /\ S \in SUBSET Nat
    BY FS_Interval
  <2>2. IsFiniteSet(S)
    BY <2>1, FS_Subset
  <2>3. \A i \in S : B[i].priorityRank = i /\ A[i].priorityRank = i /\ i \in Nat
    OBVIOUS
  <2> QED BY <2>1, <2>2, <2>3
<1>3. \A i \in S : Strategy!Place(A, S, i) = Strategy!Place(B, S, i)
  <2>1. \A i \in S : NoLater(A, S, i) = NoLater(B, S, i)
    BY DEF NoLater
  <2> QED BY <2>1, PlaceCounts
<1>4. \A p \in 1 .. Cardinality(S) : Strategy!AtPlace(A, S, p) = Strategy!AtPlace(B, S, p)
  <2> HIDE DEF A, B, S
  <2>1. \A families \in {A, B} : \A p \in 1 .. Cardinality(S) :
            /\ Strategy!AtPlace(families, S, p) \in S
            /\ Strategy!Place(families, S, Strategy!AtPlace(families, S, p)) = p
    BY <1>2, SortIsAPermutation
  <2>2. \A i, k \in S : i # k => Strategy!Place(B, S, i) # Strategy!Place(B, S, k)
    BY <1>2, SortIsAPermutation
  <2> QED BY <1>3, <2>1, <2>2
<1>5. \A p \in 1 .. Cardinality(S) : Strategy!AtPlace(B, S, p) \in S
  BY <1>2, SortIsAPermutation
<1>6. Strategy!Cardinality(S) = Cardinality(S) /\ Cardinality(S) \in Nat
  <2>1. Strategy!Cardinality(S) = Cardinality(S)
    BY DEF Strategy!Cardinality, Cardinality
  <2> QED BY <1>2, <2>1, FS_CardinalityType
<1>7. \A p \in 1 .. count : p \in 1 .. Cardinality(S)
  <2>1. MaxQueries \in Nat
    BY ConsoleAssumption
  <2> QED BY <1>6, <2>1
<1>8. \A i \in S : A[i].title = B[i].title
  BY <1>2
<1>9. /\ Strategy!BuildProspectingExecutionPlan(after) =
            [p \in 1 .. count |-> A[Strategy!AtPlace(A, S, p)].title]
      /\ Strategy!BuildProspectingExecutionPlan(before) =
            [p \in 1 .. count |-> B[Strategy!AtPlace(B, S, p)].title]
  BY <1>1, Zenon DEF Strategy!BuildProspectingExecutionPlan
<1> HIDE DEF A, B, S, count
<1>10. \A p \in 1 .. count : A[Strategy!AtPlace(A, S, p)].title = B[Strategy!AtPlace(B, S, p)].title
  BY <1>4, <1>5, <1>7, <1>8
<1> QED BY <1>9, <1>10

\* A review whose answer cannot be used leaves the themes, the families and
\* what the next execution searches for, whatever the operator has done to
\* the strategy before.
THEOREM FallbackKeepsTheSearch == Spec => UnusableReviewKeepsSearch
<1>1. StrategyInv /\ [Next]_vars =>
         [Strategy!ReviewFallsBack => Strategy!FallbackKeeps(agentCall.sent, stored')]_Strategy!vars
  <2> SUFFICES ASSUME StrategyInv, Strategy!ReviewFallsBack
               PROVE  Strategy!FallbackKeeps(agentCall.sent, stored')
    OBVIOUS
  <2> DEFINE s == agentCall.sent
             r == Strategy!BuildUiSnapshotFromAgentReview(Strategy!BuildFallbackProspectingUpdate(s))
  <2>1. stored' = r /\ StrategyFits(s)
    BY DEF Strategy!ReviewFallsBack, StrategyInv, CallFits
  <2> HIDE DEF s
  <2>2. /\ Len(s.families) \in Nat /\ DOMAIN s.families = 1 .. Len(s.families)
        /\ r.themes = s.themes /\ DOMAIN r.families = 1 .. Len(s.families)
        /\ r.families \in Seq(FamilyRecord)
        /\ Strategy!BuildProspectingExecutionPlan(r) = Strategy!BuildProspectingExecutionPlan(s)
    BY <2>1, FallbackFits, SamePlan DEF StrategyFits
  <2> HIDE DEF r
  <2>3. Len(r.families) = Len(s.families)
    BY <2>2
  <2> QED BY <2>1, <2>2, <2>3 DEF Strategy!FallbackKeeps, s
<1> QED BY <1>1, StrategyIsSound, PTL
        DEF Spec, UnusableReviewKeepsSearch, Strategy!UnusableReviewKeepsSearch

-----------------------------------------------------------------------------
(* The contents of the board.  Each of the five queries of a request sees  *)
(* the rows of a different moment; SeenSince says what a value that was    *)
(* read tells about the moments since the request began.  The source is    *)
(* the hard one: its card depends on three queries, and what keeps them    *)
(* together is that a source with a row never loses it and that one with   *)
(* proto-ideas has been extracted for good (RowsFit).                      *)

RowsFit(rows) ==
    /\ rows \in Contents!Database
    /\ rows.proto # "none" => rows.source = "COMPLETED"

RequestShape(q) ==
    q = [result |-> q.result, source |-> q.source, proto |-> q.proto,
         candidate |-> q.candidate, opportunity |-> q.opportunity]

\* What a request q that has read something knows, when the rows are now.
SeenSince(q, rows, some, all) ==
    /\ all \subseteq Contents!Waits(rows) /\ Contents!Waits(rows) \subseteq some
    /\ q.opportunity # Unread =>
          IF q.opportunity THEN "curated-opportunities" \in some
          ELSE "curated-opportunities" \notin all
    /\ q.candidate # Unread =>
          IF q.candidate = "AWAITING_EVALUATION" THEN "idea-candidates" \in some
          ELSE "idea-candidates" \notin all
    /\ q.proto # Unread =>
          /\ q.proto \in {"none"} \cup Contents!Processing
          /\ IF q.proto \in {"PENDING", "FAILED"} THEN "proto-ideas" \in some
             ELSE "proto-ideas" \notin all
          /\ q.proto # "none" => "sources" \notin all
    /\ q.source # Unread =>
          /\ q.source \in {"none"} \cup Contents!Processing
          /\ q.source \in {"PENDING", "FAILED"} => "sources" \in some
          /\ q.source \in {"PROCESSING", "COMPLETED"} => "sources" \notin all
          /\ q.source = "none" /\ q.result = TRUE => "sources" \in some
    /\ q.result \in BOOLEAN
    /\ q.result = TRUE /\ rows.source = "none" => "sources" \in some
    /\ q.result = FALSE /\ "sources" \in all => rows.source # "none" /\ q.source # "none"

ContentsInv ==
    /\ RowsFit(db)
    /\ RequestShape(request)
    /\ request = Contents!NothingRead \/ SeenSince(request, db, ever, always)
    /\ board.unprocessed \subseteq board.total /\ board.total \subseteq Contents!Columns

LEMMA NothingReadIs ==
    /\ Contents!NothingRead = [result |-> Unread, source |-> Unread, proto |-> Unread,
                               candidate |-> Unread, opportunity |-> Unread]
    /\ DOMAIN Contents!NothingYet = {"result", "source", "proto", "candidate", "opportunity"}
<1>1. DOMAIN Contents!NothingYet = {"result", "source", "proto", "candidate", "opportunity"}
  BY DEF Contents!NothingYet
<1>2. Contents!NothingRead = [field \in {"result", "source", "proto", "candidate", "opportunity"}
                                |-> Unread]
  BY <1>1, Zenon DEF Contents!NothingRead
<1> QED BY <1>1, <1>2

\* Where rows wait, by column.
LEMMA WaitingColumns ==
    ASSUME NEW rows \in Contents!Database
    PROVE  /\ Contents!Waits(rows) \subseteq Contents!Columns
           /\ "sources" \in Contents!Waits(rows) <=>
                 /\ rows.result = TRUE \/ rows.source # "none"
                 /\ rows.source \notin {"PROCESSING", "COMPLETED"}
           /\ "proto-ideas" \in Contents!Waits(rows) <=> rows.proto \in {"PENDING", "FAILED"}
           /\ "idea-candidates" \in Contents!Waits(rows) <=>
                 rows.candidate = "AWAITING_EVALUATION"
           /\ "curated-opportunities" \in Contents!Waits(rows) <=> rows.opportunity = TRUE
BY DEF Contents!Waits, Contents!Columns, Contents!Database, Contents!IsSource,
   Contents!IsNoLongerUnprocessed

LEMMA ContentsInitInv == Contents!Init => ContentsInv
<1> SUFFICES ASSUME Contents!Init PROVE ContentsInv
  OBVIOUS
<1>1. RowsFit(db)
  BY DEF Contents!Init, Contents!NothingYet, RowsFit, Contents!Database
<1>2. RequestShape(request) /\ request = Contents!NothingRead
  BY NothingReadIs DEF Contents!Init, RequestShape
<1> QED BY <1>1, <1>2 DEF Contents!Init, ContentsInv, Contents!EmptyColumns

\* A stage writes: what was seen stays seen.
LEMMA WritesKeepContents ==
    ASSUME ContentsInv, NEW rows, RowsFit(rows), db.source # "none" => rows.source # "none",
           Contents!Write(rows)
    PROVE  ContentsInv'
<1>1. SeenSince(request, db, ever, always) =>
        SeenSince(request, rows, ever \cup Contents!Waits(rows), always \cap Contents!Waits(rows))
  BY DEF SeenSince
<1> QED BY <1>1 DEF ContentsInv, Contents!Write

LEMMA StagesKeepContents ==
    ASSUME ContentsInv,
           \/ Contents!Prospect \/ Contents!ClaimSource \/ Contents!EndExtraction
           \/ Contents!ClaimProtoIdea \/ Contents!EndRefinement \/ Contents!EvaluateCandidate
    PROVE  ContentsInv'
<1>0. RowsFit(db)
  BY DEF ContentsInv
<1> USE DEF RowsFit, Contents!Database, Contents!Processing, Contents!Workflow
<1>1. CASE Contents!Prospect
  <2>1. RowsFit([db EXCEPT !.result = ~ db.result])
    BY <1>0
  <2>2. [db EXCEPT !.result = ~ db.result].source = db.source
    BY <1>0
  <2> HIDE DEF RowsFit
  <2> QED BY <1>1, <2>1, <2>2, WritesKeepContents DEF Contents!Prospect
<1>2. CASE Contents!ClaimSource
  <2>1. RowsFit([db EXCEPT !.source = "PROCESSING"])
    BY <1>0, <1>2 DEF Contents!ClaimSource
  <2>2. [db EXCEPT !.source = "PROCESSING"].source # "none"
    BY <1>0
  <2> HIDE DEF RowsFit
  <2> QED BY <1>2, <2>1, <2>2, WritesKeepContents DEF Contents!ClaimSource
<1>3. CASE Contents!EndExtraction
  <2>1. ASSUME NEW proto \in {"none", "PENDING"}
        PROVE  /\ RowsFit([db EXCEPT !.source = "COMPLETED", !.proto = proto])
               /\ [db EXCEPT !.source = "COMPLETED", !.proto = proto].source # "none"
    BY <1>0
  <2>2. /\ RowsFit([db EXCEPT !.source = "FAILED"])
        /\ [db EXCEPT !.source = "FAILED"].source # "none"
    BY <1>0, <1>3 DEF Contents!EndExtraction
  <2> HIDE DEF RowsFit
  <2> QED BY <1>3, <2>1, <2>2, WritesKeepContents DEF Contents!EndExtraction
<1>4. CASE Contents!ClaimProtoIdea
  <2>1. /\ RowsFit([db EXCEPT !.proto = "PROCESSING"])
        /\ [db EXCEPT !.proto = "PROCESSING"].source = db.source
    BY <1>0, <1>4 DEF Contents!ClaimProtoIdea
  <2> HIDE DEF RowsFit
  <2> QED BY <1>4, <2>1, WritesKeepContents DEF Contents!ClaimProtoIdea
<1>5. CASE Contents!EndRefinement
  <2>1. /\ RowsFit([db EXCEPT !.proto = "COMPLETED", !.candidate = "AWAITING_EVALUATION"])
        /\ [db EXCEPT !.proto = "COMPLETED", !.candidate = "AWAITING_EVALUATION"].source = db.source
    BY <1>0, <1>5 DEF Contents!EndRefinement
  <2>2. /\ RowsFit([db EXCEPT !.proto = "FAILED"])
        /\ [db EXCEPT !.proto = "FAILED"].source = db.source
    BY <1>0, <1>5 DEF Contents!EndRefinement
  <2> HIDE DEF RowsFit
  <2> QED BY <1>5, <2>1, <2>2, WritesKeepContents DEF Contents!EndRefinement
<1>6. CASE Contents!EvaluateCandidate
  <2>1. PICK verdict \in Contents!Workflow \ {"AWAITING_EVALUATION"} :
            Contents!Write([db EXCEPT !.candidate = verdict,
                                      !.opportunity = @ \/ verdict = "PROMOTED"])
    BY <1>6 DEF Contents!EvaluateCandidate
  <2> DEFINE opportunity == db.opportunity \/ verdict = "PROMOTED"
             rows == [db EXCEPT !.candidate = verdict, !.opportunity = opportunity]
  <2>2. Contents!Write(rows)
    BY <2>1
  <2>3. opportunity \in BOOLEAN
    OBVIOUS
  <2> HIDE DEF opportunity
  <2>4. RowsFit(rows) /\ rows.source = db.source
    BY <1>0, <2>3
  <2> HIDE DEF RowsFit, rows
  <2> QED BY <2>2, <2>4, WritesKeepContents
<1> QED BY <1>1, <1>2, <1>3, <1>4, <1>5, <1>6

\* The first query of a request.
LEMMA RequestBegins == ASSUME ContentsInv, Contents!GetPipelineContents PROVE ContentsInv'
<1> DEFINE q == [Contents!NothingRead EXCEPT !.result = db.result]
<1>1. RowsFit(db) /\ db \in Contents!Database
  BY DEF ContentsInv, RowsFit
<1>2. q = [result |-> db.result, source |-> Unread, proto |-> Unread, candidate |-> Unread,
           opportunity |-> Unread]
  BY NothingReadIs
<1>3. SeenSince(q, db, Contents!Waits(db), Contents!Waits(db))
  <2>1. db.result \in BOOLEAN /\ Unread # "none"
    BY <1>1, UnreadAssumption DEF Contents!Database
  <2> HIDE DEF q
  <2> QED BY <1>1, <1>2, <2>1, WaitingColumns DEF SeenSince
<1>4. RequestShape(q)
  BY <1>2 DEF RequestShape
<1> QED BY <1>3, <1>4 DEF ContentsInv, Contents!GetPipelineContents

LEMMA TablesAreRead ==
    ASSUME ContentsInv, NEW table \in DOMAIN Contents!NothingYet, Contents!ReadTable(table)
    PROVE  ContentsInv'
<1>1. /\ table \in {"source", "proto", "candidate", "opportunity"}
      /\ request.result # Unread
      /\ request' = [request EXCEPT ![table] = db[table]]
      /\ UNCHANGED <<db, board, ever, always>>
  BY NothingReadIs DEF Contents!ReadTable
<1>2. SeenSince(request, db, ever, always) /\ RowsFit(db) /\ db \in Contents!Database
      /\ RequestShape(request)
  BY <1>1, NothingReadIs DEF ContentsInv, RowsFit
<1>3. /\ db.source \in {"none"} \cup Contents!Processing
      /\ db.proto \in {"none"} \cup Contents!Processing
      /\ db.opportunity \in BOOLEAN
      /\ db.proto # "none" => "sources" \notin Contents!Waits(db)
  BY <1>2, WaitingColumns DEF Contents!Database, RowsFit
<1> SUFFICES SeenSince(request', db, ever, always) /\ RequestShape(request')
  BY <1>1 DEF ContentsInv
<1>4. CASE table = "source"
  <2>1. request' = [result |-> request.result, source |-> db.source, proto |-> request.proto,
                    candidate |-> request.candidate, opportunity |-> request.opportunity]
    BY <1>1, <1>2, <1>4 DEF RequestShape
  <2> QED BY <1>2, <1>3, <2>1, WaitingColumns DEF SeenSince, RequestShape, Contents!Processing
<1>5. CASE table = "proto"
  <2>1. request' = [result |-> request.result, source |-> request.source, proto |-> db.proto,
                    candidate |-> request.candidate, opportunity |-> request.opportunity]
    BY <1>1, <1>2, <1>5 DEF RequestShape
  <2> QED BY <1>2, <1>3, <2>1, WaitingColumns DEF SeenSince, RequestShape
<1>6. CASE table = "candidate"
  <2>1. request' = [result |-> request.result, source |-> request.source,
                    proto |-> request.proto, candidate |-> db.candidate,
                    opportunity |-> request.opportunity]
    BY <1>1, <1>2, <1>6 DEF RequestShape
  <2> QED BY <1>2, <2>1, WaitingColumns DEF SeenSince, RequestShape
<1>7. CASE table = "opportunity"
  <2>1. request' = [result |-> request.result, source |-> request.source,
                    proto |-> request.proto, candidate |-> request.candidate,
                    opportunity |-> db.opportunity]
    BY <1>1, <1>2, <1>7 DEF RequestShape
  <2> QED BY <1>2, <1>3, <2>1, WaitingColumns DEF SeenSince, RequestShape
<1> QED BY <1>1, <1>4, <1>5, <1>6, <1>7

LEMMA BoardIsShown == ASSUME ContentsInv, Contents!ShowBoard PROVE ContentsInv'
<1>1. request' = Contents!NothingRead /\ db' = db
  BY DEF Contents!ShowBoard
<1>2. RequestShape(Contents!NothingRead)
  BY NothingReadIs DEF RequestShape
<1>3. /\ Contents!UnprocessedColumns(request) \subseteq Contents!AllColumns(request)
      /\ Contents!AllColumns(request) \subseteq Contents!Columns
  BY DEF Contents!UnprocessedColumns, Contents!AllColumns, Contents!IsAwaitingEvaluation
<1> QED BY <1>1, <1>2, <1>3 DEF ContentsInv, Contents!ShowBoard, Contents!BuildColumns

LEMMA ContentsStepInv == ContentsInv /\ [Contents!Next]_contentsVars => ContentsInv'
<1>1. ContentsInv /\ UNCHANGED contentsVars => ContentsInv'
  BY DEF contentsVars, ContentsInv
<1> QED BY <1>1, StagesKeepContents, RequestBegins, TablesAreRead, BoardIsShown
    DEF Contents!Next

LEMMA ContentsAreSound == Spec => []ContentsInv
<1>1. Init => ContentsInv
  BY ContentsInitInv DEF Init
<1>2. ContentsInv /\ [Next]_vars => ContentsInv'
  BY ContentsStepInv, PartsMoveAlone
<1> QED BY <1>1, <1>2, PTL DEF Spec

\* Although its five queries see five different states, and whatever the
\* stages write in between: the board of an answer shows an item as waiting
\* only where it waited since the request began, and leaves out nothing that
\* waited there all the time.
THEOREM BoardsAreRecent == Spec => BoardIsRecent
<1>1. ContentsInv /\ [Next]_vars =>
         [Contents!ShowBoard => /\ board'.unprocessed \subseteq ever
                                /\ always \subseteq board'.unprocessed]_Contents!vars
  <2> SUFFICES ASSUME ContentsInv, Contents!ShowBoard
               PROVE  /\ board'.unprocessed \subseteq ever
                      /\ always \subseteq board'.unprocessed
    OBVIOUS
  <2>1. /\ request.result # Unread /\ request.source # Unread /\ request.proto # Unread
        /\ request.candidate # Unread /\ request.opportunity # Unread
    BY DEF Contents!ShowBoard, ContentsInv, RequestShape
  <2>2. SeenSince(request, db, ever, always) /\ db \in Contents!Database
    BY <2>1, NothingReadIs DEF ContentsInv, RowsFit
  <2>3. board'.unprocessed = Contents!UnprocessedColumns(request)
    BY DEF Contents!ShowBoard, Contents!BuildColumns
  <2>4. always \subseteq Contents!Columns
    BY <2>2, WaitingColumns DEF SeenSince
  <2> DEFINE Shown(c) == c \in Contents!UnprocessedColumns(request)
  <2>5. /\ Shown("sources") => "sources" \in ever
        /\ "sources" \in always => Shown("sources")
    BY <2>1, <2>2 DEF SeenSince, Contents!UnprocessedColumns, Contents!Columns,
       Contents!IsSource, Contents!IsProcessedForPipeline, Contents!IsNoLongerUnprocessed,
       Contents!Processing
  <2>6. /\ Shown("proto-ideas") => "proto-ideas" \in ever
        /\ "proto-ideas" \in always => Shown("proto-ideas")
    BY <2>1, <2>2 DEF SeenSince, Contents!UnprocessedColumns, Contents!Columns,
       Contents!IsNoLongerUnprocessed, Contents!Processing
  <2>7. /\ Shown("idea-candidates") => "idea-candidates" \in ever
        /\ "idea-candidates" \in always => Shown("idea-candidates")
    BY <2>1, <2>2 DEF SeenSince, Contents!UnprocessedColumns, Contents!Columns,
       Contents!IsAwaitingEvaluation
  <2>8. /\ Shown("curated-opportunities") => "curated-opportunities" \in ever
        /\ "curated-opportunities" \in always => Shown("curated-opportunities")
    BY <2>1, <2>2 DEF SeenSince, Contents!UnprocessedColumns, Contents!Columns
  <2>9. Contents!UnprocessedColumns(request) \subseteq Contents!Columns
    BY DEF Contents!UnprocessedColumns
  <2> QED BY <2>3, <2>4, <2>5, <2>6, <2>7, <2>8, <2>9 DEF Contents!Columns
<1> QED BY <1>1, ContentsAreSound, PTL
        DEF Spec, BoardIsRecent, Contents!BoardIsRecent


-----------------------------------------------------------------------------
(* The board.  The status that a request read is one that a run had.       *)

RunStatus == Board!Verdict \cup {"IDLE", "RUNNING"}

SlotRecord ==
    [kind : {"free", "load", "poll", "toggle", "run"},
     status : RunStatus \cup {"none", "asked", "done"},
     contents : {"none", "asked", "done", "failed"}]

BoardInv ==
    /\ run \in RunStatus
    /\ columns \in {"empty", "unprocessed", "all"}
    /\ slot \in [Slots -> SlotRecord]

LEMMA RequestsAreTyped ==
    /\ Board!Free \in SlotRecord
    /\ \A kind \in {"load", "poll", "toggle", "run"} : Board!Call(kind) \in SlotRecord
BY DEF Board!Free, Board!Call, SlotRecord

LEMMA PutIsTyped ==
    ASSUME BoardInv, NEW k \in Slots, NEW c \in SlotRecord, Board!Put(k, c)
    PROVE  slot' \in [Slots -> SlotRecord]
<1>1. (IF Board!Settled(c) THEN Board!Free ELSE c) \in SlotRecord
  BY RequestsAreTyped
<1> QED BY <1>1 DEF BoardInv, Board!Put

LEMMA BeginIsTyped ==
    ASSUME BoardInv, NEW k \in Slots, NEW kind \in {"load", "poll", "toggle", "run"},
           Board!Begin(k, kind)
    PROVE  slot' \in [Slots -> SlotRecord]
<1>1. Board!Call(kind) \in SlotRecord
  BY RequestsAreTyped
<1> QED BY <1>1 DEF BoardInv, Board!Begin

LEMMA BoardInitInv == Board!Init => BoardInv
<1> SUFFICES ASSUME Board!Init PROVE BoardInv
  OBVIOUS
<1>1. slot \in [Slots -> SlotRecord]
  BY RequestsAreTyped DEF Board!Init
<1> QED BY <1>1 DEF Board!Init, BoardInv, RunStatus

LEMMA BoardStepInv == BoardInv /\ [Board!Next]_boardVars => BoardInv'
<1> SUFFICES ASSUME BoardInv, [Board!Next]_boardVars PROVE BoardInv'
  OBVIOUS
<1>1. CASE UNCHANGED boardVars
  BY <1>1 DEF boardVars, BoardInv
<1>2. CASE Board!RunStarts \/ Board!RunEnds \/ Board!Leave
  BY <1>2 DEF Board!RunStarts, Board!RunEnds, Board!Leave, Board!screen, Board!server,
              BoardInv, RunStatus
<1>3. ASSUME NEW k \in Slots,
             \/ Board!Answer(k) \/ Board!StatusFails(k) \/ Board!ContentsFail(k)
             \/ Board!TimerFires(k) \/ Board!RunPipeline(k)
             \/ Board!ToggleProcessedVisibility(k)
      PROVE  BoardInv'
  <2>1. slot[k] \in SlotRecord
    BY DEF BoardInv
  <2>2. CASE Board!ReadStatus(k)
    <3>1. run' \in RunStatus
      BY <2>2 DEF Board!ReadStatus, Board!server, BoardInv, RunStatus
    <3>2. [slot[k] EXCEPT !.status = run'] \in SlotRecord
      BY <2>1, <3>1 DEF SlotRecord
    <3>3. slot' \in [Slots -> SlotRecord]
      BY <2>2, <3>2 DEF Board!ReadStatus, BoardInv
    <3> QED BY <2>2, <3>1, <3>3 DEF Board!ReadStatus, Board!screen, BoardInv
  <2>3. CASE Board!StatusArrives(k)
    <3> DEFINE c == [slot[k] EXCEPT !.status = "done",
                       !.contents = IF slot[k].kind = "run" THEN "asked" ELSE @]
    <3>1. c \in SlotRecord
      BY <2>1 DEF SlotRecord
    <3>2. Board!Put(k, c)
      BY <2>3, Zenon DEF Board!StatusArrives
    <3>3. slot' \in [Slots -> SlotRecord]
      BY <3>1, <3>2, PutIsTyped
    <3> QED BY <2>3, <3>3 DEF Board!StatusArrives, Board!server, BoardInv
  <2>4. CASE Board!StatusFails(k)
    <3> DEFINE c == [slot[k] EXCEPT !.status = "done"]
    <3>1. c \in SlotRecord /\ Board!Put(k, c)
      BY <2>1, <2>4 DEF SlotRecord, Board!StatusFails
    <3>2. slot' \in [Slots -> SlotRecord]
      BY <3>1, PutIsTyped
    <3> QED BY <2>4, <3>2 DEF Board!StatusFails, Board!server, BoardInv
  <2>5. CASE Board!ContentsArrive(k)
    <3> DEFINE c == [slot[k] EXCEPT !.contents = "done"]
    <3>1. c \in SlotRecord /\ Board!Put(k, c)
      BY <2>1, <2>5 DEF SlotRecord, Board!ContentsArrive
    <3>2. slot' \in [Slots -> SlotRecord]
      BY <3>1, PutIsTyped
    <3> QED BY <2>5, <3>2 DEF Board!ContentsArrive, Board!BuildColumns, Board!server, BoardInv
  <2>6. CASE Board!ContentsFail(k)
    <3> DEFINE c == [slot[k] EXCEPT !.contents = "failed"]
    <3>1. c \in SlotRecord /\ Board!Put(k, c)
      BY <2>1, <2>6 DEF SlotRecord, Board!ContentsFail
    <3>2. slot' \in [Slots -> SlotRecord]
      BY <3>1, PutIsTyped
    <3> QED BY <2>6, <3>2 DEF Board!ContentsFail, Board!server, BoardInv
  <2>7. CASE \/ Board!TimerFires(k) \/ Board!RunPipeline(k)
             \/ Board!ToggleProcessedVisibility(k)
    <3>1. slot' \in [Slots -> SlotRecord]
      BY <2>7, BeginIsTyped
         DEF Board!TimerFires, Board!RunPipeline, Board!ToggleProcessedVisibility
    <3> QED BY <2>7, <3>1 DEF Board!TimerFires, Board!RunPipeline, Board!screen, Board!server,
                              Board!ToggleProcessedVisibility, BoardInv
  <2> QED BY <1>3, <2>2, <2>3, <2>4, <2>5, <2>6, <2>7 DEF Board!Answer
<1> QED BY <1>1, <1>2, <1>3 DEF Board!Next

-----------------------------------------------------------------------------
(* The history.  The runs of the pipeline are numbered without a gap, so   *)
(* that Newest is one of them or 0; a detail is only asked for of a run    *)
(* that can exist, and a click on "Run Pipeline" knows the run it got.     *)

HistoryStatus == {"IDLE", "none", "RUNNING", History!Ended}
RunNumbers == 0 .. MaxRuns
RunDetail == [id : RunNumbers, status : HistoryStatus]

CallRecord ==
    [kind : {"free", "load", "run", "own", "select", "poll"},
     at : {"none", "list", "detail", "detailed", "post", "status", "live"},
     run : RunDetail, own : RunNumbers]

NumberedUpTo(n, history) == \A i \in History!Runs : history[i] # "none" <=> i <= n

CallIsSound(c) ==
    /\ c \in CallRecord
    /\ c.at = "detail" => c.run.id \in History!Runs
    /\ c.kind = "run" /\ c.at # "post" => c.own \in History!Runs

HistoryInv ==
    /\ runs \in [History!Runs -> {"none", "RUNNING", History!Ended}]
    /\ \E n \in RunNumbers : NumberedUpTo(n, runs)
    /\ listed \in RunNumbers /\ selectedRunId \in RunNumbers
    /\ selectedRun \in RunDetail
    /\ call \in [Calls -> CallRecord] /\ \A k \in Calls : CallIsSound(call[k])

LEMMA RunsAreNumbers ==
    /\ MaxRuns \in Nat /\ 0 \in RunNumbers
    /\ \A i : i \in History!Runs <=> i \in RunNumbers /\ i # 0
<1>1. MaxRuns \in Nat
  BY ConsoleAssumption
<1> QED BY <1>1 DEF RunNumbers, History!Runs

LEMMA NewestIsTheLast ==
    ASSUME \E n \in RunNumbers : NumberedUpTo(n, runs)
    PROVE  History!Newest \in RunNumbers /\ NumberedUpTo(History!Newest, runs)
BY Zenon DEF History!Newest, NumberedUpTo, RunNumbers

LEMMA HistoryConstants ==
    /\ History!NoRun \in RunDetail
    /\ CallIsSound(History!Free) /\ History!Free \in CallRecord
    /\ CallIsSound(History!Load) /\ History!Load \in CallRecord
BY RunsAreNumbers DEF History!NoRun, History!Free, History!Load, RunDetail, HistoryStatus,
   CallRecord, CallIsSound

LEMMA HistoryInitInv == History!Init => HistoryInv
<1> SUFFICES ASSUME History!Init PROVE HistoryInv
  OBVIOUS
<1>1. runs \in [History!Runs -> {"none", "RUNNING", History!Ended}] /\ NumberedUpTo(0, runs)
  BY RunsAreNumbers DEF History!Init, NumberedUpTo, RunNumbers
<1>2. call \in [Calls -> CallRecord] /\ \A k \in Calls : CallIsSound(call[k])
  BY HistoryConstants DEF History!Init
<1> QED BY <1>1, <1>2, RunsAreNumbers, HistoryConstants DEF History!Init, HistoryInv

\* A call goes on, and the backend stands still.
LEMMA CallsGoOn ==
    ASSUME HistoryInv, NEW k \in Calls, NEW c, CallIsSound(c), History!Become(k, c),
           UNCHANGED runs, listed' \in RunNumbers, selectedRunId' \in RunNumbers,
           selectedRun' \in RunDetail
    PROVE  HistoryInv'
<1>1. c \in CallRecord
  BY DEF CallIsSound
<1>2. call' \in [Calls -> CallRecord] /\ \A j \in Calls : CallIsSound(call'[j])
  BY <1>1 DEF HistoryInv, History!Become
<1> QED BY <1>2 DEF HistoryInv

LEMMA DetailsAreTyped ==
    ASSUME HistoryInv
    PROVE  /\ History!Newest \in RunNumbers /\ NumberedUpTo(History!Newest, runs)
           /\ \A i \in History!Runs : History!Detail(i) \in RunDetail
           /\ History!LiveStatus \in RunDetail
<1>1. History!Newest \in RunNumbers /\ NumberedUpTo(History!Newest, runs)
  BY NewestIsTheLast DEF HistoryInv
<1>2. \A i \in History!Runs : History!Detail(i) \in RunDetail
  BY RunsAreNumbers DEF HistoryInv, History!Detail, RunDetail, HistoryStatus
<1>3. History!LiveStatus \in RunDetail
  BY <1>1, <1>2, RunsAreNumbers, HistoryConstants DEF History!LiveStatus
<1> QED BY <1>1, <1>2, <1>3

LEMMA AfterLoadIsSound ==
    ASSUME NEW c, CallIsSound(c), c.at # "post"
    PROVE  CallIsSound(History!AfterLoad(c))
<1>1. CASE c.kind = "run"
  <2>1. /\ c.own \in History!Runs /\ c.own \in RunNumbers
        /\ [History!NoRun EXCEPT !.id = c.own] \in RunDetail
        /\ [History!NoRun EXCEPT !.id = c.own].id = c.own
    BY <1>1, HistoryConstants DEF CallIsSound, CallRecord, RunDetail
  <2> DEFINE r == [History!NoRun EXCEPT !.id = c.own]
             d == [c EXCEPT !.at = "detail", !.run = r, !.kind = "own"]
  <2>2. History!AfterLoad(c) = d
    BY <1>1 DEF History!AfterLoad
  <2> HIDE DEF r
  <2>3. d \in CallRecord /\ d.at = "detail" /\ d.run = r /\ d.kind = "own"
    BY <2>1 DEF CallIsSound, CallRecord, r
  <2> HIDE DEF d
  <2> QED BY <2>1, <2>2, <2>3 DEF CallIsSound, r
<1>2. CASE c.kind # "run"
  BY <1>2, HistoryConstants DEF History!AfterLoad
<1> QED BY <1>1, <1>2

\* The run that starts is the next one.
LEMMA RunIsNumbered ==
    ASSUME HistoryInv, History!StartRun
    PROVE  /\ runs' \in [History!Runs -> {"none", "RUNNING", History!Ended}]
           /\ NumberedUpTo(History!Newest + 1, runs')
           /\ History!Newest + 1 \in RunNumbers /\ History!Newest + 1 \in History!Runs
<1>1. /\ History!Newest \in RunNumbers /\ NumberedUpTo(History!Newest, runs)
      /\ History!Newest < MaxRuns
  BY DetailsAreTyped DEF History!StartRun
<1>2. runs' = [runs EXCEPT ![History!Newest + 1] = "RUNNING"]
  BY DEF History!StartRun
<1> DEFINE n == History!Newest
<1> HIDE DEF n
<1>3. n \in Nat /\ n + 1 \in RunNumbers /\ n + 1 \in History!Runs
  BY <1>1, RunsAreNumbers DEF RunNumbers, History!Runs, n
<1>4. runs' \in [History!Runs -> {"none", "RUNNING", History!Ended}]
  BY <1>2, <1>3 DEF HistoryInv, n
<1>5. \A i \in History!Runs : runs'[i] # "none" <=> i <= n + 1
  <2> SUFFICES ASSUME NEW i \in History!Runs PROVE runs'[i] # "none" <=> i <= n + 1
    OBVIOUS
  <2>1. i \in Nat /\ (runs[i] # "none" <=> i <= n)
    BY <1>1 DEF NumberedUpTo, History!Runs, n
  <2> QED BY <1>2, <1>3, <2>1 DEF HistoryInv, n
<1> QED BY <1>3, <1>4, <1>5 DEF n, NumberedUpTo

LEMMA HistoryStepInv == HistoryInv /\ [History!Next]_historyVars => HistoryInv'
<1> SUFFICES ASSUME HistoryInv, [History!Next]_historyVars PROVE HistoryInv'
  OBVIOUS
<1> USE DEF History!server, History!screen
<1>1. CASE UNCHANGED historyVars \/ History!Restart \/ History!Leave
  BY <1>1 DEF historyVars, HistoryInv, History!Restart, History!Leave
<1>2. CASE History!RunStarts
  BY <1>2, RunIsNumbered DEF History!RunStarts, HistoryInv
<1>3. CASE History!RunEnds
  <2>1. History!Newest \in RunNumbers /\ NumberedUpTo(History!Newest, runs)
        /\ History!Newest \in History!Runs /\ runs[History!Newest] # "none"
    BY <1>3, DetailsAreTyped, RunsAreNumbers DEF History!RunEnds, History!Busy
  <2>2. runs' = [runs EXCEPT ![History!Newest] = History!Ended]
    BY <1>3 DEF History!RunEnds
  <2>3. History!Ended # "none"
    BY DEF History!Ended
  <2>4. \A i \in History!Runs : runs'[i] # "none" <=> runs[i] # "none"
    BY <2>1, <2>2, <2>3 DEF HistoryInv
  <2>5. NumberedUpTo(History!Newest, runs')
    BY <2>1, <2>4 DEF NumberedUpTo
  <2>6. runs' \in [History!Runs -> {"none", "RUNNING", History!Ended}]
    BY <2>2 DEF HistoryInv
  <2> QED BY <1>3, <2>1, <2>5, <2>6 DEF History!RunEnds, HistoryInv
<1>4. ASSUME NEW k \in Calls,
             \/ History!Answer(k) \/ History!RequestFails(k) \/ History!TimerFires(k)
             \/ History!Refresh(k) \/ History!RunPipeline(k)
             \/ \E i \in History!Runs : History!SelectRun(k, i)
      PROVE  HistoryInv'
  <2>0. CallIsSound(call[k]) /\ call[k] \in CallRecord /\ call[k].run \in RunDetail
        /\ call[k].own \in RunNumbers
    BY DEF HistoryInv, CallIsSound, CallRecord
  <2>1. CASE History!ListArrives(k)
    <3> DEFINE next == IF selectedRunId \in 1 .. History!Newest THEN selectedRunId
                       ELSE History!Newest
    <3>1. next \in RunNumbers /\ History!Newest \in RunNumbers
      BY DetailsAreTyped DEF HistoryInv
    <3>2. listed' = History!Newest /\ selectedRunId' = next /\ call[k].at = "list"
          /\ UNCHANGED runs
      BY <2>1, Zenon DEF History!ListArrives, History!At
    <3>3. CASE next = 0
      <4>1. selectedRun' = History!NoRun /\ History!Become(k, History!AfterLoad(call[k]))
        BY <2>1, <3>3, Zenon DEF History!ListArrives
      <4> QED BY <2>0, <3>1, <3>2, <4>1, AfterLoadIsSound, HistoryConstants, CallsGoOn
    <3>4. CASE next # 0
      <4> DEFINE c == [call[k] EXCEPT !.at = "detail", !.run.id = next]
      <4>1. selectedRun' = selectedRun /\ History!Become(k, c)
        BY <2>1, <3>4, Zenon DEF History!ListArrives
      <4>2. next \in History!Runs
        BY <3>1, <3>4, RunsAreNumbers
      <4> HIDE DEF next
      <4>3. c \in CallRecord /\ c.at = "detail" /\ c.run.id = next /\ c.own = call[k].own
            /\ c.kind = call[k].kind
        BY <2>0, <3>1 DEF CallRecord, RunDetail
      <4> HIDE DEF c
      <4>4. CallIsSound(c)
        BY <2>0, <3>2, <4>2, <4>3 DEF CallIsSound
      <4>5. selectedRun' \in RunDetail
        BY <4>1 DEF HistoryInv
      <4> QED BY <3>1, <3>2, <4>1, <4>4, <4>5, CallsGoOn
    <3> QED BY <3>3, <3>4
  <2>2. CASE History!ReadDetail(k)
    <3> DEFINE d == History!Detail(call[k].run.id)
               c == [call[k] EXCEPT !.at = "detailed", !.run = d]
    <3>1. d \in RunDetail /\ History!Become(k, c) /\ call[k].at = "detail"
      BY <2>0, <2>2, DetailsAreTyped DEF History!ReadDetail, History!At, CallIsSound
    <3> HIDE DEF d
    <3>2. c \in CallRecord /\ c.at = "detailed" /\ c.own = call[k].own /\ c.kind = call[k].kind
      BY <2>0, <3>1 DEF CallRecord
    <3> HIDE DEF c
    <3>3. CallIsSound(c)
      BY <2>0, <3>1, <3>2 DEF CallIsSound
    <3> QED BY <2>2, <3>1, <3>3, CallsGoOn DEF History!ReadDetail, HistoryInv
  <2>3. CASE History!DetailArrives(k)
    <3>1. /\ selectedRun' = call[k].run /\ call[k].at = "detailed"
          /\ selectedRunId' \in RunNumbers
          /\ History!Become(k, History!AfterLoad(call[k])) /\ UNCHANGED <<runs, listed>>
      BY <2>0, <2>3 DEF History!DetailArrives, History!At, HistoryInv
    <3>2. listed' \in RunNumbers
      BY <3>1 DEF HistoryInv
    <3> QED BY <2>0, <3>1, <3>2, AfterLoadIsSound, CallsGoOn
  <2>4. CASE History!ReadStatus(k)
    <3> DEFINE l == History!LiveStatus
               c == [call[k] EXCEPT !.at = "live", !.run = l]
    <3>1. l \in RunDetail /\ History!Become(k, c) /\ call[k].at = "status"
      BY <2>4, DetailsAreTyped DEF History!ReadStatus, History!At
    <3> HIDE DEF l
    <3>2. c \in CallRecord /\ c.at = "live" /\ c.own = call[k].own /\ c.kind = call[k].kind
      BY <2>0, <3>1 DEF CallRecord
    <3> HIDE DEF c
    <3>3. CallIsSound(c)
      BY <2>0, <3>1, <3>2 DEF CallIsSound
    <3> QED BY <2>4, <3>1, <3>3, CallsGoOn DEF History!ReadStatus, HistoryInv
  <2>5. CASE History!StatusArrives(k)
    <3>1. /\ selectedRun' \in {selectedRun, call[k].run}
          /\ History!Become(k, History!Free) \/ History!Become(k, History!Load)
          /\ UNCHANGED <<runs, listed, selectedRunId>>
      BY <2>5 DEF History!StatusArrives
    <3> QED BY <2>0, <3>1, HistoryConstants, CallsGoOn DEF HistoryInv
  <2>6. CASE History!RunAccepted(k)
    <3> DEFINE n == IF History!Busy THEN History!Newest ELSE History!Newest + 1
               c == [call[k] EXCEPT !.at = "list", !.own = n]
    <3>1. /\ runs' \in [History!Runs -> {"none", "RUNNING", History!Ended}]
          /\ \E m \in RunNumbers : NumberedUpTo(m, runs')
          /\ n \in RunNumbers /\ n \in History!Runs
      <4>1. CASE History!Busy
        BY <2>6, <4>1, DetailsAreTyped, RunsAreNumbers
           DEF History!RunAccepted, History!Busy, HistoryInv
      <4>2. CASE ~ History!Busy
        BY <2>6, <4>2, RunIsNumbered DEF History!RunAccepted
      <4> QED BY <4>1, <4>2
    <3>2. call' = [call EXCEPT ![k] = c] /\ UNCHANGED <<listed, selectedRunId, selectedRun>>
      BY <2>6 DEF History!RunAccepted, History!Become
    <3> HIDE DEF n
    <3>3. c \in CallRecord /\ c.at = "list" /\ c.own = n
      BY <2>0, <3>1 DEF CallRecord
    <3> HIDE DEF c
    <3>4. CallIsSound(c)
      BY <3>1, <3>3 DEF CallIsSound
    <3>5. call' \in [Calls -> CallRecord] /\ \A j \in Calls : CallIsSound(call'[j])
      BY <3>2, <3>3, <3>4 DEF HistoryInv
    <3> QED BY <3>1, <3>2, <3>5 DEF HistoryInv
  <2>7. CASE History!RequestFails(k)
    <3>1. /\ selectedRun' \in {selectedRun, History!NoRun}
          /\ \/ History!Become(k, History!Free)
             \/ /\ History!Become(k, History!AfterLoad(call[k]))
                /\ call[k].at \in {"list", "detail"}
          /\ UNCHANGED <<runs, listed, selectedRunId>>
      BY <2>7 DEF History!RequestFails
    <3>2. selectedRun' \in RunDetail /\ listed' \in RunNumbers /\ selectedRunId' \in RunNumbers
      BY <3>1, HistoryConstants DEF HistoryInv
    <3>3. CASE History!Become(k, History!Free)
      BY <3>1, <3>2, <3>3, HistoryConstants, CallsGoOn
    <3>4. CASE History!Become(k, History!AfterLoad(call[k])) /\ call[k].at \in {"list", "detail"}
      <4>1. CallIsSound(History!AfterLoad(call[k]))
        BY <2>0, <3>4, AfterLoadIsSound
      <4> QED BY <3>1, <3>2, <3>4, <4>1, CallsGoOn
    <3> QED BY <3>1, <3>3, <3>4
  <2>8. CASE History!TimerFires(k) \/ History!RunPipeline(k) \/ History!Refresh(k)
    <3> DEFINE poll == [History!Free EXCEPT !.kind = "poll", !.at = "status"]
               post == [History!Free EXCEPT !.kind = "run", !.at = "post"]
    <3>1. CallIsSound(poll) /\ CallIsSound(post)
      BY HistoryConstants DEF CallIsSound, CallRecord
    <3>2. \E c \in {poll, post, History!Free, History!Load} : History!Become(k, c)
      BY <2>8 DEF History!TimerFires, History!RunPipeline, History!Refresh
    <3>3. UNCHANGED <<runs, listed, selectedRunId, selectedRun>>
      BY <2>8 DEF History!TimerFires, History!RunPipeline, History!Refresh
    <3> HIDE DEF poll, post
    <3> QED BY <3>1, <3>2, <3>3, HistoryConstants, CallsGoOn DEF HistoryInv
  <2>9. ASSUME NEW i \in History!Runs, History!SelectRun(k, i) PROVE HistoryInv'
    <3> DEFINE c == [History!Free EXCEPT !.kind = "select", !.at = "detail", !.run.id = i]
    <3>1. i \in RunNumbers /\ selectedRunId' = i /\ History!Become(k, c)
          /\ UNCHANGED <<runs, listed, selectedRun>>
      BY <2>9, RunsAreNumbers DEF History!SelectRun
    <3>2. c \in CallRecord /\ c.kind = "select" /\ c.at = "detail" /\ c.run.id = i
      BY <3>1, HistoryConstants DEF CallRecord, RunDetail
    <3> HIDE DEF c
    <3>3. CallIsSound(c)
      BY <3>2 DEF CallIsSound
    <3> QED BY <3>1, <3>3, CallsGoOn DEF HistoryInv
  <2> QED BY <1>4, <2>1, <2>2, <2>3, <2>4, <2>5, <2>6, <2>7, <2>8, <2>9 DEF History!Answer
<1> QED BY <1>1, <1>2, <1>3, <1>4 DEF History!Next

-----------------------------------------------------------------------------
(* What the invariants of the parts say together of their types.           *)

LEMMA ScheduleTypes == ScheduleInv => Schedule!TypeOK
<1> SUFFICES ASSUME ScheduleInv PROVE Schedule!TypeOK
  OBVIOUS
<1>1. now \in 1 .. MaxTime /\ row \in [Owners -> Schedule!Row]
  BY ConsoleAssumption DEF ScheduleInv
<1>2. \A o \in Owners : row[o].enabled => row[o].nextRun # Schedule!Never
  BY DEF ScheduleInv, RowFits, Schedule!Never
<1>3. ASSUME NEW s \in Servers
      PROVE  /\ tick[s].pc \in {"idle", "load", "next", "start", "persist"}
             /\ tick[s].at \in 0 .. now
             /\ tick[s].due \subseteq Schedule!Snapshot /\ tick[s].cur \in Schedule!Snapshot
  <2>1. tick[s] \in TickRecord /\ tick[s].at <= now
    BY DEF ScheduleInv, TicksFit, TickFits
  <2> QED BY <1>1, <2>1 DEF TickRecord
<1>4. ASSUME NEW f \in fired
      PROVE  f.owner \in Owners /\ f.slot \in Schedule!Time /\ f.at \in 1 .. now
  BY <1>1 DEF ScheduleInv, FiredFits, FiredRun, Schedule!Time
<1> QED BY <1>1, <1>2, <1>3, <1>4 DEF Schedule!TypeOK

LEMMA BoardIsTyped == Spec => []Board!TypeOK
<1>1. Init => BoardInv
  BY BoardInitInv DEF Init
<1>2. BoardInv /\ [Next]_vars => BoardInv'
  BY BoardStepInv, PartsMoveAlone
<1>3. BoardInv => Board!TypeOK
  BY DEF BoardInv, SlotRecord, RunStatus, Board!TypeOK
<1> QED BY <1>1, <1>2, <1>3, PTL DEF Spec

LEMMA HistoryIsTyped == Spec => []History!TypeOK
<1>1. Init => HistoryInv
  BY HistoryInitInv DEF Init
<1>2. HistoryInv /\ [Next]_vars => HistoryInv'
  BY HistoryStepInv, PartsMoveAlone
<1>3. HistoryInv => History!TypeOK
  BY DEF HistoryInv, RunDetail, RunNumbers, History!TypeOK
<1> QED BY <1>1, <1>2, <1>3, PTL DEF Spec

\* The variables of every part of the console hold values of their types:
\* no tick, request or screen ever holds a value that its code has no case
\* for, whoever else is under way.
THEOREM ConsoleTypes == Spec => []TypeOK
<1>1. PolicyInv => Policy!TypeOK
  BY PolicyConstants DEF PolicyInv, PolicyRow, PolicyNumbers, StageStatus, BusyRecord, Policy!TypeOK
<1>2. ContentsInv => Contents!TypeOK
  BY DEF ContentsInv, RowsFit, Contents!TypeOK
<1>3. StrategyInv => Strategy!TypeOK
  <2> SUFFICES ASSUME StrategyInv PROVE Strategy!TypeOK
    OBVIOUS
  <2>1. \A i \in DOMAIN snapshot.families : snapshot.families[i].status \in Strategy!Status
    <3>1. snapshot.families \in Seq(FamilyRecord)
      BY DEF StrategyInv, StrategyFits
    <3>2. \A i \in DOMAIN snapshot.families : snapshot.families[i] \in FamilyRecord
      BY <3>1
    <3> QED BY <3>2 DEF FamilyRecord
  <2> QED BY <2>1 DEF StrategyInv, CallFits, Strategy!TypeOK
<1>4. Schedule!TypeOK /\ Policy!TypeOK /\ Board!TypeOK
      /\ Contents!TypeOK /\ History!TypeOK /\ Strategy!TypeOK => TypeOK
  BY DEF TypeOK
<1> QED BY <1>1, <1>2, <1>3, <1>4, ScheduleTypes, ScheduleIsSound, PolicyIsSound,
           ContentsAreSound, StrategyIsSound, BoardIsTyped, HistoryIsTyped, PTL
=============================================================================
