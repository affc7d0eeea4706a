--------------------------- MODULE PipelineSchedule ---------------------------
(***************************************************************************)
(* The schedule of the Idea Foundry pipeline                               *)
(* (idea-foundry-pipeline-schedule.service.js): one row per operator, kept *)
(* in the database, which the operator saves through the API and which a   *)
(* timer in every Node process reads to start due runs.                    *)
(*                                                                         *)
(* A tick of the timer is a sequence of awaited statements: provision the  *)
(* missing rows, load the due ones, and for each of them claim the row,    *)
(* start a run, write the next slot back.  A save, another process's tick  *)
(* or a crash may come between any two.  The pipeline runtime is known     *)
(* here only by its contract, OwnerPipeline.                               *)
(***************************************************************************)
EXTENDS Naturals, FiniteSets

CONSTANTS
    Servers,         \* Node processes
    Owners,          \* active administrators
    Intervals,       \* the cadences an operator may choose
    DefaultInterval, \* the cadence of a provisioned row (24 hours)
    MaxTime,         \* bound: the clock stops here
    MaxSaves,        \* bound: saves of a behaviour
    MaxManual,       \* bound: runs started by hand
    MaxFaults,       \* bound: ticks that throw
    MaxCrashes,      \* bound: process crashes
    User             \* the writer that is no process

VARIABLES
    now,     \* the clock every process reads
    row,     \* row[o]: the schedule row of o, or NoRow
    tick,    \* tick[s]: the local variables of the timer callback of s
    phase,   \* the pipeline runtimes, as OwnerPipeline describes them
    at,
    fired,   \* the runs the schedulers started
    chosen,  \* chosen[o]: how often a cadence was chosen for o, by a save or by default
    used     \* how often each bounded event happened

vars == <<now, row, tick, phase, at, fired, chosen, used>>

OwnerSlots == INSTANCE OwnerPipeline WITH StageCount <- 1

-----------------------------------------------------------------------------
Never == 0       \* null in a timestamp column; the clock starts at 1
NoRow == [enabled |-> FALSE, interval |-> DefaultInterval, lastRun |-> Never,
          nextRun |-> Never, updated |-> <<Never, User>>]

Idle == [pc |-> "idle", at |-> Never, due |-> {}, cur |-> [owner |-> User, row |-> NoRow]]

NextRunAt(enabled, interval) == IF enabled THEN now + interval ELSE Never

\* The row a save or the provisioning writes.  Timestamps have millisecond
\* precision: two writers never stamp the same one.
ChosenRow(o, enabled, interval, writer) ==
    [row[o] EXCEPT !.enabled = enabled, !.interval = interval,
                   !.nextRun = NextRunAt(enabled, interval),
                   !.updated = <<now, writer>>]

\* The first slot after time on the snapshot's own grid.
AnchoredNextRun(snapshot, time) ==
    CHOOSE t \in (time + 1)..(time + snapshot.interval) :
        (t - snapshot.nextRun) % snapshot.interval = 0

Bounded(event, max) == used[event] < max /\ used' = [used EXCEPT ![event] = @ + 1]

-----------------------------------------------------------------------------
Init ==
    /\ now = 1
    /\ row = [o \in Owners |-> NoRow]
    /\ tick = [s \in Servers |-> Idle]
    /\ OwnerSlots!SlotInit
    /\ fired = {}
    /\ chosen = [o \in Owners |-> 0]
    /\ used = [event \in {"save", "manual", "fault", "crash"} |-> 0]

TimePasses ==
    /\ now < MaxTime
    /\ now' = now + 1
    /\ UNCHANGED <<row, tick, phase, at, fired, chosen, used>>

\* The operator saves a cadence: one upsert, which keeps last_run_at.
Save(o, enabled, interval) ==
    /\ Bounded("save", MaxSaves)
    /\ row' = [row EXCEPT ![o] = ChosenRow(o, enabled, interval, User)]
    /\ chosen' = [chosen EXCEPT ![o] = @ + 1]
    /\ UNCHANGED <<now, tick, phase, at, fired>>

\* A tick begins, unless the last one is still draining: the clock is read
\* once, and every administrator without a row gets the default one.
BeginTick(s) ==
    /\ tick[s].pc = "idle"
    /\ tick' = [tick EXCEPT ![s] = [Idle EXCEPT !.pc = "load", !.at = now]]
    /\ LET missing == {o \in Owners : row[o] = NoRow} IN
       /\ row' = [o \in Owners |->
                    IF o \in missing THEN ChosenRow(o, TRUE, DefaultInterval, s) ELSE row[o]]
       /\ chosen' = [o \in Owners |-> IF o \in missing THEN chosen[o] + 1 ELSE chosen[o]]
    /\ UNCHANGED <<now, phase, at, fired, used>>

Due(r, time) == r.enabled /\ r.nextRun # Never /\ r.nextRun <= time

LoadDue(s) ==
    /\ tick[s].pc = "load"
    /\ LET dueNow == {o \in Owners : Due(row[o], tick[s].at)} IN
       tick' = [tick EXCEPT ![s].pc = "next",
                            ![s].due = {[owner |-> o, row |-> row[o]] : o \in dueNow}]
    /\ UNCHANGED <<now, row, phase, at, fired, chosen, used>>

\* Faulty: the claim never matches a timestamp that the client did not write.
ClaimsSavedOnly(snapshot) ==
    /\ row[snapshot.owner].updated = snapshot.row.updated
    /\ snapshot.row.updated[2] = User

Claims(snapshot) == row[snapshot.owner].updated = snapshot.row.updated

\* The loop takes the schedule with the earliest slot and claims it with a
\* compare-and-set on updated_at; a lost claim is skipped.
Claim(s) ==
    /\ tick[s].pc = "next"
    /\ \E c \in tick[s].due :
        /\ \A d \in tick[s].due : c.row.nextRun <= d.row.nextRun
        /\ tick' = [tick EXCEPT ![s].due = @ \ {c},
                                ![s].pc = IF Claims(c) THEN "start" ELSE "next",
                                ![s].cur = c]
        /\ row' = IF Claims(c)
                  THEN [row EXCEPT ![c.owner].updated = <<tick[s].at, s>>]
                  ELSE row
    /\ UNCHANGED <<now, phase, at, fired, chosen, used>>

\* Faulty: an owner whose run is still going loses the slot.
SkipDropsSlot(s) ==
    row' = [row EXCEPT ![tick[s].cur.owner].nextRun =
                AnchoredNextRun(tick[s].cur.row, tick[s].at)]

\* A run is already going: the row keeps its slot for a later tick.
Skip(s) == UNCHANGED row

\* pipelineRuntime.start(): a run begins, or one is already going.
StartRun(s) ==
    /\ tick[s].pc = "start"
    /\ LET o == tick[s].cur.owner IN
       \/ /\ OwnerSlots!Begin(s, o, 1)
          /\ tick' = [tick EXCEPT ![s].pc = "persist"]
          /\ fired' = fired \cup {[owner |-> o, slot |-> tick[s].cur.row.nextRun,
                                   at |-> tick[s].at, by |-> s]}
          /\ UNCHANGED row
       \/ /\ phase[s][o] = "running"
          /\ tick' = [tick EXCEPT ![s].pc = "next"]
          /\ Skip(s)
          /\ UNCHANGED <<phase, at, fired>>
    /\ UNCHANGED <<now, chosen, used>>

\* Faulty: the slot stays.
WriteBackKeepsSlot(s) ==
    [row[tick[s].cur.owner] EXCEPT !.lastRun = tick[s].at, !.updated = <<tick[s].at, s>>]

\* The row after the trigger: the slot is computed from the snapshot, and the
\* row is overwritten whatever happened to it since it was loaded.
WriteBack(s) ==
    [row[tick[s].cur.owner] EXCEPT
        !.lastRun = tick[s].at, !.updated = <<tick[s].at, s>>,
        !.nextRun = AnchoredNextRun(tick[s].cur.row, tick[s].at)]

PersistTrigger(s) ==
    /\ tick[s].pc = "persist"
    /\ row' = [row EXCEPT ![tick[s].cur.owner] = WriteBack(s)]
    /\ tick' = [tick EXCEPT ![s].pc = "next"]
    /\ UNCHANGED <<now, phase, at, fired, chosen, used>>

EndTick(s) ==
    /\ tick[s].pc = "next" /\ tick[s].due = {}
    /\ tick' = [tick EXCEPT ![s] = Idle]
    /\ UNCHANGED <<now, row, phase, at, fired, chosen, used>>

\* Faulty: draining is reset only at the end of the loop.
ThrowStaysDraining(s) == [tick[s] EXCEPT !.pc = "stuck"]

AfterThrow(s) == Idle

\* A statement throws: the rest of the batch is dropped, draining is reset.
TickThrows(s) ==
    /\ tick[s].pc \in {"load", "next", "persist"}
    /\ Bounded("fault", MaxFaults)
    /\ tick' = [tick EXCEPT ![s] = AfterThrow(s)]
    /\ UNCHANGED <<now, row, phase, at, fired, chosen>>

Tick(s) == BeginTick(s) \/ LoadDue(s) \/ Claim(s) \/ StartRun(s) \/ PersistTrigger(s) \/ EndTick(s)

\* A run is started through the API.
ManualStart(s, o) ==
    /\ Bounded("manual", MaxManual)
    /\ OwnerSlots!Begin(s, o, 1)
    /\ UNCHANGED <<now, row, tick, fired, chosen>>

\* The run in a slot ends, with or without success.
RunEnds(s, o) ==
    /\ OwnerSlots!Succeed(s, o) \/ OwnerSlots!Stop(s, o)
    /\ UNCHANGED <<now, row, tick, fired, chosen, used>>

Crash(s) ==
    /\ Bounded("crash", MaxCrashes)
    /\ OwnerSlots!Forget(s)
    /\ tick' = [tick EXCEPT ![s] = Idle]
    /\ UNCHANGED <<now, row, fired, chosen>>

Next ==
    \/ TimePasses
    \/ \E o \in Owners, enabled \in BOOLEAN, interval \in Intervals : Save(o, enabled, interval)
    \/ \E s \in Servers : Tick(s) \/ TickThrows(s) \/ Crash(s)
    \/ \E s \in Servers, o \in Owners : ManualStart(s, o) \/ RunEnds(s, o)

Spec == Init /\ [][Next]_vars

\* setInterval keeps calling the tick, whose statements settle, and every run
\* ends (RunsEnd of IdeaFoundryPipeline).
FairSpec ==
    /\ Spec
    /\ \A s \in Servers : WF_vars(Tick(s))
    /\ \A s \in Servers, o \in Owners : WF_vars(RunEnds(s, o))

-----------------------------------------------------------------------------
(* Properties.                                                             *)

Time == Nat
Row == [enabled : BOOLEAN, interval : Intervals, lastRun : Time, nextRun : Time,
        updated : Time \X (Servers \cup {User})]
Snapshot == [owner : Owners \cup {User}, row : Row]

\* Every variable holds values of its type; an enabled row has a slot.
TypeOK ==
    /\ now \in 1..MaxTime
    /\ row \in [Owners -> Row]
    /\ \A o \in Owners : row[o].enabled => row[o].nextRun # Never
    /\ \A s \in Servers : /\ tick[s].pc \in {"idle", "load", "next", "start", "persist"}
                          /\ tick[s].at \in 0..now
                          /\ tick[s].due \subseteq Snapshot
                          /\ tick[s].cur \in Snapshot
    /\ \A f \in fired : f.owner \in Owners /\ f.slot \in Time /\ f.at \in 1..now

Undisturbed == used["fault"] = 0 /\ used["crash"] = 0

\* A slot is run once: with no crash and no failed statement, no two
\* scheduled runs are for the same slot of an owner.
OneRunPerSlot ==
    Undisturbed => \A f, g \in fired : f.owner = g.owner /\ f.slot = g.slot => f = g

\* A slot is not lost: the next slot moves only with a save or with a run
\* that was really started.
SlotsMoveWithRuns ==
    [][\A o \in Owners :
        row'[o].nextRun # row[o].nextRun /\ chosen'[o] = chosen[o] =>
            \E f \in fired : f.owner = o /\ f.at = row'[o].lastRun
                             /\ f.slot < row'[o].nextRun]_vars

\* A due schedule is served: its slot is run, or a save replaces it.
DueServed ==
    \A o \in Owners : []<>~Due(row[o], now)
==============================================================================
