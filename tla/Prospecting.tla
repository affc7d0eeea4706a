------------------------------ MODULE Prospecting ------------------------------
(***************************************************************************)
(* Prospecting: the configuration row of each operator                     *)
(* (prospecting-configuration.service.js) and the timer that runs the due  *)
(* ones once an hour (prospecting-runtime.service.js).                     *)
(*                                                                         *)
(* A cycle reviews the strategy with an agent and then executes it with    *)
(* web searches.  Both halves load the row, wait for the outside world,    *)
(* and write the WHOLE row from what they loaded: a request, a pipeline    *)
(* run or another server's cycle that wrote in between is overwritten.     *)
(* The timer alone claims the row with its time stamp first.               *)
(***************************************************************************)
EXTENDS Naturals

CONSTANTS
    Servers,    \* Node processes, each with its timer
    Requests,   \* HTTP requests and pipeline stages that run a cycle or a search
    Owners,     \* operators
    Nobody,     \* the owner of a worker that works for none
    MaxHour,    \* bound: the clock stops here
    MaxCrashes  \* bound: crashes of a behaviour

ASSUME ProspectingAssumption ==
    /\ Servers \cap Requests = {}
    /\ Nobody \notin Owners
    /\ MaxHour \in Nat \ {0} /\ MaxCrashes \in Nat

VARIABLES
    hour,        \* the clock
    row,         \* row[o]: the configuration of o, or NoRow
    worker,      \* worker[w]: the local variables of the cycle w runs
    due,         \* due[s]: the configurations left in the tick of s, as listed
    untouched,   \* untouched[s]: those whose updated_at is still the listed one
    executed,    \* executed[o]: an execution of o has stored its results
    ran,         \* ran[o]: the hour of the last completed review or execution
    overlapped,  \* overlapped[o]: two workers have worked for o at once
    crashes

vars == <<hour, row, worker, due, untouched, executed, ran, overlapped, crashes>>
history == <<executed, ran, overlapped>>

Workers == Servers \cup Requests

-----------------------------------------------------------------------------
Never == 0      \* null in a timestamp column; the clock starts at 1

\* Results are known by their age: "latest" is what the last completed
\* execution stored, "older" what an earlier one did.
NoRow == [status |-> "ABSENT", mode |-> "scheduled", last |-> Never,
          next |-> Never, results |-> "none"]

\* What a cycle keeps of the row it loads and writes back.
Kept(r) == [last |-> r.last, next |-> r.next, results |-> r.results]

Idle == [pc |-> "idle", owner |-> Nobody, mode |-> "scheduled", rec |-> Kept(NoRow)]

RowRecord ==
    [status : {"ABSENT", "RUNNING", "COMPLETED", "FAILED"}, mode : {"scheduled", "manual"},
     last : 0..MaxHour, next : 0..(MaxHour + 1), results : {"none", "older", "latest"}]

KeptRecord ==
    [last : 0..MaxHour, next : 0..(MaxHour + 1), results : {"none", "older", "latest"}]

DueRecord == [owner : Owners, mode : {"scheduled", "manual"}, next : 0..(MaxHour + 1)]

WorkerRecord ==
    [pc : {"idle", "done", "next", "loadReview", "announce", "startRun", "review",
           "reviewFailed", "loadPlan", "begin", "search", "searchFailed"},
     owner : Owners \cup {Nobody}, mode : {"scheduled", "manual"}, rec : KeptRecord]

\* Faulty: a RUNNING configuration is never due.
IsDueUnlessRunning(r) ==
    r.status \notin {"ABSENT", "RUNNING"} /\ r.mode = "scheduled" /\ r.next <= hour

\* isProspectingConfigurationDue: the stored slot, else an hour after the
\* last run, else at once.
IsDue(r) ==
    /\ r.status # "ABSENT"
    /\ r.mode = "scheduled"
    /\ IF r.next # Never THEN r.next <= hour ELSE r.last # Never => r.last + 1 <= hour

\* Every upsert stamps updated_at.
Write(o, r) ==
    /\ row' = [row EXCEPT ![o] = r]
    /\ untouched' = [s \in Servers |-> untouched[s] \ {o}]

\* Where a worker goes when its cycle returns or throws.
Ended(w) ==
    IF w \in Servers THEN [Idle EXCEPT !.pc = "next"] ELSE [Idle EXCEPT !.pc = "done"]

Take(w, o, pc, mode) ==
    /\ worker' = [worker EXCEPT ![w] =
                     [pc |-> pc, owner |-> o, mode |-> mode, rec |-> Kept(NoRow)]]
    /\ overlapped' = IF \E v \in Workers \ {w} : worker[v].owner = o
                     THEN [overlapped EXCEPT ![o] = TRUE] ELSE overlapped

Goto(w, pc) == worker' = [worker EXCEPT ![w].pc = pc]

-----------------------------------------------------------------------------
Init ==
    /\ hour = 1
    /\ row = [o \in Owners |-> NoRow]
    /\ worker = [w \in Workers |-> Idle]
    /\ due = [s \in Servers |-> {}]
    /\ untouched = [s \in Servers |-> {}]
    /\ executed = [o \in Owners |-> FALSE]
    /\ ran = [o \in Owners |-> Never]
    /\ overlapped = [o \in Owners |-> FALSE]
    /\ crashes = 0

TimePasses ==
    /\ hour < MaxHour
    /\ hour' = hour + 1
    /\ UNCHANGED <<row, worker, due, untouched, history, crashes>>

\* The timer fires and no tick is draining: the due rows are listed.  The
\* in-flight set is empty here, since only a tick under way fills it.  A tick that
\* lists nothing changes nothing.
BeginTick(s) ==
    /\ worker[s].pc = "idle"
    /\ LET listed == {o \in Owners : IsDue(row[o])} IN
       /\ listed # {}
       /\ due' = [due EXCEPT ![s] =
                     {[owner |-> o, mode |-> row[o].mode, next |-> row[o].next] : o \in listed}]
       /\ untouched' = [untouched EXCEPT ![s] = listed]
    /\ Goto(s, "next")
    /\ UNCHANGED <<hour, row, history, crashes>>

\* The list is in the order of next_run_at, nulls last.
IsFirst(s, d) ==
    \A e \in due[s] : d.next # Never /\ e.next # Never => d.next <= e.next

\* Faulty: the claim does not compare updated_at.
ClaimsBlindly(s, o) == o \in Owners

\* claimProspectingConfigurationRun: WHERE updated_at is the listed one.
ClaimMatches(s, o) == o \in untouched[s]

\* The first row of the list is claimed; a cycle runs if the claim matched.
ClaimNext(s) ==
    /\ worker[s].pc = "next"
    /\ \E d \in due[s] :
        /\ IsFirst(s, d) /\ (d.next = Never => \A e \in due[s] : e.next = Never)
        /\ due' = [due EXCEPT ![s] = @ \ {d}]
        /\ \/ /\ ClaimMatches(s, d.owner)
              /\ Write(d.owner, [row[d.owner] EXCEPT !.status = "RUNNING"])
              /\ Take(s, d.owner, "loadReview", d.mode)
           \/ /\ ~ClaimMatches(s, d.owner)
              /\ UNCHANGED <<row, untouched, worker, overlapped>>
    /\ UNCHANGED <<hour, executed, ran, crashes>>

EndTick(s) ==
    /\ worker[s].pc = "next" /\ due[s] = {}
    /\ worker' = [worker EXCEPT ![s] = Idle]
    /\ untouched' = [untouched EXCEPT ![s] = {}]
    /\ UNCHANGED <<hour, row, due, history, crashes>>

\* POST configuration/run with a snapshot, or with the stored one.
RequestCycle(w, o) ==
    /\ worker[w].pc = "idle"
    /\ \E mode \in {"scheduled", "manual"} : Take(w, o, "loadReview", mode)
    /\ UNCHANGED <<hour, row, due, untouched, executed, ran, crashes>>

\* POST configuration/execute, and the first stage of a pipeline run.  The
\* answer 409 for a missing strategy is never given: the cadence is put into
\* the snapshot before its keys are counted.
RequestExecution(w, o) ==
    /\ worker[w].pc = "idle"
    /\ Take(w, o, "loadPlan", "scheduled")
    /\ UNCHANGED <<hour, row, due, untouched, executed, ran, crashes>>

-----------------------------------------------------------------------------
\* Both halves of a cycle begin with the row as it is now.
Load(w) ==
    /\ worker[w].pc \in {"loadReview", "loadPlan"}
    /\ worker' = [worker EXCEPT ![w].rec = Kept(row[worker[w].owner]),
                                ![w].pc = IF @ = "loadReview" THEN "announce" ELSE "begin"]
    /\ UNCHANGED <<hour, row, due, untouched, history, crashes>>

\* Faulty: the row is rebuilt without the results that were loaded.
ForgetsResults(w, status) ==
    [status |-> status, mode |-> worker[w].mode, last |-> worker[w].rec.last,
     next |-> worker[w].rec.next, results |-> "none"]

\* The whole row, from the loaded record.
Rewritten(w, status) ==
    [status |-> status, mode |-> worker[w].mode, last |-> worker[w].rec.last,
     next |-> worker[w].rec.next, results |-> worker[w].rec.results]

\* RUNNING is written before the agent is started, again with its run's id,
\* and before the searches.
WriteRunning(w) ==
    /\ worker[w].pc \in {"announce", "startRun", "begin"}
    /\ Write(worker[w].owner, Rewritten(w, "RUNNING"))
    /\ Goto(w, CASE worker[w].pc = "announce" -> "startRun"
                 [] worker[w].pc = "startRun" -> "review"
                 [] worker[w].pc = "begin"    -> "search")
    /\ UNCHANGED <<hour, due, history, crashes>>

\* COMPLETED is written with the enforced cadence and the slot an hour on.
Completed(results) ==
    [status |-> "COMPLETED", mode |-> "scheduled", last |-> hour, next |-> hour + 1,
     results |-> results]

\* The agent has answered (an answer no repair could fix becomes the stored
\* strategy); the review is stored and the same cycle goes on to execute it.
ReviewCompletes(w) ==
    /\ worker[w].pc = "review"
    /\ LET o == worker[w].owner IN
       /\ Write(o, Completed(worker[w].rec.results))
       /\ ran' = [ran EXCEPT ![o] = hour]
       /\ Take(w, o, "loadPlan", "scheduled")
    /\ UNCHANGED <<hour, due, executed, crashes>>

\* The results every other worker has loaded for o are no longer the latest.
Aged(v, o) ==
    IF worker[v].owner = o /\ worker[v].rec.results = "latest"
    THEN [worker[v] EXCEPT !.rec.results = "older"] ELSE worker[v]

\* Every query was answered: what they found, perhaps nothing, replaces the
\* stored results.
SearchCompletes(w) ==
    /\ worker[w].pc = "search"
    /\ LET o == worker[w].owner IN
       /\ Write(o, Completed("latest"))
       /\ ran' = [ran EXCEPT ![o] = hour]
       /\ executed' = [executed EXCEPT ![o] = TRUE]
       /\ worker' = [v \in Workers |-> IF v = w THEN Ended(w) ELSE Aged(v, o)]
    /\ UNCHANGED <<hour, due, overlapped, crashes>>

\* A call throws outside the try statements: no agent, no storage.
ThrowsOut(w) ==
    /\ worker[w].pc \in {"loadReview", "announce", "loadPlan", "begin",
                         "reviewFailed", "searchFailed"}
    /\ worker' = [worker EXCEPT ![w] = Ended(w)]
    /\ UNCHANGED <<hour, row, due, untouched, history, crashes>>

\* A call throws inside one: the agent, a search, the database.
ThrowsInside(w) ==
    /\ worker[w].pc \in {"startRun", "review", "search"}
    /\ Goto(w, IF worker[w].pc = "search" THEN "searchFailed" ELSE "reviewFailed")
    /\ UNCHANGED <<hour, row, due, untouched, history, crashes>>

\* The catch blocks: FAILED, and the rest of the row as it was loaded.
WriteFailed(w) ==
    /\ worker[w].pc \in {"reviewFailed", "searchFailed"}
    /\ Write(worker[w].owner, Rewritten(w, "FAILED"))
    /\ worker' = [worker EXCEPT ![w] = Ended(w)]
    /\ UNCHANGED <<hour, due, history, crashes>>

\* A process dies; a server comes back with an idle timer.
Crash(w) ==
    /\ crashes < MaxCrashes
    /\ worker[w].pc \notin {"idle", "done"}
    /\ crashes' = crashes + 1
    /\ worker' = [worker EXCEPT ![w] = IF w \in Servers THEN Idle ELSE Ended(w)]
    /\ due' = [s \in Servers |-> IF s = w THEN {} ELSE due[s]]
    /\ untouched' = [s \in Servers |-> IF s = w THEN {} ELSE untouched[s]]
    /\ UNCHANGED <<hour, row, history>>

-----------------------------------------------------------------------------
Progress(w) ==
    \/ Load(w) \/ WriteRunning(w) \/ ReviewCompletes(w) \/ SearchCompletes(w)
    \/ ThrowsOut(w) \/ ThrowsInside(w) \/ WriteFailed(w)

Tick(s) == BeginTick(s) \/ ClaimNext(s) \/ EndTick(s)

Next ==
    \/ TimePasses
    \/ \E s \in Servers : Tick(s)
    \/ \E w \in Requests, o \in Owners : RequestCycle(w, o) \/ RequestExecution(w, o)
    \/ \E w \in Workers : Progress(w) \/ Crash(w)

Spec == Init /\ [][Next]_vars

\* The timer fires every minute and every call returns or is timed out.
FairSpec ==
    /\ Spec
    /\ WF_vars(TimePasses)
    /\ \A s \in Servers : WF_vars(Tick(s))
    /\ \A w \in Workers : WF_vars(Progress(w))

-----------------------------------------------------------------------------
\* Every variable holds values of its type; in particular no slot is ever more
\* than an hour away.
TypeOK ==
    /\ hour \in 1..MaxHour
    /\ row \in [Owners -> RowRecord]
    /\ worker \in [Workers -> WorkerRecord]
    /\ \A o \in Owners : row[o].next <= hour + 1
    /\ \A w \in Workers : worker[w].rec.next <= hour + 1
    /\ due \in [Servers -> SUBSET DueRecord]
    /\ untouched \in [Servers -> SUBSET Owners]
    /\ executed \in [Owners -> BOOLEAN] /\ overlapped \in [Owners -> BOOLEAN]
    /\ ran \in [Owners -> 0..MaxHour]
    /\ crashes \in 0..MaxCrashes

\* last_result_records holds what the latest execution stored, through
\* reviews, failures and crashes, as long as no two workers worked for the
\* operator at once.
LatestResultsKept ==
    \A o \in Owners :
        ~overlapped[o] => row[o].results = IF executed[o] THEN "latest" ELSE "none"

\* s goes from its list into a cycle an hour or more after the operator's last
\* completed review or execution, or finds another worker there.
StartsOnTime(s) ==
    worker[s].pc = "next" /\ worker'[s].pc = "loadReview" =>
        LET o == worker'[s].owner IN
        overlapped'[o] \/ ran[o] = Never \/ ran[o] + 1 <= hour

\* The enforced hourly schedule: the timer starts a cycle no sooner than an
\* hour after the last completed review or execution, whichever server or
\* request ran it, as long as no two workers worked for the operator at once.
HourlyCadence == [][\A s \in Servers : StartsOnTime(s)]_vars

\* A slot that has elapsed is run, also when the row says RUNNING because its
\* worker died: an interrupted cycle does not wedge the hourly loop.
ElapsedServed ==
    \A o \in Owners :
        []<>(\/ row[o].mode # "scheduled" \/ row[o].next \notin 1..hour
             \/ \E s \in Servers : worker[s].owner = o)
=============================================================================
