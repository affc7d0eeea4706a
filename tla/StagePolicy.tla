----------------------------- MODULE StagePolicy -----------------------------
(***************************************************************************)
(* The row that holds the policy of a stage (proto-idea extraction or idea *)
(* refinement) and the status of its latest pass: the screens on which     *)
(* operators edit the one and start the other (webapp                      *)
(* .../idea-foundry/proto-idea-extraction.component.ts and                 *)
(* idea-refinement.component.ts), and what saves and passes write          *)
(* (proto-idea-extraction.service.js, idea-refinement.service.js).  What a *)
(* pass does to the ideas is the matter of ProtoIdeaExtraction and         *)
(* IdeaRefinement; here it reads the policy, works for a while and ends.   *)
(*                                                                         *)
(* An operator's pass is run by run...Stage, which records a failure.  The *)
(* pipeline executor and the scripts call run...Pass itself, where nobody  *)
(* does.                                                                   *)
(***************************************************************************)
EXTENDS Naturals, FiniteSets

CONSTANTS
    Operators, \* who run a stage from its screen
    Callers,   \* the pipeline executor and the scripts, who call run...Pass
    MaxAsks,   \* bound: reloads, saves and passes asked for
    MaxFaults  \* bound: requests and passes that fail

VARIABLES
    row,    \* [policy, status, by]: the row of the default profile; by is the pass that
            \* its status and latest_run_summary_json are of
    pass,   \* pass[r]: [at, left]: where the pass of r is, and whether the one that began
            \* last threw and nobody recorded it
    screen, \* screen[o]: [draft, status]: what o sees
    busy,   \* busy[o]: the request of o under way: [kind, at, got]
    asks,   \* how many requests there were; numbers the policies
    faults  \* how many failures there were

vars == <<row, pass, screen, busy, asks, faults>>

Runners == Operators \cup Callers

NoPass == [at |-> "none", left |-> FALSE]
Free == [kind |-> "none", at |-> "none", got |-> [policy |-> 0, status |-> "idle"]]

(* DEFAULT_EXTRACTION_POLICY is policy 0, on the screen and in the row.    *)
Init ==
    /\ row = [policy |-> 0, status |-> "idle", by |-> "none"]
    /\ pass = [r \in Runners |-> NoPass]
    /\ screen = [o \in Operators |-> [draft |-> 0, status |-> "idle"]]
    /\ busy = [o \in Operators |-> [Free EXCEPT !.kind = "load", !.at = "asked"]]
    /\ asks = 0 /\ faults = 0

-----------------------------------------------------------------------------
(* The buttons are disabled while a request of the screen is under way.    *)
Ask(o, kind) ==
    /\ busy[o] = Free
    /\ asks < MaxAsks
    /\ asks' = asks + 1
    /\ busy' = [busy EXCEPT ![o] = [Free EXCEPT !.kind = kind, !.at = "asked"]]
    /\ UNCHANGED <<row, pass, faults>>

Reload(o) == Ask(o, "load") /\ UNCHANGED screen

(* saveChanges(), after an edit of the draft.                              *)
SaveChanges(o) ==
    /\ Ask(o, "save")
    /\ screen' = [screen EXCEPT ![o].draft = asks + 1]

(* runAgent() runs under the stored policy, whatever the draft says.       *)
RunAgent(o) == Ask(o, "run") /\ UNCHANGED screen

(* The answer replaces the draft.                                          *)
Answered(o) ==
    /\ busy[o].at = "answered"
    /\ busy' = [busy EXCEPT ![o] = Free]
    /\ screen' = [screen EXCEPT ![o] = [draft |-> busy[o].got.policy, status |-> busy[o].got.status]]
    /\ UNCHANGED <<row, pass, asks, faults>>

(* The finally branch releases the buttons.                                *)
Released(o) == Free

(* A load or a save fails, or its answer is lost.                          *)
RequestFails(o) ==
    /\ busy[o].at \in {"asked", "answered"}
    /\ pass[o].at = "none"
    /\ faults < MaxFaults
    /\ faults' = faults + 1
    /\ busy' = [busy EXCEPT ![o] = Released(o)]
    /\ UNCHANGED <<row, pass, screen, asks>>

-----------------------------------------------------------------------------
(* The service.                                                            *)

Reply(o, r) ==
    [busy EXCEPT ![o].at = "answered", ![o].got = [policy |-> r.policy, status |-> r.status]]

(* getConfiguration(); a row that is missing is created with the defaults. *)
GetConfiguration(o) ==
    /\ busy[o].kind = "load" /\ busy[o].at = "asked"
    /\ busy' = Reply(o, row)
    /\ UNCHANGED <<row, pass, screen, asks, faults>>

(* Faulty: the whole record is written, with the status the screen had.    *)
SavedRecord(o) == [row EXCEPT !.policy = screen[o].draft, !.status = screen[o].status]

(* A save writes the policy fields only.                                   *)
Saved(o) == [row EXCEPT !.policy = screen[o].draft]

SaveConfiguration(o) ==
    /\ busy[o].kind = "save" /\ busy[o].at = "asked"
    /\ row' = Saved(o)
    /\ busy' = Reply(o, row')
    /\ UNCHANGED <<pass, screen, asks, faults>>

(* run...Stage reads the policy, or run...Pass when it is called directly. *)
ReadPolicy(r) ==
    /\ pass[r].at = "none"
    /\ r \in Operators => busy[r].kind = "run" /\ busy[r].at = "asked"
    /\ pass' = [pass EXCEPT ![r].at = "read"]
    /\ UNCHANGED <<row, screen, busy, asks, faults>>

(* updatePolicyRuntime() in the pass writes the status and whose it is.    *)
WriteStatus(r, status) == row' = [row EXCEPT !.status = status, !.by = r]

(* The pass says that it runs, and later how it ended.                     *)
BeginPass(r) ==
    /\ pass[r].at = "read"
    /\ pass' = [pass EXCEPT ![r].at = "running", ![r].left = FALSE]
    /\ WriteStatus(r, "RUNNING")
    /\ UNCHANGED <<screen, busy, asks, faults>>

EndPass(r) ==
    /\ pass[r].at = "running"
    /\ pass' = [pass EXCEPT ![r] = IF r \in Operators THEN [@ EXCEPT !.at = "ended"] ELSE NoPass]
    /\ \E status \in {"COMPLETED", "FAILED"} : WriteStatus(r, status)
    /\ UNCHANGED <<screen, busy, asks, faults>>

Throws(r) ==
    /\ pass[r].at # "none" /\ faults < MaxFaults /\ faults' = faults + 1
    /\ busy' = IF r \in Operators THEN [busy EXCEPT ![r] = Released(r)] ELSE busy
    /\ UNCHANGED <<screen, asks>>

(* The pass of an operator throws, or a statement after it: the catch      *)
(* branch of run...Stage records it and hands the error on.                *)
StageThrows(o) ==
    /\ Throws(o)
    /\ pass' = [pass EXCEPT ![o] = NoPass]
    /\ WriteStatus(o, "FAILED")

(* What the pass that began last leaves behind when nobody records that it *)
(* threw.                                                                  *)
Left(r) == pass[r].left \/ pass[r].at = "running"

(* A pass that was called directly throws, or the statement of that catch  *)
(* branch fails as well: the row stays as it is.                           *)
PassThrows(r) ==
    /\ Throws(r)
    /\ pass' = [pass EXCEPT ![r] = [NoPass EXCEPT !.left = Left(r)]]
    /\ UNCHANGED row

(* The answer of the run carries the row as it is afterwards.              *)
RefreshAfterRun(o) ==
    /\ pass[o].at = "ended"
    /\ pass' = [pass EXCEPT ![o] = NoPass]
    /\ busy' = Reply(o, row)
    /\ UNCHANGED <<row, screen, asks, faults>>

-----------------------------------------------------------------------------
Serve(o) ==
    \/ GetConfiguration(o) \/ SaveConfiguration(o)
    \/ ReadPolicy(o) \/ BeginPass(o) \/ EndPass(o) \/ RefreshAfterRun(o)
    \/ Answered(o)

Next ==
    \/ \E o \in Operators :
        \/ Reload(o) \/ SaveChanges(o) \/ RunAgent(o)
        \/ Serve(o) \/ RequestFails(o) \/ StageThrows(o)
    \/ \E c \in Callers : ReadPolicy(c) \/ BeginPass(c) \/ EndPass(c)
    \/ \E r \in Runners : PassThrows(r)

(* Requests are answered and passes end.                                   *)
Fairness == \A o \in Operators : WF_vars(Serve(o))

Spec == Init /\ [][Next]_vars /\ Fairness

-----------------------------------------------------------------------------
TypeOK ==
    /\ row.policy \in 0 .. MaxAsks
    /\ row.by \in Runners \cup {"none"}
    /\ row.status \in {"idle", "RUNNING", "COMPLETED", "FAILED"}
    /\ \A o \in Operators : busy[o].kind \in {"none", "load", "save", "run"}

(* RUNNING is the word of one pass: that pass runs still, or it threw      *)
(* where nobody records it.  Overlapping passes of other screens and of    *)
(* the executor, saves by operators who saw another status, and passes     *)
(* that throw under run...Stage never leave the word behind.               *)
RunningIsTrue ==
    row.status = "RUNNING" => pass[row.by].at = "running" \/ pass[row.by].left
=============================================================================
