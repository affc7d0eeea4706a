---------------------------- MODULE BoardContents ----------------------------
(***************************************************************************)
(* What the board of the Idea Foundry is built from: the answer of GET     *)
(* contents (getProspectingPipelineContents in                             *)
(* prospecting-configuration.service.js) and the columns the screen makes  *)
(* of it (buildColumnsFromPipelinePayload in                               *)
(* idea-foundry-overview.component.ts).  The answer is put together from   *)
(* five queries, the last four of them at once, while the stages of the    *)
(* pipeline go on writing.  One source is followed with what becomes of it;*)
(* other sources have keys, rows and cards of their own.                   *)
(***************************************************************************)
EXTENDS Naturals

CONSTANTS
    MaxRequests, \* bound: requests for the contents
    Unread       \* a query that has not been answered

VARIABLES
    db,      \* the rows of the source: see Database
    request, \* what the current request has read of db, "none" between requests
    asked,   \* how many requests there were
    board,   \* the columns on the screen
    ever,    \* the columns it waited in at some moment since the request began
    always   \* the columns it has waited in ever since the request began

vars == <<db, request, asked, board, ever, always>>

Columns == {"sources", "proto-ideas", "idea-candidates", "curated-opportunities"}

Processing == {"PENDING", "PROCESSING", "COMPLETED", "FAILED"}
Workflow == {"AWAITING_EVALUATION", "NEEDS_REFINEMENT", "REJECTED", "PROMOTED"}

(* result: among the last result records of prospecting.                   *)
Database ==
    [result : BOOLEAN, source : {"none"} \cup Processing, proto : {"none"} \cup Processing,
     candidate : {"none"} \cup Workflow, opportunity : BOOLEAN]

NothingYet == [result |-> FALSE, source |-> "none", proto |-> "none",
               candidate |-> "none", opportunity |-> FALSE]

NothingRead == [field \in DOMAIN NothingYet |-> Unread]

-----------------------------------------------------------------------------
(* The columns.                                                            *)

IsNoLongerUnprocessed(status) == status \in {"PROCESSING", "COMPLETED"}

(* mergePipelineSources(): one record per key for what prospecting found   *)
(* last and what has a row; processed when the row is in work or done, or  *)
(* when one of the proto-ideas belongs to the row.                         *)
IsSource(rows) == rows.result \/ rows.source # "none"

(* Faulty: the status of the row is not looked at.                         *)
ProcessedByIdeasOnly(rows) == rows.source # "none" /\ rows.proto # "none"

IsProcessedForPipeline(rows) ==
    \/ IsNoLongerUnprocessed(rows.source)
    \/ rows.source # "none" /\ rows.proto # "none"

IsAwaitingEvaluation(workflow) == workflow = "AWAITING_EVALUATION"

(* buildColumnsFromPipelinePayload(): the columns with a card, those the   *)
(* label of the column counts as unprocessed and those with a card while   *)
(* the checkbox is off.                                                    *)
UnprocessedColumns(rows) ==
    {c \in Columns :
        \/ c = "sources" /\ IsSource(rows) /\ ~ IsProcessedForPipeline(rows)
        \/ c = "proto-ideas" /\ rows.proto # "none" /\ ~ IsNoLongerUnprocessed(rows.proto)
        \/ c = "idea-candidates" /\ IsAwaitingEvaluation(rows.candidate)
        \/ c = "curated-opportunities" /\ rows.opportunity}

AllColumns(rows) ==
    {c \in Columns :
        \/ c = "sources" /\ IsSource(rows)
        \/ c = "proto-ideas" /\ rows.proto # "none"
        \/ c = "idea-candidates" /\ rows.candidate # "none"
        \/ c = "curated-opportunities" /\ rows.opportunity}

EmptyColumns == [total |-> {}, unprocessed |-> {}]

BuildColumns(rows) == [total |-> AllColumns(rows), unprocessed |-> UnprocessedColumns(rows)]

(* Where the source and what came of it wait for the next stage.           *)
Waits(rows) ==
    (IF IsSource(rows) /\ ~ IsNoLongerUnprocessed(rows.source) THEN {"sources"} ELSE {})
    \cup (IF rows.proto \in {"PENDING", "FAILED"} THEN {"proto-ideas"} ELSE {})
    \cup (IF rows.candidate = "AWAITING_EVALUATION" THEN {"idea-candidates"} ELSE {})
    \cup (IF rows.opportunity THEN {"curated-opportunities"} ELSE {})

Init ==
    /\ db = NothingYet
    /\ request = NothingRead /\ asked = 0
    /\ board = EmptyColumns
    /\ ever = {} /\ always = {}

-----------------------------------------------------------------------------
(* The stages, as the passes of the pipeline write.                        *)

Write(rows) ==
    /\ db' = rows
    /\ ever' = ever \cup Waits(rows)
    /\ always' = always \cap Waits(rows)
    /\ UNCHANGED <<request, asked, board>>

(* A prospecting run replaces the result records.                          *)
Prospect == Write([db EXCEPT !.result = ~ @])

ClaimSource ==
    /\ (db.source = "none" /\ db.result) \/ db.source = "FAILED"
    /\ Write([db EXCEPT !.source = "PROCESSING"])

(* The source row and its proto-ideas are written in one transaction.      *)
EndExtraction ==
    /\ db.source = "PROCESSING"
    /\ \/ \E proto \in {"none", "PENDING"} :
             Write([db EXCEPT !.source = "COMPLETED", !.proto = proto])
       \/ Write([db EXCEPT !.source = "FAILED"])

ClaimProtoIdea ==
    /\ db.proto \in {"PENDING", "FAILED"}
    /\ Write([db EXCEPT !.proto = "PROCESSING"])

(* So are the proto-idea and its candidate.                                *)
EndRefinement ==
    /\ db.proto = "PROCESSING"
    /\ \/ Write([db EXCEPT !.proto = "COMPLETED", !.candidate = "AWAITING_EVALUATION"])
       \/ Write([db EXCEPT !.proto = "FAILED"])

(* And the candidate and its opportunity.                                  *)
EvaluateCandidate ==
    /\ db.candidate = "AWAITING_EVALUATION"
    /\ \E verdict \in Workflow \ {"AWAITING_EVALUATION"} :
          Write([db EXCEPT !.candidate = verdict, !.opportunity = @ \/ verdict = "PROMOTED"])

-----------------------------------------------------------------------------
(* The request.                                                            *)

GetPipelineContents ==
    /\ request = NothingRead
    /\ asked < MaxRequests
    /\ asked' = asked + 1
    /\ request' = [NothingRead EXCEPT !.result = db.result]
    /\ ever' = Waits(db) /\ always' = Waits(db)
    /\ UNCHANGED <<db, board>>

(* One of the four parallel queries reads its table.                       *)
ReadTable(table) ==
    /\ request.result # Unread
    /\ request[table] = Unread
    /\ request' = [request EXCEPT ![table] = db[table]]
    /\ UNCHANGED <<db, asked, board, ever, always>>

(* The answer arrives and the columns are built from it.                   *)
ShowBoard ==
    /\ \A table \in DOMAIN request : request[table] # Unread
    /\ board' = BuildColumns(request)
    /\ request' = NothingRead
    /\ UNCHANGED <<db, asked, ever, always>>

Next ==
    \/ Prospect \/ ClaimSource \/ EndExtraction
    \/ ClaimProtoIdea \/ EndRefinement \/ EvaluateCandidate
    \/ GetPipelineContents
    \/ \E table \in DOMAIN NothingYet : ReadTable(table)
    \/ ShowBoard

Spec == Init /\ [][Next]_vars

-----------------------------------------------------------------------------
TypeOK ==
    /\ db \in Database
    /\ board.unprocessed \subseteq board.total /\ board.total \subseteq Columns

(* The board that an answer produces is not older than its request,        *)
(* although its five queries see five different states: it shows an item   *)
(* as waiting only where it waited at some moment since the request began, *)
(* and it leaves out nothing that has waited there all the time.           *)
BoardIsRecent ==
    [][ShowBoard => /\ board'.unprocessed \subseteq ever
                    /\ always \subseteq board'.unprocessed]_vars
=============================================================================
