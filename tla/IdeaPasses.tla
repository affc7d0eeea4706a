------------------------------ MODULE IdeaPasses ------------------------------
(***************************************************************************)
(* Refinement and extraction on the rows of the proto-ideas, which both    *)
(* stages write.  Refinement is checked alone, on ideas that stay, and, in *)
(* a smaller instance, beside the passes of the extraction: there a second *)
(* extraction of a source deletes the ideas of the first one, with their   *)
(* candidates, while refinement works on them.                             *)
(***************************************************************************)
EXTENDS IdeaRecords

CONSTANTS
    Passes, Retriers, Askers, Staged, Prints, SourceCount, BatchSize, MaxIdeas,
    MaxFaults, MaxCrashes

ASSUME PassesAssumption ==
    /\ Retriers \subseteq Passes /\ Askers \subseteq Passes /\ Staged \subseteq Passes
    /\ {SourceCount, ProtoCount, CandidateCount, MaxIdeas, MaxFaults, MaxCrashes} \subseteq Nat
    /\ BatchSize \in Nat \ {0}
    /\ Nobody \notin Passes \cup Prints

VARIABLES
    beside,                                                   \* extraction works beside it
    protos,                                                   \* the rows both stages write
    candidates, rpass, rpolicy, rfaults, rcrashes,            \* IdeaRefinement
    results, source, xpass, policy, xfaults, xcrashes         \* ProtoIdeaExtraction

refinementVars == <<rpass, rpolicy, rfaults, rcrashes>>
extractionVars == <<results, source, xpass, policy, xfaults, xcrashes>>
vars == <<beside, protos, candidates, refinementVars, extractionVars>>

Refinement == INSTANCE IdeaRefinement

(* Several passes that retry: two of them may take over one failed source. *)
Extraction == INSTANCE ProtoIdeaExtraction WITH Retriers <- Passes

Init ==
    \/ beside = FALSE /\ Refinement!Init /\ Extraction!NothingExtracted
    \/ beside = TRUE /\ Extraction!Init /\ Refinement!NothingRefined

-----------------------------------------------------------------------------
(* Faulty: candidates stay when their proto-idea is deleted.               *)
CandidatesStay(rows) == candidates

(* onDelete: Cascade, from a proto-idea to its candidates.                 *)
Cascade(rows) ==
    DeleteCandidates(candidates, {c \in LiveCandidates(candidates) :
                                     candidates[c].proto \notin LiveProtos(rows)})

(* The rows a transaction has deleted are locked until it commits.         *)
Locked == UNION {xpass[p].doomed : p \in Passes}

(* Bounds of the joint instance: one source that stays, one candidate,     *)
(* nothing throws or dies, every extraction retries, and only the passes   *)
(* that retry no refinement refine, never one idea by its id.              *)
Fits ==
    beside =>
        /\ \A c \in CandidateIds : c > 1 => candidates'[c].row = "unborn"
        /\ results' \in {results, {1}}
        /\ xfaults' + xcrashes' + rfaults' + rcrashes' = 0
        /\ \A p \in Passes : xpass'[p].pc = "list" => xpass'[p].retry
        /\ \A p \in Passes : rpass'[p].asked = 0
        /\ \A p \in Retriers : rpass'[p] = rpass[p]

Extracts ==
    /\ beside
    /\ Extraction!Next
    /\ candidates' = Cascade(protos')
    /\ UNCHANGED <<beside, refinementVars>>
    /\ Fits

BesideExtraction ==
    /\ \A i \in Locked : protos'[i] = protos[i]
    /\ UNCHANGED <<beside, extractionVars>>
    /\ Fits

Next ==
    \/ Refinement!Next /\ BesideExtraction
    \/ Extracts

(* A pass goes on, and refinement is called again and again.               *)
Fairness ==
    \A p \in Passes :
        /\ SF_vars(Refinement!BeginPass(p, 0) /\ BesideExtraction)
        /\ WF_vars(Refinement!Step(p) /\ BesideExtraction)

Spec == Init /\ [][Next]_vars /\ Fairness

-----------------------------------------------------------------------------
(* The iterations of an idea are numbered 1, 2, ... without a gap          *)
(* (persistIdeaCandidateSuccess).                                          *)
IterationsContiguous == Refinement!IterationsContiguous

(* A candidate stays with the idea and the iteration it was written for.   *)
CandidatesKeepTheirIdea == Refinement!CandidatesKeepTheirIdea

(* Every pending proto-idea gets its turn, also behind ones that fail.     *)
PendingServed ==
    \A i \in ProtoIds :
        []<>(beside \/ protos[i].status # "PENDING" \/ Refinement!RowsUsedUp)

(* A candidate has its proto-idea: a pass that has refined an idea which   *)
(* another extraction of the source deletes meanwhile stores nothing, and  *)
(* what was stored goes with the idea.                                     *)
CandidatesHaveTheirIdea ==
    \A c \in LiveCandidates(candidates) : candidates[c].proto \in LiveProtos(protos)

==============================================================================
