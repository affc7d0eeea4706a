------------------------------ MODULE IdeaStages ------------------------------
(***************************************************************************)
(* The two stages that write proto-ideas: the extraction by itself, with   *)
(* passes that retry failed sources and passes that do not, and what       *)
(* IdeaPasses says of refinement.  A behaviour is one or the other.        *)
(***************************************************************************)
EXTENDS IdeaPasses

VARIABLE part  \* "extraction" or "passes"

stagesVars == <<part, vars>>

Alone == INSTANCE ProtoIdeaExtraction

(* There are no candidates yet, and refinement rests.                      *)
NoRefinement == UNCHANGED <<beside, candidates, refinementVars>>

ExtractionTurn == part = "extraction" /\ UNCHANGED part /\ NoRefinement

PassesTurn == part = "passes" /\ UNCHANGED part

StagesInit ==
    \/ part = "passes" /\ Init
    \/ part = "extraction" /\ beside = TRUE /\ Alone!Init /\ Refinement!NothingRefined

StagesNext ==
    \/ PassesTurn /\ Next
    \/ ExtractionTurn /\ Alone!Next

(* Every awaited call settles, so a pass goes on; nobody has to start one  *)
(* of the extraction, and refinement is called again and again.            *)
StagesFairness ==
    \A p \in Passes :
        /\ WF_stagesVars(ExtractionTurn /\ Alone!Step(p))
        /\ SF_stagesVars(PassesTurn /\ Refinement!BeginPass(p, 0) /\ BesideExtraction)
        /\ WF_stagesVars(PassesTurn /\ Refinement!Step(p) /\ BesideExtraction)

StagesSpec == StagesInit /\ [][StagesNext]_stagesVars /\ StagesFairness

-----------------------------------------------------------------------------
(* A source is worked on by one pass at a time, and is PROCESSING          *)
(* meanwhile (claimProtoIdeaSource).                                       *)
OneWorkerPerSource == part = "extraction" => Alone!OneWorkerPerSource

(* Proto-ideas can be seen only of a COMPLETED source: neither half an     *)
(* extraction, nor what a failed or repeated one left behind               *)
(* (persistProtoIdeaSuccess).                                              *)
IdeasOnlyOfCompleted == part = "extraction" => Alone!IdeasOnlyOfCompleted

(* A claimed source is settled, unless something died or threw.            *)
ClaimedIsSettled == part = "extraction" => Alone!ClaimedIsSettled
===============================================================================
