---------------------------- MODULE OwnerPipeline ----------------------------
(***************************************************************************)
(* What the pipeline runtime promises the rest of the system: every        *)
(* process has one slot per owner; a slot holds at most one run, the run   *)
(* climbs the stages one by one from the stage it was started at, it ends  *)
(* as a success only from the last stage, and an ended run stays as it is  *)
(* until the next one takes its slot.                                      *)
(***************************************************************************)
EXTENDS Naturals

CONSTANTS Servers, Owners, StageCount

VARIABLES
    phase,   \* phase[s][o] \in {"idle", "running", "success", "stopped"}
    at       \* at[s][o]: the stage the run in the slot has reached

slotVars == <<phase, at>>

Phase == {"idle", "running", "success", "stopped"}

SlotInit ==
    /\ phase = [s \in Servers |-> [o \in Owners |-> "idle"]]
    /\ at = [s \in Servers |-> [o \in Owners |-> 1]]

Begin(s, o, k) ==
    /\ phase[s][o] # "running"
    /\ phase' = [phase EXCEPT ![s][o] = "running"]
    /\ at' = [at EXCEPT ![s][o] = k]

Climb(s, o) ==
    /\ phase[s][o] = "running"
    /\ at[s][o] < StageCount
    /\ at' = [at EXCEPT ![s][o] = @ + 1]
    /\ UNCHANGED phase

Succeed(s, o) ==
    /\ phase[s][o] = "running"
    /\ at[s][o] = StageCount
    /\ phase' = [phase EXCEPT ![s][o] = "success"]
    /\ UNCHANGED at

Stop(s, o) ==
    /\ phase[s][o] = "running"
    /\ phase' = [phase EXCEPT ![s][o] = "stopped"]
    /\ UNCHANGED at

\* A process that dies forgets every slot it held.
Forget(s) ==
    /\ phase' = [phase EXCEPT ![s] = [o \in Owners |-> "idle"]]
    /\ at' = [at EXCEPT ![s] = [o \in Owners |-> 1]]

SlotNext ==
    \/ \E s \in Servers, o \in Owners :
        \/ \E k \in 1..StageCount : Begin(s, o, k)
        \/ Climb(s, o)
        \/ Succeed(s, o)
        \/ Stop(s, o)
    \/ \E s \in Servers : Forget(s)

SlotSpec == SlotInit /\ [][SlotNext]_slotVars
==============================================================================
