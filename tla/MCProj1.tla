----------------------------- MODULE MCProj1 ---------------------------------
(***************************************************************************)
(* The parts of the scheduling project (group_proj1) that do not share     *)
(* state, checked together: a behaviour is one of one part, the others     *)
(* stay where they start.                                                  *)
(***************************************************************************)
EXTENDS Alarm, CondVar, Mlfqs, TLC

CONSTANTS t1, t2, t3

VARIABLE part

projVars == <<part, alarmVars, cvVars, mlVars>>

Parts == {"alarm", "condition", "mlfqs"}

\* A part whose first state is a choice makes it only when it is its turn.
ProjInit ==
    /\ part \in Parts
    /\ AlarmInit
    /\ CvInit
    /\ MlInit

Parked ==
    /\ UNCHANGED part
    /\ part # "alarm" => UNCHANGED alarmVars
    /\ part # "condition" => UNCHANGED cvVars
    /\ part # "mlfqs" => UNCHANGED mlVars

ProjNext ==
    \/ part = "alarm" /\ AlarmNext /\ Parked
    \/ part = "condition" /\ CvNext /\ Parked
    \/ part = "mlfqs" /\ MlNext /\ Parked

\* The timer interrupts the processor as long as it runs.
ProjFairness ==
    /\ WF_alarmVars(part = "alarm" /\ timer_interrupt)
    /\ WF_mlVars(part = "mlfqs" /\ Tick)

ProjSpec == ProjInit /\ [][ProjNext]_projVars /\ ProjFairness

\* EqualsRun of the part that runs.
EqualsShare == part = "mlfqs" => EqualsRun

-----------------------------------------------------------------------------
\* Alarm.
Durations == {-1, 0, 1, 3}

\* CondVar.
Priorities == t1 :> 1 @@ t2 :> 1 @@ t3 :> 2
Three == {t1, t2, t3}

\* Mlfqs.
MCNices == {-1}
=============================================================================
