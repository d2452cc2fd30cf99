-------------------------- MODULE MCTriggerInputs --------------------------
EXTENDS TriggerInputs

(* A sleep of 1 ms takes 1 ms and a little more. *)
SleepTimes == 2 .. 3
=============================================================================
