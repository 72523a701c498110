----------------------------- MODULE MCExclusion -----------------------------
(***************************************************************************)
(* Two ways to keep processes apart side by side: the leases of the job     *)
(* scheduler and the lock of the last-good configuration.  They share no    *)
(* state, so that nothing is lost when only one of them leaves its initial  *)
(* state.                                                                   *)
(*                                                                          *)
(* Three processes apply two configurations: a process may find the lock,   *)
(* the temporary file and the target of another one, or of its earlier      *)
(* self, while a third one comes in between.                                *)
(***************************************************************************)
EXTENDS MCJobScheduler, ConfigApply

exclusionVars == <<schedulerVars, vars>>

ExclusionInit == SchedulerInit /\ Init

ExclusionNext ==
    \/ Init          /\ SchedulerNext /\ UNCHANGED vars
    \/ SchedulerInit /\ Next          /\ UNCHANGED schedulerVars

ExclusionSpec == ExclusionInit /\ [][ExclusionNext]_exclusionVars
=============================================================================
