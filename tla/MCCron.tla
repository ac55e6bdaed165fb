------------------------------ MODULE MCCron ------------------------------
(* Cron with one job firing every slot and one firing every other slot.     *)
EXTENDS Cron

CONSTANTS j1, j2

MCSchedule == [j \in Job |-> IF j = j2 THEN {s \in 1..Horizon : s % 2 = 0} ELSE 1..Horizon]
=============================================================================
