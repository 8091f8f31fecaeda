---------------------------- MODULE MCHousekeeping ----------------------------
(* Instances of Housekeeping for TLC: an hourly and a daily job, scaled down. *)
EXTENDS Housekeeping

CONSTANTS expire, purge

TwoJobs == <<expire, purge>>
OneJob == <<expire>>
Intervals == [j \in Jobs |-> IF j = expire THEN 3 ELSE 4]
=============================================================================
