------------------------------ MODULE MCJobRuns ------------------------------
(***************************************************************************)
(* Instances of JobRuns for TLC. The thresholds are the code's own:        *)
(* max_attempts 5, the scheduler's limit 2 (jobs_races lowers the first to *)
(* keep two work-horses small).                                            *)
(***************************************************************************)
EXTENDS JobRuns, TLC

CONSTANTS otcWorker, backgroundWorker

(* The deployment: one worker per queue.                                   *)
OneWorker == [r \in {otcWorker} |-> "otc"]
TwoWorkers == [r \in {otcWorker, backgroundWorker} |->
                 IF r = otcWorker THEN "otc" ELSE "background"]

Symmetry == Permutations(Callers)
=============================================================================
