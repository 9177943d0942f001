----------------------------- MODULE MCWorkerRun -----------------------------
(* Values for TLC of the constants of WorkerRun.                           *)
EXTENDS WorkerRun

MCEvents == { [id |-> 1, type |-> "observation.proposed", entity |-> "o"],
              [id |-> 2, type |-> "observation.proposed", entity |-> "p"],
              [id |-> 2, type |-> "observation.proposed", entity |-> "o"] }
=============================================================================
