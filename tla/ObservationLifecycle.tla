------------------------ MODULE ObservationLifecycle ------------------------
(***************************************************************************)
(* What the audit loop promises about an observation, as if it were done   *)
(* in one place: no files, no projection, no commands and no deaths.       *)
(*                                                                         *)
(* An observation is proposed, a task to verify it is queued, the task     *)
(* runs and decides once; what is verified may be queued for composition,  *)
(* and an issue cites verified observations only.  One task runs at a time *)
(* and a task never goes back.                                             *)
(***************************************************************************)
CONSTANT Observations

VARIABLES
    status,         \* the status of each observation, "absent" before it is known
    verification,   \* the status of its verify_claim task
    composition,    \* the status of its compose_issue task
    backed          \* the observations some issue cites

vars == <<status, verification, composition, backed>>

Init ==
    /\ status = [o \in Observations |-> "absent"]
    /\ verification = [o \in Observations |-> "absent"]
    /\ composition = [o \in Observations |-> "absent"]
    /\ backed = {}

NothingRuns ==
    \A o \in Observations : verification[o] # "running" /\ composition[o] # "running"

Propose(o) ==
    /\ status[o] = "absent"
    /\ status' = [status EXCEPT ![o] = "proposed"]
    /\ UNCHANGED <<verification, composition, backed>>

QueueVerification(o) ==
    /\ status[o] = "proposed"
    /\ verification[o] = "absent"
    /\ verification' = [verification EXCEPT ![o] = "pending"]
    /\ UNCHANGED <<status, composition, backed>>

QueueComposition(o) ==
    /\ status[o] = "verified"
    /\ o \notin backed
    /\ composition[o] = "absent"
    /\ composition' = [composition EXCEPT ![o] = "pending"]
    /\ UNCHANGED <<status, verification, backed>>

StartVerification(o) ==
    /\ NothingRuns
    /\ verification[o] = "pending"
    /\ verification' = [verification EXCEPT ![o] = "running"]
    /\ UNCHANGED <<status, composition, backed>>

StartComposition(o) ==
    /\ NothingRuns
    /\ composition[o] = "pending"
    /\ composition' = [composition EXCEPT ![o] = "running"]
    /\ UNCHANGED <<status, verification, backed>>

\* The verdict is given while the task runs, and given once.
Decide(o, verdict) ==
    /\ verification[o] = "running"
    /\ status[o] = "proposed"
    /\ status' = [status EXCEPT ![o] = verdict]
    /\ UNCHANGED <<verification, composition, backed>>

\* The issue composed for o may cite other verified observations.
Back(o, cited) ==
    /\ composition[o] = "running"
    /\ \A p \in cited : status[p] = "verified"
    /\ backed' = backed \cup cited
    /\ UNCHANGED <<status, verification, composition>>

EndVerification(o, outcome) ==
    /\ verification[o] = "running"
    /\ verification' = [verification EXCEPT ![o] = outcome]
    /\ UNCHANGED <<status, composition, backed>>

EndComposition(o, outcome) ==
    /\ composition[o] = "running"
    /\ composition' = [composition EXCEPT ![o] = outcome]
    /\ UNCHANGED <<status, verification, backed>>

Next == \E o \in Observations :
    \/ Propose(o)
    \/ QueueVerification(o) \/ QueueComposition(o)
    \/ StartVerification(o) \/ StartComposition(o)
    \/ \E verdict \in {"verified", "rejected"} : Decide(o, verdict)
    \/ \E cited \in SUBSET Observations : Back(o, cited)
    \/ \E outcome \in {"done", "failed"} : EndVerification(o, outcome) \/ EndComposition(o, outcome)

Spec == Init /\ [][Next]_vars
=============================================================================
