--------------------------- MODULE WorkspaceLock ---------------------------
(***************************************************************************)
(* runtime/event_store.py, FilesystemLock: the lock file every command     *)
(* takes on the workspace and every ledger access takes on the ledger.     *)
(*                                                                         *)
(* A process creates the file exclusively and then writes its pid and      *)
(* token into it.  One that finds the file reads it: an unreadable file or *)
(* one whose pid is dead is removed and creation tried once more; a living *)
(* pid means the lock is busy.  Inside one process the lock is reentrant   *)
(* by a counter.  Every line is a step of its own, since processes are     *)
(* only synchronised by the file system.                                   *)
(***************************************************************************)
EXTENDS Naturals

CONSTANTS
    Processes,
    MaxDepth,       \* bound on how deeply a process re-enters the lock
    Overlapping     \* may a process begin while another is using the lock?

ASSUME LockAssumption ==
    /\ MaxDepth \in Nat \ {0}
    /\ Overlapping \in BOOLEAN

NoFile == [token |-> "none", written |-> FALSE]

VARIABLES
    file,       \* the lock file: whose token it is meant for, whether it is there
    pc,         \* what each process is about to do
    tries,      \* how often it has found the lock file in its way
    depth       \* _HELD_LOCKS[path]["count"], per process

vars == <<file, pc, tries, depth>>

Steps == {"outside", "create", "write", "inspect", "clear", "inside",
          "compare", "unlink", "dead"}

TypeOK ==
    /\ file \in [token: Processes \cup {"none"}, written: BOOLEAN]
    /\ pc \in [Processes -> Steps]
    /\ tries \in [Processes -> 0..1]
    /\ depth \in [Processes -> 0..MaxDepth]

Init ==
    /\ file = NoFile
    /\ pc = [p \in Processes |-> "outside"]
    /\ tries = [p \in Processes |-> 0]
    /\ depth = [p \in Processes |-> 0]

Alive(p) == pc[p] # "dead"

Goto(p, step) == pc' = [pc EXCEPT ![p] = step]

-----------------------------------------------------------------------------
\* Commands are run one after the other, or started side by side.
Begin(p) ==
    /\ pc[p] = "outside"
    /\ Overlapping \/ \A q \in Processes : pc[q] \in {"outside", "dead"}
    /\ Goto(p, "create")
    /\ tries' = [tries EXCEPT ![p] = 0]
    /\ UNCHANGED <<file, depth>>

\* os.open with O_CREAT | O_EXCL: succeeds only when there is no file.
Create(p) ==
    /\ pc[p] = "create"
    /\ IF file # NoFile
       THEN Goto(p, "inspect") /\ UNCHANGED file
       ELSE Goto(p, "write") /\ file' = [token |-> p, written |-> FALSE]
    /\ UNCHANGED <<tries, depth>>

\* _write_all and fsync, to the file it created, linked or not any more.
Write(p) ==
    /\ pc[p] = "write"
    /\ file' = IF file.token = p THEN [file EXCEPT !.written = TRUE] ELSE file
    /\ Goto(p, "inside")
    /\ depth' = [depth EXCEPT ![p] = 1]
    /\ UNCHANGED tries

\* A write that raises: the file found there is removed, the command is over.
FailToWrite(p) ==
    /\ pc[p] = "write"
    /\ file' = NoFile
    /\ Goto(p, "dead")
    /\ UNCHANGED <<tries, depth>>

\* A reader that takes any readable lock file for a living lock.
TrustingInspect(p) ==
    /\ pc[p] = "inspect"
    /\ Goto(p, IF file.written THEN "outside" ELSE "clear")
    /\ UNCHANGED <<file, tries, depth>>

(***************************************************************************)
(* _clear_stale_lock reads the file: a living pid raises                   *)
(* LockAcquisitionError, anything else, an unreadable or vanished file     *)
(* included, is to be removed.                                             *)
(***************************************************************************)
Inspect(p) ==
    /\ pc[p] = "inspect"
    /\ Goto(p, IF file.written /\ Alive(file.token) THEN "outside" ELSE "clear")
    /\ UNCHANGED <<file, tries, depth>>

\* It unlinks whatever file is there by now; the second time it gives up.
Clear(p) ==
    /\ pc[p] = "clear"
    /\ file' = NoFile
    /\ Goto(p, IF tries[p] = 0 THEN "create" ELSE "outside")
    /\ tries' = [tries EXCEPT ![p] = 1 - @]
    /\ UNCHANGED depth

Reenter(p) ==
    /\ pc[p] = "inside"
    /\ depth[p] < MaxDepth
    /\ depth' = [depth EXCEPT ![p] = @ + 1]
    /\ UNCHANGED <<file, pc, tries>>

\* A release that does not count how often the lock was entered.
UncountedRelease(p) ==
    /\ pc[p] = "inside"
    /\ depth' = [depth EXCEPT ![p] = @ - 1]
    /\ IF depth[p] > 1
       THEN file' = NoFile /\ UNCHANGED pc
       ELSE Goto(p, "compare") /\ UNCHANGED file
    /\ UNCHANGED tries

\* A release that never forgets the lock, however often it is called.
UnfinishedRelease(p) ==
    /\ pc[p] = "inside"
    /\ depth' = [depth EXCEPT ![p] = @ - 1]
    /\ UNCHANGED <<file, pc, tries>>

\* Only the outermost release touches the file.
Release(p) ==
    /\ pc[p] = "inside"
    /\ depth' = [depth EXCEPT ![p] = @ - 1]
    /\ IF depth[p] > 1 THEN UNCHANGED pc ELSE Goto(p, "compare")
    /\ UNCHANGED <<file, tries>>

\* The token is compared, then the file unlinked.
Compare(p) ==
    /\ pc[p] = "compare"
    /\ Goto(p, IF file.written /\ file.token # p THEN "outside" ELSE "unlink")
    /\ UNCHANGED <<file, tries, depth>>

Unlink(p) ==
    /\ pc[p] = "unlink"
    /\ file' = NoFile
    /\ Goto(p, "outside")
    /\ UNCHANGED <<tries, depth>>

\* A process dies and leaves its lock file behind.
Crash(p) ==
    /\ Alive(p)
    /\ Goto(p, "dead")
    /\ depth' = [depth EXCEPT ![p] = 0]
    /\ UNCHANGED <<file, tries>>

Step(p) ==
    \/ Create(p) \/ Write(p) \/ Inspect(p) \/ Clear(p)
    \/ Release(p) \/ Compare(p) \/ Unlink(p)

Next == \E p \in Processes : Begin(p) \/ Step(p) \/ Reenter(p) \/ FailToWrite(p) \/ Crash(p)

(***************************************************************************)
(* A process that began goes on: nothing in the lock waits.  Whether it    *)
(* begins, re-enters or dies is up to its caller.                          *)
(***************************************************************************)
Spec == Init /\ [][Next]_vars /\ \A p \in Processes : WF_vars(Step(p))

-----------------------------------------------------------------------------
Holding(p) == pc[p] = "inside"

(***************************************************************************)
(* Never two processes inside: the one writer at a time that the ledger,   *)
(* the task queue and the projection rely on.                              *)
(***************************************************************************)
MutualExclusion ==
    \A p, q \in Processes : Holding(p) /\ Holding(q) => p = q

(***************************************************************************)
(* A process inside has its own lock file on disk, so that others see the  *)
(* lock as taken, however often it has re-entered and left.                *)
(***************************************************************************)
HoldersAreVisible ==
    \A p \in Processes : Holding(p) => file = [token |-> p, written |-> TRUE]

(***************************************************************************)
(* When commands do not overlap, a command gets the lock, whatever file a  *)
(* command that died at any step has left behind.                          *)
(***************************************************************************)
LeftoversNeverBlock ==
    \A p \in Processes : pc[p] = "create" ~> pc[p] \in {"inside", "dead"}
=============================================================================
