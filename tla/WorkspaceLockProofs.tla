------------------------ MODULE WorkspaceLockProofs ------------------------
(***************************************************************************)
(* What TLAPS proves of WorkspaceLock, for any number of processes and any *)
(* depth of re-entrance.                                                   *)
(***************************************************************************)
EXTENDS WorkspaceLock, TLAPS

USE LockAssumption DEF LockAssumption

-----------------------------------------------------------------------------
(* Types.  A release counts down from at least one, which is why holding   *)
(* has to be known as counted.                                             *)

HoldingIsCounted == \A p \in Processes : Holding(p) => depth[p] > 0

LockInv == TypeOK /\ HoldingIsCounted

LEMMA LockInvHolds == Spec => []LockInv
<1>1. Init => LockInv
  BY DEF Init, NoFile, LockInv, TypeOK, HoldingIsCounted, Holding, Steps
<1>2. LockInv /\ [Next]_vars => LockInv'
  <2> SUFFICES ASSUME LockInv, [Next]_vars PROVE LockInv'
    OBVIOUS
  <2> USE DEF LockInv, TypeOK, HoldingIsCounted, Holding, Steps, Goto, NoFile
  <2>1. CASE UNCHANGED vars
    BY <2>1 DEF vars
  <2>2. ASSUME NEW p \in Processes, Begin(p) PROVE LockInv'
    BY <2>2 DEF Begin
  <2>3. ASSUME NEW p \in Processes, Create(p) PROVE LockInv'
    <3>1. CASE file # NoFile
      BY <2>3, <3>1 DEF Create
    <3>2. CASE file = NoFile
      <4>1. /\ file' = [token |-> p, written |-> FALSE]
            /\ pc' = [pc EXCEPT ![p] = "write"]
            /\ UNCHANGED <<tries, depth>>
        BY <2>3, <3>2 DEF Create
      <4>2. [token |-> p, written |-> FALSE] \in [token: Processes \cup {"none"}, written: BOOLEAN]
        OBVIOUS
      <4> QED
        BY <4>1, <4>2
    <3> QED
      BY <3>1, <3>2
  <2>4. ASSUME NEW p \in Processes, Write(p) PROVE LockInv'
    <3>1. file' \in [token: Processes \cup {"none"}, written: BOOLEAN]
      BY <2>4 DEF Write
    <3> QED
      BY <2>4, <3>1 DEF Write
  <2>5. ASSUME NEW p \in Processes, Inspect(p) PROVE LockInv'
    BY <2>5 DEF Inspect
  <2>6. ASSUME NEW p \in Processes, Clear(p) PROVE LockInv'
    BY <2>6 DEF Clear
  <2>7. ASSUME NEW p \in Processes, Release(p) PROVE LockInv'
    BY <2>7 DEF Release
  <2>8. ASSUME NEW p \in Processes, Compare(p) PROVE LockInv'
    BY <2>8 DEF Compare
  <2>9. ASSUME NEW p \in Processes, Unlink(p) PROVE LockInv'
    BY <2>9 DEF Unlink
  <2>10. ASSUME NEW p \in Processes, Reenter(p) PROVE LockInv'
    BY <2>10 DEF Reenter
  <2>11. ASSUME NEW p \in Processes, FailToWrite(p) PROVE LockInv'
    BY <2>11 DEF FailToWrite
  <2>12. ASSUME NEW p \in Processes, Crash(p) PROVE LockInv'
    BY <2>12 DEF Crash
  <2> QED
    BY <2>1, <2>2, <2>3, <2>4, <2>5, <2>6, <2>7, <2>8, <2>9, <2>10, <2>11, <2>12
       DEF Next, Step
<1> QED
  BY <1>1, <1>2, PTL DEF Spec

(***************************************************************************)
(* However commands overlap and die, the lock file is nobody's or some     *)
(* process's, each process is at one of its steps, and the counter of a    *)
(* lock that is entered again and again never leaves its range.            *)
(***************************************************************************)
THEOREM LockTypeCorrect == Spec => []TypeOK
<1>1. LockInv => TypeOK
  BY DEF LockInv
<1> QED
  BY <1>1, LockInvHolds, PTL

-----------------------------------------------------------------------------
(* Commands that do not overlap.  That a holder's file is there is not     *)
(* inductive: what makes it so is that one process at most is anywhere     *)
(* between its begin and its end, and that a process which has created its *)
(* file finds it, empty and then written, until it unlinks it.             *)

AtWork(p) == pc[p] \notin {"outside", "dead"}

OneAtWork == \A p, q \in Processes : AtWork(p) /\ AtWork(q) => p = q

OwnFile ==
    \A p \in Processes :
        /\ pc[p] = "write" => file = [token |-> p, written |-> FALSE]
        /\ pc[p] = "inside" => file = [token |-> p, written |-> TRUE]

SequentialInv == TypeOK /\ OneAtWork /\ OwnFile

LEMMA SequentialInvHolds ==
  ASSUME ~Overlapping
  PROVE  Spec => []SequentialInv
<1>1. Init => SequentialInv
  BY DEF Init, NoFile, SequentialInv, TypeOK, OneAtWork, AtWork, OwnFile, Steps
<1>2. LockInv /\ LockInv' /\ SequentialInv /\ [Next]_vars => SequentialInv'
  <2> SUFFICES ASSUME LockInv, LockInv', SequentialInv, [Next]_vars PROVE SequentialInv'
    OBVIOUS
  <2>0. TypeOK /\ TypeOK'
    BY DEF LockInv
  <2> SUFFICES OneAtWork' /\ OwnFile'
    BY <2>0 DEF SequentialInv
  <2> USE <2>0 DEF SequentialInv, OneAtWork, OwnFile, AtWork, TypeOK, Goto, NoFile
  <2>1. CASE UNCHANGED vars
    BY <2>1 DEF vars
  <2>2. ASSUME NEW p \in Processes, Begin(p) PROVE OneAtWork' /\ OwnFile'
    BY <2>2 DEF Begin
  <2>3. ASSUME NEW p \in Processes, Create(p) PROVE OneAtWork' /\ OwnFile'
    BY <2>3 DEF Create
  <2>4. ASSUME NEW p \in Processes, Write(p) PROVE OneAtWork' /\ OwnFile'
    <3>1. file = [token |-> p, written |-> FALSE]
      BY <2>4 DEF Write
    <3>2. file' = [file EXCEPT !.written = TRUE]
      BY <2>4, <3>1 DEF Write
    <3>3. file' = [token |-> p, written |-> TRUE]
      BY <3>1, <3>2
    <3> QED
      BY <2>4, <3>3 DEF Write
  <2>5. ASSUME NEW p \in Processes, Inspect(p) PROVE OneAtWork' /\ OwnFile'
    BY <2>5 DEF Inspect
  <2>6. ASSUME NEW p \in Processes, Clear(p) PROVE OneAtWork' /\ OwnFile'
    BY <2>6 DEF Clear
  <2>7. ASSUME NEW p \in Processes, Release(p) PROVE OneAtWork' /\ OwnFile'
    BY <2>7 DEF Release
  <2>8. ASSUME NEW p \in Processes, Compare(p) PROVE OneAtWork' /\ OwnFile'
    BY <2>8 DEF Compare
  <2>9. ASSUME NEW p \in Processes, Unlink(p) PROVE OneAtWork' /\ OwnFile'
    BY <2>9 DEF Unlink
  <2>10. ASSUME NEW p \in Processes, Reenter(p) PROVE OneAtWork' /\ OwnFile'
    BY <2>10 DEF Reenter
  <2>11. ASSUME NEW p \in Processes, FailToWrite(p) PROVE OneAtWork' /\ OwnFile'
    BY <2>11 DEF FailToWrite
  <2>12. ASSUME NEW p \in Processes, Crash(p) PROVE OneAtWork' /\ OwnFile'
    BY <2>12 DEF Crash
  <2> QED
    BY <2>1, <2>2, <2>3, <2>4, <2>5, <2>6, <2>7, <2>8, <2>9, <2>10, <2>11, <2>12
       DEF Next, Step
<1> QED
  BY <1>1, <1>2, LockInvHolds, PTL DEF Spec

(***************************************************************************)
(* Whichever process holds the lock has its own file on disk, whole, as    *)
(* often as it has re-entered.                                             *)
(***************************************************************************)
THEOREM SequentialHoldersAreVisible ==
  ASSUME ~Overlapping
  PROVE  Spec => []HoldersAreVisible
<1>1. SequentialInv => HoldersAreVisible
  BY DEF SequentialInv, OwnFile, HoldersAreVisible, Holding
<1> QED
  BY <1>1, SequentialInvHolds, PTL
=============================================================================
