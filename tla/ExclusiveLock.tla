---------------------------- MODULE ExclusiveLock ----------------------------
(***************************************************************************)
(* What LockingManager.createExclusiveLock promises its callers (the lock  *)
(* type is called EXCLUSIVE): at most one flow is between a successful     *)
(* acquire() and its release().  Only the promise: no database, no clock.  *)
(***************************************************************************)
EXTENDS FiniteSets

CONSTANT Flows          \* the asynchronous flows that compete for one lock id
VARIABLE holders        \* the flows that were told they hold the lock

Init == holders = {}

Enter(p) ==
  /\ holders = {}
  /\ holders' = {p}

Leave(p) ==
  /\ p \in holders
  /\ holders' = holders \ {p}

Next == \E p \in Flows : Enter(p) \/ Leave(p)

Spec == Init /\ [][Next]_holders
=============================================================================
