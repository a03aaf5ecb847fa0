------------------------------- MODULE Locking -------------------------------
(***************************************************************************)
(* LockingManager and LockingStorage: the lease lock that every scheduled  *)
(* task, asynchronous task, billing run and roaming push takes in the      *)
(* shared "locks" collection of MongoDB.                                   *)
(*                                                                         *)
(* One lock id is modelled.  Every query of LockingStorage is by _id, so   *)
(* locks with different ids never interact.  A flow is one asynchronous    *)
(* call chain of one Node.js process: createExclusiveLock, acquire, the    *)
(* protected work, release.  Each await is a step of its own.              *)
(*                                                                         *)
(* Time is counted in ticks and relatively: an expirationDate is the       *)
(* number of ticks left, -1 once it lies in the past.                      *)
(***************************************************************************)
EXTENDS Integers

CONSTANTS
  Flows,          \* the flows that use the lock
  Validity,       \* lockValiditySecs, in ticks
  Timeout,        \* timeoutSecs of acquire(), in ticks; 0: a single attempt
  MaxCrashes,     \* bound: how many flows die without releasing
  AllowOverrun    \* may acquisition plus work outlive the lease?

ASSUME LockingAssumption ==
  /\ Validity \in Nat \ {0}
  /\ Timeout \in Nat
  /\ MaxCrashes \in Nat
  /\ AllowOverrun \in BOOLEAN

VARIABLES
  locks,          \* the documents of the collection with this _id
  pc,             \* where each flow is
  lease,          \* ticks left on the Lock object the flow created
  wait,           \* ticks left before timeoutDateMs
  retry,          \* the retry parameter of acquire()
  crashes         \* crashes so far

vars == <<locks, pc, lease, wait, retry, crashes>>

Steps == {"idle", "insert", "sleep", "check", "purge", "held"}
Lock == [owner : Flows, ttl : -1..Validity]

TypeOK ==
  /\ locks \in SUBSET Lock
  /\ pc \in [Flows -> Steps]
  /\ lease \in [Flows -> -1..Validity]
  /\ wait \in [Flows -> 0..Timeout]
  /\ retry \in [Flows -> BOOLEAN]
  /\ crashes \in 0..MaxCrashes

Init ==
  /\ locks = {}
  /\ pc = [p \in Flows |-> "idle"]
  /\ lease = [p \in Flows |-> 0]
  /\ wait = [p \in Flows |-> 0]
  /\ retry = [p \in Flows |-> TRUE]
  /\ crashes = 0

Holders == {p \in Flows : pc[p] = "held"}
\* Seeded fault: the comparison of the two dates the wrong way round.
ExpiredInverted(d) == d.ttl >= 0
Expired(d) == d.ttl < 0
GoTo(p, step) == pc' = [pc EXCEPT ![p] = step]

-----------------------------------------------------------------------------
(* createLock() fixes the expiration date before the first attempt, and    *)
(* acquireExclusiveLock() the deadline of the attempts.                    *)
Acquire(p) ==
  /\ pc[p] = "idle"
  /\ GoTo(p, "insert")
  /\ lease' = [lease EXCEPT ![p] = Validity]
  /\ wait' = [wait EXCEPT ![p] = Timeout]
  /\ retry' = [retry EXCEPT ![p] = TRUE]
  /\ UNCHANGED <<locks, crashes>>

(* Seeded fault: the document is written with an upsert.                   *)
InsertUpsert(p) ==
  /\ pc[p] = "insert"
  /\ locks' = {[owner |-> p, ttl |-> lease[p]]}
  /\ GoTo(p, "held")
  /\ UNCHANGED <<lease, wait, retry, crashes>>

(* insertOne succeeds when no document has this _id; it writes the date    *)
(* computed by createLock, however long the flow has waited since.         *)
Insert(p) ==
  /\ pc[p] = "insert"
  /\ locks = {}
  /\ locks' = {[owner |-> p, ttl |-> lease[p]]}
  /\ GoTo(p, "held")
  /\ UNCHANGED <<lease, wait, retry, crashes>>

\* Seeded fault: acquire() gives up without looking for an expired lock.
AcquireErrorGivesUp(p) == GoTo(p, "idle")

(* The catch block of acquire(): look for an expired lock, or give up.     *)
AcquireError(p) == GoTo(p, IF retry[p] THEN "check" ELSE "idle")

(* insertOne fails on a duplicate _id: sleep if there is a timeout.        *)
InsertDuplicate(p) ==
  /\ pc[p] = "insert"
  /\ locks # {}
  /\ IF Timeout > 0 THEN GoTo(p, "sleep") ELSE AcquireError(p)
  /\ UNCHANGED <<locks, lease, wait, retry, crashes>>

(* Seeded fault: the deadline of the attempts is not looked at.            *)
WakeForever(p) ==
  /\ pc[p] = "sleep"
  /\ GoTo(p, "insert")
  /\ UNCHANGED <<locks, lease, wait, retry, crashes>>

(* The condition of the do/while, after sleep(LOCK_WAIT_MILLIS).           *)
Wake(p) ==
  /\ pc[p] = "sleep"
  /\ IF wait[p] > 0 THEN GoTo(p, "insert") ELSE AcquireError(p)
  /\ UNCHANGED <<locks, lease, wait, retry, crashes>>

(* Seeded fault: a lock is released whether it has expired or not.         *)
CheckAnyLock(p) ==
  /\ pc[p] = "check"
  /\ GoTo(p, IF locks # {} THEN "purge" ELSE "idle")
  /\ UNCHANGED <<locks, lease, wait, retry, crashes>>

(* checkAndReleaseExpiredLock() reads the document by id...                *)
CheckExpired(p) ==
  /\ pc[p] = "check"
  /\ GoTo(p, IF \E d \in locks : Expired(d) THEN "purge" ELSE "idle")
  /\ UNCHANGED <<locks, lease, wait, retry, crashes>>

(* ...and deletes by id whatever document is there by then; it ignores     *)
(* whether one was, and acquire() calls itself with retry = false.         *)
Purge(p) ==
  /\ pc[p] = "purge"
  /\ locks' = {}
  /\ GoTo(p, "insert")
  /\ wait' = [wait EXCEPT ![p] = Timeout]
  /\ retry' = [retry EXCEPT ![p] = FALSE]
  /\ UNCHANGED <<lease, crashes>>

(* release(): findOneAndDelete by id, in the finally block of the caller.  *)
Release(p) ==
  /\ pc[p] = "held"
  /\ locks' = {}
  /\ GoTo(p, "idle")
  /\ UNCHANGED <<lease, wait, retry, crashes>>

(* The process of the flow dies: its document stays in the collection.     *)
(* deleteLockByHostname() exists but nothing calls it.                     *)
Crash(p) ==
  /\ pc[p] # "idle"
  /\ crashes < MaxCrashes
  /\ crashes' = crashes + 1
  /\ GoTo(p, "idle")
  /\ UNCHANGED <<locks, lease, wait, retry>>

\* Seeded fault: an expired date goes on ageing.
PastUnbounded(n) == n - 1
Past(n) == IF n > -1 THEN n - 1 ELSE -1

(* One tick passes.  Without AllowOverrun every flow is done, one way or   *)
(* the other, before the lease it computed runs out.                       *)
Tick ==
  /\ AllowOverrun \/ \A p \in Flows : pc[p] # "idle" => lease[p] > 0
  /\ locks' = {[owner |-> d.owner, ttl |-> Past(d.ttl)] : d \in locks}
  /\ lease' = [p \in Flows |-> IF pc[p] = "idle" THEN lease[p] ELSE Past(lease[p])]
  /\ wait' = [p \in Flows |-> IF wait[p] > 0 THEN wait[p] - 1 ELSE 0]
  /\ UNCHANGED <<pc, retry, crashes>>

Advance(p) ==
  \/ Insert(p) \/ InsertDuplicate(p) \/ Wake(p)
  \/ CheckExpired(p) \/ Purge(p) \/ Release(p)

Next ==
  \/ \E p \in Flows : Acquire(p) \/ Advance(p) \/ Crash(p)
  \/ Tick

Spec == Init /\ [][Next]_vars

(* A flow that started runs on: awaits return, and release() is in a       *)
(* finally block.  Requests come back: the callers are cron tasks.         *)
FairSpec ==
  /\ Spec
  /\ \A p \in Flows : WF_vars(Advance(p)) /\ WF_vars(Acquire(p))
  /\ WF_vars(Tick)

-----------------------------------------------------------------------------
(* No two flows work under the same lock at once: what the EXCLUSIVE lock  *)
(* type is for.                                                            *)
MutualExclusion == \A p, q \in Holders : p = q

(* The document in the collection is the one its holder inserted, with the *)
(* same lease: nobody deleted or replaced it under the holder.             *)
HolderOwnsDocument == locks = {[owner |-> p, ttl |-> lease[p]] : p \in Holders}

(* LockingManager keeps the promise of ExclusiveLock.                      *)
Abstract == INSTANCE ExclusiveLock WITH holders <- Holders
ImplementsExclusiveLock == Abstract!Spec

(* checkAndReleaseExpiredLock() logs that the lock it deleted "has         *)
(* expired": a purge never deletes a lock that is still valid.             *)
PurgeOnlyExpired ==
  [][\A p \in Flows : Purge(p) => \A d \in locks : Expired(d)]_vars

(* What a holder relies on until its release(): the only document is its   *)
(* own, with the lease it computed.  A document left by a dead flow may be *)
(* there when nobody holds the lock, so HolderOwnsDocument is too much to  *)
(* ask where flows crash.                                                  *)
HolderKeepsDocument ==
  \A p \in Holders : locks = {[owner |-> p, ttl |-> lease[p]]}

HoldersInTime == \A p \in Holders : lease[p] >= 0

RacedPurge == \E p \in Flows : Purge(p) /\ \E d \in locks : ~ Expired(d)

(* Two things only can take the document from under its holder, whatever   *)
(* crashes: a holder that outlives its lease, and the purge of             *)
(* checkAndReleaseExpiredLock() deleting another document than it read.    *)
OnlyRaceOrOverrun ==
  [][HolderKeepsDocument /\ HoldersInTime /\ ~ RacedPurge
       => HolderKeepsDocument']_vars

(* Every call of acquire() returns.                                        *)
AcquireReturns ==
  \A p \in Flows : pc[p] = "insert" ~> pc[p] \in {"held", "idle"}

(* A lock whose owner died does not block the others for ever: some later  *)
(* acquire() finds it expired and removes it.                              *)
Orphaned == \E d \in locks : pc[d.owner] # "held"
OrphanRecovered == Orphaned ~> ~Orphaned
=============================================================================
