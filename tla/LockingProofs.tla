---------------------------- MODULE LockingProofs ----------------------------
(***************************************************************************)
(* Theorems about Locking, for every set of flows, every validity and      *)
(* every timeout.                                                          *)
(***************************************************************************)
EXTENDS Locking, TLAPS

LEMMA PastType ==
  ASSUME NEW v \in Nat, NEW n \in -1..v
  PROVE  Past(n) \in -1..v
  BY DEF Past

(* Every variable keeps its type, with crashes and overruns allowed.       *)
THEOREM TypeCorrect == Spec => []TypeOK
<1> USE LockingAssumption DEF TypeOK, Steps, Lock
<1>1. Init => TypeOK
  BY DEF Init
<1>2. TypeOK /\ [Next]_vars => TypeOK'
  <2> SUFFICES ASSUME TypeOK, [Next]_vars PROVE TypeOK'
    OBVIOUS
  <2>1. ASSUME NEW p \in Flows, Acquire(p) PROVE TypeOK'
    BY <2>1 DEF Acquire, GoTo
  <2>2. ASSUME NEW p \in Flows, Insert(p) PROVE TypeOK'
    BY <2>2 DEF Insert, GoTo
  <2>3. ASSUME NEW p \in Flows, InsertDuplicate(p) PROVE TypeOK'
    BY <2>3 DEF InsertDuplicate, AcquireError, GoTo
  <2>4. ASSUME NEW p \in Flows, Wake(p) PROVE TypeOK'
    BY <2>4 DEF Wake, AcquireError, GoTo
  <2>5. ASSUME NEW p \in Flows, CheckExpired(p) PROVE TypeOK'
    BY <2>5 DEF CheckExpired, GoTo
  <2>6. ASSUME NEW p \in Flows, Purge(p) PROVE TypeOK'
    BY <2>6 DEF Purge, GoTo
  <2>7. ASSUME NEW p \in Flows, Release(p) PROVE TypeOK'
    BY <2>7 DEF Release, GoTo
  <2>8. ASSUME NEW p \in Flows, Crash(p) PROVE TypeOK'
    BY <2>8 DEF Crash, GoTo
  <2>9. CASE Tick
    <3>1. lease' \in [Flows -> -1..Validity]
      BY <2>9, PastType DEF Tick
    <3>2. wait' \in [Flows -> 0..Timeout]
      BY <2>9 DEF Tick
    <3>3. ASSUME NEW d \in locks PROVE [owner |-> d.owner, ttl |-> Past(d.ttl)] \in Lock
      BY PastType
    <3>4. locks' \in SUBSET Lock
      BY <2>9, <3>3 DEF Tick
    <3>5. QED
      BY <2>9, <3>1, <3>2, <3>4 DEF Tick
  <2>10. CASE UNCHANGED vars
    BY <2>10 DEF vars
  <2>11. QED
    BY <2>1, <2>2, <2>3, <2>4, <2>5, <2>6, <2>7, <2>8, <2>9, <2>10
    DEF Next, Advance
<1>3. QED
  BY <1>1, <1>2, PTL DEF Spec

-----------------------------------------------------------------------------
(* The inductive invariant of the timely use of the lock: nobody dies      *)
(* holding it and nobody outlives the lease.  The leases of the flows that *)
(* run are then still valid, so no flow ever finds an expired document,    *)
(* and the document is always the one of the only holder.                  *)
Timely == MaxCrashes = 0 /\ ~AllowOverrun

LeasesValid == \A p \in Flows : pc[p] # "idle" => lease[p] >= 0
NoPurge == \A p \in Flows : pc[p] # "purge"

LockInv ==
  /\ TypeOK
  /\ MutualExclusion
  /\ HolderOwnsDocument
  /\ LeasesValid
  /\ NoPurge

LEMMA InitLockInv == Init => LockInv
<1> SUFFICES ASSUME Init PROVE LockInv
  OBVIOUS
<1>1. TypeOK
  BY LockingAssumption DEF Init, TypeOK, Steps
<1>2. Holders = {}
  BY DEF Init, Holders
<1>3. QED
  BY <1>1, <1>2
  DEF Init, LockInv, MutualExclusion, HolderOwnsDocument, LeasesValid, NoPurge

(* With the invariant, a non-empty collection means one holder and its     *)
(* valid document; an empty one means no holder.                           *)
LEMMA EmptyMeansFree ==
  ASSUME HolderOwnsDocument
  PROVE  locks = {} <=> Holders = {}
  BY DEF HolderOwnsDocument

LEMMA NothingExpires ==
  ASSUME LockInv
  PROVE  ~ \E d \in locks : Expired(d)
<1> SUFFICES ASSUME NEW d \in locks PROVE ~ Expired(d)
  OBVIOUS
<1>1. PICK p \in Holders : d = [owner |-> p, ttl |-> lease[p]]
  BY DEF LockInv, HolderOwnsDocument
<1>2. lease[p] >= 0 /\ lease[p] \in Int
  BY DEF LockInv, LeasesValid, Holders, TypeOK
<1>3. QED
  BY <1>1, <1>2 DEF Expired

(* A step that moves a flow from one step to another, neither of them      *)
(* "held" nor "purge", and leaves locks and leases alone.                  *)
LEMMA MovePreserves ==
  ASSUME LockInv, NEW p \in Flows, NEW step \in Steps \ {"held", "purge"},
         pc[p] \notin {"held", "idle"}, GoTo(p, step),
         UNCHANGED <<locks, lease>>, TypeOK'
  PROVE  LockInv'
<1>1. Holders' = Holders
  BY DEF LockInv, TypeOK, Holders, GoTo
<1>2. LeasesValid' /\ NoPurge'
  BY DEF LockInv, TypeOK, LeasesValid, NoPurge, GoTo
<1>3. QED
  BY <1>1, <1>2 DEF LockInv, MutualExclusion, HolderOwnsDocument

LEMMA NextLockInv ==
  ASSUME Timely, LockInv, [Next]_vars, TypeOK'
  PROVE  LockInv'
<1> USE LockingAssumption
<1>t. TypeOK
  BY DEF LockInv
<1>1. ASSUME NEW p \in Flows, Acquire(p) PROVE LockInv'
  <2>1. Holders' = Holders
    BY <1>1, <1>t DEF Acquire, GoTo, Holders, TypeOK
  <2>2. \A q \in Holders : lease'[q] = lease[q]
    BY <1>1, <1>t DEF Acquire, Holders, TypeOK
  <2>3. HolderOwnsDocument'
    BY <1>1, <2>1, <2>2 DEF LockInv, HolderOwnsDocument, Acquire
  <2>4. LeasesValid' /\ NoPurge'
    BY <1>1, <1>t DEF LockInv, LeasesValid, NoPurge, Acquire, GoTo, TypeOK
  <2>5. QED
    BY <2>1, <2>3, <2>4 DEF LockInv, MutualExclusion
<1>2. ASSUME NEW p \in Flows, Insert(p) PROVE LockInv'
  <2>1. Holders = {}
    BY <1>2, EmptyMeansFree DEF LockInv, Insert
  <2>2. Holders' = {p}
    BY <1>2, <1>t, <2>1 DEF Insert, GoTo, Holders, TypeOK
  <2>3. HolderOwnsDocument' /\ MutualExclusion'
    BY <1>2, <2>2 DEF HolderOwnsDocument, MutualExclusion, Insert
  <2>4. LeasesValid' /\ NoPurge'
    BY <1>2, <1>t DEF LockInv, LeasesValid, NoPurge, Insert, GoTo, TypeOK
  <2>5. QED
    BY <2>3, <2>4 DEF LockInv
<1>3. ASSUME NEW p \in Flows, InsertDuplicate(p) PROVE LockInv'
  BY <1>3, MovePreserves DEF InsertDuplicate, AcquireError, Steps
<1>4. ASSUME NEW p \in Flows, Wake(p) PROVE LockInv'
  BY <1>4, MovePreserves DEF Wake, AcquireError, Steps
<1>5. ASSUME NEW p \in Flows, CheckExpired(p) PROVE LockInv'
  <2>1. GoTo(p, "idle")
    BY <1>5, NothingExpires DEF CheckExpired
  <2>2. QED
    BY <1>5, <2>1, MovePreserves DEF CheckExpired, Steps
<1>6. ASSUME NEW p \in Flows, Purge(p) PROVE LockInv'
  BY <1>6 DEF LockInv, NoPurge, Purge
<1>7. ASSUME NEW p \in Flows, Release(p) PROVE LockInv'
  <2>1. Holders = {p}
    BY <1>7 DEF LockInv, MutualExclusion, Release, Holders
  <2>2. Holders' = {}
    BY <1>7, <1>t, <2>1 DEF Release, GoTo, Holders, TypeOK
  <2>3. HolderOwnsDocument' /\ MutualExclusion'
    BY <1>7, <2>2 DEF HolderOwnsDocument, MutualExclusion, Release
  <2>4. LeasesValid' /\ NoPurge'
    BY <1>7, <1>t DEF LockInv, LeasesValid, NoPurge, Release, GoTo, TypeOK
  <2>5. QED
    BY <2>3, <2>4 DEF LockInv
<1>8. ASSUME NEW p \in Flows, Crash(p) PROVE LockInv'
  BY <1>8, <1>t DEF Timely, Crash, TypeOK
<1>9. CASE Tick
  <2>1. Holders' = Holders
    BY <1>9 DEF Tick, Holders
  <2>2. \A p \in Flows : pc[p] # "idle" => lease[p] > 0 /\ lease'[p] = Past(lease[p])
    BY <1>9 DEF Timely, Tick
  <2>3. locks' = {[owner |-> d.owner, ttl |-> Past(d.ttl)] : d \in locks}
    BY <1>9 DEF Tick
  <2>4. locks' = {[owner |-> p, ttl |-> lease'[p]] : p \in Holders}
    <3>1. \A p \in Holders : lease'[p] = Past(lease[p])
      BY <2>2 DEF Holders
    <3>2. locks = {[owner |-> p, ttl |-> lease[p]] : p \in Holders}
      BY DEF LockInv, HolderOwnsDocument
    <3>3. locks' \subseteq {[owner |-> p, ttl |-> lease'[p]] : p \in Holders}
      BY <2>3, <3>1, <3>2
    <3>4. ASSUME NEW p \in Holders
          PROVE  [owner |-> p, ttl |-> lease'[p]] \in locks'
      <4>1. [owner |-> p, ttl |-> lease[p]] \in locks
        BY <3>2
      <4>2. [owner |-> p, ttl |-> Past(lease[p])] \in locks'
        BY <2>3, <4>1
      <4>3. QED
        BY <3>1, <4>2
    <3>5. QED
      BY <3>3, <3>4
  <2>5. HolderOwnsDocument' /\ MutualExclusion'
    BY <2>1, <2>4 DEF LockInv, HolderOwnsDocument, MutualExclusion
  <2>6. LeasesValid' /\ NoPurge'
    BY <1>9, <1>t, <2>2 DEF LockInv, LeasesValid, NoPurge, Tick, Past, TypeOK
  <2>7. QED
    BY <2>5, <2>6 DEF LockInv
<1>10. CASE UNCHANGED vars
  BY <1>10 DEF vars, LockInv, MutualExclusion, HolderOwnsDocument, Holders,
               LeasesValid, NoPurge
<1>11. QED
  BY <1>1, <1>2, <1>3, <1>4, <1>5, <1>6, <1>7, <1>8, <1>9, <1>10
  DEF Next, Advance

LEMMA TimelyInv == ASSUME Timely PROVE Spec => []LockInv
<1>1. TypeOK' /\ LockInv /\ [Next]_vars => LockInv'
  BY NextLockInv
<1>2. QED
  BY <1>1, InitLockInv, TypeCorrect, PTL DEF Spec

(* Used in time and without crashes, the lock excludes: acquire() never    *)
(* answers true to a second flow before the first one released.            *)
THEOREM TimelyMutualExclusion == ASSUME Timely PROVE Spec => []MutualExclusion
<1>1. LockInv => MutualExclusion
  BY DEF LockInv
<1>2. QED
  BY <1>1, TimelyInv, PTL

(* ... and the document in the database is the holder's own all along, so  *)
(* that release(), which deletes by id, deletes the right one.             *)
THEOREM TimelyOwnDocument == ASSUME Timely PROVE Spec => []HolderOwnsDocument
<1>1. LockInv => HolderOwnsDocument
  BY DEF LockInv
<1>2. QED
  BY <1>1, TimelyInv, PTL

-----------------------------------------------------------------------------
LEMMA StepRefines ==
  ASSUME Timely, LockInv, [Next]_vars
  PROVE  [Abstract!Next]_Holders
<1> USE DEF Abstract!Next, Abstract!Enter, Abstract!Leave
<1>t. TypeOK
  BY DEF LockInv
<1>1. ASSUME NEW p \in Flows, Insert(p) PROVE Abstract!Enter(p)
  <2>1. Holders = {}
    BY <1>1, EmptyMeansFree DEF LockInv, Insert
  <2>2. QED
    BY <1>1, <1>t, <2>1 DEF Insert, GoTo, Holders, TypeOK
<1>2. ASSUME NEW p \in Flows, Release(p) PROVE Abstract!Leave(p)
  BY <1>2, <1>t DEF Release, GoTo, Holders, TypeOK
<1>3. ASSUME NEW p \in Flows,
             \/ Acquire(p) \/ InsertDuplicate(p) \/ Wake(p)
             \/ CheckExpired(p) \/ Purge(p)
      PROVE  UNCHANGED Holders
  BY <1>3, <1>t DEF Acquire, InsertDuplicate, Wake, CheckExpired, Purge,
                    AcquireError, GoTo, Holders, TypeOK
<1>4. ASSUME NEW p \in Flows PROVE ~ Crash(p)
  BY <1>t DEF Timely, Crash, TypeOK
<1>5. CASE Tick \/ UNCHANGED vars
  BY <1>5 DEF Tick, vars, Holders
<1>6. QED
  BY <1>1, <1>2, <1>3, <1>4, <1>5 DEF Next, Advance

(* The lease lock implements ExclusiveLock: its callers may reason about   *)
(* Enter and Leave alone as long as they are timely.                       *)
THEOREM TimelyRefinement == ASSUME Timely PROVE Spec => ImplementsExclusiveLock
<1>1. Init => Abstract!Init
  BY DEF Init, Abstract!Init, Holders
<1>2. LockInv /\ [Next]_vars => [Abstract!Next]_Holders
  BY StepRefines
<1>3. QED
  BY <1>1, <1>2, TimelyInv, PTL DEF Spec, ImplementsExclusiveLock, Abstract!Spec
-----------------------------------------------------------------------------
(* Crashes and late flows included: the document of a holder stays its own *)
(* in every step that is neither a raced purge nor taken while a holder is *)
(* late.  This invariant is inductive by itself; a document nobody holds   *)
(* may be there, and Insert then fails.                                    *)
LEMMA OneHolder == HolderKeepsDocument => MutualExclusion
<1> SUFFICES ASSUME HolderKeepsDocument, NEW p \in Holders, NEW q \in Holders
             PROVE  p = q
  BY DEF MutualExclusion
<1>1. [owner |-> p, ttl |-> lease[p]] = [owner |-> q, ttl |-> lease[q]]
  BY DEF HolderKeepsDocument
<1>2. QED
  BY <1>1

LEMMA KeepsDocumentStep ==
  ASSUME TypeOK, HolderKeepsDocument, HoldersInTime, [Next]_vars, ~ RacedPurge
  PROVE  HolderKeepsDocument'
<1>1. ASSUME NEW p \in Flows, Acquire(p) PROVE HolderKeepsDocument'
  <2>1. Holders' = Holders /\ \A q \in Holders : lease'[q] = lease[q]
    BY <1>1 DEF Acquire, GoTo, Holders, TypeOK
  <2>2. QED
    BY <1>1, <2>1 DEF HolderKeepsDocument, Acquire
<1>2. ASSUME NEW p \in Flows, Insert(p) PROVE HolderKeepsDocument'
  <2>1. Holders = {}
    BY <1>2 DEF HolderKeepsDocument, Insert
  <2>2. Holders' = {p}
    BY <1>2, <2>1 DEF Insert, GoTo, Holders, TypeOK
  <2>3. QED
    BY <1>2, <2>2 DEF HolderKeepsDocument, Insert
<1>3. ASSUME NEW p \in Flows, InsertDuplicate(p) \/ Wake(p) \/ CheckExpired(p)
      PROVE  HolderKeepsDocument'
  <2>1. Holders' = Holders
    BY <1>3 DEF InsertDuplicate, Wake, CheckExpired, AcquireError, GoTo,
                Holders, TypeOK
  <2>2. UNCHANGED <<locks, lease>>
    BY <1>3 DEF InsertDuplicate, Wake, CheckExpired
  <2>3. QED
    BY <2>1, <2>2 DEF HolderKeepsDocument
<1>4. ASSUME NEW p \in Flows, Purge(p) PROVE HolderKeepsDocument'
  <2>1. \A d \in locks : Expired(d)
    BY <1>4 DEF RacedPurge
  <2>2. ASSUME NEW q \in Holders PROVE FALSE
    <3>1. lease[q] < 0
      <4>1. [owner |-> q, ttl |-> lease[q]] \in locks
        BY <2>2 DEF HolderKeepsDocument
      <4>2. QED
        BY <2>1, <4>1 DEF Expired
    <3>2. lease[q] >= 0 /\ lease[q] \in Int
      BY LockingAssumption DEF HoldersInTime, Holders, TypeOK
    <3>3. QED
      BY <3>1, <3>2
  <2>3. Holders' = {}
    BY <1>4, <2>2 DEF Purge, GoTo, Holders, TypeOK
  <2>4. QED
    BY <2>3 DEF HolderKeepsDocument
<1>5. ASSUME NEW p \in Flows, Release(p) PROVE HolderKeepsDocument'
  <2>1. Holders = {p}
    BY <1>5, OneHolder DEF MutualExclusion, Release, Holders
  <2>2. Holders' = {}
    BY <1>5, <2>1 DEF Release, GoTo, Holders, TypeOK
  <2>3. QED
    BY <2>2 DEF HolderKeepsDocument
<1>6. ASSUME NEW p \in Flows, Crash(p) PROVE HolderKeepsDocument'
  <2>1. Holders' \subseteq Holders
    BY <1>6 DEF Crash, GoTo, Holders, TypeOK
  <2>2. QED
    BY <1>6, <2>1 DEF HolderKeepsDocument, Crash
<1>7. CASE Tick
  <2>1. Holders' = Holders
    BY <1>7 DEF Tick, Holders
  <2>2. ASSUME NEW p \in Holders
        PROVE  locks' = {[owner |-> p, ttl |-> lease'[p]]}
    <3>1. lease'[p] = Past(lease[p])
      BY <1>7 DEF Tick, Holders
    <3>2. locks = {[owner |-> p, ttl |-> lease[p]]}
      BY DEF HolderKeepsDocument
    <3>3. locks' = {[owner |-> d.owner, ttl |-> Past(d.ttl)] : d \in locks}
      BY <1>7 DEF Tick
    <3>4. QED
      BY <3>1, <3>2, <3>3
  <2>3. QED
    BY <2>1, <2>2 DEF HolderKeepsDocument
<1>8. CASE UNCHANGED vars
  BY <1>8 DEF vars, HolderKeepsDocument, Holders
<1>9. QED
  BY <1>1, <1>2, <1>3, <1>4, <1>5, <1>6, <1>7, <1>8 DEF Next, Advance

(* Nothing but a raced purge or a late holder ever takes the document from *)
(* under a flow between acquire() and release().                           *)
THEOREM OnlyRaceOrOverrunBreaks == Spec => OnlyRaceOrOverrun
<1>1. TypeOK /\ [Next]_vars
        => [HolderKeepsDocument /\ HoldersInTime /\ ~ RacedPurge
              => HolderKeepsDocument']_vars
  BY KeepsDocumentStep
<1>2. QED
  BY <1>1, TypeCorrect, PTL DEF Spec, OnlyRaceOrOverrun

LEMMA KeepsDocument ==
  Spec /\ PurgeOnlyExpired /\ []HoldersInTime => []HolderKeepsDocument
<1>1. Init => HolderKeepsDocument
  BY DEF Init, HolderKeepsDocument, Holders
<1>2. [\A p \in Flows : Purge(p) => \A d \in locks : Expired(d)]_vars
        /\ TypeOK /\ HolderKeepsDocument /\ HoldersInTime /\ [Next]_vars
        => HolderKeepsDocument'
  <2>1. CASE UNCHANGED vars
    BY <2>1 DEF vars, HolderKeepsDocument, Holders
  <2>2. CASE ~ RacedPurge
    BY <2>2, KeepsDocumentStep
  <2>3. QED
    BY <2>1, <2>2 DEF RacedPurge
<1>3. QED
  BY <1>1, <1>2, TypeCorrect, PTL DEF Spec, PurgeOnlyExpired

(* With any number of crashes, flows that have to wait past the validity   *)
(* of the lock they ask for, and purges of the locks of the dead, the lock *)
(* excludes as long as purges delete the document they read and holders    *)
(* finish in time: a delete conditional on the expiration date is all that *)
(* LockingStorage would need.                                              *)
THEOREM CrashSafeMutualExclusion ==
  Spec /\ PurgeOnlyExpired /\ []HoldersInTime => []MutualExclusion
  BY KeepsDocument, OneHolder, PTL

(* A step with that invariant is a step of ExclusiveLock; the crash of a   *)
(* holder is its Leave.                                                    *)
LEMMA CrashSafeStepRefines ==
  ASSUME TypeOK, HolderKeepsDocument, [Next]_vars
  PROVE  [Abstract!Next]_Holders
<1> USE DEF Abstract!Next, Abstract!Enter, Abstract!Leave
<1>1. ASSUME NEW p \in Flows, Insert(p) PROVE Abstract!Enter(p)
  <2>1. Holders = {}
    BY <1>1 DEF HolderKeepsDocument, Insert
  <2>2. QED
    BY <1>1, <2>1 DEF Insert, GoTo, Holders, TypeOK
<1>2. ASSUME NEW p \in Flows, Release(p) PROVE Abstract!Leave(p)
  BY <1>2 DEF Release, GoTo, Holders, TypeOK
<1>3. ASSUME NEW p \in Flows, Crash(p)
      PROVE  Abstract!Leave(p) \/ UNCHANGED Holders
  <2>1. Holders' = Holders \ {p}
    BY <1>3 DEF Crash, GoTo, Holders, TypeOK
  <2>2. QED
    BY <2>1
<1>4. ASSUME NEW p \in Flows,
             \/ Acquire(p) \/ InsertDuplicate(p) \/ Wake(p)
             \/ CheckExpired(p) \/ Purge(p)
      PROVE  UNCHANGED Holders
  BY <1>4 DEF Acquire, InsertDuplicate, Wake, CheckExpired, Purge,
              AcquireError, GoTo, Holders, TypeOK
<1>5. CASE Tick \/ UNCHANGED vars
  BY <1>5 DEF Tick, vars, Holders
<1>6. QED
  BY <1>1, <1>2, <1>3, <1>4, <1>5 DEF Next, Advance

(* Under the same premises the callers may reason about Enter and Leave    *)
(* alone, crashes included.                                                *)
THEOREM CrashSafeRefinement ==
  Spec /\ PurgeOnlyExpired /\ []HoldersInTime => ImplementsExclusiveLock
<1>1. Init => Abstract!Init
  BY DEF Init, Abstract!Init, Holders
<1>2. TypeOK /\ HolderKeepsDocument /\ [Next]_vars => [Abstract!Next]_Holders
  BY CrashSafeStepRefines
<1>3. QED
  BY <1>1, <1>2, TypeCorrect, KeepsDocument, PTL
  DEF Spec, ImplementsExclusiveLock, Abstract!Spec
=============================================================================
