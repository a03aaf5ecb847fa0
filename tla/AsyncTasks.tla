------------------------------ MODULE AsyncTasks ------------------------------
(***************************************************************************)
(* AsyncTaskManager: the hosts that execute the tasks queued in the        *)
(* "asynctasks" collection (billing, imports, OCPI pushes and pulls).      *)
(*                                                                         *)
(* Each host runs passes of handleAsyncTasks(): read the PENDING tasks     *)
(* once, then work through that list, taking the lock of each task.  The   *)
(* model gives a host one pass at a time; overlapping passes of one host   *)
(* share nothing but the database and are covered by two hosts.            *)
(*                                                                         *)
(* The lock is the one of Locking, used through its promise ExclusiveLock; *)
(* a lock whose holder died is freed by ExpireLock.                        *)
(***************************************************************************)
EXTENDS Integers, FiniteSets

CONSTANTS
  Tasks,          \* documents of the collection
  Unknown,        \* the tasks whose name createTask() has no case for
  Hosts,          \* server processes with the asynchronous task service on
  Parallel,       \* nbrTasksInParallel
  Cron,           \* is the scheduled AsyncTaskCheckTask active?
  MaxCrashes      \* bound: how many times a host dies

ASSUME AsyncTasksAssumption ==
  /\ Unknown \subseteq Tasks
  /\ Parallel \in Nat \ {0}
  /\ Cron \in BOOLEAN
  /\ MaxCrashes \in Nat

VARIABLES
  status,         \* status[t]: "none" before the document exists
  lock,           \* lock[t]: the hosts holding the lock of t
  pass,           \* pass[h]: "down", "reset" (first step of init()), "idle", "busy"
  watching,       \* the hosts whose change stream is open
  job,            \* job[h][t]: how far the pass of h is with t
  failedLock,     \* failedToAcquireLock of the pass of h
  trigger,        \* h has a handleAsyncTasks() call to make
  crashes         \* crashes so far

vars == <<status, lock, pass, watching, job, failedLock, trigger, crashes>>

Statuses == {"none", "PENDING", "RUNNING", "SUCCESS", "ERROR"}
\* The stages of a task between the acquisition and the release of its lock.
Locked == {"locked", "running", "ran", "erred", "saved"}
Stages == {"no", "todo", "done"} \union Locked

TypeOK ==
  /\ status \in [Tasks -> Statuses]
  /\ lock \in [Tasks -> SUBSET Hosts]
  /\ pass \in [Hosts -> {"down", "reset", "idle", "busy"}]
  /\ watching \subseteq Hosts
  /\ job \in [Hosts -> [Tasks -> Stages]]
  /\ failedLock \in [Hosts -> BOOLEAN]
  /\ trigger \in [Hosts -> BOOLEAN]
  /\ crashes \in 0..MaxCrashes

NoJob == [t \in Tasks |-> "no"]

\* Other processes may queue tasks before the first host starts.
Init ==
  /\ status = [t \in Tasks |-> "none"]
  /\ lock = [t \in Tasks |-> {}]
  /\ pass = [h \in Hosts |-> "down"]
  /\ watching = {}
  /\ job = [h \in Hosts |-> NoJob]
  /\ failedLock = [h \in Hosts |-> FALSE]
  /\ trigger = [h \in Hosts |-> FALSE]
  /\ crashes = 0

With(s) == {t \in Tasks : status[t] = s}
Stage(h, t, s) == job' = [job EXCEPT ![h][t] = s]
Save(t, s) == status' = [status EXCEPT ![t] = s]
Busy(h) == Cardinality({t \in Tasks : job[h][t] \in Locked})
\* The holder of the lock has died, and the lock has not expired.
Orphaned(t) == \E h \in lock[t] : job[h][t] \notin Locked

-----------------------------------------------------------------------------
(* Seeded fault: only the hosts between two passes are told of a new task. *)
CreateTellsIdle(t) ==
  /\ status[t] = "none"
  /\ Save(t, "PENDING")
  /\ trigger' = [h \in Hosts |-> trigger[h] \/ (h \in watching /\ pass[h] = "idle")]
  /\ UNCHANGED <<lock, pass, watching, job, failedLock, crashes>>

(* createAndSaveAsyncTasks(); the change streams tell the hosts that have  *)
(* opened theirs.                                                          *)
Create(t) ==
  /\ status[t] = "none"
  /\ Save(t, "PENDING")
  /\ trigger' = [h \in Hosts |-> trigger[h] \/ h \in watching]
  /\ UNCHANGED <<lock, pass, watching, job, failedLock, crashes>>

(* Seeded fault: the scheduled task does not call handleAsyncTasks().      *)
StartPassNoCron(h) ==
  /\ pass[h] = "idle"
  /\ trigger[h] \/ Cron
  /\ trigger' = [trigger EXCEPT ![h] = FALSE]
  /\ failedLock' = [failedLock EXCEPT ![h] = FALSE]
  /\ IF ~trigger[h] \/ With("PENDING") = {}
     THEN UNCHANGED <<pass, job>>
     ELSE /\ pass' = [pass EXCEPT ![h] = "busy"]
          /\ job' = [job EXCEPT ![h] =
               [t \in Tasks |-> IF status[t] = "PENDING" THEN "todo" ELSE "no"]]
  /\ UNCHANGED <<status, lock, watching, crashes>>

(* handleAsyncTasks() is called, by an event, by the end of the previous   *)
(* pass or by the scheduler, and reads the list.  Nothing PENDING: done.   *)
StartPass(h) ==
  /\ pass[h] = "idle"
  /\ trigger[h] \/ Cron
  /\ trigger' = [trigger EXCEPT ![h] = FALSE]
  /\ failedLock' = [failedLock EXCEPT ![h] = FALSE]
  /\ IF With("PENDING") = {}
     THEN UNCHANGED <<pass, job>>
     ELSE /\ pass' = [pass EXCEPT ![h] = "busy"]
          /\ job' = [job EXCEPT ![h] =
               [t \in Tasks |-> IF status[t] = "PENDING" THEN "todo" ELSE "no"]]
  /\ UNCHANGED <<status, lock, watching, crashes>>

(* createTask() returns nothing for a name it does not know.               *)
SkipUnknown(h, t) ==
  /\ job[h][t] = "todo"
  /\ Busy(h) < Parallel
  /\ t \in Unknown
  /\ Stage(h, t, "done")
  /\ UNCHANGED <<status, lock, pass, watching, failedLock, trigger, crashes>>

TakeLock(h, t) ==
  /\ job[h][t] = "todo"
  /\ Busy(h) < Parallel
  /\ t \notin Unknown
  /\ IF lock[t] = {}
     THEN /\ lock' = [lock EXCEPT ![t] = {h}]
          /\ Stage(h, t, "locked")
          /\ UNCHANGED failedLock
     ELSE /\ Stage(h, t, "done")
          /\ failedLock' = [failedLock EXCEPT ![h] = TRUE]
          /\ UNCHANGED lock
  /\ UNCHANGED <<status, pass, watching, trigger, crashes>>

(* The status in the database is not read again: the one saved is that of  *)
(* the list.                                                               *)
SaveRunning(h, t) ==
  /\ job[h][t] = "locked"
  /\ Save(t, "RUNNING")
  /\ Stage(h, t, "running")
  /\ UNCHANGED <<lock, pass, watching, failedLock, trigger, crashes>>

(* run() returns or throws.                                                *)
Run(h, t) ==
  /\ job[h][t] = "running"
  /\ Stage(h, t, "ran") \/ Stage(h, t, "erred")
  /\ UNCHANGED <<status, lock, pass, watching, failedLock, trigger, crashes>>

(* Seeded fault: the stage of the run is saved as the status.              *)
SaveStage(h, t) ==
  /\ job[h][t] \in {"ran", "erred"}
  /\ Save(t, job[h][t])
  /\ Stage(h, t, "saved")
  /\ UNCHANGED <<lock, pass, watching, failedLock, trigger, crashes>>

SaveResult(h, t) ==
  /\ job[h][t] \in {"ran", "erred"}
  /\ Save(t, IF job[h][t] = "ran" THEN "SUCCESS" ELSE "ERROR")
  /\ Stage(h, t, "saved")
  /\ UNCHANGED <<lock, pass, watching, failedLock, trigger, crashes>>

(* Seeded fault: the lock is released before the result is saved.          *)
ReleaseLockEarly(h, t) ==
  /\ job[h][t] \in {"ran", "erred", "saved"}
  /\ lock' = [lock EXCEPT ![t] = {}]
  /\ IF job[h][t] = "saved" THEN Stage(h, t, "done") ELSE UNCHANGED job
  /\ UNCHANGED <<status, pass, watching, failedLock, trigger, crashes>>

ReleaseLock(h, t) ==
  /\ job[h][t] = "saved"
  /\ lock' = [lock EXCEPT ![t] = {}]
  /\ Stage(h, t, "done")
  /\ UNCHANGED <<status, pass, watching, failedLock, trigger, crashes>>

(* The whole list is done: call handleAsyncTasks() again, unless a lock    *)
(* was refused.                                                            *)
EndPass(h) ==
  /\ pass[h] = "busy"
  /\ \A t \in Tasks : job[h][t] \in {"no", "done"}
  /\ pass' = [pass EXCEPT ![h] = "idle"]
  /\ job' = [job EXCEPT ![h] = NoJob]
  /\ trigger' = [trigger EXCEPT ![h] = @ \/ ~failedLock[h]]
  /\ UNCHANGED <<status, lock, watching, failedLock, crashes>>

(* The host dies: its locks stay until they expire.                        *)
Crash(h) ==
  /\ pass[h] # "down"
  /\ crashes < MaxCrashes
  /\ crashes' = crashes + 1
  /\ pass' = [pass EXCEPT ![h] = "down"]
  /\ watching' = watching \ {h}
  /\ job' = [job EXCEPT ![h] = NoJob]
  /\ trigger' = [trigger EXCEPT ![h] = FALSE]
  /\ UNCHANGED <<status, lock, failedLock>>

(* Seeded fault: a host starts without turning RUNNING tasks to PENDING.   *)
RestartNoReset(h) ==
  /\ pass[h] = "down"
  /\ pass' = [pass EXCEPT ![h] = "reset"]
  /\ UNCHANGED <<status, lock, watching, job, failedLock, trigger, crashes>>

(* init() of a process that starts, for the first time or after a death.   *)
(* Every RUNNING task of every host becomes PENDING, and the hosts that    *)
(* watch see the change.                                                   *)
Restart(h) ==
  /\ pass[h] = "down"
  /\ pass' = [pass EXCEPT ![h] = "reset"]
  /\ status' = [t \in Tasks |-> IF status[t] = "RUNNING" THEN "PENDING" ELSE status[t]]
  /\ trigger' = [g \in Hosts |-> trigger[g] \/ (g \in watching /\ With("RUNNING") # {})]
  /\ UNCHANGED <<lock, watching, job, failedLock, crashes>>

(* The first pass is called, but not awaited, before the change stream is  *)
(* opened.                                                                 *)
Launch(h) ==
  /\ pass[h] = "reset"
  /\ pass' = [pass EXCEPT ![h] = "idle"]
  /\ trigger' = [trigger EXCEPT ![h] = TRUE]
  /\ UNCHANGED <<status, lock, watching, job, failedLock, crashes>>

(* watchDatabaseCollection() has opened it: what was saved before, after   *)
(* the first pass read its list, this host has missed.                     *)
Watch(h) ==
  /\ pass[h] \in {"idle", "busy"}
  /\ h \notin watching
  /\ watching' = watching \union {h}
  /\ UNCHANGED <<status, lock, pass, job, failedLock, trigger, crashes>>

(* The 15 minutes of a lock whose holder died are over, and the next       *)
(* acquire() removes it.  A living host is assumed to be faster than that. *)
ExpireLock(t) ==
  /\ Orphaned(t)
  /\ lock' = [lock EXCEPT ![t] = {}]
  /\ UNCHANGED <<status, pass, watching, job, failedLock, trigger, crashes>>

Work(h, t) ==
  \/ SkipUnknown(h, t) \/ TakeLock(h, t) \/ SaveRunning(h, t)
  \/ Run(h, t) \/ SaveResult(h, t) \/ ReleaseLock(h, t)

Next ==
  \/ \E t \in Tasks : Create(t) \/ ExpireLock(t)
  \/ \E h \in Hosts, t \in Tasks : Work(h, t)
  \/ \E h \in Hosts : StartPass(h) \/ EndPass(h) \/ Crash(h)
  \/ \E h \in Hosts : Restart(h) \/ Launch(h) \/ Watch(h)

Spec == Init /\ [][Next]_vars

(* Hosts that are up run on, hosts that died are started again, locks      *)
(* expire.  Nobody has to create a task.                                   *)
FairSpec ==
  /\ Spec
  /\ \A h \in Hosts : WF_vars(StartPass(h)) /\ WF_vars(EndPass(h))
  /\ \A h \in Hosts : WF_vars(Restart(h)) /\ WF_vars(Launch(h)) /\ WF_vars(Watch(h))
  /\ \A h \in Hosts, t \in Tasks : WF_vars(Work(h, t))
  /\ \A t \in Tasks : WF_vars(ExpireLock(t))

-----------------------------------------------------------------------------
(* Two hosts never execute the same task at the same time, although both   *)
(* may have it on their lists: the lock of handleAsyncTasks().             *)
OneRunAtATime ==
  \A t \in Tasks, g, h \in Hosts :
    job[g][t] \in Locked /\ job[h][t] \in Locked => g = h

(* A task is only left RUNNING when the host that ran it is down and will  *)
(* reset it in init(): no task stays RUNNING with nobody to finish it.     *)
RunningHasRunner ==
  \A t \in With("RUNNING") :
    \/ \E h \in Hosts : job[h][t] \in {"running", "ran", "erred"}
    \/ \E h \in Hosts : pass[h] = "down"

(* A host is about to read the list, has the task ahead of it on the list  *)
(* it read, or executes it and will save its status.                       *)
Awaits(h, t) ==
  \/ trigger[h] \/ pass[h] = "reset"
  \/ job[h][t] \in {"todo", "locked", "running", "ran", "erred"}
Awaited(t) == \E h \in Hosts : Awaits(h, t)

(* handleAsyncTasks() calls itself again, except after a refused lock, and *)
(* the change streams wake it: a PENDING task is left to the scheduler in  *)
(* three ways only.  It was saved while no host had its change stream open *)
(* (init() launches the first pass before it watches); the host that       *)
(* awaited it dies; or it is refused the lock of a host that died.         *)
NoLostWakeup ==
  [][\A t \in Tasks \ Unknown :
       /\ status'[t] = "PENDING"
       /\ status[t] = "PENDING" => Awaited(t)
       => \/ Awaited(t)'
          \/ status[t] = "none" /\ watching = {}
          \/ crashes' # crashes
          \/ Orphaned(t)]_vars

(* Whatever crashes, resets and stale lists do meanwhile, a queued task    *)
(* ends up executed and finally keeps a result.                            *)
EventuallySettled ==
  \A t \in Tasks \ Unknown :
    status[t] = "PENDING" ~> [](status[t] \in {"SUCCESS", "ERROR"})
=============================================================================
