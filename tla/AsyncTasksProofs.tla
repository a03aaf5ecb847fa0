--------------------------- MODULE AsyncTasksProofs ---------------------------
(***************************************************************************)
(* The safety of AsyncTasks for any set of tasks and hosts, any number of  *)
(* tasks in parallel and any number of crashes.                            *)
(***************************************************************************)
EXTENDS AsyncTasks, TLAPS

(* A host that executes a task holds its lock, and holds it alone.         *)
RunnerHolds ==
  \A t \in Tasks, h \in Hosts : job[h][t] \in Locked => lock[t] = {h}

(* A lock has at most one holder.                                          *)
SingleHolder == \A t \in Tasks : lock[t] = {} \/ \E h \in Hosts : lock[t] = {h}

(* Only a host in the middle of a pass has a list and executes anything.   *)
IdleRunsNothing ==
  \A h \in Hosts : pass[h] # "busy" => \A t \in Tasks : job[h][t] = "no"

(* Until its lock is released, nothing overwrites the result of a task.    *)
SavedIsResult ==
  \A t \in Tasks, h \in Hosts :
    job[h][t] = "saved" => status[t] \in {"SUCCESS", "ERROR"}

AsyncInv ==
  /\ TypeOK
  /\ RunnerHolds
  /\ SingleHolder
  /\ IdleRunsNothing
  /\ RunningHasRunner
  /\ SavedIsResult

LEMMA InitAsyncInv == Init => AsyncInv
<1> SUFFICES ASSUME Init PROVE AsyncInv
  OBVIOUS
<1> USE AsyncTasksAssumption
<1>1. TypeOK
  BY DEF Init, TypeOK, NoJob, Statuses, Stages, Locked
<1>2. RunnerHolds /\ IdleRunsNothing
  BY DEF Init, RunnerHolds, IdleRunsNothing, NoJob, Locked
<1>3. SingleHolder /\ RunningHasRunner /\ SavedIsResult
  BY DEF Init, SingleHolder, RunningHasRunner, SavedIsResult, NoJob, With
<1> QED
  BY <1>1, <1>2, <1>3 DEF AsyncInv

(* Every action keeps the types.                                           *)
LEMMA NextTypeOK == TypeOK /\ [Next]_vars => TypeOK'
<1> SUFFICES ASSUME TypeOK, [Next]_vars PROVE TypeOK'
  OBVIOUS
<1> USE AsyncTasksAssumption DEF TypeOK, Statuses, Stages, Locked, NoJob
<1>1. ASSUME NEW t \in Tasks, Create(t) PROVE TypeOK'
  BY <1>1 DEF Create, Save
<1>2. ASSUME NEW t \in Tasks, ExpireLock(t) PROVE TypeOK'
  BY <1>2 DEF ExpireLock
<1>3. ASSUME NEW h \in Hosts, NEW t \in Tasks, Work(h, t) PROVE TypeOK'
  <2>1. CASE SkipUnknown(h, t)
    BY <2>1 DEF SkipUnknown, Stage
  <2>2. CASE TakeLock(h, t)
    <3>1. \E s \in {"locked", "done"} : Stage(h, t, s)
      BY <2>2 DEF TakeLock
    <3>2. job' \in [Hosts -> [Tasks -> Stages]]
      BY <3>1 DEF Stage
    <3>3. lock' \in [Tasks -> SUBSET Hosts]
      BY <2>2 DEF TakeLock
    <3>4. failedLock' \in [Hosts -> BOOLEAN]
      BY <2>2 DEF TakeLock
    <3> QED
      BY <2>2, <3>2, <3>3, <3>4 DEF TakeLock
  <2>3. CASE SaveRunning(h, t)
    <3>1. job' \in [Hosts -> [Tasks -> Stages]]
      BY <2>3 DEF SaveRunning, Stage
    <3>2. status' \in [Tasks -> Statuses]
      BY <2>3 DEF SaveRunning, Save
    <3> QED
      BY <2>3, <3>1, <3>2 DEF SaveRunning
  <2>4. CASE Run(h, t)
    <3>1. \E s \in {"ran", "erred"} : Stage(h, t, s)
      BY <2>4 DEF Run
    <3>2. job' \in [Hosts -> [Tasks -> Stages]]
      BY <3>1 DEF Stage
    <3> QED
      BY <2>4, <3>2 DEF Run
  <2>5. CASE SaveResult(h, t)
    <3>1. \E s \in {"SUCCESS", "ERROR"} : Save(t, s)
      BY <2>5 DEF SaveResult
    <3>2. status' \in [Tasks -> Statuses]
      BY <3>1 DEF Save
    <3>3. job' \in [Hosts -> [Tasks -> Stages]]
      BY <2>5 DEF SaveResult, Stage
    <3> QED
      BY <2>5, <3>2, <3>3 DEF SaveResult
  <2>6. CASE ReleaseLock(h, t)
    BY <2>6 DEF ReleaseLock, Stage
  <2> QED
    BY <1>3, <2>1, <2>2, <2>3, <2>4, <2>5, <2>6 DEF Work
<1>4. ASSUME NEW h \in Hosts, StartPass(h) PROVE TypeOK'
  <2>1. CASE With("PENDING") = {}
    BY <1>4, <2>1 DEF StartPass
  <2>2. CASE With("PENDING") # {}
    <3> DEFINE list == [t \in Tasks |-> IF status[t] = "PENDING" THEN "todo" ELSE "no"]
    <3>1. list \in [Tasks -> Stages]
      OBVIOUS
    <3>2. job' = [job EXCEPT ![h] = list] /\ pass' = [pass EXCEPT ![h] = "busy"]
      BY <1>4, <2>2 DEF StartPass
    <3> HIDE DEF list
    <3>3. job' \in [Hosts -> [Tasks -> Stages]]
      BY <3>1, <3>2
    <3>4. pass' \in [Hosts -> {"down", "reset", "idle", "busy"}]
      BY <3>2
    <3> QED
      BY <1>4, <3>3, <3>4 DEF StartPass
  <2> QED
    BY <2>1, <2>2
<1>5. ASSUME NEW h \in Hosts, EndPass(h) PROVE TypeOK'
  BY <1>5 DEF EndPass
<1>6. ASSUME NEW h \in Hosts, Crash(h) PROVE TypeOK'
  BY <1>6 DEF Crash
<1>7. ASSUME NEW h \in Hosts, Restart(h) PROVE TypeOK'
  BY <1>7 DEF Restart
<1>8. ASSUME NEW h \in Hosts, Launch(h) PROVE TypeOK'
  BY <1>8 DEF Launch
<1>9. ASSUME NEW h \in Hosts, Watch(h) PROVE TypeOK'
  BY <1>9 DEF Watch
<1>10. CASE UNCHANGED vars
  BY <1>10 DEF vars
<1> QED
  BY <1>1, <1>2, <1>3, <1>4, <1>5, <1>6, <1>7, <1>8, <1>9, <1>10 DEF Next

(* What a change of stage does to the stages of the other runs.            *)
LEMMA StageMoves ==
  ASSUME TypeOK, NEW h \in Hosts, NEW t \in Tasks, NEW s, Stage(h, t, s)
  PROVE  /\ job'[h][t] = s
         /\ \A g \in Hosts, u \in Tasks :
              g # h \/ u # t => job'[g][u] = job[g][u]
BY DEF TypeOK, Stage

(* The cases of a task that leave its lock alone: the host stays in, or    *)
(* stays out of, the section that the lock protects.                       *)
LEMMA SameSection ==
  ASSUME AsyncInv, NEW h \in Hosts, NEW t \in Tasks, NEW s, Stage(h, t, s),
         job[h][t] # "no",
         s \in Locked <=> job[h][t] \in Locked,
         UNCHANGED <<lock, pass>>
  PROVE  RunnerHolds' /\ SingleHolder' /\ IdleRunsNothing'
<1>1. TypeOK /\ RunnerHolds /\ SingleHolder /\ IdleRunsNothing
  BY DEF AsyncInv
<1>2. \A g \in Hosts, u \in Tasks : job'[g][u] \in Locked <=> job[g][u] \in Locked
  <2> TAKE g \in Hosts, u \in Tasks
  <2>1. CASE g = h /\ u = t
    BY <1>1, <2>1, StageMoves
  <2>2. CASE g # h \/ u # t
    BY <1>1, <2>2, StageMoves
  <2> QED
    BY <2>1, <2>2
<1>3. RunnerHolds' /\ SingleHolder'
  BY <1>1, <1>2 DEF RunnerHolds, SingleHolder
<1>4. pass[h] = "busy"
  BY <1>1 DEF IdleRunsNothing
<1>5. IdleRunsNothing'
  BY <1>1, <1>4, StageMoves DEF IdleRunsNothing
<1> QED
  BY <1>3, <1>5

(* A task keeps the runner that excuses its RUNNING status, unless it is   *)
(* the task the step is about.                                             *)
LEMMA OtherRunners ==
  ASSUME AsyncInv, NEW h \in Hosts, NEW t \in Tasks, NEW s, Stage(h, t, s),
         UNCHANGED pass,
         \A u \in Tasks : u # t => status'[u] = status[u],
         status'[t] = "RUNNING" =>
           \/ s \in {"running", "ran", "erred"}
           \/ status[t] = "RUNNING" /\ job[h][t] \notin {"running", "ran", "erred"}
  PROVE  RunningHasRunner'
<1>1. TypeOK /\ RunningHasRunner
  BY DEF AsyncInv
<1>2. job'[h][t] = s
      /\ \A g \in Hosts, u \in Tasks : g # h \/ u # t => job'[g][u] = job[g][u]
  BY <1>1, StageMoves
<1> SUFFICES ASSUME NEW u \in Tasks, status'[u] = "RUNNING"
             PROVE  \/ \E g \in Hosts : job'[g][u] \in {"running", "ran", "erred"}
                    \/ \E g \in Hosts : pass'[g] = "down"
  BY DEF RunningHasRunner, With
<1>3. CASE u # t
  BY <1>1, <1>2, <1>3 DEF RunningHasRunner, With
<1>4. CASE u = t /\ s \in {"running", "ran", "erred"}
  BY <1>2, <1>4
<1>5. CASE u = t /\ status[t] = "RUNNING" /\ job[h][t] \notin {"running", "ran", "erred"}
  BY <1>1, <1>2, <1>5 DEF RunningHasRunner, With
<1> QED
  BY <1>3, <1>4, <1>5

(* A step of a host on one task.                                           *)
LEMMA WorkPreserves ==
  ASSUME AsyncInv, NEW h \in Hosts, NEW t \in Tasks, Work(h, t)
  PROVE  RunnerHolds' /\ SingleHolder' /\ IdleRunsNothing' /\ RunningHasRunner'
<1>0. TypeOK /\ RunnerHolds /\ SingleHolder /\ IdleRunsNothing
  BY DEF AsyncInv
<1>1. CASE SkipUnknown(h, t)
  <2>1. Stage(h, t, "done") /\ job[h][t] = "todo" /\ UNCHANGED <<status, lock, pass>>
    BY <1>1 DEF SkipUnknown
  <2> QED
    BY <2>1, SameSection, OtherRunners DEF Locked
<1>2. CASE TakeLock(h, t) /\ lock[t] = {}
  <2>1. /\ Stage(h, t, "locked") /\ job[h][t] = "todo"
        /\ lock' = [lock EXCEPT ![t] = {h}] /\ UNCHANGED <<status, pass>>
    BY <1>2 DEF TakeLock
  <2>2. /\ lock'[t] = {h}
        /\ \A u \in Tasks : u # t => lock'[u] = lock[u]
    BY <1>0, <2>1 DEF TypeOK
  <2>3. \A g \in Hosts : job[g][t] \notin Locked
    BY <1>0, <1>2 DEF RunnerHolds
  <2>4. /\ job'[h][t] = "locked"
        /\ \A g \in Hosts, u \in Tasks : g # h \/ u # t => job'[g][u] = job[g][u]
    BY <1>0, <2>1, StageMoves
  <2>5. RunnerHolds'
    BY <1>0, <2>2, <2>3, <2>4 DEF RunnerHolds
  <2>6. SingleHolder'
    BY <1>0, <2>2 DEF SingleHolder
  <2>7. pass[h] = "busy"
    BY <1>0, <2>1 DEF IdleRunsNothing
  <2>8. IdleRunsNothing'
    BY <1>0, <2>1, <2>4, <2>7 DEF IdleRunsNothing
  <2> QED
    BY <2>1, <2>5, <2>6, <2>8, OtherRunners
<1>3. CASE TakeLock(h, t) /\ lock[t] # {}
  <2>1. Stage(h, t, "done") /\ job[h][t] = "todo" /\ UNCHANGED <<status, lock, pass>>
    BY <1>3 DEF TakeLock
  <2> QED
    BY <2>1, SameSection, OtherRunners DEF Locked
<1>4. CASE SaveRunning(h, t)
  <2>1. /\ Stage(h, t, "running") /\ job[h][t] = "locked"
        /\ Save(t, "RUNNING") /\ UNCHANGED <<lock, pass>>
    BY <1>4 DEF SaveRunning
  <2>2. \A u \in Tasks : u # t => status'[u] = status[u]
    BY <1>0, <2>1 DEF Save, TypeOK
  <2> QED
    BY <2>1, <2>2, SameSection, OtherRunners DEF Locked
<1>5. CASE Run(h, t)
  <2>1. /\ job[h][t] = "running" /\ UNCHANGED <<status, lock, pass>>
        /\ Stage(h, t, "ran") \/ Stage(h, t, "erred")
    BY <1>5 DEF Run
  <2>2. CASE Stage(h, t, "ran")
    BY <2>1, <2>2, SameSection, OtherRunners DEF Locked
  <2>3. CASE Stage(h, t, "erred")
    BY <2>1, <2>3, SameSection, OtherRunners DEF Locked
  <2> QED
    BY <2>1, <2>2, <2>3
<1>6. CASE SaveResult(h, t)
  <2>1. /\ job[h][t] \in Locked /\ Stage(h, t, "saved")
        /\ Save(t, IF job[h][t] = "ran" THEN "SUCCESS" ELSE "ERROR")
        /\ UNCHANGED <<lock, pass>>
    BY <1>6 DEF SaveResult, Locked
  <2>2. /\ \A u \in Tasks : u # t => status'[u] = status[u]
        /\ status'[t] # "RUNNING"
    BY <1>0, <2>1 DEF Save, TypeOK
  <2> QED
    BY <2>1, <2>2, SameSection, OtherRunners DEF Locked
<1>7. CASE ReleaseLock(h, t)
  <2>1. /\ Stage(h, t, "done") /\ job[h][t] = "saved"
        /\ lock' = [lock EXCEPT ![t] = {}] /\ UNCHANGED <<status, pass>>
    BY <1>7 DEF ReleaseLock
  <2>2. lock[t] = {h}
    BY <1>0, <2>1 DEF RunnerHolds, Locked
  <2>3. \A g \in Hosts : g # h => job[g][t] \notin Locked
    BY <1>0, <2>2 DEF RunnerHolds
  <2>4. /\ lock'[t] = {}
        /\ \A u \in Tasks : u # t => lock'[u] = lock[u]
    BY <1>0, <2>1 DEF TypeOK
  <2>5. /\ job'[h][t] = "done"
        /\ \A g \in Hosts, u \in Tasks : g # h \/ u # t => job'[g][u] = job[g][u]
    BY <1>0, <2>1, StageMoves
  <2>6. "done" \notin Locked
    BY DEF Locked
  <2>7. \A g \in Hosts : job'[g][t] \notin Locked
    BY <2>3, <2>5, <2>6
  <2>8. RunnerHolds'
    BY <1>0, <2>4, <2>5, <2>7 DEF RunnerHolds
  <2>9. SingleHolder'
    BY <1>0, <2>4 DEF SingleHolder
  <2>10. IdleRunsNothing'
    BY <1>0, <2>1, <2>5, <2>7 DEF IdleRunsNothing
  <2> QED
    BY <2>1, <2>8, <2>9, <2>10, OtherRunners
<1> QED
  BY <1>1, <1>2, <1>3, <1>4, <1>5, <1>6, <1>7 DEF Work

(* A run that has saved its result still holds the lock, so that no other  *)
(* run saves a status; and no document is created twice.                   *)
LEMMA NextSavedIsResult == AsyncInv /\ [Next]_vars => SavedIsResult'
<1> SUFFICES ASSUME AsyncInv, [Next]_vars, NEW t \in Tasks, NEW h \in Hosts,
                    job'[h][t] = "saved"
             PROVE  status'[t] \in {"SUCCESS", "ERROR"}
  BY DEF SavedIsResult
<1>0. TypeOK /\ RunnerHolds /\ SavedIsResult
  BY DEF AsyncInv
<1>1. ASSUME job[h][t] = "saved", status'[t] = status[t]
      PROVE  status'[t] \in {"SUCCESS", "ERROR"}
  BY <1>0, <1>1 DEF SavedIsResult
<1>2. ASSUME NEW u \in Tasks, Create(u) PROVE status'[t] \in {"SUCCESS", "ERROR"}
  <2>1. job[h][t] = "saved" /\ status[u] = "none" /\ Save(u, "PENDING")
    BY <1>2 DEF Create
  <2>2. status[t] \in {"SUCCESS", "ERROR"}
    BY <1>0, <2>1 DEF SavedIsResult
  <2>3. status'[t] = status[t]
    BY <1>0, <2>1, <2>2 DEF Save, TypeOK
  <2> QED
    BY <2>2, <2>3
<1>3. ASSUME NEW g \in Hosts, NEW u \in Tasks, Work(g, u)
      PROVE  status'[t] \in {"SUCCESS", "ERROR"}
  <2>1. ASSUME NEW s, Stage(g, u, s), s # "saved", status' = status
        PROVE  status'[t] \in {"SUCCESS", "ERROR"}
    BY <1>0, <1>1, <2>1, StageMoves
  <2>2. CASE SaveRunning(g, u)
    <3>1. Stage(g, u, "running") /\ job[g][u] = "locked" /\ Save(u, "RUNNING")
      BY <2>2 DEF SaveRunning
    <3>2. job[h][t] = "saved"
      BY <1>0, <3>1, StageMoves
    <3>3. u # t
      BY <1>0, <3>1, <3>2 DEF RunnerHolds, Locked
    <3> QED
      BY <1>0, <1>1, <3>1, <3>2, <3>3 DEF Save, TypeOK
  <2>3. CASE SaveResult(g, u)
    <3>1. /\ Stage(g, u, "saved")
          /\ Save(u, IF job[g][u] = "ran" THEN "SUCCESS" ELSE "ERROR")
      BY <2>3 DEF SaveResult
    <3>2. CASE u = t
      BY <1>0, <3>1, <3>2 DEF Save, TypeOK
    <3>3. CASE u # t
      BY <1>0, <1>1, <3>1, <3>3, StageMoves DEF Save, TypeOK
    <3> QED
      BY <3>2, <3>3
  <2>4. CASE SkipUnknown(g, u) \/ ReleaseLock(g, u)
    BY <2>1, <2>4 DEF SkipUnknown, ReleaseLock
  <2>5. CASE TakeLock(g, u)
    <3>1. status' = status /\ (Stage(g, u, "locked") \/ Stage(g, u, "done"))
      BY <2>5 DEF TakeLock
    <3> QED
      BY <2>1, <3>1
  <2>6. CASE Run(g, u)
    BY <2>1, <2>6 DEF Run
  <2> QED
    BY <1>3, <2>2, <2>3, <2>4, <2>5, <2>6 DEF Work
<1>4. ASSUME NEW g \in Hosts, StartPass(g) PROVE status'[t] \in {"SUCCESS", "ERROR"}
  <2>1. status' = status
    BY <1>4 DEF StartPass
  <2>2. job[h][t] = "saved"
    <3>1. CASE With("PENDING") = {}
      BY <1>4, <3>1 DEF StartPass
    <3>2. CASE With("PENDING") # {}
      BY <1>0, <1>4, <3>2 DEF StartPass, TypeOK
    <3> QED
      BY <3>1, <3>2
  <2> QED
    BY <1>1, <2>1, <2>2
<1>5. ASSUME NEW g \in Hosts, EndPass(g) \/ Crash(g)
      PROVE  status'[t] \in {"SUCCESS", "ERROR"}
  <2>1. status' = status /\ job' = [job EXCEPT ![g] = NoJob]
    BY <1>5 DEF EndPass, Crash
  <2>2. job[h][t] = "saved"
    BY <1>0, <2>1 DEF TypeOK, NoJob
  <2> QED
    BY <1>1, <2>1, <2>2
<1>6. ASSUME NEW g \in Hosts, Restart(g) PROVE status'[t] \in {"SUCCESS", "ERROR"}
  <2>1. /\ job[h][t] = "saved"
        /\ status' = [u \in Tasks |->
                       IF status[u] = "RUNNING" THEN "PENDING" ELSE status[u]]
    BY <1>6 DEF Restart
  <2> QED
    BY <1>0, <2>1 DEF SavedIsResult
<1>7. CASE UNCHANGED <<status, job>>
  BY <1>1, <1>7
<1> QED
  BY <1>2, <1>3, <1>4, <1>5, <1>6, <1>7 DEF Next, ExpireLock, Launch, Watch, vars

(* The steps of a host, and the creation of a task.                        *)
LEMMA NextAsyncInv == AsyncInv /\ [Next]_vars => AsyncInv'
<1> SUFFICES ASSUME AsyncInv, [Next]_vars PROVE AsyncInv'
  OBVIOUS
<1>0. TypeOK /\ RunnerHolds /\ SingleHolder /\ IdleRunsNothing /\ RunningHasRunner
  BY DEF AsyncInv
<1>1. TypeOK'
  BY <1>0, NextTypeOK
<1> DEFINE Rest == RunnerHolds /\ SingleHolder /\ IdleRunsNothing /\ RunningHasRunner
<1>2. ASSUME NEW t \in Tasks, Create(t) PROVE Rest'
  <2>1. /\ status[t] = "none" /\ Save(t, "PENDING") /\ UNCHANGED <<lock, pass, job>>
    BY <1>2 DEF Create
  <2>2. \A u \in Tasks : status'[u] = "RUNNING" => status[u] = "RUNNING"
    BY <1>0, <2>1 DEF Save, TypeOK
  <2>3. RunnerHolds' /\ SingleHolder' /\ IdleRunsNothing'
    BY <1>0, <2>1 DEF RunnerHolds, SingleHolder, IdleRunsNothing
  <2>4. RunningHasRunner'
    BY <1>0, <2>1, <2>2 DEF RunningHasRunner, With
  <2> QED
    BY <2>3, <2>4
<1>3. ASSUME NEW t \in Tasks, ExpireLock(t) PROVE Rest'
  <2>1. /\ lock' = [lock EXCEPT ![t] = {}] /\ UNCHANGED <<status, pass, job>>
    BY <1>3 DEF ExpireLock
  <2>2. PICK h \in Hosts : h \in lock[t] /\ job[h][t] \notin Locked
    BY <1>0, <1>3 DEF ExpireLock, Orphaned, TypeOK
  <2>3. \A g \in Hosts : job[g][t] \notin Locked
    BY <1>0, <2>2 DEF RunnerHolds
  <2>4. lock'[t] = {} /\ \A u \in Tasks : u # t => lock'[u] = lock[u]
    BY <1>0, <2>1 DEF TypeOK
  <2>5. RunnerHolds' /\ SingleHolder'
    BY <1>0, <2>1, <2>3, <2>4 DEF RunnerHolds, SingleHolder
  <2>6. IdleRunsNothing' /\ RunningHasRunner'
    BY <1>0, <2>1 DEF IdleRunsNothing, RunningHasRunner, With
  <2> QED
    BY <2>5, <2>6
<1>4. ASSUME NEW h \in Hosts, NEW t \in Tasks, Work(h, t) PROVE Rest'
  BY <1>4, WorkPreserves
<1>5. ASSUME NEW h \in Hosts, StartPass(h) PROVE Rest'
  <2>1. pass[h] = "idle" /\ UNCHANGED <<status, lock>>
    BY <1>5 DEF StartPass
  <2>2. \A t \in Tasks : job[h][t] = "no"
    BY <1>0, <2>1 DEF IdleRunsNothing
  <2>3. /\ \A g \in Hosts : g # h => pass'[g] = pass[g] /\ job'[g] = job[g]
        /\ pass'[h] # "busy" => job'[h] = job[h]
        /\ \A t \in Tasks : job'[h][t] \in {"no", "todo"}
    <3>1. CASE With("PENDING") = {}
      BY <1>0, <1>5, <2>2, <3>1 DEF StartPass, TypeOK
    <3>2. CASE With("PENDING") # {}
      BY <1>0, <1>5, <3>2 DEF StartPass, TypeOK
    <3> QED
      BY <3>1, <3>2
  <2>4. \A g \in Hosts, t \in Tasks : job'[g][t] \in Locked => job'[g][t] = job[g][t]
    BY <2>3 DEF Locked
  <2>5. RunnerHolds' /\ SingleHolder'
    BY <1>0, <2>1, <2>4 DEF RunnerHolds, SingleHolder
  <2>6. IdleRunsNothing'
    BY <1>0, <2>2, <2>3 DEF IdleRunsNothing
  <2>7. \A g \in Hosts, t \in Tasks :
          job[g][t] \in {"running", "ran", "erred"} => job'[g][t] = job[g][t]
    BY <2>2, <2>3
  <2>8. \A g \in Hosts : pass[g] = "down" => pass'[g] = "down"
    BY <2>1, <2>3
  <2>9. RunningHasRunner'
    BY <1>0, <2>1, <2>7, <2>8 DEF RunningHasRunner, With
  <2> QED
    BY <2>5, <2>6, <2>9
<1>6. ASSUME NEW h \in Hosts, EndPass(h) PROVE Rest'
  <2>1. /\ pass[h] = "busy" /\ \A t \in Tasks : job[h][t] \in {"no", "done"}
        /\ UNCHANGED <<status, lock>>
    BY <1>6 DEF EndPass
  <2>2. /\ \A g \in Hosts : g # h => pass'[g] = pass[g] /\ job'[g] = job[g]
        /\ pass'[h] = "idle"
        /\ \A t \in Tasks : job'[h][t] = "no"
    BY <1>0, <1>6 DEF EndPass, TypeOK, NoJob
  <2>3. \A g \in Hosts, t \in Tasks : job'[g][t] \in Locked => job'[g][t] = job[g][t]
    BY <2>2 DEF Locked
  <2>4. RunnerHolds' /\ SingleHolder'
    BY <1>0, <2>1, <2>3 DEF RunnerHolds, SingleHolder
  <2>5. IdleRunsNothing'
    BY <1>0, <2>2 DEF IdleRunsNothing
  <2>6. \A g \in Hosts, t \in Tasks :
          job[g][t] \in {"running", "ran", "erred"} => job'[g][t] = job[g][t]
    BY <2>1, <2>2
  <2>7. \A g \in Hosts : pass[g] = "down" => pass'[g] = "down"
    BY <2>1, <2>2
  <2>8. RunningHasRunner'
    BY <1>0, <2>1, <2>6, <2>7 DEF RunningHasRunner, With
  <2> QED
    BY <2>4, <2>5, <2>8
<1>7. ASSUME NEW h \in Hosts, Crash(h) PROVE Rest'
  <2>1. UNCHANGED <<status, lock>>
    BY <1>7 DEF Crash
  <2>2. /\ \A g \in Hosts : g # h => pass'[g] = pass[g] /\ job'[g] = job[g]
        /\ pass'[h] = "down"
        /\ \A t \in Tasks : job'[h][t] = "no"
    BY <1>0, <1>7 DEF Crash, TypeOK, NoJob
  <2>3. \A g \in Hosts, t \in Tasks : job'[g][t] \in Locked => job'[g][t] = job[g][t]
    BY <2>2 DEF Locked
  <2>4. RunnerHolds' /\ SingleHolder'
    BY <1>0, <2>1, <2>3 DEF RunnerHolds, SingleHolder
  <2>5. IdleRunsNothing' /\ RunningHasRunner'
    BY <1>0, <2>2 DEF IdleRunsNothing, RunningHasRunner
  <2> QED
    BY <2>4, <2>5
<1>8. ASSUME NEW h \in Hosts, Restart(h) PROVE Rest'
  <2>1. /\ pass[h] = "down" /\ UNCHANGED <<lock, job>>
        /\ pass' = [pass EXCEPT ![h] = "reset"]
        /\ status' = [t \in Tasks |-> IF status[t] = "RUNNING" THEN "PENDING" ELSE status[t]]
    BY <1>8 DEF Restart
  <2>2. RunningHasRunner'
    BY <2>1 DEF RunningHasRunner, With
  <2>3. \A g \in Hosts : pass'[g] # "busy" => pass[g] # "busy"
    BY <1>0, <2>1 DEF TypeOK
  <2> QED
    BY <1>0, <2>1, <2>2, <2>3 DEF RunnerHolds, SingleHolder, IdleRunsNothing
<1>9. ASSUME UNCHANGED vars PROVE Rest'
  <2>1. UNCHANGED <<status, lock, pass, job>>
    BY <1>9 DEF vars
  <2> QED
    BY <1>0, <2>1 DEF RunnerHolds, SingleHolder, IdleRunsNothing, RunningHasRunner, With
<1>10. ASSUME NEW h \in Hosts, Launch(h) PROVE Rest'
  <2>1. /\ pass[h] = "reset" /\ UNCHANGED <<status, lock, job>>
        /\ pass' = [pass EXCEPT ![h] = "idle"]
    BY <1>10 DEF Launch
  <2>2. \A g \in Hosts : /\ pass'[g] # "busy" => pass[g] # "busy"
                         /\ pass[g] = "down" => pass'[g] = "down"
    BY <1>0, <2>1 DEF TypeOK
  <2>3. RunningHasRunner'
    BY <1>0, <2>1, <2>2 DEF RunningHasRunner, With
  <2> QED
    BY <1>0, <2>1, <2>2, <2>3 DEF RunnerHolds, SingleHolder, IdleRunsNothing
<1>11. ASSUME NEW h \in Hosts, Watch(h) PROVE Rest'
  <2>1. UNCHANGED <<status, lock, pass, job>>
    BY <1>11 DEF Watch
  <2> QED
    BY <1>0, <2>1 DEF RunnerHolds, SingleHolder, IdleRunsNothing, RunningHasRunner, With
<1>12. Rest'
  BY <1>2, <1>3, <1>4, <1>5, <1>6, <1>7, <1>8, <1>9, <1>10, <1>11 DEF Next
<1> QED
  BY <1>1, <1>12, NextSavedIsResult DEF AsyncInv

THEOREM AsyncInvariant == Spec => []AsyncInv
BY InitAsyncInv, NextAsyncInv, PTL DEF Spec

(* The state of the asynchronous task framework is always well formed.     *)
THEOREM AsyncTypeCorrect == Spec => []TypeOK
<1>1. AsyncInv => TypeOK
  BY DEF AsyncInv
<1> QED
  BY <1>1, AsyncInvariant, PTL

(* The lock of handleAsyncTasks() is enough: no task runs on two hosts at  *)
(* a time, for any number of hosts, tasks, crashes and restarts.           *)
THEOREM AsyncOneRun == Spec => []OneRunAtATime
<1>1. AsyncInv => OneRunAtATime
  <2> SUFFICES ASSUME RunnerHolds PROVE OneRunAtATime
    BY DEF AsyncInv
  <2> QED
    BY DEF RunnerHolds, OneRunAtATime
<1> QED
  BY <1>1, AsyncInvariant, PTL

(* No task is left RUNNING without a host that finishes it or will reset   *)
(* it when it starts again.                                                *)
THEOREM AsyncRunner == Spec => []RunningHasRunner
<1>1. AsyncInv => RunningHasRunner
  BY DEF AsyncInv
<1> QED
  BY <1>1, AsyncInvariant, PTL

(* The steps of a host on another task leave a task as it is awaited.      *)
LEMMA OtherTaskAwaits ==
  ASSUME TypeOK, NEW h \in Hosts, NEW u \in Tasks, NEW s, Stage(h, u, s),
         NEW t \in Tasks, t # u, Awaited(t), UNCHANGED <<pass, trigger>>
  PROVE  Awaited(t)'
<1>1. \A g \in Hosts : job'[g][t] = job[g][t]
  BY StageMoves
<1> QED
  BY <1>1 DEF Awaited, Awaits

(* A host that works on a task either ends it, or leaves it awaited, or is *)
(* refused the lock of a host that died: a living holder will save it.     *)
LEMMA WorkKeepsAwaited ==
  ASSUME AsyncInv, NEW h \in Hosts, NEW u \in Tasks, Work(h, u),
         NEW t \in Tasks \ Unknown, Awaited(t), status[t] = "PENDING",
         status'[t] = "PENDING"
  PROVE  Awaited(t)' \/ Orphaned(t)
<1>0. TypeOK /\ RunnerHolds /\ SavedIsResult
  BY DEF AsyncInv
<1>1. UNCHANGED <<pass, trigger>>
  BY DEF Work, SkipUnknown, TakeLock, SaveRunning, Run, SaveResult, ReleaseLock
<1>2. \E s : Stage(h, u, s)
  BY DEF Work, SkipUnknown, TakeLock, SaveRunning, Run, SaveResult, ReleaseLock
<1>3. CASE u # t
  BY <1>0, <1>1, <1>2, <1>3, OtherTaskAwaits
<1>4. ASSUME u = t, NEW s \in {"locked", "ran", "erred"}, Stage(h, u, s)
      PROVE  Awaited(t)'
  <2>1. job'[h][t] = s
    BY <1>0, <1>4, StageMoves
  <2> QED
    BY <2>1 DEF Awaited, Awaits
<1>5. CASE u = t /\ TakeLock(h, u) /\ lock[t] # {}
  <2>1. PICK g \in Hosts : g \in lock[t]
    BY <1>0, <1>5 DEF TypeOK
  <2>2. CASE job[g][t] \notin Locked
    BY <2>1, <2>2 DEF Orphaned
  <2>3. CASE job[g][t] \in Locked
    <3>1. Stage(h, t, "done") /\ job[h][t] = "todo"
      BY <1>5 DEF TakeLock
    <3>2. g # h
      BY <2>3, <3>1 DEF Locked
    <3>3. job'[g][t] = job[g][t]
      BY <1>0, <3>1, <3>2, StageMoves
    <3>4. job[g][t] # "saved"
      BY <1>0 DEF SavedIsResult
    <3> QED
      BY <2>3, <3>3, <3>4 DEF Awaited, Awaits, Locked
  <2> QED
    BY <2>2, <2>3
<1>6. CASE u = t /\ TakeLock(h, u) /\ lock[t] = {}
  BY <1>4, <1>6 DEF TakeLock
<1>7. CASE u = t /\ Run(h, u)
  BY <1>4, <1>7 DEF Run
<1>8. CASE u = t /\ (SaveRunning(h, u) \/ SaveResult(h, u))
  <2>1. \E s \in {"RUNNING", "SUCCESS", "ERROR"} : Save(t, s)
    BY <1>8 DEF SaveRunning, SaveResult
  <2>2. status'[t] # "PENDING"
    BY <1>0, <2>1 DEF Save, TypeOK
  <2> QED
    BY <2>2
<1>9. CASE u = t /\ ReleaseLock(h, u)
  BY <1>0, <1>9 DEF ReleaseLock, SavedIsResult
<1>10. CASE u = t /\ SkipUnknown(h, u)
  BY <1>10 DEF SkipUnknown
<1> QED
  BY <1>3, <1>5, <1>6, <1>7, <1>8, <1>9, <1>10 DEF Work

(* A PENDING task is left to the scheduler only when it is created while   *)
(* no change stream is open, by the death of a host, or by the lock of a   *)
(* host that died: for any number of hosts, tasks, crashes and restarts.   *)
THEOREM AsyncNoLostWakeup == Spec => NoLostWakeup
<1> DEFINE Kept(t) ==
             /\ status'[t] = "PENDING"
             /\ status[t] = "PENDING" => Awaited(t)
             => \/ Awaited(t)'
                \/ status[t] = "none" /\ watching = {}
                \/ crashes' # crashes
                \/ Orphaned(t)
<1>1. AsyncInv /\ [Next]_vars => [\A t \in Tasks \ Unknown : Kept(t)]_vars
  <2> SUFFICES ASSUME AsyncInv, Next, NEW t \in Tasks \ Unknown,
                      status'[t] = "PENDING",
                      status[t] = "PENDING" => Awaited(t)
               PROVE  \/ Awaited(t)'
                      \/ status[t] = "none" /\ watching = {}
                      \/ crashes' # crashes
                      \/ Orphaned(t)
    OBVIOUS
  <2>0. TypeOK
    BY DEF AsyncInv
  <2>1. ASSUME NEW u \in Tasks, Create(u), u = t
        PROVE  Awaited(t)' \/ (status[t] = "none" /\ watching = {})
    <3>1. status[t] = "none" /\ \A h \in watching : h \in Hosts /\ trigger'[h]
      BY <2>0, <2>1 DEF Create, TypeOK
    <3>2. CASE watching = {}
      BY <3>1, <3>2
    <3>3. CASE watching # {}
      <4>1. PICK h \in Hosts : trigger'[h]
        BY <3>1, <3>3
      <4>2. Awaits(h, t)'
        BY <4>1 DEF Awaits
      <4> QED
        BY <4>2 DEF Awaited
    <3> QED
      BY <3>2, <3>3
  <2>2. ASSUME NEW u \in Tasks, Create(u), u # t PROVE Awaited(t)'
    <3>1. status'[t] = status[t]
      BY <2>0, <2>2 DEF Create, Save, TypeOK
    <3>2. PICK h \in Hosts : Awaits(h, t)
      BY <3>1 DEF Awaited
    <3>3. trigger[h] => trigger'[h]
      BY <2>0, <2>2 DEF Create, TypeOK
    <3>4. UNCHANGED <<pass, job>>
      BY <2>2 DEF Create
    <3> QED
      BY <3>2, <3>3, <3>4 DEF Awaited, Awaits
  <2>3. ASSUME NEW u \in Tasks, ExpireLock(u) PROVE Awaited(t)'
    BY <2>3 DEF ExpireLock, Awaited, Awaits
  <2>4. ASSUME NEW h \in Hosts, NEW u \in Tasks, Work(h, u)
        PROVE  Awaited(t)' \/ Orphaned(t)
    <3>1. CASE status[t] = "PENDING"
      BY <2>4, <3>1, WorkKeepsAwaited
    <3>2. CASE status[t] # "PENDING"
      <4>1. status' = status \/ \E s \in {"RUNNING", "SUCCESS", "ERROR"} : Save(u, s)
        BY <2>4 DEF Work, SkipUnknown, TakeLock, SaveRunning, Run, SaveResult, ReleaseLock
      <4>2. status'[t] # "PENDING"
        BY <2>0, <3>2, <4>1 DEF Save, TypeOK
      <4> QED
        BY <4>2
    <3> QED
      BY <3>1, <3>2
  <2>5. ASSUME NEW h \in Hosts, StartPass(h) PROVE Awaited(t)'
    <3>1. status[t] = "PENDING" /\ With("PENDING") # {}
      BY <2>5 DEF StartPass, With
    <3>2. job'[h][t] = "todo"
      BY <2>0, <2>5, <3>1 DEF StartPass, TypeOK
    <3> QED
      BY <3>2 DEF Awaited, Awaits
  <2>6. ASSUME NEW h \in Hosts, EndPass(h) PROVE Awaited(t)'
    <3>1. status[t] = "PENDING"
      BY <2>6 DEF EndPass
    <3>2. PICK g \in Hosts : Awaits(g, t)
      BY <3>1 DEF Awaited
    <3>3. CASE g = h
      <4>1. pass[h] = "busy" /\ job[h][t] \in {"no", "done"}
        BY <2>6 DEF EndPass
      <4>2. trigger[h]
        BY <3>2, <3>3, <4>1 DEF Awaits
      <4>3. trigger'[h]
        BY <2>0, <2>6, <4>2 DEF EndPass, TypeOK
      <4> QED
        BY <4>3 DEF Awaited, Awaits
    <3>4. CASE g # h
      <4>1. pass'[g] = pass[g] /\ job'[g] = job[g] /\ trigger'[g] = trigger[g]
        BY <2>0, <2>6, <3>4 DEF EndPass, TypeOK
      <4> QED
        BY <3>2, <4>1 DEF Awaited, Awaits
    <3> QED
      BY <3>3, <3>4
  <2>7. ASSUME NEW h \in Hosts, Crash(h) PROVE crashes' # crashes
    BY <2>0, <2>7, AsyncTasksAssumption DEF Crash, TypeOK
  <2>8. ASSUME NEW h \in Hosts, Restart(h) PROVE Awaited(t)'
    <3>1. pass'[h] = "reset"
      BY <2>0, <2>8 DEF Restart, TypeOK
    <3> QED
      BY <3>1 DEF Awaited, Awaits
  <2>9. ASSUME NEW h \in Hosts, Launch(h) PROVE Awaited(t)'
    <3>1. trigger'[h]
      BY <2>0, <2>9 DEF Launch, TypeOK
    <3> QED
      BY <3>1 DEF Awaited, Awaits
  <2>10. ASSUME NEW h \in Hosts, Watch(h) PROVE Awaited(t)'
    BY <2>10 DEF Watch, Awaited, Awaits
  <2> QED
    BY <2>1, <2>2, <2>3, <2>4, <2>5, <2>6, <2>7, <2>8, <2>9, <2>10 DEF Next
<1> QED
  BY <1>1, AsyncInvariant, PTL DEF Spec, NoLostWakeup
=============================================================================
