---------------------------- MODULE ChargingSession ----------------------------
(***************************************************************************)
(* The life of the charging sessions ("transactions") of one connector:    *)
(* the handlers of OCPPService for the messages of the charging station,   *)
(* the soft stops of the REST API and of CloseTransactionsInProgressTask,  *)
(* and BillTransactionAsyncTask.                                           *)
(*                                                                         *)
(* Every handler reads the charging station and the transaction, works on  *)
(* these copies, and saves each one whole.  Between two database accesses  *)
(* any other flow may run: every read and every save is a step of its own. *)
(*                                                                         *)
(* A flow runs one operation at a time.  One flow is the intent of the     *)
(* per-URL lock of JsonOCPPServer, with nothing else touching the          *)
(* connector; two flows give every overlap of two operations.              *)
(***************************************************************************)
EXTENDS Integers, FiniteSets

CONSTANTS
  Flows,          \* flows that run operations
  MaxTx,          \* bound: how many transactions are started
  MaxTasks        \* bound: billing tasks waiting for one transaction

ASSUME ChargingSessionAssumption ==
  /\ MaxTx \in Nat \ {0}
  /\ MaxTasks \in Nat \ {0}

Ids == 1..MaxTx       \* transaction ids, in the order of their timestamps
None == 0             \* the currentTransactionID of a free connector

VARIABLES
  tx,             \* the documents of the "transactions" collection
  conn,           \* the connector in the "chargingstations" collection
  flow,           \* the operation of each flow, with its copies
  started,        \* how many transaction ids were given
  tasks,          \* BILL_TRANSACTION tasks waiting, per transaction
  bills           \* how often a transaction was billed, up to MaxBills

vars == <<tx, conn, flow, started, tasks, bills>>

(* stop: "no" without the sub-document, else who wrote it.  used: is there *)
(* any consumption?  extra: stop.extraInactivityComputed.  bill: the       *)
(* billing status, "none" before the stop.  A transaction of a roaming     *)
(* user has no billingData; one with withBillingActive = false is UNBILLED *)
(* from the start.                                                         *)
Bills == {"none", "ROAMING", "UNBILLED", "PENDING", "BILLED", "FAILED"}
Stops == {"absent", "no", "station", "soft"}
Doc == [stop : Stops, used : BOOLEAN, extra : BOOLEAN, bill : Bills]
NoDoc == [stop |-> "absent", used |-> FALSE, extra |-> FALSE, bill |-> "none"]

\* "Charging" stands for the statuses other than Available and Preparing.
Statuses == {"Available", "Preparing", "Charging"}
Connector == [tx : Ids \union {None}, status : Statuses]

Steps == {"idle", "cleanup", "delete", "save", "startStation", "meter",
          "meterSave", "stop", "stopStation", "stopSave", "fallback",
          "status", "statusSave", "station", "bill"}

(* id: the transaction; other: lastCheckedTransactionID; soft: isSoftStop; *)
(* given: the transaction softStopTransaction() was called with; tx, conn: *)
(* the copies the handler works on.                                        *)
Flow == [pc : Steps, id : Ids \union {None}, other : Ids \union {None},
         soft : BOOLEAN, given : Doc, tx : Doc, conn : Connector]

FreeConnector == [tx |-> None, status |-> "Available"]
Idle == [pc |-> "idle", id |-> None, other |-> None, soft |-> FALSE,
         given |-> NoDoc, tx |-> NoDoc, conn |-> FreeConnector]

MaxBills == 2         \* bound: more billings of one transaction are not counted
Bump(n, max) == IF n < max THEN n + 1 ELSE n

TypeOK ==
  /\ tx \in [Ids -> Doc]
  /\ conn \in Connector
  /\ flow \in [Flows -> Flow]
  /\ started \in 0..MaxTx
  /\ tasks \in [Ids -> 0..MaxTasks]
  /\ bills \in [Ids -> 0..MaxBills]

Init ==
  /\ tx = [i \in Ids |-> NoDoc]
  /\ conn = FreeConnector
  /\ flow = [f \in Flows |-> Idle]
  /\ started = 0
  /\ tasks = [i \in Ids |-> 0]
  /\ bills = [i \in Ids |-> 0]

Ongoing(i) == tx[i].stop = "no"
Stopped(i) == tx[i].stop \in {"station", "soft"}
Exists(i) == tx[i].stop # "absent"

At(f, step) == flow[f].pc = step
Become(f, r) == flow' = [flow EXCEPT ![f] = r]
GoTo(f, step) == flow' = [flow EXCEPT ![f].pc = step]
Done(f) == Become(f, Idle)

(* An operation on transaction i begins: the charging station is read.     *)
Arrive(f, step, i) ==
  At(f, "idle") /\ Become(f, [Idle EXCEPT !.pc = step, !.id = i, !.conn = conn])

(* The charging station knows the id of a transaction once the start is    *)
(* answered.                                                               *)
Answered(i) == Exists(i) /\ \A g \in Flows : At(g, "startStation") => flow[g].id # i

(* saveTransaction() and saveChargingStation() write the whole copy.       *)
SaveTx(i, doc) == tx' = [tx EXCEPT ![i] = doc]
SaveStation(f) == conn' = flow[f].conn

(* Seeded fault: the connector is cleared with null.                       *)
ClearNull(c) == [c EXCEPT !.tx = -1]
\* clearChargingStationConnectorRuntimeData(), on a copy.
Clear(c) == [c EXCEPT !.tx = None]
\* updateChargingStationConnectorRuntimeDataWithTransaction(), on a copy.
Show(c, i) == [c EXCEPT !.tx = i]

-----------------------------------------------------------------------------
(* handleStartTransaction() up to the authorization; a refusal there       *)
(* changes nothing and is left out.                                        *)
StartMsg(f) ==
  /\ started < MaxTx
  /\ started' = started + 1
  /\ Arrive(f, "cleanup", started + 1)
  /\ UNCHANGED <<tx, conn, tasks, bills>>

(* getActiveTransaction() finds the transaction without a stop, provided   *)
(* there is exactly one; the loop ends when it finds the same one again.   *)
NextActive(f) ==
  {a \in Ids : {i \in Ids : Ongoing(i)} = {a} /\ a # flow[f].other}

(* One turn of processExistingTransaction().  It passes headers without    *)
(* tenant and chargingStation to handleStopTransaction(), which refuses    *)
(* them: a transaction with consumption is looked at and left as it is.    *)
Cleanup(f) ==
  /\ At(f, "cleanup")
  /\ \/ NextActive(f) = {} /\ GoTo(f, "save")
     \/ \E a \in NextActive(f) :
          Become(f, [flow[f] EXCEPT !.other = a,
                                    !.pc = IF tx[a].used THEN "cleanup" ELSE "delete"])
  /\ UNCHANGED <<tx, conn, started, tasks, bills>>

DeleteUnused(f) ==
  /\ At(f, "delete")
  /\ SaveTx(flow[f].other, NoDoc)
  /\ Become(f, [flow[f] EXCEPT !.pc = "cleanup", !.conn = Clear(@)])
  /\ UNCHANGED <<conn, started, tasks, bills>>

(* The billing or the roaming partner may refuse the start, after the      *)
(* cleanup; otherwise the transaction is saved.                            *)
StartSave(f) ==
  /\ At(f, "save")
  /\ \/ Done(f) /\ UNCHANGED tx
     \/ \E b \in {"none", "ROAMING", "UNBILLED"} :
          /\ SaveTx(flow[f].id, [NoDoc EXCEPT !.stop = "no", !.bill = b])
          /\ Become(f, [flow[f] EXCEPT !.pc = "startStation",
                                       !.conn = Show(@, flow[f].id)])
  /\ UNCHANGED <<conn, started, tasks, bills>>

(* The last save of several handlers.                                      *)
EndWithStation(f) ==
  /\ At(f, "station") \/ At(f, "startStation")
  /\ SaveStation(f)
  /\ Done(f)
  /\ UNCHANGED <<tx, started, tasks, bills>>

-----------------------------------------------------------------------------
(* handleMeterValues(), in three steps.                                    *)
MeterMsg(f, i) ==
  /\ Answered(i)
  /\ Arrive(f, "meter", i)
  /\ UNCHANGED <<tx, conn, started, tasks, bills>>

(* A transaction that is gone or stopped gets a remote stop, not a save.   *)
MeterRead(f) ==
  /\ At(f, "meter")
  /\ IF Ongoing(flow[f].id)
     THEN Become(f, [flow[f] EXCEPT !.pc = "meterSave", !.tx = tx[flow[f].id]])
     ELSE Done(f)
  /\ UNCHANGED <<tx, conn, started, tasks, bills>>

MeterSave(f) ==
  /\ At(f, "meterSave")
  /\ \E u \in {flow[f].tx.used, TRUE} :
       SaveTx(flow[f].id, [flow[f].tx EXCEPT !.used = u])
  /\ Become(f, [flow[f] EXCEPT !.pc = "station", !.conn = Show(@, flow[f].id)])
  /\ UNCHANGED <<conn, started, tasks, bills>>

-----------------------------------------------------------------------------
(* handleStopTransaction() for a message of the charging station...        *)
StopMsg(f, i) ==
  /\ Answered(i)
  /\ Arrive(f, "stop", i)
  /\ UNCHANGED <<tx, conn, started, tasks, bills>>

(* ...and through softStopTransaction().                                   *)
SoftStop(f, i) ==
  /\ At(f, "idle")
  /\ Ongoing(i)
  /\ Become(f, [Idle EXCEPT !.pc = "stop", !.id = i, !.soft = TRUE,
                            !.given = tx[i], !.conn = conn])
  /\ UNCHANGED <<tx, conn, started, tasks, bills>>

(* CloseTransactionsInProgressTask takes the ongoing transactions that     *)
(* their connector does not show.                                          *)
CloseMsg(f, i) == conn.tx # i /\ SoftStop(f, i)

(* transactionSoftStop() of the REST API also stops the transaction shown  *)
(* by the connector of an inactive charging station, so any ongoing one.   *)
RestSoftStop(f, i) == SoftStop(f, i)

(* For a stopped one it clears the connector that still shows it.          *)
RestClear(f, i) ==
  /\ At(f, "idle")
  /\ Stopped(i)
  /\ conn.tx = i
  /\ Become(f, [Idle EXCEPT !.pc = "station", !.id = i, !.conn = Clear(conn)])
  /\ UNCHANGED <<tx, conn, started, tasks, bills>>

(* Seeded fault: a soft stop gives up when the stop is refused.            *)
RefuseSoft(f) == Done(f)
(* handleStopTransaction() answers INVALID.                                *)
Refuse(f) == IF flow[f].soft THEN GoTo(f, "fallback") ELSE Done(f)

(* Seeded fault: a transaction that is already stopped is stopped again.   *)
StopReadAgain(f) ==
  /\ At(f, "stop")
  /\ \/ Exists(flow[f].id)
        /\ Become(f, [flow[f] EXCEPT !.pc = "stopStation", !.tx = tx[flow[f].id],
                                     !.conn = Clear(@)])
     \/ Refuse(f)
  /\ UNCHANGED <<tx, conn, started, tasks, bills>>

(* Seeded fault: the connector is not cleared.                             *)
StopReadShown(f) ==
  /\ At(f, "stop")
  /\ \/ Ongoing(flow[f].id)
        /\ Become(f, [flow[f] EXCEPT !.pc = "stopStation", !.tx = tx[flow[f].id]])
     \/ Refuse(f)
  /\ UNCHANGED <<tx, conn, started, tasks, bills>>

(* The transaction is read and, if it is ongoing and the tag authorized,   *)
(* the copy of the connector is cleared.                                   *)
StopRead(f) ==
  /\ At(f, "stop")
  /\ \/ Ongoing(flow[f].id)
        /\ Become(f, [flow[f] EXCEPT !.pc = "stopStation", !.tx = tx[flow[f].id],
                                     !.conn = Clear(@)])
     \/ Refuse(f)
  /\ UNCHANGED <<tx, conn, started, tasks, bills>>

StopStation(f) ==
  /\ At(f, "stopStation")
  /\ SaveStation(f)
  /\ GoTo(f, "stopSave")
  /\ UNCHANGED <<tx, started, tasks, bills>>

(* BillingFacade.processStopTransaction(): too short or too low a session  *)
(* is not billed.                                                          *)
StopBill(b) == IF b \in {"ROAMING", "UNBILLED"} THEN {b} ELSE {"PENDING", "UNBILLED"}

(* The roaming partner may fail the stop of the session: the exception     *)
(* leaves the charging station saved and the transaction not.              *)
StopSave(f) ==
  /\ At(f, "stopSave")
  /\ \/ flow[f].tx.bill = "ROAMING" /\ Refuse(f) /\ UNCHANGED tx
     \/ /\ \E u \in {flow[f].tx.used, TRUE}, b \in StopBill(flow[f].tx.bill) :
             SaveTx(flow[f].id, [stop |-> IF flow[f].soft THEN "soft" ELSE "station",
                                 used |-> u, extra |-> flow[f].soft, bill |-> b])
        /\ Done(f)
  /\ UNCHANGED <<conn, started, tasks, bills>>

(* The stop was refused: softStopTransaction() writes it into the          *)
(* transaction it was given, without billing, and leaves the connector.    *)
Fallback(f) ==
  /\ At(f, "fallback")
  /\ SaveTx(flow[f].id, [flow[f].given EXCEPT !.stop = "soft", !.extra = TRUE])
  /\ Done(f)
  /\ UNCHANGED <<conn, started, tasks, bills>>

-----------------------------------------------------------------------------
(* handleStatusNotification().  A notification with the status of the      *)
(* connector is ignored only when its info and its error codes are those   *)
(* of the connector too, so it may be handled as well.                     *)
StatusMsg(f, s) ==
  /\ At(f, "idle")
  /\ Become(f, [Idle EXCEPT !.pc = IF s = "Charging" THEN "station" ELSE "status",
                            !.conn = [conn EXCEPT !.status = s]])
  /\ UNCHANGED <<tx, conn, started, tasks, bills>>

\* getLastTransactionFromChargingStation(): the last one, if there is one.
Last == {i \in Ids : Exists(i) /\ \A j \in Ids : Exists(j) => j <= i}

(* Seeded fault: a billed transaction is billed again.                     *)
SettledUnbilled == {"ROAMING", "UNBILLED"}
(* BillingFacade.processEndTransaction(): these are left as they are, any  *)
(* other transaction gets a billing task and becomes PENDING.              *)
Settled == {"ROAMING", "UNBILLED", "BILLED"}

(* checkAndUpdateLastCompletedTransactionFromStatusNotification().  The    *)
(* billing task exists before the transaction is saved.  The CDR of a      *)
(* roaming session may fail: then nothing of the transaction is saved and  *)
(* the connector is not cleared.                                           *)
StatusRead(f) ==
  /\ At(f, "status")
  /\ \/ Last = {} /\ GoTo(f, "station") /\ UNCHANGED tasks
     \/ \E i \in Last :
          /\ Ongoing(i)
          /\ Become(f, [flow[f] EXCEPT !.pc = "station", !.conn = Clear(@)])
          /\ UNCHANGED tasks
     \/ \E i \in Last :
          /\ tx[i].bill = "ROAMING" /\ Stopped(i)
          /\ GoTo(f, "station")
          /\ UNCHANGED tasks
     \/ \E i \in Last :
          /\ Stopped(i)
          /\ Become(f, [flow[f] EXCEPT
               !.pc = "statusSave", !.id = i, !.conn = Clear(@),
               !.tx = [tx[i] EXCEPT !.extra = TRUE,
                                    !.bill = IF @ \in Settled THEN @ ELSE "PENDING"]])
          /\ tasks' = [tasks EXCEPT ![i] =
               IF tx[i].bill \in Settled THEN @ ELSE Bump(@, MaxTasks)]
  /\ UNCHANGED <<tx, conn, started, bills>>

(* Seeded fault: the transaction is not saved.                             *)
StatusSaveNot(f) ==
  /\ At(f, "statusSave")
  /\ GoTo(f, "station")
  /\ UNCHANGED <<tx, conn, started, tasks, bills>>

StatusSave(f) ==
  /\ At(f, "statusSave")
  /\ SaveTx(flow[f].id, flow[f].tx)
  /\ GoTo(f, "station")
  /\ UNCHANGED <<conn, started, tasks, bills>>

-----------------------------------------------------------------------------
(* Seeded fault: a transaction is billed whatever its billing status.      *)
BillStartAny(f, i) ==
  /\ At(f, "idle")
  /\ tasks[i] > 0
  /\ tasks' = [tasks EXCEPT ![i] = @ - 1]
  /\ Become(f, [Idle EXCEPT !.pc = "bill", !.id = i])
  /\ UNCHANGED <<tx, conn, started, bills>>

(* BillTransactionAsyncTask: with the lock of the user, taken to be the    *)
(* same for all transactions, and for a PENDING transaction only; else the *)
(* error is swallowed, and the task is spent all the same.                 *)
BillStart(f, i) ==
  /\ At(f, "idle")
  /\ tasks[i] > 0
  /\ tasks' = [tasks EXCEPT ![i] = @ - 1]
  /\ IF tx[i].bill = "PENDING" /\ \A g \in Flows : ~At(g, "bill")
     THEN Become(f, [Idle EXCEPT !.pc = "bill", !.id = i])
     ELSE UNCHANGED flow
  /\ UNCHANGED <<tx, conn, started, bills>>

(* billTransaction() succeeds or fails, and saveTransactionBillingData()   *)
(* sets the status only, in the document if it is still there.             *)
BillDone(f) ==
  /\ At(f, "bill")
  /\ \E r \in {"BILLED", "FAILED"} :
       /\ tx' = IF Exists(flow[f].id) THEN [tx EXCEPT ![flow[f].id].bill = r] ELSE tx
       /\ bills' = [bills EXCEPT ![flow[f].id] =
                      IF r = "BILLED" THEN Bump(@, MaxBills) ELSE @]
  /\ Done(f)
  /\ UNCHANGED <<conn, started, tasks>>

Continue(f) ==
  \/ Cleanup(f) \/ DeleteUnused(f) \/ StartSave(f) \/ EndWithStation(f)
  \/ MeterRead(f) \/ MeterSave(f)
  \/ StopRead(f) \/ StopStation(f) \/ StopSave(f) \/ Fallback(f)
  \/ StatusRead(f) \/ StatusSave(f) \/ BillDone(f)

Next ==
  \E f \in Flows :
    \/ StartMsg(f) \/ Continue(f)
    \/ \E s \in Statuses : StatusMsg(f, s)
    \/ \E i \in Ids :
         \/ MeterMsg(f, i) \/ StopMsg(f, i) \/ BillStart(f, i)
         \/ CloseMsg(f, i) \/ RestSoftStop(f, i) \/ RestClear(f, i)

Spec == Init /\ [][Next]_vars

(* Awaits return, so what began ends.  The scheduler runs the close task   *)
(* again and again, whatever messages arrive in between.  Nobody has to    *)
(* send a message or to execute a billing task.                            *)
FairSpec ==
  /\ Spec
  /\ \A f \in Flows : WF_vars(Continue(f))
  /\ \A f \in Flows, i \in Ids : SF_vars(CloseMsg(f, i))

-----------------------------------------------------------------------------
Quiet == \A f \in Flows : At(f, "idle")

(* checkAuthorizeStopTransactionAndGetUsers() refuses the stop of a        *)
(* transaction that "has already been stopped": once written, a stop is    *)
(* neither undone nor written over by another.                             *)
StopIsFinal ==
  [][\A i \in Ids : Stopped(i) => tx'[i].stop = tx[i].stop]_tx

(* When every handler is done, the connector does not show a transaction   *)
(* that its charging station has stopped: handleStopTransaction() freed it *)
(* and no later save brought it back.                                      *)
ConnectorShowsLive ==
  Quiet => \A i \in Ids : conn.tx = i => tx[i].stop # "station"

(* Any number of status notifications, tasks and stops bill a transaction  *)
(* once: the status check of BillTransactionAsyncTask.                     *)
BilledOnce == \A i \in Ids : bills[i] <= 1

(* checkAndBillTransaction() means to "make sure the Extra Inactivity is   *)
(* already known": a transaction is never billed before.                   *)
BilledComplete ==
  \A i \in Ids : tx[i].bill = "BILLED" => Stopped(i) /\ tx[i].extra

(* A start holds an id that has no document yet.                           *)
Starting == {"cleanup", "delete", "save"}
Starts(r, i) == r.pc \in Starting /\ r.id = i

(* The stage of a transaction in its life: in the database, except for one *)
(* without a document, which is new until the start that has its id ends.  *)
Stage(i) ==
  CASE Ongoing(i) -> "ongoing"
    [] ~Exists(i) -> IF i > started \/ \E f \in Flows : Starts(flow[f], i)
                     THEN "new" ELSE "gone"
    [] OTHER -> IF tx[i].bill = "BILLED" THEN "billed"
                ELSE IF tx[i].extra THEN "complete" ELSE "stopped"

(* Whatever copies they save, the handlers together take each transaction  *)
(* through SessionLifecycle: nothing deleted comes back, no stop, extra    *)
(* inactivity or billing is taken back, nothing is billed before.          *)
Lifecycle == INSTANCE SessionLifecycle WITH status <- [i \in Ids |-> Stage(i)]
ImplementsLifecycle == Lifecycle!Spec

(* handleStartTransaction() cleans up the ongoing transaction: when every  *)
(* handler is done, a connector has at most one ongoing transaction.       *)
OneOngoing == Quiet => \A i, j \in Ids : Ongoing(i) /\ Ongoing(j) => i = j

(* An ongoing transaction that its connector no longer shows does not stay *)
(* open for ever, even if its stop is refused or fails half-way: the       *)
(* purpose of CloseTransactionsInProgressTask.                             *)
Orphan(i) == Ongoing(i) /\ conn.tx # i
OrphanClosed == \A i \in Ids : Orphan(i) ~> ~Orphan(i)
=============================================================================
