------------------------ MODULE ChargingSessionProofs ------------------------
(***************************************************************************)
(* Theorems about ChargingSession, for any number of flows, transactions   *)
(* and billing tasks.                                                      *)
(***************************************************************************)
EXTENDS ChargingSession, TLAPS

(* The transaction of an operation is a real one: only an idle flow and    *)
(* the steps that save nothing but the charging station have none.         *)
Aimed ==
  {r \in Flow : /\ r.pc \notin {"idle", "status", "station"} => r.id \in Ids
                /\ r.pc = "delete" => r.other \in Ids}

TypeInv == TypeOK /\ flow \in [Flows -> Aimed]

(* A flow goes on with a record, or to a step, of the right type.          *)
LEMMA BecomeType ==
  ASSUME NEW f \in Flows, NEW r \in Aimed, flow \in [Flows -> Aimed], Become(f, r)
  PROVE  flow' \in [Flows -> Aimed]
BY DEF Become

LEMMA GoToType ==
  ASSUME NEW f \in Flows, NEW step \in Steps \ {"delete"}, flow \in [Flows -> Aimed],
         step = "station" \/ flow[f].id \in Ids, GoTo(f, step)
  PROVE  flow' \in [Flows -> Aimed]
BY DEF GoTo, Aimed, Flow

LEMMA IdleType == Idle \in Aimed
BY DEF Idle, Aimed, Flow, Steps, Ids, None, NoDoc, Doc, Stops, Bills,
       FreeConnector, Connector, Statuses

LEMMA DoneType ==
  ASSUME NEW f \in Flows, flow \in [Flows -> Aimed], Done(f)
  PROVE  flow' \in [Flows -> Aimed]
BY IdleType, BecomeType DEF Done

LEMMA ClearType ==
  ASSUME NEW c \in Connector
  PROVE  Clear(c) \in Connector
BY DEF Clear, Connector

LEMMA ShowType ==
  ASSUME NEW c \in Connector, NEW i \in Ids
  PROVE  Show(c, i) \in Connector
BY DEF Show, Connector

LEMMA AimedFlow ==
  ASSUME TypeInv, NEW f \in Flows
  PROVE  /\ flow[f] \in Flow
         /\ flow[f].pc \notin {"idle", "status", "station"} => flow[f].id \in Ids
         /\ flow[f].pc = "delete" => flow[f].other \in Ids
BY DEF TypeInv, Aimed

(* A refused stop ends the operation or leads to the fallback.             *)
LEMMA RefuseType ==
  ASSUME NEW f \in Flows, flow \in [Flows -> Aimed], flow[f].id \in Ids, Refuse(f)
  PROVE  flow' \in [Flows -> Aimed]
BY DoneType, GoToType DEF Refuse, Steps

(* Types follow from the aims.                                             *)
LEMMA TypeFromAims ==
  ASSUME tx' \in [Ids -> Doc], conn' \in Connector, flow' \in [Flows -> Aimed],
         started' \in 0..MaxTx, tasks' \in [Ids -> 0..MaxTasks],
         bills' \in [Ids -> 0..MaxBills]
  PROVE  TypeInv'
BY DEF TypeInv, TypeOK, Aimed

-----------------------------------------------------------------------------
(* The steps of a start, of meter values and of the other handlers keep    *)
(* the documents and the copies well-formed.                               *)
LEMMA StartType ==
  ASSUME TypeInv, NEW f \in Flows,
         StartMsg(f) \/ Cleanup(f) \/ DeleteUnused(f) \/ StartSave(f) \/ EndWithStation(f)
  PROVE  TypeInv'
<1> USE DEF TypeInv, TypeOK
<1>1. CASE StartMsg(f)
  <2>1. started' \in Ids /\ started' \in 0..MaxTx
    BY <1>1, ChargingSessionAssumption DEF StartMsg, Ids
  <2>2. [Idle EXCEPT !.pc = "cleanup", !.id = started + 1, !.conn = conn] \in Aimed
    BY <1>1, <2>1, IdleType DEF StartMsg, Aimed, Flow, Steps
  <2> QED BY <1>1, <2>1, <2>2, BecomeType, TypeFromAims DEF StartMsg, Arrive
<1>2. CASE Cleanup(f)
  <2>1. flow[f].id \in Ids /\ flow[f] \in Flow
    BY <1>2, AimedFlow DEF Cleanup, At
  <2>2. CASE GoTo(f, "save")
    BY <1>2, <2>1, <2>2, GoToType, TypeFromAims DEF Cleanup, Steps
  <2>3. CASE \E a \in NextActive(f) :
          Become(f, [flow[f] EXCEPT !.other = a,
                                    !.pc = IF tx[a].used THEN "cleanup" ELSE "delete"])
    <3>1. PICK a \in Ids :
            Become(f, [flow[f] EXCEPT !.other = a,
                                      !.pc = IF tx[a].used THEN "cleanup" ELSE "delete"])
      BY <2>3 DEF NextActive
    <3>2. [flow[f] EXCEPT !.other = a,
                          !.pc = IF tx[a].used THEN "cleanup" ELSE "delete"] \in Aimed
      BY <2>1 DEF Aimed, Flow, Steps
    <3> QED BY <1>2, <3>1, <3>2, BecomeType, TypeFromAims DEF Cleanup
  <2> QED BY <1>2, <2>2, <2>3 DEF Cleanup
<1>3. CASE DeleteUnused(f)
  <2>1. tx' \in [Ids -> Doc]
    BY <1>3 DEF DeleteUnused, SaveTx, NoDoc, Doc, Stops, Bills
  <2>2. flow[f].id \in Ids /\ flow[f] \in Flow
    BY <1>3, AimedFlow DEF DeleteUnused, At
  <2>3. [flow[f] EXCEPT !.pc = "cleanup", !.conn = Clear(@)] \in Aimed
    BY <2>2, ClearType DEF Aimed, Flow, Steps
  <2> QED BY <1>3, <2>1, <2>3, BecomeType, TypeFromAims DEF DeleteUnused
<1>4. CASE StartSave(f)
  <2>1. flow[f].id \in Ids /\ flow[f] \in Flow
    BY <1>4, AimedFlow DEF StartSave, At
  <2>2. CASE Done(f) /\ UNCHANGED tx
    BY <1>4, <2>2, DoneType, TypeFromAims DEF StartSave
  <2>3. ASSUME NEW b \in {"none", "ROAMING", "UNBILLED"},
               SaveTx(flow[f].id, [NoDoc EXCEPT !.stop = "no", !.bill = b]),
               Become(f, [flow[f] EXCEPT !.pc = "startStation",
                                         !.conn = Show(@, flow[f].id)])
        PROVE  TypeInv'
    <3>1. tx' \in [Ids -> Doc]
      BY <2>3 DEF SaveTx, NoDoc, Doc, Stops, Bills
    <3>2. Show(flow[f].conn, flow[f].id) \in Connector
      BY <2>1, ShowType DEF Flow
    <3>3. [flow[f] EXCEPT !.pc = "startStation", !.conn = Show(@, flow[f].id)] \in Aimed
      BY <2>1, <3>2 DEF Aimed, Flow, Steps
    <3> QED BY <1>4, <2>3, <3>1, <3>3, BecomeType, TypeFromAims DEF StartSave
  <2> QED BY <1>4, <2>2, <2>3 DEF StartSave
<1>5. CASE EndWithStation(f)
  <2>1. conn' \in Connector
    BY <1>5 DEF EndWithStation, SaveStation, Flow
  <2> QED BY <1>5, <2>1, DoneType, TypeFromAims DEF EndWithStation
<1> QED BY <1>1, <1>2, <1>3, <1>4, <1>5

LEMMA MeterType ==
  ASSUME TypeInv, NEW f \in Flows,
         MeterRead(f) \/ MeterSave(f) \/ \E i \in Ids : MeterMsg(f, i)
  PROVE  TypeInv'
<1> USE DEF TypeInv, TypeOK
<1>1. ASSUME NEW i \in Ids, MeterMsg(f, i) PROVE TypeInv'
  <2>1. [Idle EXCEPT !.pc = "meter", !.id = i, !.conn = conn] \in Aimed
    BY IdleType DEF Aimed, Flow, Steps
  <2> QED BY <1>1, <2>1, BecomeType, TypeFromAims DEF MeterMsg, Arrive
<1>2. CASE MeterRead(f)
  <2>1. flow[f].id \in Ids /\ flow[f] \in Flow
    BY <1>2, AimedFlow DEF MeterRead, At
  <2>2. [flow[f] EXCEPT !.pc = "meterSave", !.tx = tx[flow[f].id]] \in Aimed
    BY <2>1 DEF Aimed, Flow, Steps
  <2> QED BY <1>2, <2>2, DoneType, BecomeType, TypeFromAims DEF MeterRead
<1>3. CASE MeterSave(f)
  <2>1. flow[f].id \in Ids /\ flow[f] \in Flow
    BY <1>3, AimedFlow DEF MeterSave, At
  <2>2. PICK u \in BOOLEAN : SaveTx(flow[f].id, [flow[f].tx EXCEPT !.used = u])
    BY <1>3, <2>1 DEF MeterSave, Flow, Doc
  <2>3. tx' \in [Ids -> Doc]
    BY <2>1, <2>2 DEF SaveTx, Flow, Doc
  <2>4. Show(flow[f].conn, flow[f].id) \in Connector
    BY <2>1, ShowType DEF Flow
  <2>5. [flow[f] EXCEPT !.pc = "station", !.conn = Show(@, flow[f].id)] \in Aimed
    BY <2>1, <2>4 DEF Aimed, Flow, Steps
  <2> QED BY <1>3, <2>3, <2>5, BecomeType, TypeFromAims DEF MeterSave
<1> QED BY <1>1, <1>2, <1>3

(* So do the steps of a stop, soft or not...                               *)
LEMMA StopType ==
  ASSUME TypeInv, NEW f \in Flows,
         \/ StopRead(f) \/ StopStation(f) \/ StopSave(f) \/ Fallback(f)
         \/ \E i \in Ids : StopMsg(f, i) \/ SoftStop(f, i) \/ RestClear(f, i)
  PROVE  TypeInv'
<1> USE DEF TypeInv, TypeOK
<1>1. ASSUME NEW i \in Ids, StopMsg(f, i) PROVE TypeInv'
  <2>1. [Idle EXCEPT !.pc = "stop", !.id = i, !.conn = conn] \in Aimed
    BY IdleType DEF Aimed, Flow, Steps
  <2> QED BY <1>1, <2>1, BecomeType, TypeFromAims DEF StopMsg, Arrive
<1>2. ASSUME NEW i \in Ids, SoftStop(f, i) PROVE TypeInv'
  <2>1. [Idle EXCEPT !.pc = "stop", !.id = i, !.soft = TRUE,
                     !.given = tx[i], !.conn = conn] \in Aimed
    BY IdleType DEF Aimed, Flow, Steps
  <2> QED BY <1>2, <2>1, BecomeType, TypeFromAims DEF SoftStop
<1>3. ASSUME NEW i \in Ids, RestClear(f, i) PROVE TypeInv'
  <2>1. [Idle EXCEPT !.pc = "station", !.id = i, !.conn = Clear(conn)] \in Aimed
    BY IdleType, ClearType DEF Aimed, Flow, Steps
  <2> QED BY <1>3, <2>1, BecomeType, TypeFromAims DEF RestClear
<1>4. CASE StopRead(f)
  <2>1. flow[f].id \in Ids /\ flow[f] \in Flow
    BY <1>4, AimedFlow DEF StopRead, At
  <2>2. [flow[f] EXCEPT !.pc = "stopStation", !.tx = tx[flow[f].id],
                        !.conn = Clear(@)] \in Aimed
    BY <2>1, ClearType DEF Aimed, Flow, Steps
  <2> QED BY <1>4, <2>1, <2>2, RefuseType, BecomeType, TypeFromAims DEF StopRead
<1>5. CASE StopStation(f)
  <2>1. flow[f].id \in Ids /\ flow[f] \in Flow
    BY <1>5, AimedFlow DEF StopStation, At
  <2>2. conn' \in Connector
    BY <1>5, <2>1 DEF StopStation, SaveStation, Flow
  <2> QED BY <1>5, <2>1, <2>2, GoToType, TypeFromAims DEF StopStation, Steps
<1>6. CASE StopSave(f)
  <2>1. flow[f].id \in Ids /\ flow[f] \in Flow
    BY <1>6, AimedFlow DEF StopSave, At
  <2>2. CASE flow[f].tx.bill = "ROAMING" /\ Refuse(f) /\ UNCHANGED tx
    BY <1>6, <2>1, <2>2, RefuseType, TypeFromAims DEF StopSave
  <2>3. ASSUME NEW u \in {flow[f].tx.used, TRUE}, NEW b \in StopBill(flow[f].tx.bill),
               SaveTx(flow[f].id, [stop |-> IF flow[f].soft THEN "soft" ELSE "station",
                                   used |-> u, extra |-> flow[f].soft, bill |-> b]),
               Done(f)
        PROVE  TypeInv'
    <3>1. u \in BOOLEAN /\ b \in Bills /\ flow[f].soft \in BOOLEAN
      BY <2>1 DEF Flow, Doc, StopBill, Bills
    <3>2. tx' \in [Ids -> Doc]
      BY <2>3, <3>1 DEF SaveTx, Doc, Stops
    <3> QED BY <1>6, <2>3, <3>2, DoneType, TypeFromAims DEF StopSave
  <2> QED BY <1>6, <2>2, <2>3 DEF StopSave
<1>7. CASE Fallback(f)
  <2>1. flow[f] \in Flow
    BY <1>7, AimedFlow
  <2>2. tx' \in [Ids -> Doc]
    BY <1>7, <2>1 DEF Fallback, SaveTx, Flow, Doc, Stops
  <2> QED BY <1>7, <2>2, DoneType, TypeFromAims DEF Fallback
<1> QED BY <1>1, <1>2, <1>3, <1>4, <1>5, <1>6, <1>7

(* ...of a status notification, and of the billing task.                   *)
LEMMA StatusType ==
  ASSUME TypeInv, NEW f \in Flows,
         StatusRead(f) \/ StatusSave(f) \/ \E s \in Statuses : StatusMsg(f, s)
  PROVE  TypeInv'
<1> USE DEF TypeInv, TypeOK
<1>1. ASSUME NEW s \in Statuses, StatusMsg(f, s) PROVE TypeInv'
  <2>1. [conn EXCEPT !.status = s] \in Connector
    BY DEF Connector
  <2>2. [Idle EXCEPT !.pc = IF s = "Charging" THEN "station" ELSE "status",
                     !.conn = [conn EXCEPT !.status = s]] \in Aimed
    BY <2>1, IdleType DEF Aimed, Flow, Steps
  <2> QED BY <1>1, <2>2, BecomeType, TypeFromAims DEF StatusMsg
<1>2. CASE StatusRead(f)
  <2>1. flow[f] \in Flow
    BY AimedFlow
  <2>2. [flow[f] EXCEPT !.pc = "station", !.conn = Clear(@)] \in Aimed
    BY <2>1, ClearType DEF Aimed, Flow, Steps
  <2>3. CASE GoTo(f, "station") /\ UNCHANGED tasks
    BY <1>2, <2>3, GoToType, TypeFromAims DEF StatusRead, Steps
  <2>4. CASE Become(f, [flow[f] EXCEPT !.pc = "station", !.conn = Clear(@)])
             /\ UNCHANGED tasks
    BY <1>2, <2>2, <2>4, BecomeType, TypeFromAims DEF StatusRead
  <2>5. ASSUME NEW i \in Ids,
               Become(f, [flow[f] EXCEPT
                 !.pc = "statusSave", !.id = i, !.conn = Clear(@),
                 !.tx = [tx[i] EXCEPT !.extra = TRUE,
                                      !.bill = IF @ \in Settled THEN @ ELSE "PENDING"]]),
               tasks' = [tasks EXCEPT ![i] =
                 IF tx[i].bill \in Settled THEN @ ELSE Bump(@, MaxTasks)]
        PROVE  TypeInv'
    <3>1. [tx[i] EXCEPT !.extra = TRUE,
                        !.bill = IF @ \in Settled THEN @ ELSE "PENDING"] \in Doc
      BY DEF Doc, Bills
    <3>2. [flow[f] EXCEPT
            !.pc = "statusSave", !.id = i, !.conn = Clear(@),
            !.tx = [tx[i] EXCEPT !.extra = TRUE,
                                 !.bill = IF @ \in Settled THEN @ ELSE "PENDING"]] \in Aimed
      BY <2>1, <3>1, ClearType DEF Aimed, Flow, Steps
    <3>3. tasks' \in [Ids -> 0..MaxTasks]
      BY <2>5, ChargingSessionAssumption DEF Bump
    <3> QED BY <1>2, <2>5, <3>2, <3>3, BecomeType, TypeFromAims DEF StatusRead
  <2> QED BY <1>2, <2>3, <2>4, <2>5 DEF StatusRead, Last
<1>3. CASE StatusSave(f)
  <2>1. flow[f].id \in Ids /\ flow[f] \in Flow
    BY <1>3, AimedFlow DEF StatusSave, At
  <2>2. tx' \in [Ids -> Doc]
    BY <1>3, <2>1 DEF StatusSave, SaveTx, Flow
  <2> QED BY <1>3, <2>2, GoToType, TypeFromAims DEF StatusSave, Steps
<1> QED BY <1>1, <1>2, <1>3

LEMMA BillType ==
  ASSUME TypeInv, NEW f \in Flows, BillDone(f) \/ \E i \in Ids : BillStart(f, i)
  PROVE  TypeInv'
<1> USE DEF TypeInv, TypeOK
<1>1. ASSUME NEW i \in Ids, BillStart(f, i) PROVE TypeInv'
  <2>1. [Idle EXCEPT !.pc = "bill", !.id = i] \in Aimed
    BY IdleType DEF Aimed, Flow, Steps
  <2>2. flow' \in [Flows -> Aimed]
    <3>1. Become(f, [Idle EXCEPT !.pc = "bill", !.id = i]) \/ UNCHANGED flow
      BY <1>1 DEF BillStart
    <3> QED BY <2>1, <3>1, BecomeType
  <2>3. tasks' \in [Ids -> 0..MaxTasks]
    <3>1. tasks[i] > 0 /\ tasks' = [tasks EXCEPT ![i] = tasks[i] - 1]
      BY <1>1 DEF BillStart
    <3>2. tasks[i] - 1 \in 0..MaxTasks
      BY <3>1, ChargingSessionAssumption
    <3> QED BY <3>1, <3>2
  <2> QED BY <1>1, <2>2, <2>3, TypeFromAims DEF BillStart
<1>2. CASE BillDone(f)
  <2>1. flow[f].id \in Ids
    BY <1>2, AimedFlow DEF BillDone, At
  <2>2. tx' \in [Ids -> Doc]
    BY <1>2, <2>1 DEF BillDone, Doc, Bills
  <2>3. bills' \in [Ids -> 0..MaxBills]
    BY <1>2, <2>1 DEF BillDone, Bump, MaxBills
  <2> QED BY <1>2, <2>2, <2>3, DoneType, TypeFromAims DEF BillDone
<1> QED BY <1>1, <1>2

LEMMA TypeStep == TypeInv /\ [Next]_vars => TypeInv'
<1> SUFFICES ASSUME TypeInv, [Next]_vars PROVE TypeInv'
  OBVIOUS
<1>1. CASE UNCHANGED vars
  BY <1>1 DEF vars, TypeInv, TypeOK
<1>2. ASSUME NEW f \in Flows, StartMsg(f) \/ Continue(f) PROVE TypeInv'
  BY <1>2, StartType, MeterType, StopType, StatusType, BillType DEF Continue
<1>3. ASSUME NEW f \in Flows, NEW s \in Statuses, StatusMsg(f, s) PROVE TypeInv'
  BY <1>3, StatusType
<1>4. ASSUME NEW f \in Flows, NEW i \in Ids,
             \/ MeterMsg(f, i) \/ StopMsg(f, i) \/ BillStart(f, i)
             \/ CloseMsg(f, i) \/ RestSoftStop(f, i) \/ RestClear(f, i)
      PROVE  TypeInv'
  BY <1>4, MeterType, StopType, BillType DEF CloseMsg, RestSoftStop
<1> QED BY <1>1, <1>2, <1>3, <1>4 DEF Next

LEMMA TypeInit == Init => TypeInv
BY ChargingSessionAssumption, IdleType
DEF Init, TypeInv, TypeOK, NoDoc, Doc, Stops, Bills, FreeConnector, Connector,
    Statuses, Aimed, None, MaxBills

(* Type correctness: however the operations overlap, every save writes a   *)
(* well-formed document, and no operation works without its transaction.   *)
THEOREM SessionTypeCorrect == Spec => []TypeOK
<1>1. TypeInv => TypeOK
  BY DEF TypeInv
<1> QED BY TypeInit, TypeStep, <1>1, PTL DEF Spec
=============================================================================
