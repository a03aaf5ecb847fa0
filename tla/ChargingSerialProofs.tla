------------------------- MODULE ChargingSerialProofs -------------------------
(***************************************************************************)
(* What the handlers guarantee when they come one after the other on a     *)
(* connector, which is the intent of the per-URL lock of JsonOCPPServer.   *)
(* The billing tasks, which other processes run, overlap them freely.      *)
(***************************************************************************)
EXTENDS ChargingOverlapProofs

AtWork(f) == flow[f].pc \notin {"idle", "bill"}
OneHandler == \A f, g \in Flows : AtWork(f) /\ AtWork(g) => f = g

LEMMA HandlersApart == OneHandler => Apart
BY DEF OneHandler, Apart, AtWork, Holds

(* A connector does not show a transaction that its station has stopped.   *)
ShowsLive(c) == \A i \in Ids : c.tx = i => tx[i].stop # "station"

(* The copies of the connector are good, and a stop leaves the connector   *)
(* free until it has saved the transaction.                                *)
FreshConn(r) ==
  /\ ShowsLive(r.conn)
  /\ r.pc \in {"stopStation", "stopSave"} => r.conn.tx = None
  /\ r.pc = "stopSave" => conn.tx = None

ConnectorInv ==
  /\ ShowsLive(conn)
  /\ \A f \in Flows : AtWork(f) => FreshConn(flow[f])

(* While a handler is at work, it is the only one.                         *)
LEMMA WorkAlone ==
  ASSUME OneHandler, NEW f \in Flows, AtWork(f), Only(f), FreshConn(flow[f])',
         ShowsLive(conn)'
  PROVE  ConnectorInv'
BY DEF ConnectorInv, OneHandler, AtWork, Only

LEMMA ArriveAlone ==
  ASSUME OneHandler', NEW f \in Flows, AtWork(f)', FreshConn(flow[f])',
         ShowsLive(conn)'
  PROVE  ConnectorInv'
BY DEF ConnectorInv, OneHandler, AtWork

LEMMA IdleConn ==
  ASSUME NEW f \in Flows, TypeInv, Done(f)
  PROVE  FreshConn(flow[f])'
BY DEF TypeInv, Done, Become, Idle, FreshConn, ShowsLive, FreeConnector, None, Ids

-----------------------------------------------------------------------------
(* An operation begins with the connector it read, perhaps cleared.        *)
LEMMA ArriveConnector ==
  ASSUME OverlapInv, ConnectorInv, OneHandler', NEW f \in Flows,
         \/ StartMsg(f)
         \/ \E s \in Statuses : StatusMsg(f, s)
         \/ \E i \in Ids : MeterMsg(f, i) \/ StopMsg(f, i) \/ SoftStop(f, i) \/ RestClear(f, i)
  PROVE  ConnectorInv'
<1> USE DEF TypeInv, TypeOK
<1>0. TypeInv /\ ShowsLive(conn)
  BY DEF OverlapInv, ConnectorInv
<1>1. ASSUME NEW c \in Connector, c.tx \in {conn.tx, None}, UNCHANGED <<tx, conn>>,
             flow'[f].pc \in {"cleanup", "status", "station", "meter", "stop"},
             flow'[f].conn = c
      PROVE  ConnectorInv'
  <2>1. FreshConn(flow[f])' /\ ShowsLive(conn)' /\ AtWork(f)'
    BY <1>0, <1>1 DEF FreshConn, ShowsLive, AtWork, None, Ids
  <2> QED BY <2>1, ArriveAlone
<1>2. CASE StartMsg(f)
  <2>1. flow'[f] = [Idle EXCEPT !.pc = "cleanup", !.id = started + 1, !.conn = conn]
    BY <1>0, <1>2 DEF StartMsg, Arrive, Become
  <2>2. flow'[f].pc = "cleanup" /\ flow'[f].conn = conn
    BY <2>1 DEF Idle
  <2> QED BY <1>0, <1>1, <1>2, <2>2 DEF StartMsg
<1>3. ASSUME NEW s \in Statuses, StatusMsg(f, s) PROVE ConnectorInv'
  <2>1. flow'[f] = [Idle EXCEPT !.pc = IF s = "Charging" THEN "station" ELSE "status",
                                !.conn = [conn EXCEPT !.status = s]]
    BY <1>0, <1>3 DEF StatusMsg, Become
  <2>2. /\ flow'[f].pc \in {"status", "station"}
        /\ flow'[f].conn = [conn EXCEPT !.status = s]
    BY <2>1 DEF Idle
  <2>3. /\ [conn EXCEPT !.status = s] \in Connector
        /\ [conn EXCEPT !.status = s].tx = conn.tx
    BY <1>0 DEF Connector
  <2> QED BY <1>1, <1>3, <2>2, <2>3 DEF StatusMsg
<1>4. ASSUME NEW i \in Ids, MeterMsg(f, i) PROVE ConnectorInv'
  <2>1. flow'[f] = [Idle EXCEPT !.pc = "meter", !.id = i, !.conn = conn]
    BY <1>0, <1>4 DEF MeterMsg, Arrive, Become
  <2>2. flow'[f].pc = "meter" /\ flow'[f].conn = conn
    BY <2>1 DEF Idle
  <2> QED BY <1>0, <1>1, <1>4, <2>2 DEF MeterMsg
<1>5. ASSUME NEW i \in Ids, StopMsg(f, i) PROVE ConnectorInv'
  <2>1. flow'[f] = [Idle EXCEPT !.pc = "stop", !.id = i, !.conn = conn]
    BY <1>0, <1>5 DEF StopMsg, Arrive, Become
  <2>2. flow'[f].pc = "stop" /\ flow'[f].conn = conn
    BY <2>1 DEF Idle
  <2> QED BY <1>0, <1>1, <1>5, <2>2 DEF StopMsg
<1>6. ASSUME NEW i \in Ids, SoftStop(f, i) PROVE ConnectorInv'
  <2>1. flow'[f] = [Idle EXCEPT !.pc = "stop", !.id = i, !.soft = TRUE,
                                !.given = tx[i], !.conn = conn]
    BY <1>0, <1>6 DEF SoftStop, Become
  <2>2. flow'[f].pc = "stop" /\ flow'[f].conn = conn
    BY <2>1 DEF Idle
  <2> QED BY <1>0, <1>1, <1>6, <2>2 DEF SoftStop
<1>7. ASSUME NEW i \in Ids, RestClear(f, i) PROVE ConnectorInv'
  <2>1. flow'[f] = [Idle EXCEPT !.pc = "station", !.id = i, !.conn = Clear(conn)]
    BY <1>0, <1>7 DEF RestClear, Become
  <2>2. flow'[f].pc = "station" /\ flow'[f].conn = Clear(conn)
    BY <2>1 DEF Idle
  <2>3. Clear(conn) \in Connector /\ Clear(conn).tx = None
    BY <1>0, ClearType DEF Clear, Connector
  <2> QED BY <1>1, <1>7, <2>2, <2>3 DEF RestClear
<1> QED BY <1>2, <1>3, <1>4, <1>5, <1>6, <1>7

(* It goes on with this copy, which it may clear, or with one that shows a *)
(* transaction it has just saved as ongoing.                               *)
LEMMA WorkConnector ==
  ASSUME OverlapInv, ConnectorInv, OneHandler, NEW f \in Flows, Continue(f), ~BillDone(f)
  PROVE  ConnectorInv'
<1> USE DEF TypeInv, TypeOK
<1>0. /\ TypeInv /\ flow[f] \in Flow /\ Fresh(flow[f]) /\ ShowsLive(conn)
      /\ flow[f].pc # "idle" /\ flow[f].pc # "bill" => AtWork(f)
  BY AimedFlow DEF OverlapInv, ConnectorInv, AtWork
<1>o. Only(f)
  BY <1>0, StepOnly
<1>w. AtWork(f) => FreshConn(flow[f])
  BY DEF ConnectorInv
<1>1. ASSUME AtWork(f), UNCHANGED conn,
             \A i \in Ids : tx'[i].stop = "station" => tx[i].stop = "station",
             flow'[f].conn.tx \in {flow[f].conn.tx, None},
             flow'[f].pc \in {"stopStation", "stopSave"} => flow'[f].conn.tx = None,
             flow'[f].pc = "stopSave" => conn.tx = None
      PROVE  ConnectorInv'
  <2>1. ShowsLive(conn)' /\ ShowsLive(flow[f].conn)'
    BY <1>0, <1>1, <1>w DEF FreshConn, ShowsLive, None, Ids
  <2>2. FreshConn(flow[f])'
    BY <1>1, <2>1 DEF FreshConn
  <2> QED BY <1>1, <1>o, <2>1, <2>2, WorkAlone
<1>2. ASSUME Done(f), AtWork(f), UNCHANGED conn,
             \A i \in Ids : tx'[i].stop = "station" => tx[i].stop = "station"
      PROVE  ConnectorInv'
  <2>1. ShowsLive(conn)'
    BY <1>0, <1>2 DEF ShowsLive
  <2> QED BY <1>0, <1>2, <1>o, <2>1, IdleConn, WorkAlone
<1>3. CASE Cleanup(f)
  <2>1. AtWork(f) /\ UNCHANGED <<tx, conn>>
    BY <1>0, <1>3 DEF Cleanup, At
  <2>2. flow'[f].pc \in Starting /\ flow'[f].conn = flow[f].conn
    <3>1. CASE GoTo(f, "save")
      BY <1>0, <3>1 DEF GoTo, Flow, Starting
    <3>2. ASSUME NEW a \in NextActive(f),
                 Become(f, [flow[f] EXCEPT !.other = a,
                                    !.pc = IF tx[a].used THEN "cleanup" ELSE "delete"])
          PROVE  flow'[f].pc \in Starting /\ flow'[f].conn = flow[f].conn
      BY <1>0, <3>2 DEF Become, Flow, Starting
    <3> QED BY <1>3, <3>1, <3>2 DEF Cleanup
  <2> QED BY <1>1, <2>1, <2>2 DEF Starting
<1>4. CASE DeleteUnused(f)
  <2>1. AtWork(f) /\ UNCHANGED conn
    BY <1>0, <1>4 DEF DeleteUnused, At
  <2>2. flow'[f].pc = "cleanup" /\ flow'[f].conn = Clear(flow[f].conn)
    BY <1>0, <1>4 DEF DeleteUnused, Become, Flow
  <2>3. Clear(flow[f].conn).tx = None
    BY <1>0 DEF Clear, Flow, Connector
  <2>4. \A i \in Ids : tx'[i].stop = "station" => tx[i].stop = "station"
    BY <1>0, <1>4 DEF DeleteUnused, SaveTx, NoDoc
  <2> QED BY <1>1, <2>1, <2>2, <2>3, <2>4
<1>5. CASE StartSave(f)
  <2>1. AtWork(f) /\ UNCHANGED conn /\ flow[f].pc = "save" /\ flow[f].id \in Ids
    BY <1>0, <1>5, AimedFlow DEF StartSave, At
  <2>2. CASE Done(f) /\ UNCHANGED tx
    BY <1>2, <2>1, <2>2
  <2>3. ASSUME NEW b \in {"none", "ROAMING", "UNBILLED"},
               SaveTx(flow[f].id, [NoDoc EXCEPT !.stop = "no", !.bill = b]),
               Become(f, [flow[f] EXCEPT !.pc = "startStation",
                                         !.conn = Show(@, flow[f].id)])
        PROVE  ConnectorInv'
    <3>1. \A i \in Ids : tx'[i].stop = IF i = flow[f].id THEN "no" ELSE tx[i].stop
      BY <1>0, <2>1, <2>3 DEF SaveTx, NoDoc
    <3>2. /\ flow'[f].pc = "startStation"
          /\ flow'[f].conn = Show(flow[f].conn, flow[f].id)
      BY <1>0, <2>1, <2>3 DEF Become, Flow
    <3>3. flow'[f].conn.tx = flow[f].id
      BY <1>0, <3>2 DEF Show, Flow, Connector
    <3>4. FreshConn(flow[f])' /\ ShowsLive(conn)'
      BY <1>0, <2>1, <3>1, <3>2, <3>3 DEF FreshConn, ShowsLive
    <3> QED BY <1>o, <2>1, <3>4, WorkAlone
  <2> QED BY <1>5, <2>2, <2>3 DEF StartSave
<1>6. CASE EndWithStation(f)
  <2>1. AtWork(f) /\ UNCHANGED tx /\ conn' = flow[f].conn /\ Done(f)
    BY <1>0, <1>6 DEF EndWithStation, SaveStation, At
  <2>2. ShowsLive(conn)'
    BY <1>w, <2>1 DEF FreshConn, ShowsLive
  <2> QED BY <1>0, <1>o, <2>1, <2>2, IdleConn, WorkAlone
<1>7. CASE MeterRead(f)
  <2>1. AtWork(f) /\ UNCHANGED <<tx, conn>>
    BY <1>0, <1>7 DEF MeterRead, At
  <2>2. CASE Done(f)
    BY <1>2, <2>1, <2>2
  <2>3. CASE Become(f, [flow[f] EXCEPT !.pc = "meterSave", !.tx = tx[flow[f].id]])
    <3>1. flow'[f].pc = "meterSave" /\ flow'[f].conn = flow[f].conn
      BY <1>0, <2>3 DEF Become, Flow
    <3> QED BY <1>1, <2>1, <3>1
  <2> QED BY <1>7, <2>2, <2>3 DEF MeterRead
<1>8. CASE MeterSave(f)
  <2>1. AtWork(f) /\ UNCHANGED conn /\ flow[f].id \in Ids /\ flow[f].pc = "meterSave"
    BY <1>0, <1>8, AimedFlow DEF MeterSave, At
  <2>2. \A i \in Ids : tx'[i].stop = tx[i].stop
    <3>1. PICK u \in {flow[f].tx.used, TRUE} :
            SaveTx(flow[f].id, [flow[f].tx EXCEPT !.used = u])
      BY <1>8 DEF MeterSave
    <3>2. [flow[f].tx EXCEPT !.used = u].stop = "no"
      BY <1>0, <2>1 DEF Fresh, Flow, Doc
    <3> QED BY <1>0, <2>1, <3>1, <3>2 DEF SaveTx, Fresh, Ongoing
  <2>3. flow'[f].pc = "station" /\ flow'[f].conn = Show(flow[f].conn, flow[f].id)
    BY <1>0, <1>8, <2>1 DEF MeterSave, Become, Flow
  <2>4. flow'[f].conn.tx = flow[f].id /\ tx[flow[f].id].stop = "no"
    BY <1>0, <2>1, <2>3 DEF Show, Flow, Connector, Fresh, Ongoing
  <2>5. FreshConn(flow[f])' /\ ShowsLive(conn)'
    BY <1>0, <2>1, <2>2, <2>3, <2>4 DEF FreshConn, ShowsLive
  <2> QED BY <1>o, <2>1, <2>5, WorkAlone
<1>9. ASSUME AtWork(f), Refuse(f), UNCHANGED <<tx, conn>> PROVE ConnectorInv'
  <2>1. CASE Done(f)
    BY <1>2, <1>9, <2>1
  <2>2. CASE GoTo(f, "fallback")
    <3>1. flow'[f].pc = "fallback" /\ flow'[f].conn = flow[f].conn
      BY <1>0, <2>2 DEF GoTo, Flow
    <3> QED BY <1>1, <1>9, <3>1
  <2> QED BY <1>9, <2>1, <2>2 DEF Refuse
<1>10. CASE StopRead(f)
  <2>1. AtWork(f) /\ UNCHANGED <<tx, conn>>
    BY <1>0, <1>10 DEF StopRead, At
  <2>2. CASE Become(f, [flow[f] EXCEPT !.pc = "stopStation", !.tx = tx[flow[f].id],
                                       !.conn = Clear(@)])
    <3>1. flow'[f].pc = "stopStation" /\ flow'[f].conn = Clear(flow[f].conn)
      BY <1>0, <2>2 DEF Become, Flow
    <3>2. flow'[f].conn.tx = None
      BY <1>0, <3>1 DEF Clear, Flow, Connector
    <3> QED BY <1>1, <2>1, <3>1, <3>2
  <2> QED BY <1>9, <1>10, <2>1, <2>2 DEF StopRead
<1>11. CASE StopStation(f)
  <2>1. AtWork(f) /\ UNCHANGED tx /\ conn' = flow[f].conn /\ flow[f].pc = "stopStation"
    BY <1>0, <1>11 DEF StopStation, SaveStation, At
  <2>2. flow'[f].pc = "stopSave" /\ flow'[f].conn = flow[f].conn
    BY <1>0, <1>11 DEF StopStation, GoTo, Flow
  <2>3. FreshConn(flow[f])' /\ ShowsLive(conn)'
    BY <1>w, <2>1, <2>2 DEF FreshConn, ShowsLive
  <2> QED BY <1>o, <2>1, <2>3, WorkAlone
<1>12. CASE StopSave(f)
  <2>1. /\ AtWork(f) /\ UNCHANGED conn /\ flow[f].pc = "stopSave"
        /\ conn.tx = None
    BY <1>0, <1>12, <1>w DEF StopSave, At, FreshConn
  <2>2. CASE Refuse(f) /\ UNCHANGED tx
    BY <1>9, <2>1, <2>2
  <2>3. CASE Done(f)
    <3>1. ShowsLive(conn)'
      BY <2>1 DEF ShowsLive, None, Ids
    <3> QED BY <1>0, <1>o, <2>1, <2>3, <3>1, IdleConn, WorkAlone
  <2> QED BY <1>12, <2>2, <2>3 DEF StopSave
<1>13. CASE Fallback(f)
  <2>1. AtWork(f) /\ UNCHANGED conn /\ Done(f)
    BY <1>0, <1>13 DEF Fallback, At
  <2>2. \A i \in Ids : tx'[i].stop = "station" => tx[i].stop = "station"
    BY <1>0, <1>13 DEF Fallback, SaveTx, Flow, Doc
  <2> QED BY <1>2, <2>1, <2>2
<1>14. CASE StatusRead(f)
  <2>1. AtWork(f) /\ UNCHANGED <<tx, conn>>
    BY <1>0, <1>14 DEF StatusRead, At
  <2>2. ASSUME NEW r \in Flow, r.pc \in {"station", "statusSave"},
               r.conn \in {flow[f].conn, Clear(flow[f].conn)}, flow'[f] = r
        PROVE  ConnectorInv'
    <3>1. Clear(flow[f].conn).tx = None
      BY <1>0 DEF Clear, Flow, Connector
    <3> QED BY <1>1, <2>1, <2>2, <3>1
  <2>3. CASE GoTo(f, "station")
    BY <1>0, <2>2, <2>3 DEF GoTo, Flow, Steps
  <2>4. CASE Become(f, [flow[f] EXCEPT !.pc = "station", !.conn = Clear(@)])
    <3>1. flow'[f] = [flow[f] EXCEPT !.pc = "station", !.conn = Clear(@)]
      BY <1>0, <2>4 DEF Become
    <3>2. [flow[f] EXCEPT !.pc = "station", !.conn = Clear(@)] \in Flow
      BY <1>0, ClearType DEF Flow, Steps
    <3> QED BY <1>0, <2>2, <3>1, <3>2 DEF Flow
  <2>5. ASSUME NEW i \in Ids, NEW d,
               Become(f, [flow[f] EXCEPT !.pc = "statusSave", !.id = i,
                                         !.conn = Clear(@), !.tx = d])
        PROVE  ConnectorInv'
    <3>1. flow'[f].pc = "statusSave" /\ flow'[f].conn = Clear(flow[f].conn)
      BY <1>0, <2>5 DEF Become, Flow
    <3>2. flow'[f].conn.tx = None
      BY <1>0, <3>1 DEF Clear, Flow, Connector
    <3> QED BY <1>1, <2>1, <3>1, <3>2
  <2>6. Last \subseteq Ids
    BY DEF Last
  <2> QED BY <1>14, <2>3, <2>4, <2>5, <2>6 DEF StatusRead
<1>15. CASE StatusSave(f)
  <2>1. AtWork(f) /\ UNCHANGED conn /\ flow[f].pc = "statusSave"
    BY <1>0, <1>15 DEF StatusSave, At
  <2>2. \A i \in Ids : tx'[i].stop = tx[i].stop
    BY <1>0, <1>15, <2>1 DEF StatusSave, SaveTx, Fresh
  <2>3. flow'[f].pc = "station" /\ flow'[f].conn = flow[f].conn
    BY <1>0, <1>15 DEF StatusSave, GoTo, Flow
  <2> QED BY <1>1, <2>1, <2>2, <2>3
<1> QED BY <1>3, <1>4, <1>5, <1>6, <1>7, <1>8, <1>10, <1>11, <1>12, <1>13, <1>14, <1>15
        DEF Continue

(* The billing task leaves connectors and stops alone.                     *)
LEMMA BillConnector ==
  ASSUME OverlapInv, ConnectorInv, NEW f \in Flows,
         BillDone(f) \/ \E i \in Ids : BillStart(f, i)
  PROVE  ConnectorInv'
<1> USE DEF TypeInv, TypeOK
<1>0. TypeInv
  BY DEF OverlapInv
<1>1. UNCHANGED conn /\ \A i \in Ids : tx'[i].stop = tx[i].stop
  <2>1. CASE BillDone(f)
    BY <1>0, <2>1 DEF BillDone, Doc
  <2>2. CASE \E i \in Ids : BillStart(f, i)
    BY <2>2 DEF BillStart
  <2> QED BY <2>1, <2>2
<1>2. Only(f)
  BY <1>0, StepOnly DEF Continue
<1>3. ~AtWork(f)'
  <2>1. CASE BillDone(f)
    BY <1>0, <2>1 DEF BillDone, Done, Become, Idle, AtWork
  <2>2. ASSUME NEW i \in Ids, BillStart(f, i) PROVE ~AtWork(f)'
    <3>1. flow[f].pc = "idle"
      BY <2>2 DEF BillStart, At
    <3>2. CASE UNCHANGED flow
      BY <3>1, <3>2 DEF AtWork
    <3>3. CASE Become(f, [Idle EXCEPT !.pc = "bill", !.id = i])
      BY <1>0, <3>3 DEF Become, Idle, AtWork
    <3> QED BY <2>2, <3>2, <3>3 DEF BillStart
  <2> QED BY <2>1, <2>2
<1>4. ASSUME NEW g \in Flows \ {f}, AtWork(g)' PROVE FreshConn(flow[g])'
  BY <1>1, <1>2, <1>4 DEF ConnectorInv, Only, AtWork, FreshConn, ShowsLive
<1> QED BY <1>1, <1>3, <1>4 DEF ConnectorInv, ShowsLive

LEMMA ConnectorStep ==
  ASSUME OverlapInv, ConnectorInv, OneHandler, OneHandler', [Next]_vars
  PROVE  ConnectorInv'
<1>1. CASE UNCHANGED vars
  BY <1>1 DEF vars, ConnectorInv, FreshConn, ShowsLive, AtWork
<1>2. ASSUME NEW f \in Flows, StartMsg(f) \/ Continue(f) PROVE ConnectorInv'
  BY <1>2, ArriveConnector, WorkConnector, BillConnector
<1>3. ASSUME NEW f \in Flows, NEW s \in Statuses, StatusMsg(f, s) PROVE ConnectorInv'
  BY <1>3, ArriveConnector
<1>4. ASSUME NEW f \in Flows, NEW i \in Ids,
             \/ MeterMsg(f, i) \/ StopMsg(f, i) \/ BillStart(f, i)
             \/ CloseMsg(f, i) \/ RestSoftStop(f, i) \/ RestClear(f, i)
      PROVE  ConnectorInv'
  BY <1>4, ArriveConnector, BillConnector DEF CloseMsg, RestSoftStop
<1> QED BY <1>1, <1>2, <1>3, <1>4 DEF Next

LEMMA ConnectorInit == Init => ConnectorInv
BY DEF Init, ConnectorInv, ShowsLive, AtWork, Idle, FreeConnector, None, Ids

(* When handlers come one at a time, however billing tasks overlap them, a *)
(* connector never shows a transaction that its charging station stopped.  *)
THEOREM OneHandlerConnector == Spec /\ []OneHandler => []ConnectorShowsLive
<1>1. OverlapInv /\ ConnectorInv /\ OneHandler /\ OneHandler' /\ [Next]_vars
        => ConnectorInv'
  BY ConnectorStep
<1>2. ConnectorInv => ConnectorShowsLive
  BY DEF ConnectorInv, ShowsLive, ConnectorShowsLive
<1> QED BY <1>1, <1>2, HandlersApart, ConnectorInit, OverlapInvariant, PTL DEF Spec

-----------------------------------------------------------------------------
(* With a single flow all the premises hold: the four properties are those *)
(* of the program when nothing overlaps.                                   *)
Serial == \A f, g \in Flows : f = g

LEMMA SerialPremises == ASSUME Serial PROVE Apart /\ BillApart /\ OneHandler
BY DEF Serial, Apart, BillApart, OneHandler

(* Without overlaps a stop is never undone or written over.                *)
THEOREM SerialStopIsFinal == ASSUME Serial PROVE Spec => StopIsFinal
BY SerialPremises, OverlapStopIsFinal, PTL

(* Without overlaps the connector is right after every handler.            *)
THEOREM SerialConnector == ASSUME Serial PROVE Spec => []ConnectorShowsLive
BY SerialPremises, OneHandlerConnector, PTL

(* Without overlaps a transaction is billed at most once.                  *)
THEOREM SerialBilledOnce == ASSUME Serial PROVE Spec => []BilledOnce
BY SerialPremises, OverlapBilledOnce, PTL

(* Without overlaps it is billed only when it has stopped and its extra    *)
(* inactivity is known.                                                    *)
THEOREM SerialBilledComplete == ASSUME Serial PROVE Spec => []BilledComplete
BY SerialPremises, OverlapBilledComplete, PTL
=============================================================================
