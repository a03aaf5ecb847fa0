------------------------- MODULE ChargingOverlapProofs -------------------------
(***************************************************************************)
(* What the handlers guarantee however many of them overlap, as long as no *)
(* two of them are between reading and saving the same transaction.  The   *)
(* theorems hold for any number of flows, transactions and billing tasks.  *)
(***************************************************************************)
EXTENDS ChargingSessionProofs

(* An operation holds transaction i from reading it to saving it; a soft   *)
(* stop, from the moment it was given its copy.                            *)
Holds(r, i) ==
  \/ /\ r.pc \in {"meterSave", "stopStation", "stopSave", "fallback", "statusSave"}
     /\ r.id = i
  \/ r.pc = "stop" /\ r.soft /\ r.id = i
  \/ r.pc = "delete" /\ r.other = i

(* The premise: nothing else overlaps an operation on the same transaction.*)
Apart ==
  \A f, g \in Flows, i \in Ids : Holds(flow[f], i) /\ Holds(flow[g], i) => f = g

-----------------------------------------------------------------------------
(* What an operation read is still so when it acts on it: the transaction  *)
(* it starts does not exist yet, the one it meters or stops is ongoing,    *)
(* the one it completes keeps its stop.                                    *)
Fresh(r) ==
  /\ r.pc \in Starting => ~Exists(r.id) /\ r.id <= started
  /\ r.pc = "delete" => Ongoing(r.other)
  /\ r.pc \in {"meterSave", "stopStation", "stopSave", "fallback"} => Ongoing(r.id)
  /\ r.pc = "stop" /\ r.soft => Ongoing(r.id)
  /\ r.pc = "meterSave" => r.tx.stop = "no"
  /\ r.pc = "statusSave" => Stopped(r.id) /\ r.tx.stop = tx[r.id].stop

Unborn == \A i \in Ids : i > started => ~Exists(i)
OwnIds == \A f, g \in Flows, i \in Ids : Starts(flow[f], i) /\ Starts(flow[g], i) => f = g

OverlapInv ==
  /\ TypeInv
  /\ Unborn
  /\ OwnIds
  /\ \A f \in Flows : Fresh(flow[f])

(* A step never changes the stop of a stopped transaction.                 *)
StopKept == \A i \in Ids : Stopped(i) => tx'[i].stop = tx[i].stop

(* A step of f: the other flows stay where they are, and f does not take   *)
(* an id to start.                                                         *)
Only(f) == \A g \in Flows \ {f} : flow'[g] = flow[g]
SameStart(f) ==
  flow'[f].pc \in Starting => flow[f].pc \in Starting /\ flow'[f].id = flow[f].id

LEMMA BecomeOnly == ASSUME NEW f, NEW r, TypeInv, Become(f, r) PROVE Only(f)
BY DEF Become, Only, TypeInv

LEMMA GoToOnly == ASSUME NEW f, NEW s, TypeInv, GoTo(f, s) PROVE Only(f)
BY DEF GoTo, Only, TypeInv

LEMMA DoneOnly == ASSUME NEW f, TypeInv, Done(f) PROVE Only(f)
BY BecomeOnly DEF Done

LEMMA RefuseOnly == ASSUME NEW f, TypeInv, Refuse(f) PROVE Only(f)
BY DoneOnly, GoToOnly DEF Refuse

(* Every step is one of a single flow.                                     *)
LEMMA StepOnly ==
  ASSUME TypeInv, NEW f \in Flows,
         \/ StartMsg(f) \/ Continue(f)
         \/ \E s \in Statuses : StatusMsg(f, s)
         \/ \E i \in Ids : \/ MeterMsg(f, i) \/ StopMsg(f, i) \/ SoftStop(f, i)
                          \/ RestClear(f, i) \/ BillStart(f, i)
  PROVE  Only(f)
<1> USE BecomeOnly, GoToOnly, DoneOnly, RefuseOnly
<1>1. CASE StartMsg(f) \/ Cleanup(f) \/ DeleteUnused(f) \/ StartSave(f) \/ EndWithStation(f)
  BY <1>1 DEF StartMsg, Arrive, Cleanup, DeleteUnused, StartSave, EndWithStation
<1>2. CASE MeterRead(f) \/ MeterSave(f) \/ \E i \in Ids : MeterMsg(f, i)
  BY <1>2 DEF MeterRead, MeterSave, MeterMsg, Arrive
<1>3. CASE \/ StopRead(f) \/ StopStation(f) \/ StopSave(f) \/ Fallback(f)
           \/ \E i \in Ids : StopMsg(f, i) \/ SoftStop(f, i) \/ RestClear(f, i)
  BY <1>3 DEF StopRead, StopStation, StopSave, Fallback, StopMsg, Arrive, SoftStop, RestClear
<1>4. CASE StatusRead(f) \/ StatusSave(f) \/ \E s \in Statuses : StatusMsg(f, s)
  BY <1>4 DEF StatusRead, StatusSave, StatusMsg
<1>5. CASE BillDone(f) \/ \E i \in Ids : BillStart(f, i)
  BY <1>5 DEF BillDone, BillStart, Only
<1> QED BY <1>1, <1>2, <1>3, <1>4, <1>5 DEF Continue

LEMMA IdleFresh ==
  ASSUME NEW f \in Flows, TypeInv, Done(f)
  PROVE  Fresh(flow[f])' /\ SameStart(f)
BY DEF TypeInv, Done, Become, Idle, Fresh, SameStart, Starting

(* Who holds a transaction, holds it alone; so does who starts it.         *)
LEMMA HeldExists ==
  ASSUME OverlapInv, NEW g \in Flows, NEW i \in Ids
  PROVE  /\ Holds(flow[g], i) => Exists(i)
         /\ Starts(flow[g], i) => ~Exists(i)
BY DEF OverlapInv, Fresh, Holds, Starts, Exists, Ongoing, Stopped

LEMMA Alone ==
  ASSUME OverlapInv, Apart, NEW f \in Flows, NEW k \in Ids,
         Holds(flow[f], k) \/ Starts(flow[f], k), NEW g \in Flows \ {f}
  PROVE  ~Holds(flow[g], k) /\ ~Starts(flow[g], k)
BY HeldExists DEF OverlapInv, Apart, OwnIds

(* A step that changes the stop of no transaction...                       *)
LEMMA CopyStep ==
  ASSUME OverlapInv, TypeInv', NEW f \in Flows, Only(f), SameStart(f),
         UNCHANGED started, \A i \in Ids : tx'[i].stop = tx[i].stop, Fresh(flow[f])'
  PROVE  OverlapInv' /\ StopKept
<1>1. StopKept
  BY DEF StopKept
<1>2. Unborn'
  BY DEF OverlapInv, Unborn, Exists
<1>3. OwnIds'
  BY DEF OverlapInv, OwnIds, Starts, Only, SameStart
<1>4. ASSUME NEW g \in Flows \ {f} PROVE Fresh(flow[g])'
  <2>1. flow'[g] = flow[g] /\ Fresh(flow[g])
    BY DEF Only, OverlapInv
  <2>2. /\ flow[g].pc \notin {"idle", "status", "station"} => flow[g].id \in Ids
        /\ flow[g].pc = "delete" => flow[g].other \in Ids
    BY AimedFlow DEF OverlapInv
  <2> QED BY <2>1, <2>2 DEF Fresh, Exists, Ongoing, Stopped, Starting
<1> QED BY <1>1, <1>2, <1>3, <1>4 DEF OverlapInv

(* ...and one that writes a transaction which has not stopped.             *)
LEMMA WriteStep ==
  ASSUME OverlapInv, Apart, TypeInv', NEW f \in Flows, Only(f), SameStart(f),
         UNCHANGED started, NEW k \in Ids, ~Stopped(k), k <= started,
         Holds(flow[f], k) \/ Starts(flow[f], k),
         \A i \in Ids \ {k} : tx'[i] = tx[i], Fresh(flow[f])'
  PROVE  OverlapInv' /\ StopKept
<1>1. StopKept
  BY DEF StopKept
<1>2. Unborn'
  <2>1. started \in Int /\ k \in Int
    BY DEF OverlapInv, TypeInv, TypeOK, Ids
  <2> QED BY <2>1 DEF OverlapInv, Unborn, Exists
<1>3. OwnIds'
  BY DEF OverlapInv, OwnIds, Starts, Only, SameStart
<1>4. ASSUME NEW g \in Flows \ {f} PROVE Fresh(flow[g])'
  <2>1. flow'[g] = flow[g] /\ Fresh(flow[g])
    BY DEF Only, OverlapInv
  <2>2. /\ flow[g].pc \notin {"idle", "status", "station"} => flow[g].id \in Ids
        /\ flow[g].pc = "delete" => flow[g].other \in Ids
    BY AimedFlow DEF OverlapInv
  <2>3. ~Holds(flow[g], k) /\ ~Starts(flow[g], k)
    BY Alone
  <2> QED BY <2>1, <2>2, <2>3
          DEF Fresh, Exists, Ongoing, Stopped, Starting, Holds, Starts
<1> QED BY <1>1, <1>2, <1>3, <1>4 DEF OverlapInv

(* An existing transaction was started.                                    *)
LEMMA Born ==
  ASSUME OverlapInv, NEW k \in Ids, Exists(k)
  PROVE  k <= started
BY DEF OverlapInv, Unborn, TypeInv, TypeOK, Ids

-----------------------------------------------------------------------------
LEMMA StartOverlap ==
  ASSUME OverlapInv, Apart, TypeInv', NEW f \in Flows,
         StartMsg(f) \/ Cleanup(f) \/ DeleteUnused(f) \/ StartSave(f) \/ EndWithStation(f)
  PROVE  OverlapInv' /\ StopKept
<1> USE DEF TypeInv, TypeOK
<1>0. TypeInv /\ Fresh(flow[f]) /\ flow[f] \in Flow
  BY AimedFlow DEF OverlapInv
<1>1. CASE StartMsg(f)
  <2>1. /\ UNCHANGED tx
        /\ started' = started + 1
        /\ flow'[f] = [Idle EXCEPT !.pc = "cleanup", !.id = started + 1, !.conn = conn]
        /\ Only(f)
    BY <1>0, <1>1, BecomeOnly DEF StartMsg, Arrive, Become
  <2>2. started \in Int /\ started + 1 \in Ids /\ ~Exists(started + 1)
    BY <1>0, <1>1, ChargingSessionAssumption DEF OverlapInv, Unborn, StartMsg, Ids
  <2>3. Fresh(flow[f])'
    BY <2>1, <2>2 DEF Fresh, Idle, Starting, Exists
  <2>4. Unborn'
    BY <2>1, <2>2 DEF OverlapInv, Unborn, Exists, Ids
  <2>5. ASSUME NEW g \in Flows \ {f} PROVE Fresh(flow[g])'
    <3>1. flow'[g] = flow[g] /\ Fresh(flow[g])
      BY <2>1 DEF Only, OverlapInv
    <3>2. flow[g].pc \in Starting => flow[g].id \in Int
      BY <1>0, AimedFlow DEF Starting, Ids
    <3> QED BY <2>1, <2>2, <3>1, <3>2 DEF Fresh, Exists, Ongoing, Stopped
  <2>6. \A g \in Flows \ {f} : ~Starts(flow[g], started + 1)
    BY <2>2 DEF OverlapInv, Fresh, Starts
  <2>7. OwnIds'
    <3>1. \A i \in Ids : Starts(flow'[f], i) => i = started + 1
      BY <2>1 DEF Starts, Idle
    <3> QED BY <2>1, <2>6, <3>1 DEF OverlapInv, OwnIds, Only, Starts
  <2> QED BY <2>1, <2>3, <2>4, <2>5, <2>7 DEF OverlapInv, StopKept
<1>2. CASE Cleanup(f)
  <2>1. UNCHANGED <<tx, started>> /\ flow[f].pc = "cleanup"
    BY <1>2 DEF Cleanup, At
  <2>2. CASE GoTo(f, "save")
    <3>1. flow'[f] = [flow[f] EXCEPT !.pc = "save"]
      BY <2>2 DEF GoTo
    <3>2. Fresh(flow[f])' /\ SameStart(f)
      BY <1>0, <2>1, <3>1 DEF Fresh, SameStart, Starting, Exists, Flow
    <3> QED BY <1>0, <2>1, <2>2, <3>2, GoToOnly, CopyStep
  <2>3. ASSUME NEW a \in NextActive(f),
               Become(f, [flow[f] EXCEPT !.other = a,
                                    !.pc = IF tx[a].used THEN "cleanup" ELSE "delete"])
        PROVE  OverlapInv' /\ StopKept
    <3>1. a \in Ids /\ Ongoing(a)
      BY DEF NextActive
    <3>2. flow'[f] = [flow[f] EXCEPT !.other = a,
                                     !.pc = IF tx[a].used THEN "cleanup" ELSE "delete"]
      BY <2>3 DEF Become
    <3>3. Fresh(flow[f])' /\ SameStart(f)
      BY <1>0, <2>1, <3>1, <3>2 DEF Fresh, SameStart, Starting, Exists, Ongoing, Flow
    <3> QED BY <1>0, <2>1, <2>3, <3>3, BecomeOnly, CopyStep
  <2> QED BY <1>2, <2>2, <2>3 DEF Cleanup
<1>3. CASE DeleteUnused(f)
  <2>1. /\ UNCHANGED started /\ Only(f)
        /\ tx' = [tx EXCEPT ![flow[f].other] = NoDoc]
        /\ flow'[f] = [flow[f] EXCEPT !.pc = "cleanup", !.conn = Clear(flow[f].conn)]
    BY <1>0, <1>3, BecomeOnly DEF DeleteUnused, SaveTx, Become
  <2>2. /\ flow[f].pc = "delete" /\ flow[f].id \in Ids /\ Ongoing(flow[f].other)
    BY <1>0, <1>3, AimedFlow DEF DeleteUnused, At, Fresh
  <2>3. PICK k \in Ids : k = flow[f].other
    BY <1>0, <2>2, AimedFlow
  <2>4. Holds(flow[f], k) /\ ~Stopped(k) /\ k <= started
    BY <2>2, <2>3, Born DEF Holds, Ongoing, Stopped, Exists
  <2>5. Fresh(flow[f])' /\ SameStart(f)
    <3>1. flow'[f].pc = "cleanup" /\ flow'[f].id = flow[f].id
      BY <1>0, <2>1 DEF Flow
    <3>2. ~Exists(flow[f].id)'
      BY <1>0, <2>1, <2>2, <3>1 DEF Fresh, Exists, NoDoc, Starting
    <3> QED BY <1>0, <2>1, <2>2, <3>1, <3>2 DEF Fresh, SameStart, Starting
  <2> QED BY <2>1, <2>3, <2>4, <2>5, WriteStep
<1>4. CASE StartSave(f)
  <2>1. UNCHANGED started /\ flow[f].pc = "save"
    BY <1>4 DEF StartSave, At
  <2>2. PICK k \in Ids : k = flow[f].id
    BY <1>0, <2>1, AimedFlow
  <2>3. Starts(flow[f], k) /\ ~Stopped(k) /\ k <= started
    BY <1>0, <2>1, <2>2 DEF Fresh, Starts, Starting, Exists, Stopped
  <2>4. CASE Done(f) /\ UNCHANGED tx
    BY <1>0, <2>1, <2>4, DoneOnly, IdleFresh, CopyStep
  <2>5. ASSUME NEW b \in {"none", "ROAMING", "UNBILLED"},
               SaveTx(flow[f].id, [NoDoc EXCEPT !.stop = "no", !.bill = b]),
               Become(f, [flow[f] EXCEPT !.pc = "startStation",
                                         !.conn = Show(@, flow[f].id)])
        PROVE  OverlapInv' /\ StopKept
    <3>1. \A i \in Ids \ {k} : tx'[i] = tx[i]
      BY <2>2, <2>5 DEF SaveTx
    <3>2. flow'[f].pc = "startStation"
      BY <1>0, <2>5 DEF Become, Flow
    <3>3. Fresh(flow[f])' /\ SameStart(f)
      BY <3>2 DEF Fresh, SameStart, Starting
    <3> QED BY <1>0, <2>1, <2>3, <2>5, <3>1, <3>3, BecomeOnly, WriteStep
  <2> QED BY <1>4, <2>4, <2>5 DEF StartSave
<1>5. CASE EndWithStation(f)
  BY <1>0, <1>5, DoneOnly, IdleFresh, CopyStep DEF EndWithStation
<1> QED BY <1>1, <1>2, <1>3, <1>4, <1>5

LEMMA MeterOverlap ==
  ASSUME OverlapInv, Apart, TypeInv', NEW f \in Flows,
         MeterRead(f) \/ MeterSave(f) \/ \E i \in Ids : MeterMsg(f, i)
  PROVE  OverlapInv' /\ StopKept
<1> USE DEF TypeInv, TypeOK
<1>0. TypeInv /\ Fresh(flow[f]) /\ flow[f] \in Flow
  BY AimedFlow DEF OverlapInv
<1>1. ASSUME NEW i \in Ids, MeterMsg(f, i) PROVE OverlapInv' /\ StopKept
  <2>1. /\ UNCHANGED <<tx, started>> /\ Only(f)
        /\ flow'[f] = [Idle EXCEPT !.pc = "meter", !.id = i, !.conn = conn]
    BY <1>0, <1>1, BecomeOnly DEF MeterMsg, Arrive, Become
  <2>2. Fresh(flow[f])' /\ SameStart(f)
    BY <2>1 DEF Fresh, SameStart, Starting, Idle
  <2> QED BY <2>1, <2>2, CopyStep
<1>2. CASE MeterRead(f)
  <2>1. UNCHANGED <<tx, started>>
    BY <1>2 DEF MeterRead
  <2>2. CASE Done(f)
    BY <1>0, <2>1, <2>2, DoneOnly, IdleFresh, CopyStep
  <2>3. CASE /\ Ongoing(flow[f].id)
             /\ Become(f, [flow[f] EXCEPT !.pc = "meterSave", !.tx = tx[flow[f].id]])
    <3>1. /\ flow'[f].pc = "meterSave" /\ flow'[f].id = flow[f].id
          /\ flow'[f].tx = tx[flow[f].id]
      BY <1>0, <2>3 DEF Become, Flow
    <3>2. Fresh(flow[f])' /\ SameStart(f)
      BY <2>1, <2>3, <3>1 DEF Fresh, SameStart, Starting, Ongoing
    <3> QED BY <1>0, <2>1, <2>3, <3>2, BecomeOnly, CopyStep
  <2> QED BY <1>2, <2>2, <2>3 DEF MeterRead
<1>3. CASE MeterSave(f)
  <2>1. UNCHANGED started /\ Only(f) /\ flow[f].pc = "meterSave"
    BY <1>0, <1>3, BecomeOnly DEF MeterSave, At
  <2>2. PICK k \in Ids : k = flow[f].id
    BY <1>0, <2>1, AimedFlow
  <2>3. Holds(flow[f], k) /\ ~Stopped(k) /\ k <= started
    BY <1>0, <2>1, <2>2, Born DEF Fresh, Holds, Ongoing, Stopped, Exists
  <2>4. \A i \in Ids \ {k} : tx'[i] = tx[i]
    BY <1>3, <2>2 DEF MeterSave, SaveTx
  <2>5. flow'[f].pc = "station"
    BY <1>0, <1>3 DEF MeterSave, Become, Flow
  <2>6. Fresh(flow[f])' /\ SameStart(f)
    BY <2>5 DEF Fresh, SameStart, Starting
  <2> QED BY <2>1, <2>3, <2>4, <2>6, WriteStep
<1> QED BY <1>1, <1>2, <1>3

(* A refused stop leaves everything as it is.                              *)
LEMMA RefuseOverlap ==
  ASSUME OverlapInv, TypeInv', NEW f \in Flows, Refuse(f), UNCHANGED <<tx, started>>,
         flow[f].soft => Ongoing(flow[f].id)
  PROVE  OverlapInv' /\ StopKept
<1>0. TypeInv /\ Fresh(flow[f]) /\ flow[f] \in Flow
  BY AimedFlow DEF OverlapInv
<1>1. CASE Done(f)
  BY <1>0, <1>1, DoneOnly, IdleFresh, CopyStep
<1>2. CASE flow[f].soft /\ GoTo(f, "fallback")
  <2>1. flow'[f].pc = "fallback" /\ flow'[f].id = flow[f].id
    BY <1>0, <1>2 DEF GoTo, Flow, TypeInv, TypeOK
  <2>2. Fresh(flow[f])' /\ SameStart(f)
    BY <1>2, <2>1 DEF Fresh, SameStart, Starting, Ongoing
  <2> QED BY <1>0, <1>2, <2>2, GoToOnly, CopyStep
<1> QED BY <1>1, <1>2 DEF Refuse

LEMMA StopOverlap ==
  ASSUME OverlapInv, Apart, TypeInv', NEW f \in Flows,
         \/ StopRead(f) \/ StopStation(f) \/ StopSave(f) \/ Fallback(f)
         \/ \E i \in Ids : StopMsg(f, i) \/ SoftStop(f, i) \/ RestClear(f, i)
  PROVE  OverlapInv' /\ StopKept
<1> USE DEF TypeInv, TypeOK
<1>0. TypeInv /\ Fresh(flow[f]) /\ flow[f] \in Flow
  BY AimedFlow DEF OverlapInv
<1>1. ASSUME NEW i \in Ids, StopMsg(f, i) PROVE OverlapInv' /\ StopKept
  <2>1. /\ UNCHANGED <<tx, started>> /\ Only(f)
        /\ flow'[f] = [Idle EXCEPT !.pc = "stop", !.id = i, !.conn = conn]
    BY <1>0, <1>1, BecomeOnly DEF StopMsg, Arrive, Become
  <2>2. Fresh(flow[f])' /\ SameStart(f)
    BY <2>1 DEF Fresh, SameStart, Starting, Idle
  <2> QED BY <2>1, <2>2, CopyStep
<1>2. ASSUME NEW i \in Ids, SoftStop(f, i) PROVE OverlapInv' /\ StopKept
  <2>1. /\ UNCHANGED <<tx, started>> /\ Only(f) /\ Ongoing(i)
        /\ flow'[f] = [Idle EXCEPT !.pc = "stop", !.id = i, !.soft = TRUE,
                                   !.given = tx[i], !.conn = conn]
    BY <1>0, <1>2, BecomeOnly DEF SoftStop, Become
  <2>2. Fresh(flow[f])' /\ SameStart(f)
    BY <2>1 DEF Fresh, SameStart, Starting, Idle, Ongoing
  <2> QED BY <2>1, <2>2, CopyStep
<1>3. ASSUME NEW i \in Ids, RestClear(f, i) PROVE OverlapInv' /\ StopKept
  <2>1. /\ UNCHANGED <<tx, started>> /\ Only(f)
        /\ flow'[f] = [Idle EXCEPT !.pc = "station", !.id = i, !.conn = Clear(conn)]
    BY <1>0, <1>3, BecomeOnly DEF RestClear, Become
  <2>2. Fresh(flow[f])' /\ SameStart(f)
    BY <2>1 DEF Fresh, SameStart, Starting, Idle
  <2> QED BY <2>1, <2>2, CopyStep
<1>4. CASE StopRead(f)
  <2>1. UNCHANGED <<tx, started>> /\ flow[f].pc = "stop"
    BY <1>4 DEF StopRead, At
  <2>2. CASE Refuse(f)
    BY <1>0, <2>1, <2>2, RefuseOverlap DEF Fresh
  <2>3. CASE /\ Ongoing(flow[f].id)
             /\ Become(f, [flow[f] EXCEPT !.pc = "stopStation", !.tx = tx[flow[f].id],
                                          !.conn = Clear(@)])
    <3>1. flow'[f].pc = "stopStation" /\ flow'[f].id = flow[f].id
      BY <1>0, <2>3 DEF Become, Flow
    <3>2. Fresh(flow[f])' /\ SameStart(f)
      BY <2>1, <2>3, <3>1 DEF Fresh, SameStart, Starting, Ongoing
    <3> QED BY <1>0, <2>1, <2>3, <3>2, BecomeOnly, CopyStep
  <2> QED BY <1>4, <2>2, <2>3 DEF StopRead
<1>5. CASE StopStation(f)
  <2>1. UNCHANGED <<tx, started>> /\ Only(f) /\ flow[f].pc = "stopStation"
    BY <1>0, <1>5, GoToOnly DEF StopStation, At
  <2>2. flow'[f].pc = "stopSave" /\ flow'[f].id = flow[f].id
    BY <1>0, <1>5 DEF StopStation, GoTo, Flow
  <2>3. Fresh(flow[f])' /\ SameStart(f)
    BY <1>0, <2>1, <2>2 DEF Fresh, SameStart, Starting, Ongoing
  <2> QED BY <2>1, <2>3, CopyStep
<1>6. CASE StopSave(f) \/ Fallback(f)
  <2>1. UNCHANGED started /\ flow[f].pc \in {"stopSave", "fallback"}
    BY <1>6 DEF StopSave, Fallback, At
  <2>2. PICK k \in Ids : k = flow[f].id
    BY <1>0, <2>1, AimedFlow
  <2>3. Ongoing(k)
    BY <1>0, <2>1, <2>2 DEF Fresh
  <2>4. CASE Refuse(f) /\ UNCHANGED tx
    BY <2>1, <2>2, <2>3, <2>4, RefuseOverlap
  <2>5. ASSUME NEW d, SaveTx(flow[f].id, d), Done(f) PROVE OverlapInv' /\ StopKept
    <3>1. \A i \in Ids \ {k} : tx'[i] = tx[i]
      BY <2>2, <2>5 DEF SaveTx
    <3>2. Holds(flow[f], k) /\ ~Stopped(k) /\ k <= started
      BY <2>1, <2>2, <2>3, Born DEF Holds, Ongoing, Stopped, Exists
    <3> QED BY <1>0, <2>1, <2>5, <3>1, <3>2, DoneOnly, IdleFresh, WriteStep
  <2> QED BY <1>6, <2>4, <2>5 DEF StopSave, Fallback
<1> QED BY <1>1, <1>2, <1>3, <1>4, <1>5, <1>6

LEMMA StatusOverlap ==
  ASSUME OverlapInv, Apart, TypeInv', NEW f \in Flows,
         StatusRead(f) \/ StatusSave(f) \/ \E s \in Statuses : StatusMsg(f, s)
  PROVE  OverlapInv' /\ StopKept
<1> USE DEF TypeInv, TypeOK
<1>0. TypeInv /\ Fresh(flow[f]) /\ flow[f] \in Flow
  BY AimedFlow DEF OverlapInv
<1>1. ASSUME NEW s \in Statuses, StatusMsg(f, s) PROVE OverlapInv' /\ StopKept
  <2>1. /\ UNCHANGED <<tx, started>> /\ Only(f)
        /\ flow'[f] = [Idle EXCEPT !.pc = IF s = "Charging" THEN "station" ELSE "status",
                                   !.conn = [conn EXCEPT !.status = s]]
    BY <1>0, <1>1, BecomeOnly DEF StatusMsg, Become
  <2>2. flow'[f].pc \in {"station", "status"}
    BY <2>1 DEF Idle
  <2>3. Fresh(flow[f])' /\ SameStart(f)
    BY <2>2 DEF Fresh, SameStart, Starting
  <2> QED BY <2>1, <2>3, CopyStep
<1>2. CASE StatusRead(f)
  <2>1. UNCHANGED <<tx, started>>
    BY <1>2 DEF StatusRead
  <2>2. CASE GoTo(f, "station") \/
             Become(f, [flow[f] EXCEPT !.pc = "station", !.conn = Clear(@)])
    <3>1. flow'[f].pc = "station" /\ Only(f)
      <4>1. CASE GoTo(f, "station")
        BY <1>0, <4>1, GoToOnly DEF GoTo, Flow
      <4>2. CASE Become(f, [flow[f] EXCEPT !.pc = "station", !.conn = Clear(@)])
        BY <1>0, <4>2, BecomeOnly DEF Become, Flow
      <4> QED BY <2>2, <4>1, <4>2
    <3>2. Fresh(flow[f])' /\ SameStart(f)
      BY <3>1 DEF Fresh, SameStart, Starting
    <3> QED BY <2>1, <3>1, <3>2, CopyStep
  <2>3. ASSUME NEW i \in Ids, Stopped(i),
               Become(f, [flow[f] EXCEPT
                 !.pc = "statusSave", !.id = i, !.conn = Clear(@),
                 !.tx = [tx[i] EXCEPT !.extra = TRUE,
                                      !.bill = IF @ \in Settled THEN @ ELSE "PENDING"]])
        PROVE  OverlapInv' /\ StopKept
    <3>1. [tx[i] EXCEPT !.extra = TRUE,
                        !.bill = IF @ \in Settled THEN @ ELSE "PENDING"].stop = tx[i].stop
      BY DEF Doc
    <3>2. /\ flow'[f].pc = "statusSave" /\ flow'[f].id = i
          /\ flow'[f].tx.stop = tx[i].stop
      BY <1>0, <2>3, <3>1 DEF Become, Flow
    <3>3. Fresh(flow[f])' /\ SameStart(f)
      BY <2>1, <2>3, <3>2 DEF Fresh, SameStart, Starting, Stopped
    <3> QED BY <1>0, <2>1, <2>3, <3>3, BecomeOnly, CopyStep
  <2> QED BY <1>2, <2>2, <2>3 DEF StatusRead, Last
<1>3. CASE StatusSave(f)
  <2>1. UNCHANGED started /\ Only(f) /\ flow[f].pc = "statusSave"
    BY <1>0, <1>3, GoToOnly DEF StatusSave, At
  <2>2. \A i \in Ids : tx'[i].stop = tx[i].stop
    BY <1>0, <1>3, <2>1 DEF StatusSave, SaveTx, Fresh
  <2>3. flow'[f].pc = "station"
    BY <1>0, <1>3 DEF StatusSave, GoTo, Flow
  <2>4. Fresh(flow[f])' /\ SameStart(f)
    BY <2>3 DEF Fresh, SameStart, Starting
  <2> QED BY <2>1, <2>2, <2>4, CopyStep
<1> QED BY <1>1, <1>2, <1>3

LEMMA BillOverlap ==
  ASSUME OverlapInv, Apart, TypeInv', NEW f \in Flows,
         BillDone(f) \/ \E i \in Ids : BillStart(f, i)
  PROVE  OverlapInv' /\ StopKept
<1> USE DEF TypeInv, TypeOK
<1>0. TypeInv /\ Fresh(flow[f]) /\ flow[f] \in Flow
  BY AimedFlow DEF OverlapInv
<1>1. ASSUME NEW i \in Ids, BillStart(f, i) PROVE OverlapInv' /\ StopKept
  <2>1. UNCHANGED <<tx, started>> /\ flow[f].pc = "idle"
    BY <1>1 DEF BillStart, At
  <2>2. flow'[f].pc \in {"idle", "bill"} /\ Only(f)
    <3>1. CASE UNCHANGED flow
      BY <2>1, <3>1 DEF Only
    <3>2. CASE Become(f, [Idle EXCEPT !.pc = "bill", !.id = i])
      <4>1. flow'[f] = [Idle EXCEPT !.pc = "bill", !.id = i]
        BY <3>2 DEF Become
      <4> QED BY <1>0, <3>2, <4>1, BecomeOnly DEF Idle
    <3> QED BY <1>1, <3>1, <3>2 DEF BillStart
  <2>3. Fresh(flow[f])' /\ SameStart(f)
    BY <2>2 DEF Fresh, SameStart, Starting
  <2> QED BY <2>1, <2>2, <2>3, CopyStep
<1>2. CASE BillDone(f)
  <2>1. UNCHANGED started /\ Done(f)
    BY <1>2 DEF BillDone
  <2>2. \A i \in Ids : tx'[i].stop = tx[i].stop
    BY <1>2 DEF BillDone, Doc
  <2> QED BY <1>0, <2>1, <2>2, DoneOnly, IdleFresh, CopyStep
<1> QED BY <1>1, <1>2

LEMMA OverlapStep ==
  ASSUME OverlapInv, Apart, [Next]_vars
  PROVE  OverlapInv' /\ StopKept
<1>1. TypeInv'
  BY TypeStep DEF OverlapInv
<1>2. CASE UNCHANGED vars
  BY <1>1, <1>2 DEF vars, OverlapInv, Unborn, OwnIds, Fresh, Starts, Starting, StopKept,
                    Exists, Ongoing, Stopped
<1>3. ASSUME NEW f \in Flows, StartMsg(f) \/ Continue(f) PROVE OverlapInv' /\ StopKept
  BY <1>1, <1>3, StartOverlap, MeterOverlap, StopOverlap, StatusOverlap, BillOverlap
  DEF Continue
<1>4. ASSUME NEW f \in Flows, NEW s \in Statuses, StatusMsg(f, s)
      PROVE  OverlapInv' /\ StopKept
  BY <1>1, <1>4, StatusOverlap
<1>5. ASSUME NEW f \in Flows, NEW i \in Ids,
             \/ MeterMsg(f, i) \/ StopMsg(f, i) \/ BillStart(f, i)
             \/ CloseMsg(f, i) \/ RestSoftStop(f, i) \/ RestClear(f, i)
      PROVE  OverlapInv' /\ StopKept
  BY <1>1, <1>5, MeterOverlap, StopOverlap, BillOverlap DEF CloseMsg, RestSoftStop
<1> QED BY <1>2, <1>3, <1>4, <1>5 DEF Next

LEMMA OverlapInit == Init => OverlapInv
BY TypeInit
DEF Init, OverlapInv, Unborn, OwnIds, Fresh, Starts, Starting, Idle, Exists, NoDoc

-----------------------------------------------------------------------------
(* The inductive invariant: what an operation read of a transaction does   *)
(* not change before it saves it, whatever the other flows do to others.   *)
LEMMA OverlapInvariant == Spec /\ []Apart => []OverlapInv
<1>1. OverlapInv /\ Apart /\ [Next]_vars => OverlapInv'
  BY OverlapStep
<1> QED BY <1>1, OverlapInit, PTL DEF Spec

(* Operations that overlap lose a stop only if two of them are at work on  *)
(* the same transaction: the checks of handleStopTransaction() and of the  *)
(* meter values then still hold at the save.                               *)
THEOREM OverlapStopIsFinal == Spec /\ []Apart => StopIsFinal
<1>1. OverlapInv /\ Apart /\ [Next]_vars
        => [\A i \in Ids : Stopped(i) => tx'[i].stop = tx[i].stop]_tx
  BY OverlapStep DEF StopKept
<1> QED BY <1>1, OverlapInvariant, PTL DEF Spec, StopIsFinal

-----------------------------------------------------------------------------
(* The second premise: no billing task is between its check of the status  *)
(* and its save while a status notification completes the transaction.     *)
BillApart ==
  \A f, g \in Flows :
    flow[f].pc = "statusSave" /\ flow[g].pc = "bill" => flow[f].id # flow[g].id

(* The billing of a transaction before its stop.                           *)
Open == {"none", "ROAMING", "UNBILLED"}

(* A billing task is there for a complete transaction only, except while   *)
(* the status notification that created it has yet to save it.             *)
Complete(i) == Stopped(i) /\ tx[i].extra
Completing(f, i) == flow[f].pc = "statusSave" /\ flow[f].id = i

(* A transaction counts as billed once it says so, and only then.          *)
Billing(i) ==
  /\ Ongoing(i) => tx[i].bill \in Open
  /\ tx[i].bill = "BILLED" => Complete(i)
  /\ bills[i] <= (IF tx[i].bill = "BILLED" THEN 1 ELSE 0)
  /\ tasks[i] > 0 => Complete(i) \/ \E f \in Flows : Completing(f, i)

(* What an operation has read of the billing is still so.                  *)
FreshBill(r) ==
  /\ r.given.bill \in Open
  /\ r.pc = "meterSave" => r.tx.bill \in Open
  /\ r.pc = "statusSave" => /\ r.tx.extra
                            /\ r.tx.bill = "BILLED" <=> tx[r.id].bill = "BILLED"
  /\ r.pc = "bill" => Complete(r.id) /\ tx[r.id].bill = "PENDING"

BillingInv ==
  /\ \A i \in Ids : Billing(i)
  /\ \A f \in Flows : FreshBill(flow[f])
  /\ \A f, g \in Flows : flow[f].pc = "bill" /\ flow[g].pc = "bill" => f = g

(* A flow that does not begin to bill leaves the lock of the user alone.   *)
LEMMA BillingFromFresh ==
  ASSUME BillingInv, NEW f \in Flows, Only(f), flow'[f].pc # "bill",
         \A g \in Flows : FreshBill(flow[g])', \A i \in Ids : Billing(i)'
  PROVE  BillingInv'
BY DEF BillingInv, Only

LEMMA IdleFreshBill ==
  ASSUME NEW f \in Flows, TypeInv, Done(f)
  PROVE  FreshBill(flow[f])' /\ flow'[f].pc # "bill"
BY DEF TypeInv, Done, Become, Idle, FreshBill, NoDoc, Open

(* The steps that change nothing but the copies of the operation...        *)
LEMMA CopyBilling ==
  ASSUME OverlapInv, BillingInv, NEW f \in Flows, Only(f), flow[f].pc # "statusSave",
         flow'[f].pc # "bill", UNCHANGED <<tx, tasks, bills>>, FreshBill(flow[f])'
  PROVE  BillingInv'
<1>1. ASSUME NEW i \in Ids PROVE Billing(i)'
  <2>1. Billing(i) /\ \A g \in Flows : Completing(g, i) => Completing(g, i)'
    BY DEF BillingInv, Only, Completing
  <2> QED BY <2>1 DEF Billing, Complete, Stopped, Ongoing
<1>2. ASSUME NEW g \in Flows \ {f} PROVE FreshBill(flow[g])'
  BY DEF BillingInv, Only, FreshBill, Complete, Stopped
<1> QED BY <1>1, <1>2, BillingFromFresh

(* ...and those that write a transaction that has not stopped.             *)
LEMMA WriteBilling ==
  ASSUME OverlapInv, BillingInv, NEW f \in Flows, Only(f), flow[f].pc # "statusSave",
         flow'[f].pc # "bill", UNCHANGED <<tasks, bills>>, NEW k \in Ids, NEW d,
         ~Stopped(k), SaveTx(k, d), d.bill # "BILLED",
         d.stop = "no" => d.bill \in Open, FreshBill(flow[f])'
  PROVE  BillingInv'
<1>1. \A i \in Ids : tx'[i] = IF i = k THEN d ELSE tx[i]
  BY DEF SaveTx, OverlapInv, TypeInv, TypeOK
<1>2. \A g \in Flows : ~Completing(g, k)
  BY DEF OverlapInv, Fresh, Completing
<1>3. Billing(k) /\ ~Complete(k) /\ ~(tasks[k] > 0)
  BY <1>2 DEF Complete, BillingInv, Billing
<1>4. Billing(k)'
  BY <1>1, <1>3 DEF Billing, Ongoing
<1>5. ASSUME NEW i \in Ids \ {k} PROVE Billing(i)'
  <2>1. Billing(i) /\ tx'[i] = tx[i]
    BY <1>1 DEF BillingInv
  <2>2. \A g \in Flows : Completing(g, i) => Completing(g, i)'
    BY DEF Only, Completing
  <2> QED BY <2>1, <2>2 DEF Billing, Complete, Stopped, Ongoing
<1>6. ASSUME NEW g \in Flows \ {f} PROVE FreshBill(flow[g])'
  <2>1. flow'[g] = flow[g] /\ FreshBill(flow[g]) /\ Fresh(flow[g])
    BY DEF Only, BillingInv, OverlapInv
  <2>2. flow[g].pc \in {"statusSave", "bill"} => flow[g].id \in Ids
    BY AimedFlow DEF OverlapInv
  <2>3. flow[g].pc \in {"statusSave", "bill"} => tx'[flow[g].id] = tx[flow[g].id]
    BY <1>1, <2>1, <2>2 DEF Fresh, FreshBill, Complete
  <2> QED BY <2>1, <2>3 DEF FreshBill, Complete, Stopped
<1> QED BY <1>4, <1>5, <1>6, BillingFromFresh

-----------------------------------------------------------------------------
LEMMA StartBilling ==
  ASSUME OverlapInv, BillingInv, NEW f \in Flows,
         StartMsg(f) \/ Cleanup(f) \/ DeleteUnused(f) \/ StartSave(f) \/ EndWithStation(f)
  PROVE  BillingInv'
<1> USE DEF TypeInv, TypeOK
<1>1. TypeInv /\ flow[f] \in Flow /\ Fresh(flow[f]) /\ FreshBill(flow[f])
  BY AimedFlow DEF OverlapInv, BillingInv
<1>o. Only(f)
  BY <1>1, StepOnly DEF Continue
<1>2. CASE StartMsg(f)
  <2>1. flow'[f].pc = "cleanup" /\ flow'[f].given = NoDoc
    BY <1>1, <1>2 DEF StartMsg, Arrive, Become, Idle
  <2>2. FreshBill(flow[f])' /\ flow'[f].pc # "bill"
    BY <2>1 DEF FreshBill, NoDoc, Open
  <2> QED BY <1>2, <2>2, <1>o, CopyBilling DEF StartMsg, Arrive, At
<1>3. CASE Cleanup(f)
  <2>1. UNCHANGED <<tx, tasks, bills>>
    BY <1>3 DEF Cleanup
  <2>2. flow[f].pc = "cleanup"
    BY <1>3 DEF Cleanup, At
  <2>3. ASSUME flow'[f].pc \in {"cleanup", "delete", "save"},
               flow'[f].given = flow[f].given
        PROVE  BillingInv'
    <3>1. FreshBill(flow[f])' /\ flow'[f].pc # "bill"
      BY <1>1, <2>3 DEF FreshBill
    <3> QED BY <2>1, <2>2, <3>1, <1>o, CopyBilling
  <2>4. CASE GoTo(f, "save")
    BY <1>1, <2>3, <2>4 DEF GoTo, Flow
  <2>5. ASSUME NEW a \in NextActive(f),
               Become(f, [flow[f] EXCEPT !.other = a,
                                    !.pc = IF tx[a].used THEN "cleanup" ELSE "delete"])
        PROVE  BillingInv'
    <3>1. /\ flow'[f].pc \in {"cleanup", "delete", "save"}
          /\ flow'[f].given = flow[f].given
      BY <1>1, <2>5 DEF Become, Flow
    <3> QED BY <2>3, <3>1
  <2> QED BY <1>3, <2>4, <2>5 DEF Cleanup
<1>4. CASE DeleteUnused(f)
  <2>1. /\ flow'[f].pc = "cleanup" /\ flow'[f].given = flow[f].given
        /\ flow[f].pc = "delete"
    BY <1>1, <1>4 DEF DeleteUnused, At, Become, Flow
  <2>2. FreshBill(flow[f])' /\ flow'[f].pc # "bill"
    BY <1>1, <2>1 DEF FreshBill
  <2>3. flow[f].other \in Ids /\ ~Stopped(flow[f].other)
    BY <1>1, <2>1, AimedFlow DEF Fresh, Ongoing, Stopped
  <2> QED BY <1>4, <2>1, <2>2, <2>3, <1>o, WriteBilling DEF DeleteUnused, NoDoc
<1>5. CASE StartSave(f)
  <2>1. flow[f].pc = "save" /\ UNCHANGED <<tasks, bills>>
    BY <1>5 DEF StartSave, At
  <2>2. flow[f].id \in Ids /\ ~Stopped(flow[f].id)
    BY <1>1, <2>1, AimedFlow DEF Fresh, Starting, Exists, Stopped
  <2>3. CASE Done(f) /\ UNCHANGED tx
    BY <1>1, <2>1, <2>3, IdleFreshBill, <1>o, CopyBilling
  <2>4. ASSUME NEW b \in {"none", "ROAMING", "UNBILLED"},
               SaveTx(flow[f].id, [NoDoc EXCEPT !.stop = "no", !.bill = b]),
               Become(f, [flow[f] EXCEPT !.pc = "startStation",
                                         !.conn = Show(@, flow[f].id)])
        PROVE  BillingInv'
    <3>1. flow'[f].pc = "startStation" /\ flow'[f].given = flow[f].given
      BY <1>1, <2>4 DEF Become, Flow
    <3>2. FreshBill(flow[f])' /\ flow'[f].pc # "bill"
      BY <1>1, <3>1 DEF FreshBill
    <3>3. [NoDoc EXCEPT !.stop = "no", !.bill = b].bill = b /\ b \in Open
      BY DEF NoDoc, Open
    <3> QED BY <2>1, <2>2, <2>4, <3>2, <3>3, <1>o, WriteBilling DEF Open
  <2> QED BY <1>5, <2>3, <2>4 DEF StartSave
<1>6. CASE EndWithStation(f)
  BY <1>1, <1>6, IdleFreshBill, <1>o, CopyBilling DEF EndWithStation, At
<1> QED BY <1>2, <1>3, <1>4, <1>5, <1>6

LEMMA MeterBilling ==
  ASSUME OverlapInv, BillingInv, NEW f \in Flows,
         MeterRead(f) \/ MeterSave(f) \/ \E i \in Ids : MeterMsg(f, i)
  PROVE  BillingInv'
<1> USE DEF TypeInv, TypeOK
<1>1. TypeInv /\ flow[f] \in Flow /\ Fresh(flow[f]) /\ FreshBill(flow[f])
  BY AimedFlow DEF OverlapInv, BillingInv
<1>o. Only(f)
  BY <1>1, StepOnly DEF Continue
<1>2. ASSUME NEW i \in Ids, MeterMsg(f, i) PROVE BillingInv'
  <2>1. /\ UNCHANGED <<tx, tasks, bills>>
        /\ flow'[f] = [Idle EXCEPT !.pc = "meter", !.id = i, !.conn = conn]
    BY <1>1, <1>2 DEF MeterMsg, Arrive, Become
  <2>2. flow[f].pc = "idle"
    BY <1>2 DEF MeterMsg, Arrive, At
  <2>3. FreshBill(flow[f])' /\ flow'[f].pc # "bill"
    BY <2>1 DEF FreshBill, Idle, NoDoc, Open
  <2> QED BY <2>1, <2>2, <2>3, <1>o, CopyBilling
<1>3. CASE MeterRead(f)
  <2>1. flow[f].pc = "meter" /\ flow[f].id \in Ids /\ UNCHANGED <<tx, tasks, bills>>
    BY <1>1, <1>3, AimedFlow DEF MeterRead, At
  <2>2. CASE Done(f)
    BY <1>1, <2>1, <2>2, IdleFreshBill, <1>o, CopyBilling
  <2>3. CASE /\ Ongoing(flow[f].id)
             /\ Become(f, [flow[f] EXCEPT !.pc = "meterSave", !.tx = tx[flow[f].id]])
    <3>1. /\ flow'[f].pc = "meterSave" /\ flow'[f].given = flow[f].given
          /\ flow'[f].tx = tx[flow[f].id]
      BY <1>1, <2>3 DEF Become, Flow
    <3>2. tx[flow[f].id].bill \in Open
      BY <2>1, <2>3 DEF BillingInv, Billing
    <3>3. FreshBill(flow[f])' /\ flow'[f].pc # "bill"
      BY <1>1, <3>1, <3>2 DEF FreshBill
    <3> QED BY <2>1, <3>3, <1>o, CopyBilling
  <2> QED BY <1>3, <2>2, <2>3 DEF MeterRead
<1>4. CASE MeterSave(f)
  <2>1. /\ flow[f].pc = "meterSave" /\ flow[f].id \in Ids /\ UNCHANGED <<tasks, bills>>
        /\ flow'[f].pc = "station" /\ flow'[f].given = flow[f].given
    BY <1>1, <1>4, AimedFlow DEF MeterSave, At, Become, Flow
  <2>2. PICK u \in {flow[f].tx.used, TRUE} :
          SaveTx(flow[f].id, [flow[f].tx EXCEPT !.used = u])
    BY <1>4 DEF MeterSave
  <2>3. [flow[f].tx EXCEPT !.used = u].bill \in Open
    BY <1>1, <2>1 DEF FreshBill, Flow, Doc
  <2>4. FreshBill(flow[f])' /\ flow'[f].pc # "bill"
    BY <1>1, <2>1 DEF FreshBill
  <2>5. ~Stopped(flow[f].id)
    BY <1>1, <2>1 DEF Fresh, Ongoing, Stopped
  <2> QED BY <2>1, <2>2, <2>3, <2>4, <2>5, <1>o, WriteBilling DEF Open
<1> QED BY <1>2, <1>3, <1>4

LEMMA StopBilling ==
  ASSUME OverlapInv, BillingInv, NEW f \in Flows,
         \/ StopRead(f) \/ StopStation(f) \/ StopSave(f) \/ Fallback(f)
         \/ \E i \in Ids : StopMsg(f, i) \/ SoftStop(f, i) \/ RestClear(f, i)
  PROVE  BillingInv'
<1> USE DEF TypeInv, TypeOK
<1>1. TypeInv /\ flow[f] \in Flow /\ Fresh(flow[f]) /\ FreshBill(flow[f])
  BY AimedFlow DEF OverlapInv, BillingInv
<1>o. Only(f)
  BY <1>1, StepOnly DEF Continue
<1>2. ASSUME flow[f].pc # "statusSave", UNCHANGED <<tx, tasks, bills>>,
             flow'[f].pc \in {"stop", "stopStation", "stopSave", "fallback", "station"},
             flow'[f].given.bill \in Open
      PROVE  BillingInv'
  <2>1. FreshBill(flow[f])' /\ flow'[f].pc # "bill"
    BY <1>2 DEF FreshBill
  <2> QED BY <1>2, <2>1, <1>o, CopyBilling
<1>3. ASSUME NEW i \in Ids, StopMsg(f, i) PROVE BillingInv'
  <2>0. flow[f].pc = "idle"
    BY <1>3 DEF StopMsg, Arrive, At
  <2>1. /\ UNCHANGED <<tx, tasks, bills>>
        /\ flow'[f] = [Idle EXCEPT !.pc = "stop", !.id = i, !.conn = conn]
    BY <1>1, <1>3 DEF StopMsg, Arrive, Become
  <2>2. flow'[f].pc = "stop" /\ flow'[f].given.bill \in Open
    BY <2>1 DEF Idle, NoDoc, Open
  <2> QED BY <1>2, <2>0, <2>1, <2>2
<1>4. ASSUME NEW i \in Ids, SoftStop(f, i) PROVE BillingInv'
  <2>0. flow[f].pc = "idle"
    BY <1>4 DEF SoftStop, At
  <2>1. /\ UNCHANGED <<tx, tasks, bills>> /\ Ongoing(i)
        /\ flow'[f] = [Idle EXCEPT !.pc = "stop", !.id = i, !.soft = TRUE,
                                   !.given = tx[i], !.conn = conn]
    BY <1>1, <1>4 DEF SoftStop, Become
  <2>2. flow'[f].pc = "stop" /\ flow'[f].given = tx[i]
    BY <2>1 DEF Idle
  <2>3. tx[i].bill \in Open
    BY <2>1 DEF BillingInv, Billing
  <2> QED BY <1>2, <2>0, <2>1, <2>2, <2>3
<1>5. ASSUME NEW i \in Ids, RestClear(f, i) PROVE BillingInv'
  <2>0. flow[f].pc = "idle"
    BY <1>5 DEF RestClear, At
  <2>1. /\ UNCHANGED <<tx, tasks, bills>>
        /\ flow'[f] = [Idle EXCEPT !.pc = "station", !.id = i, !.conn = Clear(conn)]
    BY <1>1, <1>5 DEF RestClear, Become
  <2>2. flow'[f].pc = "station" /\ flow'[f].given.bill \in Open
    BY <2>1 DEF Idle, NoDoc, Open
  <2> QED BY <1>2, <2>0, <2>1, <2>2
<1>6. ASSUME Refuse(f), UNCHANGED <<tx, tasks, bills>>, flow[f].pc # "statusSave"
      PROVE  BillingInv'
  <2>1. CASE Done(f)
    BY <1>1, <1>6, <2>1, IdleFreshBill, <1>o, CopyBilling
  <2>2. CASE GoTo(f, "fallback")
    <3>1. flow'[f].pc = "fallback" /\ flow'[f].given = flow[f].given
      BY <1>1, <2>2 DEF GoTo, Flow
    <3> QED BY <1>1, <1>2, <1>6, <3>1 DEF FreshBill
  <2> QED BY <1>6, <2>1, <2>2 DEF Refuse
<1>7. CASE StopRead(f)
  <2>1. flow[f].pc = "stop" /\ UNCHANGED <<tx, tasks, bills>>
    BY <1>7 DEF StopRead, At
  <2>2. CASE Become(f, [flow[f] EXCEPT !.pc = "stopStation", !.tx = tx[flow[f].id],
                                       !.conn = Clear(@)])
    <3>1. flow'[f].pc = "stopStation" /\ flow'[f].given = flow[f].given
      BY <1>1, <2>2 DEF Become, Flow
    <3> QED BY <1>1, <1>2, <2>1, <3>1 DEF FreshBill
  <2> QED BY <1>6, <1>7, <2>1, <2>2 DEF StopRead
<1>8. CASE StopStation(f)
  <2>1. flow'[f].pc = "stopSave" /\ flow'[f].given = flow[f].given
    BY <1>1, <1>8 DEF StopStation, GoTo, Flow
  <2> QED BY <1>1, <1>2, <1>8, <2>1 DEF StopStation, At, FreshBill
<1>9. CASE StopSave(f)
  <2>1. /\ flow[f].pc = "stopSave" /\ flow[f].id \in Ids /\ UNCHANGED <<tasks, bills>>
        /\ ~Stopped(flow[f].id)
    BY <1>1, <1>9, AimedFlow DEF StopSave, At, Fresh, Ongoing, Stopped
  <2>2. CASE Refuse(f) /\ UNCHANGED tx
    BY <1>6, <2>1, <2>2
  <2>3. ASSUME NEW u \in {flow[f].tx.used, TRUE}, NEW b \in StopBill(flow[f].tx.bill),
               SaveTx(flow[f].id, [stop |-> IF flow[f].soft THEN "soft" ELSE "station",
                                   used |-> u, extra |-> flow[f].soft, bill |-> b]),
               Done(f)
        PROVE  BillingInv'
    <3>1. b # "BILLED"
      BY DEF StopBill
    <3>2. FreshBill(flow[f])' /\ flow'[f].pc # "bill"
      BY <1>1, <2>3, IdleFreshBill
    <3> DEFINE d == [stop |-> IF flow[f].soft THEN "soft" ELSE "station",
                     used |-> u, extra |-> flow[f].soft, bill |-> b]
    <3>3. d.bill # "BILLED" /\ d.stop # "no" /\ SaveTx(flow[f].id, d)
      BY <2>3, <3>1
    <3> HIDE DEF d
    <3> QED BY <2>1, <3>2, <3>3, <1>o, WriteBilling
  <2> QED BY <1>9, <2>2, <2>3 DEF StopSave
<1>10. CASE Fallback(f)
  <2>1. /\ flow[f].pc = "fallback" /\ flow[f].id \in Ids /\ UNCHANGED <<tasks, bills>>
        /\ ~Stopped(flow[f].id) /\ Done(f)
    BY <1>1, <1>10, AimedFlow DEF Fallback, At, Fresh, Ongoing, Stopped
  <2> DEFINE d == [flow[f].given EXCEPT !.stop = "soft", !.extra = TRUE]
  <2>2. SaveTx(flow[f].id, d)
    BY <1>10 DEF Fallback
  <2>3. d.bill \in Open
    BY <1>1 DEF FreshBill, Flow, Doc
  <2> HIDE DEF d
  <2> QED BY <1>1, <2>1, <2>2, <2>3, IdleFreshBill, <1>o, WriteBilling DEF Open
<1> QED BY <1>3, <1>4, <1>5, <1>7, <1>8, <1>9, <1>10

LEMMA StatusBilling ==
  ASSUME OverlapInv, BillingInv, Apart, BillApart, NEW f \in Flows,
         StatusRead(f) \/ StatusSave(f) \/ \E s \in Statuses : StatusMsg(f, s)
  PROVE  BillingInv'
<1> USE DEF TypeInv, TypeOK
<1>1. TypeInv /\ flow[f] \in Flow /\ Fresh(flow[f]) /\ FreshBill(flow[f])
  BY AimedFlow DEF OverlapInv, BillingInv
<1>o. Only(f)
  BY <1>1, StepOnly DEF Continue
<1>2. ASSUME NEW s \in Statuses, StatusMsg(f, s) PROVE BillingInv'
  <2>0. flow[f].pc = "idle"
    BY <1>2 DEF StatusMsg, At
  <2>1. /\ UNCHANGED <<tx, tasks, bills>>
        /\ flow'[f] = [Idle EXCEPT !.pc = IF s = "Charging" THEN "station" ELSE "status",
                                   !.conn = [conn EXCEPT !.status = s]]
    BY <1>1, <1>2 DEF StatusMsg, Become
  <2>2. FreshBill(flow[f])' /\ flow'[f].pc # "bill"
    BY <2>1 DEF FreshBill, Idle, NoDoc, Open
  <2> QED BY <2>0, <2>1, <2>2, <1>o, CopyBilling
<1>3. CASE StatusRead(f)
  <2>0. flow[f].pc = "status"
    BY <1>3 DEF StatusRead, At
  <2>1. UNCHANGED <<tx, bills>>
    BY <1>3 DEF StatusRead
  <2>2. ASSUME UNCHANGED tasks,
               GoTo(f, "station") \/
               Become(f, [flow[f] EXCEPT !.pc = "station", !.conn = Clear(@)])
        PROVE  BillingInv'
    <3>1. flow'[f].pc = "station" /\ flow'[f].given = flow[f].given
      <4>1. CASE GoTo(f, "station")
        BY <1>1, <4>1 DEF GoTo, Flow
      <4>2. CASE Become(f, [flow[f] EXCEPT !.pc = "station", !.conn = Clear(@)])
        BY <1>1, <4>2 DEF Become, Flow
      <4> QED BY <2>2, <4>1, <4>2
    <3>2. FreshBill(flow[f])' /\ flow'[f].pc # "bill"
      BY <1>1, <3>1 DEF FreshBill
    <3> QED BY <2>0, <2>1, <2>2, <3>2, <1>o, CopyBilling
  <2>3. ASSUME NEW i \in Ids, Stopped(i),
               Become(f, [flow[f] EXCEPT
                 !.pc = "statusSave", !.id = i, !.conn = Clear(@),
                 !.tx = [tx[i] EXCEPT !.extra = TRUE,
                                      !.bill = IF @ \in Settled THEN @ ELSE "PENDING"]]),
               tasks' = [tasks EXCEPT ![i] =
                 IF tx[i].bill \in Settled THEN @ ELSE Bump(@, MaxTasks)]
        PROVE  BillingInv'
    <3> DEFINE d == [tx[i] EXCEPT !.extra = TRUE,
                                  !.bill = IF @ \in Settled THEN @ ELSE "PENDING"]
    <3>1. d.extra /\ (d.bill = "BILLED" <=> tx[i].bill = "BILLED")
      BY DEF Doc, Settled
    <3>2. Become(f, [flow[f] EXCEPT !.pc = "statusSave", !.id = i, !.conn = Clear(@), !.tx = d])
      BY <2>3
    <3> HIDE DEF d
    <3>3. /\ flow'[f].pc = "statusSave" /\ flow'[f].id = i
          /\ flow'[f].given = flow[f].given /\ flow'[f].tx = d
      BY <1>1, <3>2 DEF Become, Flow
    <3>4. FreshBill(flow[f])' /\ flow'[f].pc # "bill"
      BY <1>1, <2>1, <3>1, <3>3 DEF FreshBill
    <3>5. ASSUME NEW g \in Flows \ {f} PROVE FreshBill(flow[g])'
      BY <1>o, <2>1 DEF BillingInv, Only, FreshBill, Complete, Stopped
    <3>6. Billing(i)'
      BY <2>1, <3>3 DEF BillingInv, Billing, Completing, Complete, Stopped, Ongoing
    <3>7. ASSUME NEW j \in Ids \ {i} PROVE Billing(j)'
      <4>1. tasks'[j] = tasks[j] /\ Billing(j)
        BY <2>3 DEF BillingInv
      <4>2. \A g \in Flows : Completing(g, j) => Completing(g, j)'
        BY <1>o, <2>0 DEF Only, Completing
      <4> QED BY <2>1, <4>1, <4>2 DEF Billing, Complete, Stopped, Ongoing
    <3> QED BY <1>o, <3>4, <3>5, <3>6, <3>7, BillingFromFresh
  <2>4. Last \subseteq Ids
    BY DEF Last
  <2> QED BY <1>3, <2>2, <2>3, <2>4 DEF StatusRead
<1>4. CASE StatusSave(f)
  <2>1. UNCHANGED <<tasks, bills>>
    BY <1>4 DEF StatusSave
  <2>2. flow[f].pc = "statusSave" /\ flow[f].id \in Ids
    BY <1>1, <1>4, AimedFlow DEF StatusSave, At
  <2>3. PICK k \in Ids : k = flow[f].id
    BY <2>2
  <2>4. flow'[f].pc = "station" /\ flow'[f].given = flow[f].given
    BY <1>1, <1>4 DEF StatusSave, GoTo, Flow
  <2>5. FreshBill(flow[f])' /\ flow'[f].pc # "bill"
    BY <1>1, <2>4 DEF FreshBill
  <2>6. \A i \in Ids : tx'[i] = IF i = k THEN flow[f].tx ELSE tx[i]
    BY <1>1, <1>4, <2>3 DEF StatusSave, SaveTx
  <2>7. Stopped(k) /\ flow[f].tx.stop = tx[k].stop
    BY <1>1, <2>2, <2>3 DEF Fresh
  <2>8. flow[f].tx.extra /\ (flow[f].tx.bill = "BILLED" <=> tx[k].bill = "BILLED")
    BY <1>1, <2>2, <2>3 DEF FreshBill
  <2>9. Complete(k)' /\ ~Ongoing(k)'
    BY <2>6, <2>7, <2>8 DEF Complete, Stopped, Ongoing
  <2>10. Billing(k)'
    <3>1. bills[k] <= (IF tx[k].bill = "BILLED" THEN 1 ELSE 0)
      BY DEF BillingInv, Billing
    <3>2. bills'[k] <= (IF tx'[k].bill = "BILLED" THEN 1 ELSE 0)
      BY <2>1, <2>6, <2>8, <3>1
    <3> QED BY <2>9, <3>2 DEF Billing
  <2>11. ASSUME NEW i \in Ids \ {k} PROVE Billing(i)'
    <3>1. tx'[i] = tx[i] /\ Billing(i)
      BY <2>6 DEF BillingInv
    <3>2. \A g \in Flows : Completing(g, i) => Completing(g, i)'
      BY <1>o, <2>3 DEF Only, Completing
    <3> QED BY <2>1, <3>1, <3>2 DEF Billing, Complete, Stopped, Ongoing
  <2>12. ASSUME NEW g \in Flows \ {f} PROVE FreshBill(flow[g])'
    <3>1. flow'[g] = flow[g] /\ FreshBill(flow[g])
      BY <1>o DEF Only, BillingInv
    <3>2. flow[g].pc \in {"statusSave", "bill"} => flow[g].id \in Ids /\ flow[g].id # k
      BY <1>1, <2>2, <2>3, AimedFlow DEF Apart, BillApart, Holds
    <3> QED BY <2>6, <3>1, <3>2 DEF FreshBill, Complete, Stopped
  <2> QED BY <1>o, <2>5, <2>10, <2>11, <2>12, BillingFromFresh
<1> QED BY <1>2, <1>3, <1>4

LEMMA TaskBilling ==
  ASSUME OverlapInv, BillingInv, BillApart, BillApart', NEW f \in Flows,
         BillDone(f) \/ \E i \in Ids : BillStart(f, i)
  PROVE  BillingInv'
<1> USE DEF TypeInv, TypeOK
<1>1. TypeInv /\ flow[f] \in Flow /\ FreshBill(flow[f])
  BY AimedFlow DEF OverlapInv, BillingInv
<1>o. Only(f)
  BY <1>1, StepOnly DEF Continue
<1>2. ASSUME NEW i \in Ids, BillStart(f, i) PROVE BillingInv'
  <2>0. flow[f].pc = "idle"
    BY <1>2 DEF BillStart, At
  <2>1. /\ tasks[i] > 0 /\ UNCHANGED <<tx, bills>>
        /\ tasks' = [tasks EXCEPT ![i] = @ - 1]
    BY <1>2 DEF BillStart
  <2>2. \A j \in Ids : tasks'[j] > 0 => tasks[j] > 0
    BY <1>1, <2>1
  <2>3. ASSUME NEW j \in Ids PROVE Billing(j)'
    <3>1. Billing(j) /\ \A g \in Flows : Completing(g, j) => Completing(g, j)'
      BY <1>o, <2>0 DEF BillingInv, Only, Completing
    <3> QED BY <2>1, <2>2, <3>1 DEF Billing, Complete, Stopped, Ongoing
  <2>4. ASSUME NEW g \in Flows \ {f} PROVE FreshBill(flow[g])'
    BY <1>o, <2>1 DEF BillingInv, Only, FreshBill, Complete, Stopped
  <2>5. CASE UNCHANGED flow
    <3>1. FreshBill(flow[f])' /\ flow'[f].pc # "bill"
      BY <1>1, <2>0, <2>5 DEF FreshBill
    <3> QED BY <1>o, <2>3, <2>4, <3>1, BillingFromFresh
  <2>6. CASE /\ tx[i].bill = "PENDING" /\ \A g \in Flows : ~At(g, "bill")
             /\ Become(f, [Idle EXCEPT !.pc = "bill", !.id = i])
    <3>1. flow'[f] = [Idle EXCEPT !.pc = "bill", !.id = i]
      BY <1>1, <2>6 DEF Become
    <3>2. flow'[f].pc = "bill" /\ flow'[f].id = i /\ flow'[f].given.bill \in Open
      BY <3>1 DEF Idle, NoDoc, Open
    <3>3. ASSUME NEW g \in Flows PROVE ~Completing(g, i)
      BY <1>o, <2>0, <3>2 DEF BillApart, Completing, Only
    <3>4. Complete(i)
      BY <2>1, <3>3 DEF BillingInv, Billing
    <3>5. FreshBill(flow[f])'
      BY <2>1, <2>6, <3>2, <3>4 DEF FreshBill, Complete, Stopped
    <3>6. \A g, h \in Flows : flow'[g].pc = "bill" /\ flow'[h].pc = "bill" => g = h
      BY <1>o, <2>6 DEF Only, At
    <3> QED BY <2>3, <2>4, <3>5, <3>6 DEF BillingInv
  <2>7. IF tx[i].bill = "PENDING" /\ \A g \in Flows : ~At(g, "bill")
          THEN Become(f, [Idle EXCEPT !.pc = "bill", !.id = i])
          ELSE UNCHANGED flow
    BY <1>2 DEF BillStart
  <2> QED BY <2>5, <2>6, <2>7
<1>3. CASE BillDone(f)
  <2>1. Done(f) /\ UNCHANGED tasks
    BY <1>3 DEF BillDone
  <2>2. flow[f].pc = "bill"
    BY <1>3 DEF BillDone, At
  <2>3. PICK k \in Ids : k = flow[f].id
    BY <1>1, <2>2, AimedFlow
  <2>4. Complete(k) /\ tx[k].bill = "PENDING" /\ Exists(k)
    BY <1>1, <2>2, <2>3 DEF FreshBill, Complete, Stopped, Exists
  <2>5. PICK r \in {"BILLED", "FAILED"} :
          /\ tx' = [tx EXCEPT ![k].bill = r]
          /\ bills' = [bills EXCEPT ![k] = IF r = "BILLED" THEN Bump(@, MaxBills) ELSE @]
    BY <1>3, <2>3, <2>4 DEF BillDone
  <2>6. \A i \in Ids : /\ tx'[i].stop = tx[i].stop /\ tx'[i].extra = tx[i].extra
                       /\ tx'[i].bill = IF i = k THEN r ELSE tx[i].bill
    BY <1>1, <2>5 DEF Doc
  <2>7. bills[k] = 0
    BY <1>1, <2>4 DEF BillingInv, Billing
  <2>8. bills'[k] = IF r = "BILLED" THEN 1 ELSE 0
    BY <1>1, <2>5, <2>7 DEF Bump, MaxBills
  <2>9. Complete(k)' /\ ~Ongoing(k)'
    BY <2>4, <2>6 DEF Complete, Stopped, Ongoing
  <2>10. Billing(k)'
    BY <2>6, <2>8, <2>9 DEF Billing
  <2>11. ASSUME NEW i \in Ids \ {k} PROVE Billing(i)'
    <3>1. bills'[i] = bills[i] /\ Billing(i)
      BY <1>1, <2>5 DEF BillingInv
    <3>2. \A g \in Flows : Completing(g, i) => Completing(g, i)'
      BY <1>o, <2>2 DEF Only, Completing
    <3> QED BY <2>1, <2>6, <3>1, <3>2 DEF Billing, Complete, Stopped, Ongoing
  <2>12. ASSUME NEW g \in Flows \ {f} PROVE FreshBill(flow[g])'
    <3>1. flow'[g] = flow[g] /\ FreshBill(flow[g]) /\ flow[g].pc # "bill"
      BY <1>o, <2>2 DEF Only, BillingInv
    <3>2. flow[g].pc = "statusSave" => flow[g].id \in Ids /\ flow[g].id # k
      BY <1>1, <2>2, <2>3, AimedFlow DEF BillApart
    <3> QED BY <2>6, <3>1, <3>2 DEF FreshBill
  <2> QED BY <1>1, <1>o, <2>1, <2>10, <2>11, <2>12, IdleFreshBill, BillingFromFresh
<1> QED BY <1>2, <1>3

LEMMA BillingStep ==
  ASSUME OverlapInv, BillingInv, Apart, BillApart, BillApart', [Next]_vars
  PROVE  BillingInv'
<1>1. CASE UNCHANGED vars
  BY <1>1
  DEF vars, BillingInv, Billing, FreshBill, Complete, Completing, Ongoing, Stopped
<1>2. ASSUME NEW f \in Flows, StartMsg(f) \/ Continue(f) PROVE BillingInv'
  BY <1>2, StartBilling, MeterBilling, StopBilling, StatusBilling, TaskBilling DEF Continue
<1>3. ASSUME NEW f \in Flows, NEW s \in Statuses, StatusMsg(f, s) PROVE BillingInv'
  BY <1>3, StatusBilling
<1>4. ASSUME NEW f \in Flows, NEW i \in Ids,
             \/ MeterMsg(f, i) \/ StopMsg(f, i) \/ BillStart(f, i)
             \/ CloseMsg(f, i) \/ RestSoftStop(f, i) \/ RestClear(f, i)
      PROVE  BillingInv'
  BY <1>4, MeterBilling, StopBilling, TaskBilling DEF CloseMsg, RestSoftStop
<1> QED BY <1>1, <1>2, <1>3, <1>4 DEF Next

LEMMA BillingInit == Init => BillingInv
BY DEF Init, BillingInv, Billing, FreshBill, Idle, NoDoc, Open, Ongoing

(* A task bills a complete transaction, whose status no stop and no status *)
(* notification takes back.                                                *)
LEMMA BillingInvariant == Spec /\ []Apart /\ []BillApart => []BillingInv
<1>1. OverlapInv /\ BillingInv /\ Apart /\ BillApart /\ BillApart' /\ [Next]_vars
        => BillingInv'
  BY BillingStep
<1> QED BY <1>1, BillingInit, OverlapInvariant, PTL DEF Spec

(* However many operations overlap, and whatever number of billing tasks   *)
(* they created, a transaction is billed once, as long as they keep off    *)
(* the transaction that one of them is about to save.                      *)
THEOREM OverlapBilledOnce == Spec /\ []Apart /\ []BillApart => []BilledOnce
<1>1. OverlapInv /\ BillingInv => BilledOnce
  <2>1. ASSUME OverlapInv, NEW i \in Ids, Billing(i) PROVE bills[i] <= 1
    BY <2>1 DEF Billing, OverlapInv, TypeInv, TypeOK
  <2> QED BY <2>1 DEF BillingInv, BilledOnce
<1> QED BY <1>1, BillingInvariant, OverlapInvariant, PTL

(* ... and it is billed only when it has stopped and its extra inactivity  *)
(* is known.                                                               *)
THEOREM OverlapBilledComplete == Spec /\ []Apart /\ []BillApart => []BilledComplete
<1>1. BillingInv => BilledComplete
  BY DEF BillingInv, Billing, Complete, BilledComplete
<1> QED BY <1>1, BillingInvariant, PTL
-----------------------------------------------------------------------------
(* The refinement of SessionLifecycle.  A step moves one transaction on by *)
(* one stage, or none.                                                     *)
Follows(s, t) ==
  \/ s = t
  \/ s = "new" /\ t \in {"ongoing", "gone"}
  \/ s = "ongoing" /\ t \in {"gone", "stopped", "complete"}
  \/ s = "stopped" /\ t = "complete"
  \/ s = "complete" /\ t = "billed"

Refines == [Lifecycle!Next]_[i \in Ids |-> Stage(i)]

LEMMA MoveRefines ==
  ASSUME NEW k \in Ids, Follows(Stage(k), Stage(k)'),
         \A i \in Ids \ {k} : Stage(i)' = Stage(i)
  PROVE  Refines
<1> DEFINE st == [i \in Ids |-> Stage(i)]
<1>1. st' = [st EXCEPT ![k] = Stage(k)']
  OBVIOUS
<1>2. st[k] = Stage(k)
  OBVIOUS
<1>3. CASE Stage(k)' = Stage(k)
  BY <1>3 DEF Refines
<1>4. CASE Stage(k) = "new" /\ Stage(k)' \in {"ongoing", "gone"}
  BY <1>1, <1>2, <1>4
  DEF Refines, Lifecycle!Next, Lifecycle!Open, Lifecycle!Drop, Lifecycle!Move
<1>5. CASE Stage(k) = "ongoing" /\ Stage(k)' \in {"gone", "stopped", "complete"}
  BY <1>1, <1>2, <1>5
  DEF Refines, Lifecycle!Next, Lifecycle!Drop, Lifecycle!Stop, Lifecycle!Move
<1>6. CASE Stage(k) = "stopped" /\ Stage(k)' = "complete"
  BY <1>1, <1>2, <1>6 DEF Refines, Lifecycle!Next, Lifecycle!Complete, Lifecycle!Move
<1>7. CASE Stage(k) = "complete" /\ Stage(k)' = "billed"
  BY <1>1, <1>2, <1>7 DEF Refines, Lifecycle!Next, Lifecycle!Bill, Lifecycle!Move
<1> QED BY <1>3, <1>4, <1>5, <1>6, <1>7 DEF Follows

(* The transactions a step of f does not write keep their stage.           *)
LEMMA StageKept ==
  ASSUME NEW f \in Flows, Only(f), UNCHANGED started, NEW i \in Ids, tx'[i] = tx[i],
         Starts(flow[f], i)' <=> Starts(flow[f], i)
  PROVE  Stage(i)' = Stage(i)
<1>1. (\E g \in Flows : Starts(flow[g], i))' <=> \E g \in Flows : Starts(flow[g], i)
  BY DEF Only, Starts
<1> QED BY <1>1 DEF Stage, Ongoing, Exists

(* What the stages say of a transaction with a document...                 *)
LEMMA StageOf ==
  ASSUME NEW i \in Ids
  PROVE  /\ Ongoing(i) => Stage(i) = "ongoing"
         /\ Exists(i) /\ ~Ongoing(i) =>
              Stage(i) = IF tx[i].bill = "BILLED" THEN "billed"
                         ELSE IF tx[i].extra THEN "complete" ELSE "stopped"
         /\ ~Exists(i) => Stage(i) = IF i > started \/ \E f \in Flows : Starts(flow[f], i)
                                     THEN "new" ELSE "gone"
BY DEF Stage, Ongoing, Exists

LEMMA StageOfNext ==
  ASSUME NEW i \in Ids
  PROVE  /\ Ongoing(i)' => Stage(i)' = "ongoing"
         /\ Exists(i)' /\ ~Ongoing(i)' =>
              Stage(i)' = IF tx'[i].bill = "BILLED" THEN "billed"
                          ELSE IF tx'[i].extra THEN "complete" ELSE "stopped"
         /\ ~Exists(i)' => Stage(i)' = IF i > started' \/ \E f \in Flows : Starts(flow'[f], i)
                                       THEN "new" ELSE "gone"
BY DEF Stage, Ongoing, Exists

(* The steps that write no transaction and neither begin nor end a start.  *)
Quietly(f) ==
  /\ UNCHANGED <<tx, started>>
  /\ \A i \in Ids : Starts(flow[f], i)' <=> Starts(flow[f], i)

LEMMA QuietRefines ==
  ASSUME NEW f \in Flows, Only(f), Quietly(f)
  PROVE  Refines
<1>1. \A i \in Ids : Stage(i)' = Stage(i)
  BY StageKept DEF Quietly
<1> QED BY <1>1 DEF Refines

LEMMA QuietSteps ==
  ASSUME TypeInv, NEW f \in Flows,
         \/ Cleanup(f) \/ EndWithStation(f) \/ MeterRead(f) \/ StopRead(f)
         \/ StopStation(f) \/ StatusRead(f)
         \/ \E s \in Statuses : StatusMsg(f, s)
         \/ \E i \in Ids : \/ MeterMsg(f, i) \/ StopMsg(f, i) \/ SoftStop(f, i)
                          \/ RestClear(f, i) \/ BillStart(f, i)
  PROVE  Quietly(f)
<1> USE DEF TypeInv, TypeOK
<1>0. flow[f] \in Flow
  BY AimedFlow
<1>1. ASSUME UNCHANGED <<tx, started>>, flow[f].pc \notin Starting,
             flow'[f].pc \notin Starting
      PROVE  Quietly(f)
  BY <1>1 DEF Quietly, Starts
<1>2. CASE Cleanup(f)
  <2>1. UNCHANGED <<tx, started>> /\ flow[f].pc = "cleanup"
    BY <1>2 DEF Cleanup, At
  <2>2. flow'[f].pc \in Starting /\ flow'[f].id = flow[f].id
    <3>1. CASE GoTo(f, "save")
      BY <1>0, <3>1 DEF GoTo, Flow, Starting
    <3>2. ASSUME NEW a \in NextActive(f),
                 Become(f, [flow[f] EXCEPT !.other = a,
                                    !.pc = IF tx[a].used THEN "cleanup" ELSE "delete"])
          PROVE  flow'[f].pc \in Starting /\ flow'[f].id = flow[f].id
      BY <1>0, <3>2 DEF Become, Flow, Starting
    <3> QED BY <1>2, <3>1, <3>2 DEF Cleanup
  <2> QED BY <2>1, <2>2 DEF Quietly, Starts, Starting
<1>3. CASE EndWithStation(f)
  <2>1. UNCHANGED <<tx, started>> /\ flow[f].pc \in {"station", "startStation"}
    BY <1>3 DEF EndWithStation, At
  <2>2. flow'[f].pc = "idle"
    BY <1>3 DEF EndWithStation, Done, Become, Idle
  <2> QED BY <1>1, <2>1, <2>2 DEF Starting
<1>4. CASE MeterRead(f)
  <2>1. UNCHANGED <<tx, started>> /\ flow[f].pc = "meter"
    BY <1>4 DEF MeterRead, At
  <2>2. flow'[f].pc \in {"idle", "meterSave"}
    <3>1. CASE Done(f)
      BY <3>1 DEF Done, Become, Idle
    <3>2. CASE Become(f, [flow[f] EXCEPT !.pc = "meterSave", !.tx = tx[flow[f].id]])
      BY <1>0, <3>2 DEF Become, Flow
    <3> QED BY <1>4, <3>1, <3>2 DEF MeterRead
  <2> QED BY <1>1, <2>1, <2>2 DEF Starting
<1>5. CASE StopRead(f)
  <2>1. UNCHANGED <<tx, started>> /\ flow[f].pc = "stop"
    BY <1>5 DEF StopRead, At
  <2>2. flow'[f].pc \in {"idle", "fallback", "stopStation"}
    <3>1. CASE Refuse(f)
      BY <1>0, <3>1 DEF Refuse, GoTo, Done, Become, Idle, Flow
    <3>2. CASE Become(f, [flow[f] EXCEPT !.pc = "stopStation", !.tx = tx[flow[f].id],
                                         !.conn = Clear(@)])
      BY <1>0, <3>2 DEF Become, Flow
    <3> QED BY <1>5, <3>1, <3>2 DEF StopRead
  <2> QED BY <1>1, <2>1, <2>2 DEF Starting
<1>6. CASE StopStation(f)
  <2>1. /\ UNCHANGED <<tx, started>> /\ flow[f].pc = "stopStation"
        /\ flow'[f].pc = "stopSave"
    BY <1>0, <1>6 DEF StopStation, At, GoTo, Flow
  <2> QED BY <1>1, <2>1 DEF Starting
<1>7. CASE StatusRead(f)
  <2>1. UNCHANGED <<tx, started>> /\ flow[f].pc = "status"
    BY <1>7 DEF StatusRead, At
  <2>2. flow'[f].pc \in {"station", "statusSave"}
    <3>1. CASE GoTo(f, "station")
      BY <1>0, <3>1 DEF GoTo, Flow
    <3>2. CASE Become(f, [flow[f] EXCEPT !.pc = "station", !.conn = Clear(@)])
      BY <1>0, <3>2 DEF Become, Flow
    <3>3. ASSUME NEW i, NEW d, Become(f, [flow[f] EXCEPT !.pc = "statusSave", !.id = i,
                                                    !.conn = Clear(@), !.tx = d])
          PROVE  flow'[f].pc = "statusSave"
      BY <1>0, <3>3 DEF Become, Flow
    <3> QED BY <1>7, <3>1, <3>2, <3>3 DEF StatusRead
  <2> QED BY <1>1, <2>1, <2>2 DEF Starting
<1>8. ASSUME NEW s \in Statuses, StatusMsg(f, s) PROVE Quietly(f)
  <2>1. UNCHANGED <<tx, started>> /\ flow[f].pc = "idle"
    BY <1>8 DEF StatusMsg, At
  <2>2. flow'[f].pc \in {"station", "status"}
    BY <1>8 DEF StatusMsg, Become, Idle
  <2> QED BY <1>1, <2>1, <2>2 DEF Starting
<1>9. ASSUME NEW i \in Ids, MeterMsg(f, i) \/ StopMsg(f, i) PROVE Quietly(f)
  <2>1. UNCHANGED <<tx, started>> /\ flow[f].pc = "idle"
    BY <1>9 DEF MeterMsg, StopMsg, Arrive, At
  <2>2. flow'[f].pc \in {"meter", "stop"}
    BY <1>9 DEF MeterMsg, StopMsg, Arrive, Become, Idle
  <2> QED BY <1>1, <2>1, <2>2 DEF Starting
<1>10. ASSUME NEW i \in Ids, SoftStop(f, i) \/ RestClear(f, i) PROVE Quietly(f)
  <2>1. UNCHANGED <<tx, started>> /\ flow[f].pc = "idle"
    BY <1>10 DEF SoftStop, RestClear, At
  <2>2. flow'[f].pc \in {"stop", "station"}
    BY <1>10 DEF SoftStop, RestClear, Become, Idle
  <2> QED BY <1>1, <2>1, <2>2 DEF Starting
<1>11. ASSUME NEW i \in Ids, BillStart(f, i) PROVE Quietly(f)
  <2>1. UNCHANGED <<tx, started>> /\ flow[f].pc = "idle"
    BY <1>11 DEF BillStart, At
  <2>2. flow'[f].pc \in {"idle", "bill"}
    <3>1. CASE UNCHANGED flow
      BY <2>1, <3>1
    <3>2. CASE Become(f, [Idle EXCEPT !.pc = "bill", !.id = i])
      BY <3>2 DEF Become, Idle
    <3> QED BY <1>11, <3>1, <3>2 DEF BillStart
  <2> QED BY <1>1, <2>1, <2>2 DEF Starting
<1> QED BY <1>2, <1>3, <1>4, <1>5, <1>6, <1>7, <1>8, <1>9, <1>10, <1>11

(* The steps of a start.                                                   *)
LEMMA StartRefines ==
  ASSUME OverlapInv, OverlapInv', NEW f \in Flows,
         StartMsg(f) \/ DeleteUnused(f) \/ StartSave(f)
  PROVE  Refines
<1> USE DEF TypeInv, TypeOK
<1>0. TypeInv /\ TypeInv' /\ Fresh(flow[f]) /\ flow[f] \in Flow
  BY AimedFlow DEF OverlapInv
<1>o. Only(f)
  BY <1>0, StepOnly DEF Continue
<1>1. CASE StartMsg(f)
  <2>1. /\ UNCHANGED tx /\ started' = started + 1 /\ started \in Int
        /\ flow[f].pc = "idle"
        /\ flow'[f] = [Idle EXCEPT !.pc = "cleanup", !.id = started + 1, !.conn = conn]
    BY <1>0, <1>1 DEF StartMsg, Arrive, At, Become
  <2>2. \A i \in Ids : Starts(flow'[f], i) <=> i = started + 1
    BY <2>1 DEF Starts, Starting, Idle
  <2>3. \A i \in Ids : i > started' \/ Starts(flow'[f], i) <=> i > started
    BY <2>1, <2>2 DEF Ids
  <2>4. \A i \in Ids : ~Starts(flow[f], i)
    BY <2>1 DEF Starts, Starting
  <2>5. ASSUME NEW i \in Ids PROVE Stage(i)' = Stage(i)
    <3>1. \A g \in Flows \ {f} : Starts(flow'[g], i) <=> Starts(flow[g], i)
      BY <1>o DEF Only
    <3>2. (i > started' \/ \E g \in Flows : Starts(flow'[g], i))
            <=> (i > started \/ \E g \in Flows : Starts(flow[g], i))
      BY <2>3, <2>4, <3>1
    <3>3. Ongoing(i)' <=> Ongoing(i)
      BY <2>1 DEF Ongoing
    <3>4. Exists(i)' <=> Exists(i)
      BY <2>1 DEF Exists
    <3> QED BY <2>1, <3>2, <3>3, <3>4, StageOf, StageOfNext DEF Ongoing, Exists
  <2> QED BY <2>5 DEF Refines
<1>2. CASE DeleteUnused(f)
  <2>1. /\ UNCHANGED started /\ flow[f].pc = "delete"
        /\ tx' = [tx EXCEPT ![flow[f].other] = NoDoc]
        /\ flow'[f].pc = "cleanup" /\ flow'[f].id = flow[f].id
    BY <1>0, <1>2 DEF DeleteUnused, At, SaveTx, Become, Flow
  <2>2. PICK k \in Ids : k = flow[f].other
    BY <1>0, <2>1, AimedFlow
  <2>3. \A i \in Ids : Starts(flow'[f], i) <=> Starts(flow[f], i)
    BY <2>1 DEF Starts, Starting
  <2>4. \A i \in Ids \ {k} : Stage(i)' = Stage(i)
    BY <1>o, <2>1, <2>2, <2>3, StageKept
  <2>5. Ongoing(k) /\ Exists(k) /\ Stage(k) = "ongoing"
    BY <1>0, <2>1, <2>2, StageOf DEF Fresh, Ongoing, Exists
  <2>6. Stage(k)' \in {"gone", "new"} /\ ~(k > started') /\ ~Exists(k)'
    BY <2>1, <2>2, <2>5, StageOfNext DEF Exists, NoDoc, OverlapInv, Unborn
  <2>7. \A g \in Flows : ~Starts(flow'[g], k)
    <3>1. \A g \in Flows : ~Starts(flow[g], k)
      BY <2>5, HeldExists
    <3> QED BY <1>o, <2>3, <3>1 DEF Only
  <2>8. Stage(k)' = "gone"
    BY <2>6, <2>7, StageOfNext
  <2> QED BY <2>4, <2>5, <2>8, MoveRefines DEF Follows
<1>3. CASE StartSave(f)
  <2>1. UNCHANGED started /\ flow[f].pc = "save"
    BY <1>3 DEF StartSave, At
  <2>2. PICK k \in Ids : k = flow[f].id
    BY <1>0, <2>1, AimedFlow
  <2>3. Starts(flow[f], k) /\ ~Exists(k) /\ k <= started
    BY <1>0, <2>1, <2>2 DEF Fresh, Starts, Starting
  <2>4. Stage(k) = "new"
    BY <2>3, StageOf
  <2>5. flow'[f].pc \in {"idle", "startStation"}
    <3>1. CASE Done(f)
      BY <1>0, <3>1 DEF Done, Become, Idle
    <3>2. CASE Become(f, [flow[f] EXCEPT !.pc = "startStation", !.conn = Show(@, flow[f].id)])
      BY <1>0, <3>2 DEF Become, Flow
    <3> QED BY <1>3, <3>1, <3>2 DEF StartSave
  <2>6. \A i \in Ids \ {k} : ~Starts(flow[f], i) /\ ~Starts(flow'[f], i)
    BY <2>2, <2>5 DEF Starts, Starting
  <2>7. CASE UNCHANGED tx
    <3>1. \A i \in Ids \ {k} : Stage(i)' = Stage(i)
      BY <1>o, <2>1, <2>6, <2>7, StageKept
    <3>2. \A g \in Flows : ~Starts(flow'[g], k)
      BY <1>o, <2>3, <2>5 DEF OverlapInv, OwnIds, Only, Starts, Starting
    <3>3. ~Exists(k)'
      BY <2>3, <2>7 DEF Exists
    <3>4. ~(k > started')
      BY <1>0, <2>1, <2>3 DEF Ids
    <3>5. Stage(k)' = "gone"
      BY <3>2, <3>3, <3>4, StageOfNext
    <3> QED BY <2>4, <3>1, <3>5, MoveRefines DEF Follows
  <2>8. ASSUME NEW b \in {"none", "ROAMING", "UNBILLED"},
               SaveTx(flow[f].id, [NoDoc EXCEPT !.stop = "no", !.bill = b])
        PROVE  Refines
    <3>1. \A i \in Ids \ {k} : tx'[i] = tx[i]
      BY <1>0, <2>2, <2>8 DEF SaveTx
    <3>2. \A i \in Ids \ {k} : Stage(i)' = Stage(i)
      BY <1>o, <2>1, <2>6, <3>1, StageKept
    <3>3. Ongoing(k)'
      BY <1>0, <2>2, <2>8 DEF SaveTx, Ongoing, NoDoc
    <3>4. Stage(k)' = "ongoing"
      BY <3>3, StageOfNext
    <3> QED BY <2>4, <3>2, <3>4, MoveRefines DEF Follows
  <2> QED BY <1>3, <2>7, <2>8 DEF StartSave
<1> QED BY <1>1, <1>2, <1>3

(* The steps that write the transaction k they work on.                    *)
LEMMA SaveRefines ==
  ASSUME TypeInv, NEW f \in Flows, Only(f), UNCHANGED started,
         flow[f].pc \notin Starting, flow'[f].pc \notin Starting,
         NEW k \in Ids, \A i \in Ids \ {k} : tx'[i] = tx[i],
         Follows(Stage(k), Stage(k)')
  PROVE  Refines
<1>1. \A i \in Ids : ~Starts(flow[f], i) /\ ~Starts(flow'[f], i)
  BY DEF Starts
<1>2. \A i \in Ids \ {k} : Stage(i)' = Stage(i)
  BY <1>1, StageKept
<1> QED BY <1>2, MoveRefines

LEMMA WriteRefines ==
  ASSUME OverlapInv, BillingInv, NEW f \in Flows,
         MeterSave(f) \/ StopSave(f) \/ Fallback(f) \/ StatusSave(f) \/ BillDone(f)
  PROVE  Refines
<1> USE DEF TypeInv, TypeOK
<1>0. TypeInv /\ Fresh(flow[f]) /\ FreshBill(flow[f]) /\ flow[f] \in Flow
  BY AimedFlow DEF OverlapInv, BillingInv
<1>o. Only(f)
  BY <1>0, StepOnly DEF Continue
<1>1. /\ UNCHANGED started
      /\ flow[f].pc \in {"meterSave", "stopSave", "fallback", "statusSave", "bill"}
  BY DEF MeterSave, StopSave, Fallback, StatusSave, BillDone, At
<1>2. PICK k \in Ids : k = flow[f].id
  BY <1>0, <1>1, AimedFlow
<1>3. CASE MeterSave(f)
  <2>1. PICK u \in {flow[f].tx.used, TRUE} :
          SaveTx(flow[f].id, [flow[f].tx EXCEPT !.used = u])
    BY <1>3 DEF MeterSave
  <2>2. flow[f].pc = "meterSave" /\ flow'[f].pc = "station"
    BY <1>0, <1>3 DEF MeterSave, At, Become, Flow
  <2>3. [flow[f].tx EXCEPT !.used = u].stop = "no"
    BY <1>0, <2>2 DEF Fresh, Flow, Doc
  <2>4. Ongoing(k) /\ Ongoing(k)' /\ \A i \in Ids \ {k} : tx'[i] = tx[i]
    BY <1>0, <1>2, <2>1, <2>2, <2>3 DEF SaveTx, Fresh, Ongoing
  <2>5. Follows(Stage(k), Stage(k)')
    BY <2>4, StageOf, StageOfNext DEF Follows
  <2> QED BY <1>0, <1>1, <1>o, <2>2, <2>4, <2>5, SaveRefines DEF Starting
<1>4. ASSUME NEW d, Ongoing(k), d.stop \in {"station", "soft"}, d.bill # "BILLED",
             SaveTx(flow[f].id, d), Done(f)
      PROVE  Refines
  <2>1. flow'[f].pc = "idle"
    BY <1>0, <1>4 DEF Done, Become, Idle
  <2>2. tx'[k] = d /\ \A i \in Ids \ {k} : tx'[i] = tx[i]
    BY <1>0, <1>2, <1>4 DEF SaveTx
  <2>3. Exists(k)' /\ ~Ongoing(k)'
    BY <1>4, <2>2 DEF Exists, Ongoing
  <2>4. Stage(k)' \in {"stopped", "complete"}
    BY <1>4, <2>2, <2>3, StageOfNext
  <2>5. Stage(k) = "ongoing"
    BY <1>4, StageOf
  <2>6. Follows(Stage(k), Stage(k)')
    BY <2>4, <2>5 DEF Follows
  <2> QED BY <1>0, <1>1, <1>o, <2>1, <2>2, <2>6, SaveRefines DEF Starting
<1>5. CASE StopSave(f)
  <2>1. flow[f].pc = "stopSave" /\ Ongoing(k)
    BY <1>0, <1>2, <1>5 DEF StopSave, At, Fresh
  <2>2. CASE Refuse(f) /\ UNCHANGED tx
    <3>1. flow'[f].pc \in {"idle", "fallback"}
      BY <1>0, <2>2 DEF Refuse, GoTo, Done, Become, Idle, Flow
    <3>2. Quietly(f)
      BY <1>1, <2>1, <2>2, <3>1 DEF Quietly, Starts, Starting
    <3> QED BY <1>o, <3>2, QuietRefines
  <2>3. ASSUME NEW u \in {flow[f].tx.used, TRUE}, NEW b \in StopBill(flow[f].tx.bill),
               SaveTx(flow[f].id, [stop |-> IF flow[f].soft THEN "soft" ELSE "station",
                                   used |-> u, extra |-> flow[f].soft, bill |-> b]),
               Done(f)
        PROVE  Refines
    <3>1. b # "BILLED"
      BY DEF StopBill
    <3> QED BY <1>4, <2>1, <2>3, <3>1
  <2> QED BY <1>5, <2>2, <2>3 DEF StopSave
<1>6. CASE Fallback(f)
  <2>1. flow[f].pc = "fallback" /\ Ongoing(k) /\ Done(f)
    BY <1>0, <1>2, <1>6 DEF Fallback, At, Fresh
  <2> DEFINE d == [flow[f].given EXCEPT !.stop = "soft", !.extra = TRUE]
  <2>2. SaveTx(flow[f].id, d)
    BY <1>6 DEF Fallback
  <2>3. d.stop = "soft" /\ d.bill # "BILLED"
    BY <1>0 DEF FreshBill, Open, Flow, Doc
  <2> HIDE DEF d
  <2> QED BY <1>4, <2>1, <2>2, <2>3
<1>7. CASE StatusSave(f)
  <2>1. flow[f].pc = "statusSave" /\ flow'[f].pc = "station"
    BY <1>0, <1>7 DEF StatusSave, At, GoTo, Flow
  <2>2. tx'[k] = flow[f].tx /\ \A i \in Ids \ {k} : tx'[i] = tx[i]
    BY <1>0, <1>2, <1>7 DEF StatusSave, SaveTx
  <2>3. /\ Stopped(k) /\ flow[f].tx.stop = tx[k].stop /\ flow[f].tx.extra
        /\ flow[f].tx.bill = "BILLED" <=> tx[k].bill = "BILLED"
    BY <1>0, <1>2, <2>1 DEF Fresh, FreshBill
  <2>4. Exists(k) /\ ~Ongoing(k) /\ Exists(k)' /\ ~Ongoing(k)'
    BY <2>2, <2>3 DEF Stopped, Exists, Ongoing
  <2>5. Stage(k)' = IF tx[k].bill = "BILLED" THEN "billed" ELSE "complete"
    BY <2>2, <2>3, <2>4, StageOfNext
  <2>6. Follows(Stage(k), Stage(k)')
    BY <2>4, <2>5, StageOf DEF Follows
  <2> QED BY <1>0, <1>1, <1>o, <2>1, <2>2, <2>6, SaveRefines DEF Starting
<1>8. CASE BillDone(f)
  <2>1. flow[f].pc = "bill" /\ flow'[f].pc = "idle"
    BY <1>0, <1>8 DEF BillDone, At, Done, Become, Idle
  <2>2. Complete(k) /\ tx[k].bill = "PENDING" /\ Exists(k) /\ ~Ongoing(k)
    BY <1>0, <1>2, <2>1 DEF FreshBill, Complete, Stopped, Exists, Ongoing
  <2>3. PICK r \in {"BILLED", "FAILED"} : tx' = [tx EXCEPT ![k].bill = r]
    BY <1>2, <1>8, <2>2 DEF BillDone
  <2>4. /\ tx'[k].stop = tx[k].stop /\ tx'[k].extra = tx[k].extra /\ tx'[k].bill = r
        /\ \A i \in Ids \ {k} : tx'[i] = tx[i]
    BY <1>0, <2>3 DEF Doc
  <2>5. Exists(k)' /\ ~Ongoing(k)'
    BY <2>2, <2>4 DEF Exists, Ongoing
  <2>6. Stage(k) = "complete" /\ Stage(k)' \in {"complete", "billed"}
    BY <2>2, <2>4, <2>5, StageOf, StageOfNext DEF Complete
  <2>7. Follows(Stage(k), Stage(k)')
    BY <2>6 DEF Follows
  <2> QED BY <1>0, <1>1, <1>o, <2>1, <2>4, <2>7, SaveRefines DEF Starting
<1> QED BY <1>3, <1>5, <1>6, <1>7, <1>8

LEMMA StepRefines ==
  ASSUME OverlapInv, OverlapInv', BillingInv, [Next]_vars
  PROVE  Refines
<1>0. TypeInv
  BY DEF OverlapInv
<1>1. CASE UNCHANGED vars
  BY <1>1 DEF vars, Refines, Stage, Ongoing, Exists, Starts
<1>2. ASSUME NEW f \in Flows, StartMsg(f) \/ Continue(f) PROVE Refines
  <2>1. CASE StartMsg(f) \/ DeleteUnused(f) \/ StartSave(f)
    BY <2>1, StartRefines
  <2>2. CASE MeterSave(f) \/ StopSave(f) \/ Fallback(f) \/ StatusSave(f) \/ BillDone(f)
    BY <2>2, WriteRefines
  <2>3. CASE \/ Cleanup(f) \/ EndWithStation(f) \/ MeterRead(f) \/ StopRead(f)
             \/ StopStation(f) \/ StatusRead(f)
    BY <1>0, <1>2, <2>3, QuietSteps, StepOnly, QuietRefines
  <2> QED BY <1>2, <2>1, <2>2, <2>3 DEF Continue
<1>3. ASSUME NEW f \in Flows, NEW s \in Statuses, StatusMsg(f, s) PROVE Refines
  BY <1>0, <1>3, QuietSteps, StepOnly, QuietRefines
<1>4. ASSUME NEW f \in Flows, NEW i \in Ids,
             \/ MeterMsg(f, i) \/ StopMsg(f, i) \/ BillStart(f, i)
             \/ CloseMsg(f, i) \/ RestSoftStop(f, i) \/ RestClear(f, i)
      PROVE  Refines
  <2>1. MeterMsg(f, i) \/ StopMsg(f, i) \/ BillStart(f, i) \/ SoftStop(f, i) \/ RestClear(f, i)
    BY <1>4 DEF CloseMsg, RestSoftStop
  <2> QED BY <1>0, <2>1, QuietSteps, StepOnly, QuietRefines
<1> QED BY <1>1, <1>2, <1>3, <1>4 DEF Next

(* Under the two premises every transaction goes through SessionLifecycle, *)
(* for any number of overlapping operations: what is deleted does not come *)
(* back, and no stop, extra inactivity or billing is taken back.           *)
THEOREM OverlapLifecycle == Spec /\ []Apart /\ []BillApart => ImplementsLifecycle
<1>1. Init => Lifecycle!Init
  <2>1. ASSUME Init, NEW i \in Ids PROVE Stage(i) = "new"
    BY <2>1 DEF Init, Stage, Ongoing, Exists, NoDoc, Ids
  <2> QED BY <2>1 DEF Lifecycle!Init
<1>2. OverlapInv /\ OverlapInv' /\ BillingInv /\ [Next]_vars
        => [Lifecycle!Next]_[i \in Ids |-> Stage(i)]
  BY StepRefines DEF Refines
<1> QED BY <1>1, <1>2, OverlapInvariant, BillingInvariant, PTL
        DEF Spec, ImplementsLifecycle, Lifecycle!Spec
=============================================================================
