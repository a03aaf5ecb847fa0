------------------------------- MODULE Metering -------------------------------
(***************************************************************************)
(* What one session consumed, how long it stood idle, and what of that is  *)
(* priced: MeterValues and StopTransaction in OCPPService, the computing   *)
(* of consumptions in OCPPUtils, the extra inactivity after the stop, and  *)
(* ConsumptionChunkPricer.                                                 *)
(*                                                                         *)
(* The messages of the station may be lost, repeated, delayed and handled  *)
(* in any order, and their handlers overlap: each works on a copy of the   *)
(* transaction and saves it whole, and may die before that.                *)
(*                                                                         *)
(* Times and readings count from the start of the session; a consumption   *)
(* is priced as one chunk (the code cuts it in pieces of 60 seconds).      *)
(* Every message carries the energy register, as a comment in              *)
(* assertConsistencyInConsumption() supposes.                              *)
(***************************************************************************)
EXTENDS Integers, FiniteSets

CONSTANTS
  Flows,          \* handlers that may be under way at once
  Tariffs,        \* the pricing definitions of the session
  MeterStart,     \* transaction.meterStart
  MaxTime,        \* bound: length of the session
  MaxPower,       \* bound: what the meter counts in a unit of time
  MaxOps          \* bound: how many handlers are begun

(* A tariff tells whether it has a flat fee, and for each other dimension  *)
(* its step size: Off where it is inactive, 0 without steps.               *)
Off == -1
Dimension == {Off} \union Nat

ASSUME MeteringAssumption ==
  /\ Tariffs \subseteq [flat : BOOLEAN, energy : Dimension, charging : Dimension,
                        parking : Dimension]
  /\ MeterStart \in Nat
  /\ MaxTime \in Nat
  /\ MaxPower \in Nat
  /\ MaxOps \in Nat

VARIABLES
  now,            \* the clock of the station
  reading,        \* the energy register at each time up to now
  ended,          \* when the charging ended: since then the register stands still
  stopped,        \* the timestamp of the StopTransaction of the station
  tx,             \* the transaction in the database
  docs,           \* the "consumptions" collection; a document is keyed by endedAt
  ops,            \* how many handlers were begun
  flow            \* the handlers, with their copies

stationVars == <<now, reading, ended, stopped>>
vars == <<stationVars, tx, docs, ops, flow>>

Times == 0..MaxTime
Never == -1

(* last: lastConsumption; total: currentTotalConsumptionWh; idle:          *)
(* currentTotalInactivitySecs; end: transactionEndReceived.                *)
Runtime == [last : [v : Nat, ts : Times], total : Nat, idle : Nat, end : BOOLEAN]
NoRuntime == [last |-> [v |-> MeterStart, ts |-> 0], total |-> 0, idle |-> 0,
              end |-> FALSE]

(* The pricing model: what is priced of each dimension (pricedData) and    *)
(* how far it is absorbed (pricerContext).                                 *)
Priced == [fees : SUBSET Tariffs, energy : Nat, charged : Nat, parked : Nat,
           absorbed : Nat, chargedTo : Nat, parkedTo : Nat]
NotPriced == [fees |-> {}, energy |-> 0, charged |-> 0, parked |-> 0,
              absorbed |-> 0, chargedTo |-> 0, parkedTo |-> 0]

\* dur: totalDurationSecs; extra: extraInactivityComputed.
Stop == [is : BOOLEAN, soft : BOOLEAN, v : Nat, ts : Times, dur : Times,
         total : Nat, idle : Nat, extra : BOOLEAN]
NoStop == [is |-> FALSE, soft |-> FALSE, v |-> 0, ts |-> 0, dur |-> 0,
           total |-> 0, idle |-> 0, extra |-> FALSE]

Transaction == [run : Runtime, priced : Priced, stop : Stop]
Started == [run |-> NoRuntime, priced |-> NotPriced, stop |-> NoStop]

\* wh: consumptionWh; total, idle: the cumulated values.
Consumption == [is : BOOLEAN, from : Times, wh : Nat, total : Nat, idle : Nat]
NoConsumption == [is |-> FALSE, from |-> 0, wh |-> 0, total |-> 0, idle |-> 0]

(* given: the copy with which softStopTransaction() is called, Started in   *)
(* the other handlers.                                                     *)
Flow == [pc : {"idle", "soft", "extra", "saveDoc", "saveTx"}, tx : Transaction,
         given : Transaction, doc : Consumption, at : Times]
\* The handler about to save a consumption, or none, and its copy.
Handler(pc, t, c, ts) == [pc |-> pc, tx |-> t, given |-> Started, doc |-> c, at |-> ts]
Idle == Handler("idle", Started, NoConsumption, 0)

TypeOK ==
  /\ now \in Times
  /\ reading \in [Times -> Nat]
  /\ ended \in Times \union {Never}
  /\ stopped \in Times \union {Never}
  /\ tx \in Transaction
  /\ docs \in [Times -> Consumption]
  /\ ops \in 0..MaxOps
  /\ flow \in [Flows -> Flow]

(* handleStartTransaction() computes a first consumption of nothing, which *)
(* sets lastConsumption to the start.                                      *)
Init ==
  /\ now = 0
  /\ reading = [t \in Times |-> MeterStart]
  /\ ended = Never
  /\ stopped = Never
  /\ tx = Started
  /\ docs = [t \in Times |-> NoConsumption]
  /\ ops = 0
  /\ flow = [f \in Flows |-> Idle]

-----------------------------------------------------------------------------
(* The charging station.  It sends its register at any time up to the end  *)
(* of the charging.                                                        *)

\* reading[t] for a time to come is the reading of now.
Tick ==
  /\ now < MaxTime
  /\ now' = now + 1
  /\ \E w \in IF ended = Never THEN 0..MaxPower ELSE {0} :
       reading' = [t \in Times |-> IF t > now THEN reading[now] + w ELSE reading[t]]
  /\ UNCHANGED <<ended, stopped, tx, docs, ops, flow>>

EndCharging ==
  /\ ended = Never
  /\ ended' = now
  /\ UNCHANGED <<now, reading, stopped, tx, docs, ops, flow>>

\* The user unplugs.
SendStop ==
  /\ ended # Never /\ stopped = Never
  /\ stopped' = now
  /\ UNCHANGED <<now, reading, ended, tx, docs, ops, flow>>

\* The MeterValues the station may have sent; the last may be Transaction.End.
Sent(ts, end) ==
  /\ ts <= IF ended = Never THEN now ELSE ended
  /\ end => ts = ended

-----------------------------------------------------------------------------
(* ConsumptionChunkPricer: the dimensions of a chunk c that ends at ts,    *)
(* under the tariff k.                                                     *)

Steps(q, size) == IF size = 0 THEN q ELSE q - (q % size)

(* Seeded fault: the flag flatFeeAlreadyPriced is not looked at.           *)
PriceFlatFeeAgain(p, k, c) ==
  IF k.flat /\ c.total > 0 THEN [p EXCEPT !.fees = @ \union {k}] ELSE p

PriceFlatFee(p, k, c) ==
  IF p.fees = {} /\ k.flat /\ c.total > 0 THEN [p EXCEPT !.fees = {k}] ELSE p

(* Seeded fault: with steps, what was priced is not absorbed.              *)
PriceEnergyNotAbsorbed(p, k, c) ==
  IF k.energy > 0
    THEN [p EXCEPT !.energy = @ + Steps(c.total - p.absorbed, k.energy)]
    ELSE [p EXCEPT !.energy = @ + (IF k.energy = 0 THEN c.wh ELSE 0),
                   !.absorbed = c.total]

(* Seeded fault: only the energy of the chunk counts for a step.           *)
PriceEnergyOfChunk(p, k, c) ==
  IF k.energy = Off \/ c.wh >= (IF k.energy = 0 THEN 1 ELSE k.energy)
    THEN [p EXCEPT !.energy = @ + (IF k.energy = Off THEN 0 ELSE Steps(c.wh, k.energy)),
                   !.absorbed = c.total]
    ELSE p

(* With steps, everything up to the last whole step of the total counts as *)
(* absorbed; without, the consumption of the chunk is priced.              *)
PriceEnergy(p, k, c) ==
  CASE k.energy = Off -> [p EXCEPT !.absorbed = c.total]
    [] k.energy = 0 -> IF c.wh > 0
                         THEN [p EXCEPT !.energy = @ + c.wh, !.absorbed = c.total]
                         ELSE p
    [] k.energy > 0 -> IF c.total - p.absorbed >= k.energy
                         THEN [p EXCEPT !.energy = @ + Steps(c.total - p.absorbed, k.energy),
                                        !.absorbed = Steps(c.total, k.energy)]
                         ELSE p

(* priceTimeDimension(): the time to price, from the end of what was       *)
(* absorbed where there are steps.                                         *)
TimeSpent(size, to, c, ts) == IF size = 0 THEN ts - c.from ELSE ts - to

PriceChargingTime(p, k, c, ts) ==
  LET spent == TimeSpent(k.charging, p.chargedTo, c, ts)
      priced == Steps(spent, k.charging)
  IN CASE k.charging = Off \/ c.wh = 0 -> [p EXCEPT !.chargedTo = ts]
       [] k.charging # Off /\ c.wh > 0 ->
            IF priced > 0
              THEN [p EXCEPT !.charged = @ + priced, !.chargedTo = ts - (spent - priced)]
              ELSE p

(* Seeded fault: the time that is not spent parking is not absorbed.       *)
PriceParkingTimeLate(p, k, c, ts) ==
  LET parking == k.parking # Off /\ c.idle > 0 /\ c.total > 0 /\ c.wh = 0
      spent == TimeSpent(k.parking, p.parkedTo, c, ts)
      priced == Steps(spent, k.parking)
  IN IF parking /\ priced > 0
       THEN [p EXCEPT !.parked = @ + priced, !.parkedTo = ts - (spent - priced)]
       ELSE p

PriceParkingTime(p, k, c, ts) ==
  LET parking == k.parking # Off /\ c.idle > 0 /\ c.total > 0 /\ c.wh = 0
      spent == TimeSpent(k.parking, p.parkedTo, c, ts)
      priced == Steps(spent, k.parking)
  IN CASE ~parking -> [p EXCEPT !.parkedTo = ts]
       [] parking -> IF priced > 0
                       THEN [p EXCEPT !.parked = @ + priced,
                                      !.parkedTo = ts - (spent - priced)]
                       ELSE p

Price(p, k, c, ts) ==
  LET fee == PriceFlatFee(p, k, c)
      energy == PriceEnergy(fee, k, c)
      charging == PriceChargingTime(energy, k, c, ts)
  IN PriceParkingTime(charging, k, c, ts)

-----------------------------------------------------------------------------
(* createConsumptionFromMeterValue()                                       *)

(* idling: no charging profile holds the connector back, so that time      *)
(* without consumption counts as inactivity.                               *)
Measure(run, v, ts, idling) ==
  LET idle == IF v <= run.last.v /\ idling THEN ts - run.last.ts ELSE 0
  IN [run EXCEPT !.last = IF v < @.v THEN @ ELSE [v |-> v, ts |-> ts],
                 !.total = @ + (IF v > run.last.v THEN v - run.last.v ELSE 0),
                 !.idle = @ + idle]

\* The consumption that takes run to after.
ConsumptionOf(run, after, idling) ==
  [is |-> TRUE, from |-> run.last.ts, wh |-> after.total - run.total,
   total |-> after.total,
   idle |-> IF after.total = run.total /\ idling THEN after.idle ELSE 0]

Become(f, r) == flow' = [flow EXCEPT ![f] = r]
Begin(f, r) ==
  /\ flow[f].pc = "idle"
  /\ ops < MaxOps
  /\ ops' = ops + 1
  /\ Become(f, r)

(* Seeded fault: a value of the past is not ignored.                       *)
PastNever(run, ts) == FALSE
Past(run, ts) == ts < run.last.ts

(* A value is taken over: a consumption is computed and priced.            *)
Taken(t, v, ts, idling, k) ==
  LET run == Measure(t.run, v, ts, idling)
      c == ConsumptionOf(t.run, run, idling)
  IN Handler("saveDoc", [t EXCEPT !.run = run, !.priced = Price(@, k, c, ts)], c, ts)

(* What a handler with the copy t can make of a value.  One of the past is *)
(* ignored: the copy stays as it is.                                       *)
Outcomes(t, v, ts) ==
  IF Past(t.run, ts)
    THEN {Handler("saveTx", t, NoConsumption, ts)}
    ELSE {Taken(t, v, ts, idling, k) : idling \in BOOLEAN, k \in Tariffs}

(* handleMeterValues(): a transaction that has stopped refuses them.       *)
MeterValues(f, ts, end) ==
  /\ Sent(ts, end)
  /\ ~tx.stop.is
  /\ \E o \in Outcomes([tx EXCEPT !.run.end = @ \/ end], reading[ts], ts) : Begin(f, o)
  /\ UNCHANGED <<stationVars, tx, docs>>

\* saveTransaction() drops the runtime properties of a stopped transaction.
Saved(t) == IF t.stop.is THEN [t EXCEPT !.run = NoRuntime] ELSE t

-----------------------------------------------------------------------------
(* handleStopTransaction(), softStopTransaction()                          *)

(* updateTransactionWithStopTransaction().  The duration is the one of the *)
(* copy, up to its last consumption or to the inactivity added to it.      *)
WithStop(t, v, ts, soft) ==
  [t EXCEPT !.stop = [is |-> TRUE, soft |-> soft, v |-> v, ts |-> ts,
                      dur |-> IF ts > t.run.last.ts THEN ts ELSE t.run.last.ts,
                      total |-> t.run.total, idle |-> t.run.idle, extra |-> soft]]

(* Without a last consumption: the time since the last value is inactivity.*)
NoLastConsumption(t, ts) ==
  LET idle == IF ts > t.run.last.ts THEN ts - t.run.last.ts ELSE 0
  IN Handler("saveTx", [t EXCEPT !.run.idle = @ + idle], NoConsumption, ts)

(* Seeded fault: no last consumption where there was one before.           *)
LastOutcomesFirst(t, v, ts) ==
  IF t.run.end \/ t.run.last.ts > 0 THEN {NoLastConsumption(t, ts)} ELSE Outcomes(t, v, ts)

(* checkAndApplyLastConsumptionInStopTransaction(): there is none when the *)
(* end of the transaction was received.                                    *)
LastOutcomes(t, v, ts) ==
  IF t.run.end THEN {NoLastConsumption(t, ts)} ELSE Outcomes(t, v, ts)

\* What a handler with the copy t can make of a stop.
Stops(t, v, ts, soft) ==
  {[o EXCEPT !.tx = WithStop(@, v, ts, soft)] : o \in LastOutcomes(t, v, ts)}

StationStop(f) ==
  /\ stopped # Never
  /\ ~tx.stop.is
  /\ \E o \in Stops(tx, reading[stopped], stopped, FALSE) : Begin(f, o)
  /\ UNCHANGED <<stationVars, tx, docs>>

(* The close task, or an administrator, has read the session and calls     *)
(* softStopTransaction() with that copy.                                   *)
ReadToStop(f) ==
  /\ ~tx.stop.is
  /\ Begin(f, [Idle EXCEPT !.pc = "soft", !.given = tx])
  /\ UNCHANGED <<stationVars, tx, docs>>

(* The stop has the time of the given copy; handleStopTransaction() reads  *)
(* the session again, and checkSoftStopTransaction() takes the last value  *)
(* it finds there as meterStop.                                            *)
SoftStop(f) ==
  LET given == flow[f].given IN
  /\ flow[f].pc = "soft"
  /\ ~tx.stop.is
  /\ \E o \in Stops(tx, tx.run.last.v, given.run.last.ts, TRUE) :
       Become(f, [o EXCEPT !.given = given])
  /\ UNCHANGED <<stationVars, tx, docs, ops>>

(* handleStopTransaction() refused (the session has already been stopped)  *)
(* or threw: softStopTransaction() stops and saves the given copy.         *)
Fallback(f) ==
  LET given == flow[f].given IN
  /\ flow[f].pc = "soft" \/ flow[f].tx.stop.soft
  /\ tx' = Saved(WithStop(given, given.run.last.v, given.run.last.ts, TRUE))
  /\ Become(f, Idle)
  /\ UNCHANGED <<stationVars, docs, ops>>

-----------------------------------------------------------------------------
(* checkAndComputeTransactionExtraInactivityFromStatusNotification()       *)

(* There is none when the status of the connector does not tell or the     *)
(* notification is older than the stop.                                    *)
Available(f) ==
  /\ tx.stop.is /\ ~tx.stop.extra
  /\ LET t == [tx EXCEPT !.stop.extra = TRUE]
     IN \/ Begin(f, Handler("saveTx", t, NoConsumption, now))
        \/ now > tx.stop.ts /\ Begin(f, Handler("extra", t, NoConsumption, now))
  /\ UNCHANGED <<stationVars, tx, docs>>

\* getLastTransactionConsumption(): the latest startedAt.
LastDocs == {t \in Times : docs[t].is /\ \A s \in Times : docs[s].is => docs[s].from <= docs[t].from}

(* buildAndPriceExtraConsumptionInactivity().                              *)
ExtraInactivity(f) ==
  LET t == flow[f].tx  ts == flow[f].at IN
  /\ flow[f].pc = "extra"
  /\ \/ /\ LastDocs = {}
        /\ flow' = [flow EXCEPT ![f].pc = "saveTx"]
     \/ \E d \in LastDocs, k \in Tariffs :
          LET c == [docs[d] EXCEPT !.from = t.stop.ts, !.wh = 0,
                                   !.idle = @ + (ts - t.stop.ts)]
          IN Become(f, Handler("saveDoc", [t EXCEPT !.priced = Price(@, k, c, ts),
                                                    !.stop.ts = ts, !.stop.dur = ts], c, ts))
  /\ UNCHANGED <<stationVars, tx, docs, ops>>

-----------------------------------------------------------------------------
SaveDoc(f) ==
  /\ flow[f].pc = "saveDoc"
  /\ docs' = [docs EXCEPT ![flow[f].at] = flow[f].doc]
  /\ flow' = [flow EXCEPT ![f].pc = "saveTx"]
  /\ UNCHANGED <<stationVars, tx, ops>>

SaveTx(f) ==
  /\ flow[f].pc = "saveTx"
  /\ tx' = Saved(flow[f].tx)
  /\ Become(f, Idle)
  /\ UNCHANGED <<stationVars, docs, ops>>

\* The process of a handler dies, or a call before the save throws.
Crash(f) ==
  /\ flow[f].pc # "idle"
  /\ Become(f, Idle)
  /\ UNCHANGED <<stationVars, tx, docs, ops>>

-----------------------------------------------------------------------------
Next ==
  \/ Tick \/ EndCharging \/ SendStop
  \/ \E f \in Flows :
       \/ \E ts \in Times, end \in BOOLEAN : MeterValues(f, ts, end)
       \/ StationStop(f) \/ ReadToStop(f) \/ SoftStop(f) \/ Fallback(f)
       \/ Available(f) \/ ExtraInactivity(f) \/ SaveDoc(f) \/ SaveTx(f) \/ Crash(f)

Spec == Init /\ [][Next]_vars

-----------------------------------------------------------------------------
Elapsed(t) == IF t.stop.is THEN t.stop.dur ELSE t.run.last.ts
Delivered(t) == IF t.stop.is THEN t.stop.total ELSE t.run.total
Final(t) == t.stop.is /\ t.stop.extra /\ ~t.stop.soft
IdleTime(t) == IF t.stop.is THEN t.stop.idle ELSE t.run.idle

(* The sum of the differences is what the meter counted, whatever values   *)
(* were lost, repeated or late; the station's stop completes it.           *)
TotalMatchesMeter ==
  /\ ~tx.stop.is => /\ tx.run.total = tx.run.last.v - MeterStart
                    /\ tx.run.last.v = reading[tx.run.last.ts]
  /\ tx.stop.is => /\ tx.stop.total = tx.stop.v - MeterStart
                   /\ ~tx.stop.soft => tx.stop.v = reading[now]

(* "Mark the consumed energy as already priced - to avoid pricing it       *)
(* twice", says ConsumptionChunkPricer, also when several tariffs follow   *)
(* one another in the session.                                             *)
EnergyPricedOnce == tx.priced.energy <= Delivered(tx)

(* Until the extra inactivity is computed, the pricing of a session never  *)
(* is behind its meter by a whole step: whatever values came, late or not  *)
(* at all, and whichever handlers overlapped or died, what the transaction *)
(* shows as delivered is dealt with or waits to make up a step.            *)
Accounted(total, absorbed) ==
  total <= absorbed \/ \E k \in Tariffs : total < absorbed + k.energy
NoEnergyForgotten == ~Final(tx) => Accounted(Delivered(tx), tx.priced.absorbed)

(* Energy only comes to be priced twice by rounding: a tariff with steps   *)
(* finds what was absorbed in the middle of one of its steps, and moves    *)
(* the mark to a whole number of them.  No lost, repeated or late value,   *)
(* no overlap of handlers and no order of the tariffs does it otherwise.   *)
(* A copy that may still be priced (open) keeps what is priced absorbed.   *)
Once(t, open) ==
  /\ t.priced.energy <= Delivered(t)
  /\ open => t.priced.energy <= t.priced.absorbed
NothingTwice ==
  /\ Once(tx, ~Final(tx))
  /\ \A f \in Flows :
       /\ Once(flow[f].tx, flow[f].pc = "extra" \/ ~Final(flow[f].tx))
       /\ Once(flow[f].given, TRUE)
PricedFrom(f) == IF flow[f].pc = "extra" THEN flow[f].tx ELSE tx
Rounds(f) ==
  \E k \in Tariffs :
    /\ k.energy > 0
    /\ PricedFrom(f).priced.absorbed % k.energy # 0
    /\ flow'[f].tx.priced.absorbed % k.energy = 0
OnlyRoundingReprices ==
  [][NothingTwice => NothingTwice' \/ \E f \in Flows : Rounds(f)]_vars

(* No time is priced twice, neither as charging nor as parking nor as      *)
(* both, and no more inactivity is counted than time went by, up to the    *)
(* duration the session shows (totalDurationSecs).  The timestamp of a     *)
(* soft stop may be earlier: the copy of its caller may be old.            *)
TimeCountedOnce ==
  /\ tx.priced.charged + tx.priced.parked <= Elapsed(tx)
  /\ IdleTime(tx) <= Elapsed(tx)

(* There is one flat fee at most, and none without any energy.             *)
FlatFeeOnce ==
  /\ Cardinality(tx.priced.fees) <= 1
  /\ tx.priced.fees # {} => Delivered(tx) > 0

(* No consumption shows more energy than the meter had counted by its end. *)
DocsNotAhead ==
  \A t \in Times : docs[t].is => docs[t].total <= reading[t] - MeterStart
=============================================================================
