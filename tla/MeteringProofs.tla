---------------------------- MODULE MeteringProofs ----------------------------
(***************************************************************************)
(* The safety of Metering for any number of handlers, any tariffs and any  *)
(* length of the session.                                                  *)
(***************************************************************************)
EXTENDS Metering, FiniteSetTheorems, TLAPS

(* Charging time and parking time are priced up to chargedTo and parkedTo: *)
(* their sum stays below both, which stay below the end of the last chunk. *)
GoodTime(p, elapsed) ==
  /\ p.charged + p.parked <= p.chargedTo /\ p.charged + p.parked <= p.parkedTo
  /\ p.chargedTo <= elapsed /\ p.parkedTo <= elapsed

GoodFees(p, total) ==
  p.fees # {} => total > 0 /\ \E k \in Tariffs : p.fees = {k}

GoodEnergy(p, total) == p.absorbed <= total

\* What a further chunk may be priced on, and what remains after the last.
GoodPriced(p, elapsed, total) ==
  GoodTime(p, elapsed) /\ GoodFees(p, total) /\ GoodEnergy(p, total)
PricedOnce(p, elapsed, total) ==
  p.charged + p.parked <= elapsed /\ GoodFees(p, total)

(* A copy of the transaction before the stop and after it, whoever saves   *)
(* it and when: r, n and e are the readings, the time and the end of the   *)
(* charging.  A soft stop may have an earlier time than its duration.      *)
GoodRun(t, r, n, e) ==
  /\ t.run.total = t.run.last.v - MeterStart
  /\ t.run.last.v = r[t.run.last.ts]
  /\ t.run.last.ts <= n
  /\ e # Never => t.run.last.ts <= e
  /\ t.run.end => e # Never /\ t.run.last.v = r[n]
  /\ t.run.idle <= t.run.last.ts
  /\ GoodPriced(t.priced, t.run.last.ts, t.run.total)
GoodStop(t, r, n, e) ==
  /\ t.stop.total = t.stop.v - MeterStart
  /\ t.stop.idle <= t.stop.dur
  /\ ~t.stop.soft => /\ e # Never /\ e <= t.stop.ts /\ t.stop.v = r[n]
                     /\ t.stop.dur = t.stop.ts
  /\ ~t.stop.extra => ~t.stop.soft /\ GoodPriced(t.priced, t.stop.ts, t.stop.total)
  /\ PricedOnce(t.priced, t.stop.dur, t.stop.total)
GoodTx(t, r, n, e) ==
  /\ ~t.stop.is => GoodRun(t, r, n, e)
  /\ t.stop.is => GoodStop(t, r, n, e)

GoodHandler(h, r, n, e) ==
  /\ GoodTx(h.tx, r, n, e)
  /\ ~h.given.stop.is /\ GoodRun(h.given, r, n, e)
  /\ h.pc = "extra" =>
       /\ h.tx.stop.is /\ h.tx.stop.extra /\ ~h.tx.stop.soft
       /\ h.tx.stop.ts < h.at /\ h.at <= n
       /\ GoodPriced(h.tx.priced, h.tx.stop.ts, h.tx.stop.total)
  /\ h.pc = "saveDoc" => h.at <= n /\ h.doc.total <= r[h.at] - MeterStart

(* The register only grows, and stands still when the charging has ended.  *)
StationInv ==
  /\ reading[0] = MeterStart
  /\ \A s, t \in Times : s <= t => reading[s] <= reading[t]
  /\ \A t \in Times : now <= t => reading[t] = reading[now]
  /\ ended # Never => ended <= now /\ reading[ended] = reading[now]
  /\ stopped # Never => ended # Never /\ ended <= stopped /\ stopped <= now
DocsInv ==
  \A t \in Times : docs[t].is => t <= now /\ docs[t].total <= reading[t] - MeterStart
FlowsInv == \A f \in Flows : GoodHandler(flow[f], reading, now, ended)

MeteringInv ==
  /\ TypeOK
  /\ StationInv /\ DocsInv
  /\ GoodTx(tx, reading, now, ended)
  /\ FlowsInv

SameFees(p, r) == r.fees = p.fees
SameEnergy(p, r) == r.energy = p.energy /\ r.absorbed = p.absorbed
SameTime(p, r) ==
  /\ r.charged = p.charged /\ r.chargedTo = p.chargedTo
  /\ r.parked = p.parked /\ r.parkedTo = p.parkedTo
WithEnergy(p, e, a) == [p EXCEPT !.energy = e, !.absorbed = a]

(* How the energy of a copy u comes from a copy t: it is kept, a chunk is  *)
(* added to it, or the chunk of the extra inactivity ends it.              *)
Keeps(t, u) ==
  /\ SameEnergy(t.priced, u.priced)
  /\ Delivered(u) = Delivered(t)
  /\ Final(t) => Final(u)
Adds(t, u) ==
  /\ ~Final(t) /\ ~Final(u)
  /\ t.priced.absorbed <= Delivered(t)
  /\ \E k \in Tariffs, c \in Consumption :
       /\ c.wh <= c.total /\ Delivered(t) = c.total - c.wh /\ Delivered(u) = c.total
       /\ SameEnergy(PriceEnergy(t.priced, k, c), u.priced)
Ends(t, u) ==
  /\ Final(u) /\ Delivered(u) = Delivered(t)
  /\ t.priced.absorbed <= Delivered(t)
  /\ \E k \in Tariffs, c \in Consumption :
       /\ c.wh = 0 /\ c.total <= Delivered(t)
       /\ SameEnergy(PriceEnergy(t.priced, k, c), u.priced)
Derives(t, u) == Keeps(t, u) \/ Adds(t, u)

(* A step leaves all copies as they are, or makes new ones for one handler *)
(* (h), or saves one of them.                                              *)
Copied(f, h) ==
  /\ h.given \in {Started, flow[f].given} \/ (h.given = tx /\ ~tx.stop.is)
  /\ \/ h.pc # "extra" /\ h.tx \in {Started, flow[f].tx}
     \/ /\ flow[f].pc # "extra" /\ Derives(tx, h.tx)
        /\ h.pc = "extra" => ~Final(tx)
     \/ flow[f].pc = "extra" /\ h.pc # "extra" /\ Ends(flow[f].tx, h.tx)
NewCopies(f) == tx' = tx /\ \E h \in Flow : Become(f, h) /\ Copied(f, h)
Saves(f) == Become(f, Idle) /\ (Keeps(flow[f].tx, tx') \/ Keeps(flow[f].given, tx'))
Copies == UNCHANGED <<tx, flow>> \/ \E f \in Flows : NewCopies(f) \/ Saves(f)

-----------------------------------------------------------------------------
(* Whole steps.                                                            *)
LEMMA Division ==
  ASSUME NEW q \in Nat, NEW size \in Nat \ {0}
  PROVE  /\ q % size \in 0..(size - 1)
         /\ q \div size \in Nat
         /\ q = size * (q \div size) + (q % size)
<1>1. q % size \in 0..(size - 1)
  OBVIOUS
<1>2. q = size * (q \div size) + (q % size)
  OBVIOUS
<1>3. q \div size \in Int
  OBVIOUS
<1>4. q \div size >= 0
  OBVIOUS
<1>5. QED
  BY <1>1, <1>2, <1>3, <1>4

LEMMA Multiple ==
  ASSUME NEW d \in Int, NEW size \in Nat \ {0}, size * d < size
  PROVE  size * d <= 0
<1>1. CASE d >= 1
  <2>1. d - 1 \in Nat
    BY <1>1
  <2>2. size * (d - 1) >= 0
    BY <2>1
  <2>3. size * (d - 1) = size * d - size
    OBVIOUS
  <2>4. QED
    BY <2>2, <2>3
<1>2. CASE d <= 0
  <2>1. -d \in Nat
    BY <1>2
  <2>2. size * (-d) >= 0
    BY <2>1
  <2>3. size * (-d) = -(size * d)
    OBVIOUS
  <2>4. QED
    BY <2>2, <2>3
<1>3. QED
  BY <1>1, <1>2

LEMMA StepsBound ==
  ASSUME NEW q \in Nat, NEW size \in Nat
  PROVE  Steps(q, size) \in 0..q
<1>1. CASE size = 0
  BY <1>1 DEF Steps
<1>2. CASE size # 0
  <2>1. /\ q % size \in 0..(size - 1) /\ q \div size \in Nat
        /\ q = size * (q \div size) + (q % size)
    BY <1>2, Division
  <2>2. size * (q \div size) >= 0
    BY <2>1
  <2>3. QED
    BY <1>2, <2>1, <2>2 DEF Steps
<1>3. QED
  BY <1>1, <1>2

LEMMA StepsSum ==
  ASSUME NEW a \in Nat, NEW b \in Nat, NEW size \in Nat
  PROVE  Steps(a, size) + Steps(b, size) <= Steps(a + b, size)
<1>1. CASE size = 0
  BY <1>1 DEF Steps
<1>2. CASE size # 0
  <2> DEFINE qa == a \div size  qb == b \div size  qc == (a + b) \div size
             ra == a % size  rb == b % size  rc == (a + b) % size
  <2>1. /\ qa \in Nat /\ ra \in 0..(size - 1) /\ a = size * qa + ra
        /\ qb \in Nat /\ rb \in 0..(size - 1) /\ b = size * qb + rb
    BY <1>2, Division
  <2>2. qc \in Nat /\ rc \in 0..(size - 1) /\ a + b = size * qc + rc
    <3>1. a + b \in Nat
      OBVIOUS
    <3>2. QED
      BY <1>2, <3>1, Division
  <2> HIDE DEF qa, qb, qc, ra, rb, rc
  <2>3. size * (qa + qb - qc) = size * qa + size * qb - size * qc
    BY <2>1, <2>2
  <2>4. size * (qa + qb - qc) = rc - ra - rb
    BY <2>1, <2>2, <2>3
  <2>5. rc - ra - rb < size
    BY <2>1, <2>2
  <2>6. rc - ra - rb <= 0
    BY <1>2, <2>1, <2>2, <2>4, <2>5, Multiple
  <2>7. (a - ra) + (b - rb) <= (a + b) - rc
    BY <2>1, <2>2, <2>6
  <2>8. QED
    BY <1>2, <2>7 DEF Steps, ra, rb, rc
<1>3. QED
  BY <1>1, <1>2

LEMMA StepsTwice ==
  ASSUME NEW q \in Nat, NEW size \in Nat
  PROVE  Steps(Steps(q, size), size) = Steps(q, size)
<1>1. CASE size = 0
  BY <1>1 DEF Steps
<1>2. CASE size # 0
  <2>1. Steps(q, size) \in Nat
    BY StepsBound
  <2> DEFINE p == Steps(q, size)
  <2>2. p = size * (q \div size) /\ q \div size \in Nat
    BY <1>2, Division DEF Steps
  <2> DEFINE c == q \div size  d == p \div size  r == p % size
  <2>3. p = size * c /\ c \in Nat
    BY <2>2
  <2>4. r \in 0..(size - 1) /\ d \in Nat /\ p = size * d + r
    BY <1>2, <2>1, Division
  <2> HIDE DEF p, c, d, r
  <2>5. size * (c - d) = size * c - size * d
    BY <2>3, <2>4
  <2>6. size * (c - d) = r /\ c - d \in Int
    BY <2>3, <2>4, <2>5
  <2>7. r = 0
    BY <1>2, <2>4, <2>6, Multiple
  <2>8. QED
    BY <1>2, <2>1, <2>7 DEF Steps, p, r
<1>3. QED
  BY <1>1, <1>2
-----------------------------------------------------------------------------
(* The dimensions of a chunk: each changes its own part of the pricing.    *)
LEMMA TariffType ==
  ASSUME NEW k \in Tariffs
  PROVE  /\ k.flat \in BOOLEAN
         /\ k.energy \in Nat \union {Off} /\ k.charging \in Nat \union {Off}
         /\ k.parking \in Nat \union {Off}
BY MeteringAssumption DEF Dimension

LEMMA PricedFacts ==
  ASSUME NEW p \in Priced
  PROVE  /\ p.fees \subseteq Tariffs /\ p.energy \in Nat /\ p.charged \in Nat
         /\ p.parked \in Nat /\ p.absorbed \in Nat /\ p.chargedTo \in Nat
         /\ p.parkedTo \in Nat
BY DEF Priced

LEMMA ConsumptionFacts ==
  ASSUME NEW c \in Consumption
  PROVE  /\ c.is \in BOOLEAN /\ c.from \in Times /\ c.wh \in Nat
         /\ c.total \in Nat /\ c.idle \in Nat
BY DEF Consumption

LEMMA FlatFeePart ==
  ASSUME NEW p \in Priced, NEW k \in Tariffs, NEW c \in Consumption,
         NEW total \in Nat, GoodFees(p, total), c.total <= total,
         NEW r, r = PriceFlatFee(p, k, c)
  PROVE  r \in Priced /\ GoodFees(r, total) /\ SameEnergy(p, r) /\ SameTime(p, r)
<1>1. CASE r = p
  BY <1>1 DEF SameEnergy, SameTime
<1>2. CASE c.total > 0 /\ r = [p EXCEPT !.fees = {k}]
  <2>1. r \in Priced /\ r.fees = {k} /\ SameEnergy(p, r) /\ SameTime(p, r)
    BY <1>2 DEF Priced, SameEnergy, SameTime
  <2>2. GoodFees(r, total)
    BY <1>2, <2>1, ConsumptionFacts DEF GoodFees
  <2>3. QED
    BY <2>1, <2>2
<1>3. QED
  BY <1>1, <1>2 DEF PriceFlatFee

(* What PriceEnergy leaves alone.                                          *)
LEMMA EnergyType ==
  ASSUME NEW p \in Priced, NEW e \in Nat, NEW a \in Nat,
         NEW r, r = WithEnergy(p, e, a)
  PROVE  /\ r \in Priced /\ r.energy = e /\ r.absorbed = a
         /\ SameFees(p, r) /\ SameTime(p, r)
BY DEF Priced, SameFees, SameTime, WithEnergy

(* The four outcomes of PriceEnergy.                                       *)
LEMMA EnergyCases ==
  ASSUME NEW p \in Priced, NEW k \in Tariffs, NEW c \in Consumption,
         NEW r, r = PriceEnergy(p, k, c)
  PROVE  \/ r = p /\ k.energy # Off
         \/ k.energy = Off /\ r = WithEnergy(p, p.energy, c.total)
         \/ /\ k.energy = 0 /\ c.wh > 0
            /\ r = WithEnergy(p, p.energy + c.wh, c.total)
         \/ /\ k.energy > 0 /\ c.total - p.absorbed >= k.energy
            /\ r = WithEnergy(p, p.energy + Steps(c.total - p.absorbed, k.energy),
                              Steps(c.total, k.energy))
<1>1. CASE k.energy = Off
  <2>1. r = [p EXCEPT !.absorbed = c.total]
    BY <1>1 DEF PriceEnergy, Off
  <2>2. [p EXCEPT !.absorbed = c.total] = WithEnergy(p, p.energy, c.total)
    BY DEF Priced, WithEnergy
  <2>3. QED
    BY <1>1, <2>1, <2>2
<1>2. CASE k.energy = 0
  BY <1>2 DEF PriceEnergy, Off, WithEnergy
<1>3. CASE k.energy > 0
  BY <1>3 DEF PriceEnergy, Off, WithEnergy
<1>4. QED
  BY <1>1, <1>2, <1>3, TariffType DEF Off

LEMMA EnergyLaw ==
  ASSUME NEW p \in Priced, NEW k \in Tariffs, NEW c \in Consumption,
         k.energy > 0, c.total - p.absorbed >= k.energy,
         NEW e, e = p.energy + Steps(c.total - p.absorbed, k.energy),
         NEW a, a = Steps(c.total, k.energy)
  PROVE  /\ e \in Nat /\ a \in 0..c.total
         /\ p.energy <= Steps(p.absorbed, k.energy) => e <= a
<1> DEFINE u == p.absorbed  v == c.total - p.absorbed  s == k.energy
<1>1. /\ u \in Nat /\ p.energy \in Nat /\ c.total \in Nat /\ s \in Nat
      /\ v \in Nat /\ u + v = c.total
  BY PricedFacts, ConsumptionFacts, TariffType DEF Off
<1>2. e = p.energy + Steps(v, s) /\ a = Steps(u + v, s)
  BY <1>1
<1> HIDE DEF u, v, s
<1>3. /\ Steps(v, s) \in 0..v /\ Steps(u, s) \in 0..u /\ Steps(u + v, s) \in 0..(u + v)
      /\ Steps(u, s) + Steps(v, s) <= Steps(u + v, s)
  <2>1. u + v \in Nat
    BY <1>1
  <2>2. QED
    BY <1>1, <2>1, StepsBound, StepsSum
<1>4. QED
  BY <1>1, <1>2, <1>3 DEF u, s

(* The mark stays, or moves to a point that is not beyond the chunk.       *)
LEMMA EnergyPart ==
  ASSUME NEW p \in Priced, NEW k \in Tariffs, NEW c \in Consumption,
         NEW r, r = PriceEnergy(p, k, c)
  PROVE  /\ r \in Priced /\ SameFees(p, r) /\ SameTime(p, r)
         /\ r.absorbed = p.absorbed \/ r.absorbed <= c.total
<1>1. p.absorbed \in Nat /\ p.energy \in Nat /\ c.total \in Nat /\ c.wh \in Nat
  BY PricedFacts, ConsumptionFacts
<1>2. CASE r = p
  BY <1>2 DEF SameFees, SameTime
<1>3. ASSUME NEW e \in Nat, NEW a \in 0..c.total, r = WithEnergy(p, e, a)
      PROVE  /\ r \in Priced /\ SameFees(p, r) /\ SameTime(p, r)
             /\ r.absorbed <= c.total
  <2>1. a \in Nat /\ a <= c.total
    BY <1>1
  <2>2. QED
    BY <1>3, <2>1, EnergyType
<1>4. CASE r = WithEnergy(p, p.energy, c.total)
  BY <1>1, <1>3, <1>4
<1>5. CASE r = WithEnergy(p, p.energy + c.wh, c.total)
  <2> DEFINE e == p.energy + c.wh
  <2>1. e \in Nat /\ r = WithEnergy(p, e, c.total) /\ c.total \in 0..c.total
    BY <1>1, <1>5
  <2> HIDE DEF e
  <2>2. QED
    BY <1>3, <2>1
<1>6. CASE /\ k.energy > 0 /\ c.total - p.absorbed >= k.energy
           /\ r = WithEnergy(p, p.energy + Steps(c.total - p.absorbed, k.energy),
                              Steps(c.total, k.energy))
  <2> DEFINE e == p.energy + Steps(c.total - p.absorbed, k.energy)
             a == Steps(c.total, k.energy)
  <2>1. e \in Nat /\ a \in 0..c.total /\ r = WithEnergy(p, e, a)
    BY <1>6, EnergyLaw
  <2> HIDE DEF e, a
  <2>2. QED
    BY <1>3, <2>1
<1>7. QED
  BY <1>2, <1>4, <1>5, <1>6, EnergyCases

(* Energy is priced by what was priced of it, and absorbed.                *)
LEMMA EnergyAlike ==
  ASSUME NEW p \in Priced, NEW q \in Priced, SameEnergy(p, q),
         NEW k \in Tariffs, NEW c \in Consumption
  PROVE  SameEnergy(PriceEnergy(p, k, c), PriceEnergy(q, k, c))
<1>1. CASE k.energy = Off
  BY <1>1 DEF PriceEnergy, SameEnergy, Priced, Off
<1>2. CASE k.energy = 0
  BY <1>2 DEF PriceEnergy, SameEnergy, Priced, Off
<1>3. CASE k.energy > 0
  BY <1>3 DEF PriceEnergy, SameEnergy, Priced, Off
<1>4. QED
  BY <1>1, <1>2, <1>3, TariffType DEF Off

-----------------------------------------------------------------------------
(* Time is priced up to a pointer that never passes the end of the chunk.  *)
LEMMA TimeLaw ==
  ASSUME NEW sum \in Nat, NEW to \in Nat, NEW c \in Consumption, NEW ts \in Times,
         NEW size \in Nat, sum <= to, to <= c.from, c.from <= ts,
         NEW spent, spent = TimeSpent(size, to, c, ts),
         NEW priced, priced = Steps(spent, size)
  PROVE  /\ priced \in Nat /\ ts - (spent - priced) \in Nat
         /\ sum + priced <= ts - (spent - priced)
         /\ ts - (spent - priced) <= ts
<1>1. c.from \in Nat /\ ts \in Nat
  BY ConsumptionFacts, MeteringAssumption DEF Times
<1>2. CASE size = 0
  <2>1. spent = ts - c.from /\ priced = spent
    BY <1>2 DEF TimeSpent, Steps
  <2>2. QED
    BY <1>1, <2>1
<1>3. CASE size # 0
  <2>1. spent = ts - to /\ spent \in Nat
    BY <1>1, <1>3 DEF TimeSpent
  <2>2. priced \in 0..spent
    BY <2>1, StepsBound
  <2>3. QED
    BY <1>1, <2>1, <2>2
<1>4. QED
  BY <1>2, <1>3

WithCharging(p, x, to) == [p EXCEPT !.charged = x, !.chargedTo = to]
WithParking(p, x, to) == [p EXCEPT !.parked = x, !.parkedTo = to]

LEMMA ChargingType ==
  ASSUME NEW p \in Priced, NEW x \in Nat, NEW to \in Nat,
         NEW q, q = WithCharging(p, x, to)
  PROVE  /\ q \in Priced /\ q.charged = x /\ q.chargedTo = to
         /\ q.parked = p.parked /\ q.parkedTo = p.parkedTo
         /\ SameFees(p, q) /\ SameEnergy(p, q)
BY DEF Priced, SameFees, SameEnergy, WithCharging

LEMMA ParkingType ==
  ASSUME NEW q \in Priced, NEW x \in Nat, NEW to \in Nat,
         NEW r, r = WithParking(q, x, to)
  PROVE  /\ r \in Priced /\ r.parked = x /\ r.parkedTo = to
         /\ r.charged = q.charged /\ r.chargedTo = q.chargedTo
         /\ SameFees(q, r) /\ SameEnergy(q, r)
BY DEF Priced, SameFees, SameEnergy, WithParking

(* The time of the chunk is charging time or it is not.                    *)
LEMMA ChargingPart ==
  ASSUME NEW p \in Priced, NEW k \in Tariffs, NEW c \in Consumption, NEW ts \in Times,
         GoodTime(p, c.from), c.from <= ts,
         NEW q, q = PriceChargingTime(p, k, c, ts)
  PROVE  /\ q \in Priced /\ SameFees(p, q) /\ SameEnergy(p, q)
         /\ q.charged + q.parked <= q.chargedTo /\ q.chargedTo <= ts
         /\ q.parked = p.parked /\ q.parkedTo = p.parkedTo
         /\ c.wh = 0 => q.charged = p.charged
<1>1. /\ p.charged \in Nat /\ p.parked \in Nat /\ p.chargedTo \in Nat /\ p.parkedTo \in Nat
      /\ c.from \in Nat /\ c.wh \in Nat /\ ts \in Nat
  BY PricedFacts, ConsumptionFacts, MeteringAssumption DEF Times
<1>2. /\ p.charged + p.parked <= p.chargedTo /\ p.chargedTo <= c.from
  BY DEF GoodTime
<1>3. CASE k.charging = Off \/ c.wh = 0
  <2>1. q = [p EXCEPT !.chargedTo = ts]
    BY <1>1, <1>3, ConsumptionFacts DEF PriceChargingTime
  <2>2. q = WithCharging(p, p.charged, ts)
    BY <2>1 DEF WithCharging, Priced
  <2>3. /\ q \in Priced /\ q.charged = p.charged /\ q.chargedTo = ts
        /\ q.parked = p.parked /\ q.parkedTo = p.parkedTo
        /\ SameFees(p, q) /\ SameEnergy(p, q)
    BY <1>1, <2>2, ChargingType
  <2>4. QED
    BY <1>1, <1>2, <2>3
<1>4. CASE k.charging # Off /\ c.wh > 0
  <2> DEFINE spent == TimeSpent(k.charging, p.chargedTo, c, ts)
             priced == Steps(spent, k.charging)
             x == p.charged + priced  to == ts - (spent - priced)
  <2>1. q = IF priced > 0 THEN WithCharging(p, x, to) ELSE p
    BY <1>4 DEF PriceChargingTime, WithCharging
  <2>2. k.charging \in Nat
    BY <1>4, TariffType
  <2>3. p.charged + p.parked \in Nat
    BY <1>1
  <2>4. /\ priced \in Nat /\ to \in Nat
        /\ p.charged + p.parked + priced <= to /\ to <= ts
    BY <1>1, <1>2, <2>2, <2>3, TimeLaw
  <2> HIDE DEF spent, to, priced
  <2>5. x \in Nat
    BY <1>1, <2>4
  <2> HIDE DEF x
  <2>6. CASE q = p
    BY <1>1, <1>2, <1>4, <2>6 DEF SameFees, SameEnergy
  <2>7. CASE q = WithCharging(p, x, to)
    <3>1. /\ q \in Priced /\ q.charged = x /\ q.chargedTo = to
          /\ q.parked = p.parked /\ q.parkedTo = p.parkedTo
          /\ SameFees(p, q) /\ SameEnergy(p, q)
      BY <2>4, <2>5, <2>7, ChargingType
    <3>2. QED
      BY <1>1, <1>4, <2>4, <3>1 DEF x
  <2>8. QED
    BY <2>1, <2>6, <2>7
<1>5. QED
  BY <1>1, <1>3, <1>4

LEMMA ParkingPart ==
  ASSUME NEW q \in Priced, NEW k \in Tariffs, NEW c \in Consumption, NEW ts \in Times,
         c.from <= ts, q.charged + q.parked <= q.chargedTo, q.chargedTo <= ts,
         q.parkedTo <= c.from,
         c.wh = 0 => q.charged + q.parked <= q.parkedTo /\ q.chargedTo = ts,
         NEW r, r = PriceParkingTime(q, k, c, ts)
  PROVE  r \in Priced /\ SameFees(q, r) /\ SameEnergy(q, r) /\ GoodTime(r, ts)
<1>1. /\ q.charged \in Nat /\ q.parked \in Nat /\ q.chargedTo \in Nat /\ q.parkedTo \in Nat
      /\ c.from \in Nat /\ c.wh \in Nat /\ ts \in Nat
  BY PricedFacts, ConsumptionFacts, MeteringAssumption DEF Times
<1> DEFINE parking == k.parking # Off /\ c.idle > 0 /\ c.total > 0 /\ c.wh = 0
<1>2. CASE ~parking
  <2>1. r = [q EXCEPT !.parkedTo = ts]
    BY <1>2 DEF PriceParkingTime
  <2>2. r = WithParking(q, q.parked, ts)
    BY <2>1 DEF WithParking, Priced
  <2>3. /\ r \in Priced /\ r.parked = q.parked /\ r.parkedTo = ts
        /\ r.charged = q.charged /\ r.chargedTo = q.chargedTo
        /\ SameFees(q, r) /\ SameEnergy(q, r)
    <3> DEFINE x == q.parked
    <3>1. x \in Nat /\ ts \in Nat /\ r = WithParking(q, x, ts)
      BY <1>1, <2>2
    <3> HIDE DEF x
    <3>2. /\ r \in Priced /\ r.parked = x /\ r.parkedTo = ts
          /\ r.charged = q.charged /\ r.chargedTo = q.chargedTo
          /\ SameFees(q, r) /\ SameEnergy(q, r)
      BY <3>1 DEF Priced, SameFees, SameEnergy, WithParking
    <3>3. QED
      BY <3>2 DEF x
  <2>4. GoodTime(r, ts)
    BY <1>1, <2>3 DEF GoodTime
  <2>5. QED
    BY <2>3, <2>4
<1>3. CASE parking
  <2> DEFINE spent == TimeSpent(k.parking, q.parkedTo, c, ts)
             priced == Steps(spent, k.parking)
             x == q.parked + priced  to == ts - (spent - priced)
  <2>1. r = IF priced > 0 THEN WithParking(q, x, to) ELSE q
    BY <1>3 DEF PriceParkingTime, WithParking
  <2>2. k.parking \in Nat /\ q.charged + q.parked <= q.parkedTo /\ q.chargedTo = ts
    BY <1>3, TariffType
  <2> DEFINE sum == q.charged + q.parked  from == q.parkedTo
  <2>3. sum \in Nat /\ sum <= from /\ from <= c.from /\ from \in Nat
        /\ spent = TimeSpent(k.parking, from, c, ts)
    BY <1>1, <2>2
  <2> HIDE DEF sum, from, spent
  <2>s. /\ priced \in Nat /\ to \in Nat
        /\ sum + priced <= to /\ to <= ts
    BY <2>2, <2>3, TimeLaw
  <2>4. /\ priced \in Nat /\ to \in Nat
        /\ q.charged + q.parked + priced <= to /\ to <= ts
    BY <1>1, <2>s DEF sum
  <2> HIDE DEF spent, to, priced
  <2>5. x \in Nat
    BY <1>1, <2>4
  <2> HIDE DEF x
  <2>6. CASE r = q
    BY <1>1, <2>2, <2>6 DEF GoodTime, SameFees, SameEnergy
  <2>7. CASE r = WithParking(q, x, to)
    <3>1. /\ r \in Priced /\ r.parked = x /\ r.parkedTo = to
          /\ r.charged = q.charged /\ r.chargedTo = q.chargedTo
          /\ SameFees(q, r) /\ SameEnergy(q, r)
      BY <2>4, <2>5, <2>7, ParkingType
    <3>2. GoodTime(r, ts)
      BY <1>1, <2>2, <2>4, <3>1 DEF GoodTime, x
    <3>3. QED
      BY <3>1, <3>2
  <2>8. QED
    BY <2>1, <2>6, <2>7
<1>4. QED
  BY <1>2, <1>3

LEMMA TimePart ==
  ASSUME NEW p \in Priced, NEW k \in Tariffs, NEW c \in Consumption, NEW ts \in Times,
         GoodTime(p, c.from), c.from <= ts,
         NEW r, r = PriceParkingTime(PriceChargingTime(p, k, c, ts), k, c, ts)
  PROVE  r \in Priced /\ SameFees(p, r) /\ SameEnergy(p, r) /\ GoodTime(r, ts)
<1> DEFINE q == PriceChargingTime(p, k, c, ts)
<1>1. /\ q \in Priced /\ SameFees(p, q) /\ SameEnergy(p, q)
      /\ q.charged + q.parked <= q.chargedTo /\ q.chargedTo <= ts
      /\ q.parked = p.parked /\ q.parkedTo = p.parkedTo
      /\ c.wh = 0 => q.charged = p.charged
  BY ChargingPart
<1>2. c.wh = 0 => q.chargedTo = ts
  BY ConsumptionFacts DEF PriceChargingTime, Priced
<1>3. r = PriceParkingTime(q, k, c, ts)
  OBVIOUS
<1> HIDE DEF q
<1>4. p.charged + p.parked <= p.parkedTo /\ p.parkedTo <= c.from
  BY DEF GoodTime
<1>5. r \in Priced /\ SameFees(q, r) /\ SameEnergy(q, r) /\ GoodTime(r, ts)
  BY <1>1, <1>2, <1>3, <1>4, ParkingPart
<1>6. QED
  BY <1>1, <1>5 DEF SameFees, SameEnergy
-----------------------------------------------------------------------------
(* A chunk that follows what was priced, and the one after the stop.       *)
LEMMA PriceGood ==
  ASSUME NEW p \in Priced, NEW k \in Tariffs, NEW c \in Consumption, NEW ts \in Times,
         c.wh <= c.total, c.from <= ts, GoodPriced(p, c.from, c.total - c.wh),
         NEW r, r = Price(p, k, c, ts)
  PROVE  /\ r \in Priced /\ GoodPriced(r, ts, c.total)
         /\ SameEnergy(PriceEnergy(p, k, c), r)
<1> DEFINE fee == PriceFlatFee(p, k, c)  energy == PriceEnergy(fee, k, c)
<1>1. /\ c.total \in Nat /\ c.wh \in Nat /\ c.from \in Nat /\ ts \in Nat
      /\ c.total - c.wh \in Nat
  BY ConsumptionFacts, MeteringAssumption DEF Times
<1>2. /\ GoodFees(p, c.total) /\ GoodEnergy(p, c.total - c.wh) /\ GoodTime(p, c.from)
  BY <1>1 DEF GoodPriced, GoodFees
<1>3. fee \in Priced /\ GoodFees(fee, c.total) /\ SameEnergy(p, fee) /\ SameTime(p, fee)
  BY <1>1, <1>2, FlatFeePart
<1>4. r = PriceParkingTime(PriceChargingTime(energy, k, c, ts), k, c, ts)
  BY DEF Price
<1> HIDE DEF fee
<1>5. GoodEnergy(fee, c.total - c.wh) /\ GoodTime(fee, c.from)
  BY <1>2, <1>3 DEF GoodEnergy, GoodTime, SameEnergy, SameTime
<1>a. /\ energy \in Priced /\ SameFees(fee, energy) /\ SameTime(fee, energy)
      /\ energy.absorbed = fee.absorbed \/ energy.absorbed <= c.total
  BY <1>3, EnergyPart
<1>6. /\ energy \in Priced /\ GoodEnergy(energy, c.total)
      /\ SameFees(fee, energy) /\ SameTime(fee, energy)
  BY <1>1, <1>3, <1>5, <1>a, PricedFacts DEF GoodEnergy
<1>e. SameEnergy(PriceEnergy(p, k, c), energy)
  BY <1>3, EnergyAlike
<1> HIDE DEF energy
<1>7. GoodTime(energy, c.from) /\ GoodFees(energy, c.total)
  BY <1>3, <1>5, <1>6 DEF GoodFees, GoodTime, SameFees, SameTime
<1>8. r \in Priced /\ SameFees(energy, r) /\ SameEnergy(energy, r) /\ GoodTime(r, ts)
  BY <1>4, <1>6, <1>7, TimePart
<1>9. GoodFees(r, c.total) /\ GoodEnergy(r, c.total)
  BY <1>6, <1>7, <1>8 DEF GoodFees, GoodEnergy, SameFees, SameEnergy
<1>10. SameEnergy(PriceEnergy(p, k, c), r)
  BY <1>8, <1>e DEF SameEnergy
<1>11. QED
  BY <1>8, <1>9, <1>10 DEF GoodPriced

LEMMA TimeOnce ==
  ASSUME NEW p \in Priced, NEW x \in Nat, GoodTime(p, x)
  PROVE  p.charged + p.parked <= x
BY PricedFacts DEF GoodTime

LEMMA GoodIsOnce ==
  ASSUME NEW p \in Priced, NEW x \in Nat, NEW total, GoodPriced(p, x, total)
  PROVE  PricedOnce(p, x, total)
BY TimeOnce DEF GoodPriced, PricedOnce

LEMMA PriceLast ==
  ASSUME NEW p \in Priced, NEW k \in Tariffs, NEW c \in Consumption, NEW ts \in Times,
         NEW total \in Nat, c.wh = 0, c.from <= ts, c.total <= total,
         GoodPriced(p, c.from, total),
         NEW r, r = Price(p, k, c, ts)
  PROVE  /\ r \in Priced /\ PricedOnce(r, ts, total)
         /\ SameEnergy(PriceEnergy(p, k, c), r)
<1> DEFINE fee == PriceFlatFee(p, k, c)  energy == PriceEnergy(fee, k, c)
<1>1. ts \in Nat
  BY MeteringAssumption DEF Times
<1>2. GoodFees(p, total) /\ GoodTime(p, c.from)
  BY DEF GoodPriced
<1>3. fee \in Priced /\ GoodFees(fee, total) /\ SameEnergy(p, fee) /\ SameTime(p, fee)
  BY <1>2, FlatFeePart
<1>4. r = PriceParkingTime(PriceChargingTime(energy, k, c, ts), k, c, ts)
  BY DEF Price
<1> HIDE DEF fee
<1>5. GoodTime(fee, c.from)
  BY <1>2, <1>3 DEF GoodTime, SameTime
<1>6. energy \in Priced /\ SameFees(fee, energy) /\ SameTime(fee, energy)
  BY <1>3, EnergyPart
<1>e. SameEnergy(PriceEnergy(p, k, c), energy)
  BY <1>3, EnergyAlike
<1> HIDE DEF energy
<1>7. GoodTime(energy, c.from) /\ GoodFees(energy, total)
  BY <1>3, <1>5, <1>6 DEF GoodFees, GoodTime, SameFees, SameTime
<1>8. r \in Priced /\ SameFees(energy, r) /\ SameEnergy(energy, r) /\ GoodTime(r, ts)
  BY <1>4, <1>6, <1>7, TimePart
<1>9. GoodFees(r, total)
  BY <1>7, <1>8 DEF GoodFees, SameFees
<1>10. r.charged + r.parked <= ts
  BY <1>1, <1>8, TimeOnce
<1>11. SameEnergy(PriceEnergy(p, k, c), r)
  BY <1>8, <1>e DEF SameEnergy
<1>12. QED
  BY <1>8, <1>9, <1>10, <1>11 DEF PricedOnce

-----------------------------------------------------------------------------
(* A value taken over, later than the last one.                            *)
LEMMA RuntimeFacts ==
  ASSUME NEW run \in Runtime
  PROVE  /\ run.last.v \in Nat /\ run.last.ts \in Times /\ run.total \in Nat
         /\ run.idle \in Nat /\ run.end \in BOOLEAN
         /\ run.last = [v |-> run.last.v, ts |-> run.last.ts]
BY DEF Runtime

LEMMA MeasureGood ==
  ASSUME NEW run \in Runtime, NEW v \in Nat, NEW ts \in Times, NEW idling \in BOOLEAN,
         run.last.v <= v, run.last.ts <= ts,
         run.total = run.last.v - MeterStart, run.idle <= run.last.ts,
         NEW m, m = Measure(run, v, ts, idling),
         NEW c, c = ConsumptionOf(run, m, idling)
  PROVE  /\ m \in Runtime /\ m.last.v = v /\ m.last.ts = ts /\ m.end = run.end
         /\ m.total = v - MeterStart /\ m.idle <= ts
         /\ c \in Consumption /\ c.from = run.last.ts /\ c.total = m.total
         /\ c.wh <= c.total /\ c.total - c.wh = run.total
<1>1. /\ run.last.v \in Nat /\ run.last.ts \in Times /\ run.total \in Nat
      /\ run.idle \in Nat /\ run.end \in BOOLEAN
  BY RuntimeFacts
<1>2. MeterStart \in Nat /\ ts \in Nat /\ run.last.ts \in Nat
  BY <1>1, MeteringAssumption DEF Times
<1> DEFINE idle == IF v <= run.last.v /\ idling THEN ts - run.last.ts ELSE 0
           wh == IF v > run.last.v THEN v - run.last.v ELSE 0
           last == [v |-> v, ts |-> ts]
           total == run.total + wh
           i == run.idle + idle
<1>3. last = IF v < run.last.v THEN run.last ELSE [v |-> v, ts |-> ts]
  BY <1>1
<1>4. last \in [v : Nat, ts : Times] /\ last.v = v /\ last.ts = ts
  OBVIOUS
<1> HIDE DEF last
<1>5. m = [run EXCEPT !.last = last, !.total = total, !.idle = i]
  BY <1>3 DEF Measure
<1>6. /\ idle \in Nat /\ i \in Nat /\ i <= ts
      /\ wh \in Nat /\ total \in Nat /\ total = v - MeterStart
  BY <1>1, <1>2
<1>7. wh = total - run.total /\ wh <= total
  BY <1>1, <1>6
<1> HIDE DEF idle, wh, total, i
<1>8. /\ m \in Runtime /\ m.last = last /\ m.end = run.end /\ m.total = total /\ m.idle = i
  BY <1>4, <1>5, <1>6 DEF Runtime
<1> DEFINE wasted == IF m.total = run.total /\ idling THEN m.idle ELSE 0
           from == run.last.ts
<1>9. wasted \in Nat /\ from \in Times
  BY <1>1, <1>6, <1>8
<1>10. c = [is |-> TRUE, from |-> from, wh |-> wh, total |-> total, idle |-> wasted]
  BY <1>7, <1>8 DEF ConsumptionOf
<1> HIDE DEF wasted, from
<1>11. /\ c \in Consumption /\ c.from = from /\ c.total = total /\ c.wh = wh
  BY <1>6, <1>9, <1>10 DEF Consumption
<1>12. c.total - c.wh = run.total
  BY <1>1, <1>6, <1>7, <1>11
<1>13. QED
  BY <1>4, <1>6, <1>7, <1>8, <1>11, <1>12 DEF from
-----------------------------------------------------------------------------
(* What a handler makes of a value.                                        *)
LEMMA TransactionFacts ==
  ASSUME NEW t \in Transaction
  PROVE  /\ t.run \in Runtime /\ t.priced \in Priced /\ t.stop \in Stop
         /\ t.stop.is \in BOOLEAN /\ t.stop.soft \in BOOLEAN /\ t.stop.v \in Nat
         /\ t.stop.ts \in Times /\ t.stop.dur \in Times /\ t.stop.total \in Nat
         /\ t.stop.idle \in Nat /\ t.stop.extra \in BOOLEAN
BY DEF Transaction, Stop

LEMMA FlowFacts ==
  ASSUME NEW h \in Flow
  PROVE  h.tx \in Transaction /\ h.given \in Transaction /\ h.doc \in Consumption
         /\ h.at \in Times
BY DEF Flow

LEMMA NoConsumptionType == NoConsumption \in Consumption /\ 0 \in Times
BY MeteringAssumption DEF NoConsumption, Consumption, Times

LEMMA StartedType == NoRuntime \in Runtime /\ Started \in Transaction
<1>1. 0 \in Times /\ MeterStart \in Nat
  BY MeteringAssumption DEF Times
<1>2. NoRuntime \in Runtime
  BY <1>1 DEF NoRuntime, Runtime
<1>3. NotPriced \in Priced
  BY DEF NotPriced, Priced
<1>4. NoStop \in Stop
  BY <1>1 DEF NoStop, Stop
<1>5. QED
  BY <1>2, <1>3, <1>4 DEF Started, Transaction

LEMMA HandlerFacts ==
  ASSUME NEW pc \in {"idle", "soft", "extra", "saveDoc", "saveTx"},
         NEW t \in Transaction, NEW c \in Consumption, NEW ts \in Times,
         NEW h, h = Handler(pc, t, c, ts)
  PROVE  /\ h \in Flow /\ h.pc = pc /\ h.tx = t /\ h.given = Started
         /\ h.doc = c /\ h.at = ts
BY StartedType DEF Handler, Flow

LEMMA OutcomeGood ==
  ASSUME NEW t \in Transaction, NEW v \in Nat, NEW ts \in Times, ~t.stop.is,
         t.run.last.ts <= ts => t.run.last.v <= v,
         t.run.total = t.run.last.v - MeterStart, t.run.idle <= t.run.last.ts,
         GoodPriced(t.priced, t.run.last.ts, t.run.total),
         NEW o \in Outcomes(t, v, ts)
  PROVE  /\ o \in Flow /\ o.at = ts /\ o.given = Started
         /\ o.tx.stop = t.stop /\ Derives(t, o.tx)
         /\ \/ ts < t.run.last.ts /\ o.pc = "saveTx" /\ o.tx = t
            \/ /\ o.pc = "saveDoc" /\ t.run.last.ts <= ts /\ o.tx.stop = t.stop
               /\ o.tx.run.last.v = v /\ o.tx.run.last.ts = ts
               /\ o.tx.run.total = v - MeterStart /\ o.tx.run.idle <= ts
               /\ o.tx.run.end = t.run.end
               /\ GoodPriced(o.tx.priced, ts, o.tx.run.total)
               /\ o.doc.total = v - MeterStart
<1>1. /\ t.run \in Runtime /\ t.priced \in Priced /\ t.stop \in Stop
      /\ t.run.last.ts \in Nat /\ ts \in Nat
  <2>1. t.run \in Runtime /\ t.priced \in Priced /\ t.stop \in Stop
    BY TransactionFacts
  <2>2. t.run.last.ts \in Times /\ t.run.idle \in Nat
    BY <2>1, RuntimeFacts
  <2>3. QED
    BY <2>1, <2>2, MeteringAssumption DEF Times
<1>2. CASE ts < t.run.last.ts
  <2>1. o = Handler("saveTx", t, NoConsumption, ts)
    BY <1>2 DEF Outcomes, Past
  <2>2. o \in Flow /\ o.pc = "saveTx" /\ o.tx = t /\ o.given = Started /\ o.at = ts
    BY <2>1, NoConsumptionType, HandlerFacts
  <2>3. Derives(t, t)
    BY DEF Derives, Keeps, SameEnergy
  <2>4. QED
    BY <1>2, <2>2, <2>3
<1>3. CASE ~(ts < t.run.last.ts)
  <2>1. t.run.last.ts <= ts /\ t.run.last.v <= v
    BY <1>1, <1>3
  <2>2. PICK idling \in BOOLEAN, k \in Tariffs : o = Taken(t, v, ts, idling, k)
    BY <1>3 DEF Outcomes, Past
  <2> DEFINE m == Measure(t.run, v, ts, idling)
             c == ConsumptionOf(t.run, m, idling)
             p == Price(t.priced, k, c, ts)
             u == [t EXCEPT !.run = m, !.priced = p]
  <2>3. o = Handler("saveDoc", u, c, ts)
    BY <2>2 DEF Taken
  <2>4. /\ m \in Runtime /\ m.last.v = v /\ m.last.ts = ts /\ m.end = t.run.end
        /\ m.total = v - MeterStart /\ m.idle <= ts
        /\ c \in Consumption /\ c.from = t.run.last.ts /\ c.total = m.total
        /\ c.wh <= c.total /\ c.total - c.wh = t.run.total
    BY <1>1, <2>1, MeasureGood
  <2> HIDE DEF m, c
  <2>5. /\ p \in Priced /\ GoodPriced(p, ts, m.total)
        /\ SameEnergy(PriceEnergy(t.priced, k, c), p)
    BY <1>1, <2>1, <2>4, PriceGood
  <2> HIDE DEF p
  <2>6. u \in Transaction /\ u.run = m /\ u.priced = p /\ u.stop = t.stop
    BY <2>4, <2>5 DEF Transaction
  <2> HIDE DEF u
  <2>7. /\ o \in Flow /\ o.pc = "saveDoc" /\ o.doc = c /\ o.at = ts /\ o.tx = u
        /\ o.given = Started
    BY <2>3, <2>4, <2>6, HandlerFacts
  <2>8. t.priced.absorbed <= Delivered(t)
    BY DEF GoodPriced, GoodEnergy, Delivered
  <2>9. Delivered(t) = c.total - c.wh /\ Delivered(u) = c.total
    BY <2>4, <2>6 DEF Delivered
  <2>10. Derives(t, u)
    BY <2>4, <2>5, <2>6, <2>8, <2>9 DEF Derives, Adds, Final
  <2>11. QED
    BY <2>1, <2>4, <2>5, <2>6, <2>7, <2>10
<1>4. QED
  BY <1>2, <1>3

LEMMA Later ==
  ASSUME NEW p \in Priced, NEW x \in Nat, NEW y \in Nat, x <= y, NEW total,
         GoodPriced(p, x, total)
  PROVE  GoodPriced(p, y, total)
BY PricedFacts DEF GoodPriced, GoodTime

\* What updateTransactionWithStopTransaction() makes the duration.
Duration(t, ts) == IF ts > t.run.last.ts THEN ts ELSE t.run.last.ts

(* The last value of the session, or none.  Where it is of the past, it is *)
(* the one of the last consumption.                                        *)
LEMMA LastOutcomeGood ==
  ASSUME NEW t \in Transaction, NEW v \in Nat, NEW ts \in Times, ~t.stop.is,
         t.run.last.ts <= ts => t.run.last.v <= v, ts < t.run.last.ts => v = t.run.last.v,
         t.run.end => t.run.last.v = v,
         t.run.total = t.run.last.v - MeterStart, t.run.idle <= t.run.last.ts,
         GoodPriced(t.priced, t.run.last.ts, t.run.total),
         NEW o \in LastOutcomes(t, v, ts)
  PROVE  /\ o \in Flow /\ o.at = ts /\ o.given = Started
         /\ o.tx.stop = t.stop /\ Derives(t, o.tx)
         /\ o.pc \in {"saveDoc", "saveTx"} /\ o.tx.run.total = v - MeterStart
         /\ o.tx.run.idle <= Duration(o.tx, ts)
         /\ GoodPriced(o.tx.priced, Duration(o.tx, ts), o.tx.run.total)
         /\ o.pc = "saveDoc" => o.doc.total = v - MeterStart /\ t.run.last.ts <= ts
         /\ t.run.last.ts <= ts => Duration(o.tx, ts) = ts
<1>1. /\ t.run \in Runtime /\ t.priced \in Priced /\ t.stop \in Stop
      /\ t.run.last.ts \in Nat /\ ts \in Nat /\ t.run.idle \in Nat
  <2>1. t.run \in Runtime /\ t.priced \in Priced /\ t.stop \in Stop
    BY TransactionFacts
  <2>2. t.run.last.ts \in Times /\ t.run.idle \in Nat
    BY <2>1, RuntimeFacts
  <2>3. QED
    BY <2>1, <2>2, MeteringAssumption DEF Times
<1>2. CASE t.run.end
  <2> DEFINE idle == t.run.idle + IF ts > t.run.last.ts THEN ts - t.run.last.ts ELSE 0
             u == [t EXCEPT !.run.idle = idle]
             to == IF ts > t.run.last.ts THEN ts ELSE t.run.last.ts
  <2>1. o = Handler("saveTx", u, NoConsumption, ts)
    BY <1>2 DEF LastOutcomes, NoLastConsumption
  <2>2. /\ idle \in Nat /\ idle <= to /\ to \in Nat /\ t.run.last.ts <= to
        /\ t.run.last.ts <= ts => to = ts
    BY <1>1
  <2> HIDE DEF idle
  <2> DEFINE m == [t.run EXCEPT !.idle = idle]
  <2>3. m \in Runtime /\ m.idle = idle /\ m.total = t.run.total /\ m.last = t.run.last
    BY <1>1, <2>2 DEF Runtime
  <2>4. u = [t EXCEPT !.run = m]
    OBVIOUS
  <2> HIDE DEF m, u
  <2>5. u \in Transaction /\ u.run = m /\ u.priced = t.priced /\ u.stop = t.stop
    BY <2>3, <2>4 DEF Transaction
  <2>6. /\ o \in Flow /\ o.pc = "saveTx" /\ o.at = ts /\ o.tx = u /\ o.given = Started
    BY <2>1, <2>5, NoConsumptionType, HandlerFacts
  <2>7. Duration(u, ts) = to
    BY <2>3, <2>5 DEF Duration
  <2> HIDE DEF to
  <2>8. GoodPriced(t.priced, to, t.run.total)
    BY <1>1, <2>2, Later
  <2>9. Derives(t, u)
    BY <2>3, <2>5 DEF Derives, Keeps, SameEnergy, Delivered, Final
  <2>10. QED
    BY <1>2, <2>2, <2>3, <2>5, <2>6, <2>7, <2>8, <2>9
<1>3. CASE ~t.run.end
  <2>1. o \in Outcomes(t, v, ts)
    BY <1>3 DEF LastOutcomes
  <2>2. /\ o \in Flow /\ o.at = ts /\ o.given = Started
        /\ o.tx.stop = t.stop /\ Derives(t, o.tx)
        /\ \/ ts < t.run.last.ts /\ o.pc = "saveTx" /\ o.tx = t
           \/ /\ o.pc = "saveDoc" /\ t.run.last.ts <= ts
              /\ o.tx.run.last.ts = ts
              /\ o.tx.run.total = v - MeterStart /\ o.tx.run.idle <= ts
              /\ GoodPriced(o.tx.priced, ts, o.tx.run.total)
              /\ o.doc.total = v - MeterStart
    BY <2>1, OutcomeGood
  <2>3. CASE ts < t.run.last.ts /\ o.pc = "saveTx" /\ o.tx = t
    <3>1. Duration(t, ts) = t.run.last.ts /\ ~(t.run.last.ts <= ts)
      BY <1>1, <2>3 DEF Duration
    <3>2. QED
      BY <2>2, <2>3, <3>1
  <2>4. CASE /\ o.pc = "saveDoc" /\ t.run.last.ts <= ts
             /\ o.tx.run.last.ts = ts
             /\ o.tx.run.total = v - MeterStart /\ o.tx.run.idle <= ts
             /\ GoodPriced(o.tx.priced, ts, o.tx.run.total)
             /\ o.doc.total = v - MeterStart
    <3>1. Duration(o.tx, ts) = ts
      BY <2>4 DEF Duration
    <3>2. QED
      BY <2>2, <2>4, <3>1
  <2>5. QED
    BY <2>2, <2>3, <2>4
<1>4. QED
  BY <1>2, <1>3
-----------------------------------------------------------------------------
(* A handler moves on; the database and the station stay as they are.      *)
LEMMA IdleType ==
  Idle \in Flow /\ Idle.tx = Started /\ Idle.given = Started /\ Idle.pc = "idle"
BY StartedType, NoConsumptionType, HandlerFacts DEF Idle

LEMMA StartedGood ==
  ASSUME TypeOK, StationInv
  PROVE  /\ Started \in Transaction /\ GoodTx(Started, reading, now, ended)
         /\ ~Started.stop.is /\ GoodRun(Started, reading, now, ended)
<1>1. Started \in Transaction
  BY StartedType
<1>2. /\ Started.stop.is = FALSE /\ Started.priced = NotPriced
      /\ Started.run.total = 0 /\ Started.run.last.v = MeterStart
      /\ Started.run.last.ts = 0 /\ Started.run.idle = 0 /\ Started.run.end = FALSE
  BY DEF Started, NoStop, NoRuntime
<1>3. MeterStart \in Nat /\ now \in Nat /\ reading[0] = MeterStart
  BY MeteringAssumption DEF TypeOK, StationInv, Times
<1>4. ended # Never => ended \in Nat
  BY MeteringAssumption DEF TypeOK, Times
<1>5. /\ NotPriced.fees = {} /\ NotPriced.charged = 0
      /\ NotPriced.parked = 0 /\ NotPriced.absorbed = 0 /\ NotPriced.chargedTo = 0
      /\ NotPriced.parkedTo = 0
  BY DEF NotPriced
<1>6. GoodPriced(NotPriced, 0, 0)
  BY <1>5 DEF GoodPriced, GoodTime, GoodFees, GoodEnergy
<1>7. GoodRun(Started, reading, now, ended)
  BY <1>2, <1>3, <1>4, <1>6 DEF GoodRun
<1>8. QED
  BY <1>1, <1>2, <1>7 DEF GoodTx

LEMMA IdleGood ==
  ASSUME TypeOK, StationInv
  PROVE  GoodHandler(Idle, reading, now, ended)
BY IdleType, StartedGood DEF GoodHandler

LEMMA Moved ==
  ASSUME TypeOK, FlowsInv, NEW f \in Flows, NEW h \in Flow, Become(f, h),
         UNCHANGED <<reading, now, ended>>, GoodHandler(h, reading, now, ended)
  PROVE  FlowsInv' /\ flow' \in [Flows -> Flow]
<1>1. flow \in [Flows -> Flow]
  BY DEF TypeOK
<1>2. flow' \in [Flows -> Flow] /\ \A g \in Flows : flow'[g] = IF g = f THEN h ELSE flow[g]
  BY <1>1 DEF Become
<1>3. QED
  BY <1>2 DEF FlowsInv

LEMMA FlowStep ==
  ASSUME MeteringInv, NEW f \in Flows, NEW h \in Flow, Become(f, h),
         UNCHANGED <<stationVars, tx, docs>>, ops' \in 0..MaxOps,
         GoodHandler(h, reading, now, ended), Copied(f, h)
  PROVE  MeteringInv' /\ Copies
<1>1. /\ now' = now /\ reading' = reading /\ ended' = ended /\ stopped' = stopped
      /\ tx' = tx /\ docs' = docs
  BY DEF stationVars
<1>2. FlowsInv' /\ flow' \in [Flows -> Flow]
  BY <1>1, Moved DEF MeteringInv
<1>3. TypeOK'
  BY <1>1, <1>2 DEF MeteringInv, TypeOK
<1>4. (StationInv /\ DocsInv /\ GoodTx(tx, reading, now, ended))'
  BY <1>1 DEF MeteringInv, StationInv, DocsInv
<1>5. Copies
  BY <1>1 DEF Copies, NewCopies
<1>6. QED
  BY <1>2, <1>3, <1>4, <1>5 DEF MeteringInv

LEMMA Bounds ==
  ASSUME TypeOK
  PROVE  /\ now \in Nat /\ MeterStart \in Nat
         /\ \A t \in Times : t \in Nat /\ reading[t] \in Nat
         /\ ended # Never => ended \in Nat /\ ended \in Times
         /\ stopped # Never => stopped \in Nat /\ stopped \in Times
BY MeteringAssumption DEF TypeOK, Times

(* A handler begins with a copy of the transaction in the database, which  *)
(* it changes or gives to a stop.                                          *)
LEMMA Begun ==
  ASSUME MeteringInv, NEW f \in Flows, NEW h \in Flow, Begin(f, h),
         UNCHANGED <<stationVars, tx, docs>>, GoodHandler(h, reading, now, ended),
         h.given = Started \/ (h.given = tx /\ ~tx.stop.is),
         \/ h.pc # "extra" /\ h.tx = Started
         \/ Derives(tx, h.tx) /\ (h.pc = "extra" => ~Final(tx))
  PROVE  MeteringInv' /\ Copies
<1>1. Become(f, h) /\ ops' \in 0..MaxOps /\ flow[f].pc # "extra"
  BY MeteringAssumption DEF Begin, MeteringInv, TypeOK
<1>2. Copied(f, h)
  BY <1>1 DEF Copied
<1>3. QED
  BY <1>1, <1>2, FlowStep

(* A value the station may have sent is not below an earlier one.          *)
LEMMA SentLater ==
  ASSUME MeteringInv, ~tx.stop.is, NEW ts \in Times, ts <= now, tx.run.last.ts <= ts
  PROVE  tx.run.last.v <= reading[ts]
<1>1. tx \in Transaction /\ GoodRun(tx, reading, now, ended)
  BY DEF MeteringInv, TypeOK, GoodTx
<1>2. tx.run.last.ts \in Times
  BY <1>1, TransactionFacts, RuntimeFacts
<1>3. QED
  BY <1>1, <1>2 DEF MeteringInv, StationInv, GoodRun

LEMMA MeterValuesGood ==
  ASSUME MeteringInv, NEW f \in Flows, NEW ts \in Times, NEW end \in BOOLEAN,
         MeterValues(f, ts, end)
  PROVE  MeteringInv' /\ Copies
<1> DEFINE x == tx.run.end \/ end
           run == [tx.run EXCEPT !.end = x]
           t == [tx EXCEPT !.run.end = x]
<1>1. PICK o \in Outcomes(t, reading[ts], ts) : Begin(f, o)
  BY DEF MeterValues
<1>2. TypeOK /\ StationInv /\ tx \in Transaction /\ ~tx.stop.is
  BY DEF MeteringInv, TypeOK, MeterValues
<1>3. GoodRun(tx, reading, now, ended)
  BY <1>2 DEF MeteringInv, GoodTx
<1>4. run \in Runtime /\ run.last = tx.run.last /\ run.total = tx.run.total
      /\ run.idle = tx.run.idle /\ run.end = x
  <2>1. tx.run \in Runtime /\ x \in BOOLEAN
    BY <1>2, TransactionFacts, RuntimeFacts
  <2> HIDE DEF x
  <2>2. QED
    BY <2>1 DEF Runtime
<1>5. t = [tx EXCEPT !.run = run]
  OBVIOUS
<1> HIDE DEF run, t
<1>6. t \in Transaction /\ t.run = run /\ t.priced = tx.priced /\ t.stop = tx.stop
  BY <1>2, <1>4, <1>5 DEF Transaction
<1>7. /\ ts <= now /\ (ended # Never => ts <= ended)
      /\ end => ended # Never /\ ts = ended
  <2>1. /\ ts <= IF ended = Never THEN now ELSE ended
        /\ end => ts = ended
    BY DEF MeterValues, Sent
  <2>2. ended # Never => ended <= now /\ ended \in Nat /\ now \in Nat
    BY <1>2, Bounds DEF StationInv
  <2>3. ts \in Nat /\ ended = ts => ended # Never
    BY DEF Never
  <2>4. QED
    BY <1>2, <2>1, <2>2, <2>3, Bounds
<1>8. /\ t.run.last.v \in Nat /\ t.run.last.ts \in Nat /\ t.run.last.ts \in Times
      /\ reading[ts] \in Nat /\ ts \in Nat
  <2>1. t.run.last.v \in Nat /\ t.run.last.ts \in Times
    BY <1>4, <1>6, RuntimeFacts
  <2>2. QED
    BY <1>2, <2>1, Bounds
<1>9. t.run.last.ts <= ts => t.run.last.v <= reading[ts]
  BY <1>2, <1>4, <1>6, <1>7, SentLater
<1>10. /\ t.run.total = t.run.last.v - MeterStart /\ t.run.idle <= t.run.last.ts
       /\ GoodPriced(t.priced, t.run.last.ts, t.run.total)
       /\ t.run.last.v = reading[t.run.last.ts] /\ t.run.last.ts <= now
       /\ ended # Never => t.run.last.ts <= ended
  BY <1>3, <1>4, <1>6 DEF GoodRun
<1>11. o \in Flow /\ o.at = ts /\ o.given = Started /\ Derives(t, o.tx)
       /\ \/ ts < t.run.last.ts /\ o.pc = "saveTx" /\ o.tx = t
          \/ /\ o.pc = "saveDoc" /\ t.run.last.ts <= ts /\ o.tx.stop = t.stop
             /\ o.tx.run.last.v = reading[ts] /\ o.tx.run.last.ts = ts
             /\ o.tx.run.total = reading[ts] - MeterStart /\ o.tx.run.idle <= ts
             /\ o.tx.run.end = t.run.end
             /\ GoodPriced(o.tx.priced, ts, o.tx.run.total)
             /\ o.doc.total = reading[ts] - MeterStart
  BY <1>2, <1>6, <1>8, <1>9, <1>10, OutcomeGood
<1>12. GoodHandler(o, reading, now, ended)
  <2>g. ~o.given.stop.is /\ GoodRun(o.given, reading, now, ended)
    BY <1>2, <1>11, StartedGood
  <2>1. CASE ts < t.run.last.ts /\ o.pc = "saveTx" /\ o.tx = t
    <3>1. t.run.end => ended # Never /\ t.run.last.v = reading[now]
      BY <1>3, <1>4, <1>6, <1>7, <1>8, <1>10, <2>1, <1>2, Bounds DEF GoodRun
    <3>2. GoodRun(t, reading, now, ended)
      BY <1>10, <3>1 DEF GoodRun
    <3>3. QED
      BY <1>2, <1>6, <2>g, <2>1, <3>2 DEF GoodHandler, GoodTx
  <2>2. CASE /\ o.pc = "saveDoc" /\ t.run.last.ts <= ts /\ o.tx.stop = t.stop
             /\ o.tx.run.last.v = reading[ts] /\ o.tx.run.last.ts = ts
             /\ o.tx.run.total = reading[ts] - MeterStart /\ o.tx.run.idle <= ts
             /\ o.tx.run.end = t.run.end
             /\ GoodPriced(o.tx.priced, ts, o.tx.run.total)
             /\ o.doc.total = reading[ts] - MeterStart
    <3>1. ASSUME t.run.end PROVE ended # Never /\ reading[ts] = reading[now]
      <4>1. CASE tx.run.end
        <5>1. ended # Never /\ tx.run.last.v = reading[now]
          BY <1>3, <4>1 DEF GoodRun
        <5>2. tx.run.last.v <= reading[ts]
          BY <1>4, <1>6, <1>9, <2>2
        <5>3. reading[ts] <= reading[now]
          BY <1>2, <1>7 DEF StationInv, TypeOK
        <5>4. now \in Times
          BY <1>2 DEF TypeOK
        <5>5. reading[now] \in Nat
          BY <1>2, <5>4, Bounds
        <5>6. QED
          BY <1>8, <5>1, <5>2, <5>3, <5>5
      <4>2. CASE end
        BY <1>2, <1>7, <4>2 DEF StationInv
      <4>3. QED
        BY <3>1, <1>4, <1>6, <4>1, <4>2
    <3>2. GoodRun(o.tx, reading, now, ended)
      BY <1>7, <2>2, <3>1 DEF GoodRun
    <3>3. QED
      <4>1. reading[ts] - MeterStart <= reading[ts] - MeterStart
        BY <1>8, MeteringAssumption
      <4>2. ~o.tx.stop.is
        BY <1>2, <1>6, <2>2
      <4>3. QED
        BY <1>7, <1>11, <2>g, <2>2, <3>2, <4>1, <4>2 DEF GoodHandler, GoodTx
  <2>3. QED
    BY <1>11, <2>1, <2>2
<1>13. Derives(tx, o.tx) /\ o.pc # "extra"
  BY <1>2, <1>4, <1>6, <1>11
  DEF Derives, Keeps, Adds, SameEnergy, Delivered, Final
<1>14. Begin(f, o) /\ UNCHANGED <<stationVars, tx, docs>>
  BY <1>1 DEF MeterValues
<1>15. QED
  BY <1>11, <1>12, <1>13, <1>14, Begun
-----------------------------------------------------------------------------
LEMMA FlowType ==
  ASSUME MeteringInv, NEW f \in Flows
  PROVE  flow[f] \in Flow /\ GoodHandler(flow[f], reading, now, ended)
BY DEF MeteringInv, TypeOK, FlowsInv

LEMMA WithStopFacts ==
  ASSUME NEW t \in Transaction, NEW v \in Nat, NEW ts \in Times, NEW soft \in BOOLEAN,
         NEW u, u = WithStop(t, v, ts, soft)
  PROVE  /\ u \in Transaction /\ u.priced = t.priced /\ u.run = t.run
         /\ u.stop.is /\ u.stop.soft = soft /\ u.stop.v = v /\ u.stop.ts = ts
         /\ u.stop.dur = Duration(t, ts) /\ u.stop.dur \in Nat
         /\ u.stop.total = t.run.total /\ u.stop.idle = t.run.idle /\ u.stop.extra = soft
<1> DEFINE dur == Duration(t, ts)
           stop == [is |-> TRUE, soft |-> soft, v |-> v, ts |-> ts, dur |-> dur,
                    total |-> t.run.total, idle |-> t.run.idle, extra |-> soft]
<1>1. t.run.total \in Nat /\ t.run.idle \in Nat /\ dur \in Times
  <2>1. t.run \in Runtime
    BY TransactionFacts
  <2>2. QED
    BY <2>1, RuntimeFacts DEF Duration
<1>2. u = [t EXCEPT !.stop = stop]
  BY DEF WithStop, Duration
<1> HIDE DEF dur
<1>3. stop \in Stop
  BY <1>1 DEF Stop
<1>4. /\ stop.is /\ stop.soft = soft /\ stop.v = v /\ stop.ts = ts /\ stop.dur = dur
      /\ stop.total = t.run.total /\ stop.idle = t.run.idle /\ stop.extra = soft
  OBVIOUS
<1> HIDE DEF stop
<1>5. u \in Transaction /\ u.priced = t.priced /\ u.run = t.run /\ u.stop = stop
  BY <1>2, <1>3 DEF Transaction
<1>6. dur \in Nat
  BY <1>1, MeteringAssumption DEF Times
<1>7. QED
  BY <1>4, <1>5, <1>6 DEF dur

(* The stop completes the session with the register it carries.            *)
LEMMA StopGood ==
  ASSUME MeteringInv, ~tx.stop.is, NEW v \in Nat, NEW ts \in Times,
         NEW soft \in BOOLEAN, ts <= now,
         tx.run.last.ts <= ts => tx.run.last.v <= v /\ v <= reading[ts],
         ts < tx.run.last.ts => v = tx.run.last.v,
         tx.run.end => tx.run.last.v = v,
         ~soft => /\ ended # Never /\ ended <= ts /\ v = reading[now]
                  /\ tx.run.last.ts <= ts,
         NEW h \in Stops(tx, v, ts, soft)
  PROVE  /\ h \in Flow /\ h.pc # "extra" /\ GoodHandler(h, reading, now, ended)
         /\ h.given = Started /\ Derives(tx, h.tx)
<1>1. PICK o \in LastOutcomes(tx, v, ts) : h = [o EXCEPT !.tx = WithStop(o.tx, v, ts, soft)]
  BY DEF Stops
<1>2. TypeOK /\ StationInv /\ tx \in Transaction
  BY DEF MeteringInv, TypeOK
<1>3. GoodRun(tx, reading, now, ended)
  BY <1>2 DEF MeteringInv, GoodTx
<1>4. /\ tx.run.total = tx.run.last.v - MeterStart /\ tx.run.idle <= tx.run.last.ts
      /\ GoodPriced(tx.priced, tx.run.last.ts, tx.run.total)
  BY <1>3 DEF GoodRun
<1>5. /\ o \in Flow /\ o.at = ts /\ o.given = Started
      /\ o.tx.stop = tx.stop /\ Derives(tx, o.tx)
      /\ o.pc \in {"saveDoc", "saveTx"} /\ o.tx.run.total = v - MeterStart
      /\ o.tx.run.idle <= Duration(o.tx, ts)
      /\ GoodPriced(o.tx.priced, Duration(o.tx, ts), o.tx.run.total)
      /\ o.pc = "saveDoc" => o.doc.total = v - MeterStart /\ tx.run.last.ts <= ts
      /\ tx.run.last.ts <= ts => Duration(o.tx, ts) = ts
  BY <1>2, <1>4, LastOutcomeGood
<1> DEFINE u == WithStop(o.tx, v, ts, soft)
<1>6. o.tx \in Transaction /\ o.tx.priced \in Priced /\ o.tx.run \in Runtime
  <2>1. o.tx \in Transaction
    BY <1>5, FlowFacts
  <2>2. QED
    BY <2>1, TransactionFacts
<1>7. /\ u \in Transaction /\ u.priced = o.tx.priced
      /\ u.stop.is /\ u.stop.soft = soft /\ u.stop.v = v /\ u.stop.ts = ts
      /\ u.stop.dur = Duration(o.tx, ts) /\ u.stop.dur \in Nat
      /\ u.stop.total = o.tx.run.total /\ u.stop.idle = o.tx.run.idle /\ u.stop.extra = soft
  BY <1>6, WithStopFacts
<1> HIDE DEF u
<1>8. /\ h \in Flow /\ h.tx = u /\ h.pc = o.pc /\ h.at = ts /\ h.doc = o.doc
      /\ h.given = Started
  BY <1>1, <1>5, <1>7 DEF Flow, u
<1>9. PricedOnce(u.priced, u.stop.dur, u.stop.total)
  BY <1>5, <1>6, <1>7, GoodIsOnce
<1>10. ~soft => GoodPriced(u.priced, u.stop.ts, u.stop.total) /\ u.stop.dur = u.stop.ts
  BY <1>5, <1>7
<1>11. GoodStop(u, reading, now, ended)
  BY <1>5, <1>7, <1>9, <1>10 DEF GoodStop
<1>12. h.pc = "saveDoc" => h.at <= now /\ h.doc.total <= reading[h.at] - MeterStart
  BY <1>2, <1>5, <1>8, Bounds
<1>13. ~h.given.stop.is /\ GoodRun(h.given, reading, now, ended)
  BY <1>2, <1>8, StartedGood
<1>14. Derives(tx, u)
  <2>1. Delivered(u) = Delivered(o.tx) /\ ~Final(u) /\ ~Final(tx)
    BY <1>5, <1>7 DEF Delivered, Final
  <2>2. QED
    BY <1>5, <1>7, <2>1 DEF Derives, Keeps, Adds, SameEnergy
<1>15. QED
  BY <1>5, <1>7, <1>8, <1>11, <1>12, <1>13, <1>14 DEF GoodHandler, GoodTx

LEMMA StationStopGood ==
  ASSUME MeteringInv, NEW f \in Flows, StationStop(f)
  PROVE  MeteringInv' /\ Copies
<1>1. /\ stopped # Never /\ ~tx.stop.is /\ TypeOK /\ StationInv /\ tx \in Transaction
      /\ UNCHANGED <<stationVars, tx, docs>>
  BY DEF StationStop, MeteringInv, TypeOK
<1>2. /\ stopped \in Times /\ stopped \in Nat /\ ended # Never /\ ended \in Times
      /\ ended \in Nat /\ ended <= stopped /\ stopped <= now /\ now \in Times
      /\ reading[stopped] \in Nat /\ now \in Nat
  BY <1>1, Bounds DEF StationInv, TypeOK
<1>3. GoodRun(tx, reading, now, ended)
  BY <1>1 DEF MeteringInv, GoodTx
<1>4. tx.run.last.ts \in Times /\ tx.run.last.ts \in Nat /\ tx.run.last.v \in Nat
  <2>1. tx.run \in Runtime
    BY <1>1, TransactionFacts
  <2>2. QED
    BY <1>1, <2>1, RuntimeFacts, Bounds
<1>5. tx.run.last.ts <= stopped
  BY <1>2, <1>3, <1>4 DEF GoodRun
<1>6. reading[stopped] = reading[now]
  <2>1. reading[ended] <= reading[stopped] /\ reading[stopped] <= reading[now]
        /\ reading[ended] = reading[now]
    BY <1>1, <1>2 DEF StationInv
  <2>2. reading[ended] \in Nat /\ reading[now] \in Nat
    BY <1>1, <1>2, Bounds
  <2>3. QED
    BY <1>2, <2>1, <2>2
<1>7. tx.run.last.v <= reading[stopped]
  BY <1>1, <1>2, <1>5, SentLater
<1>8. tx.run.end => tx.run.last.v = reading[stopped]
  BY <1>3, <1>6 DEF GoodRun
<1> DEFINE v == reading[stopped]  soft == FALSE
<1>9. /\ soft \in BOOLEAN /\ v \in Nat /\ v <= v /\ v <= reading[stopped] /\ tx.run.last.v <= v
      /\ v = reading[now]
      /\ tx.run.end => tx.run.last.v = v
  BY <1>2, <1>6, <1>7, <1>8
<1>10. PICK h \in Stops(tx, v, stopped, soft) : Begin(f, h)
  BY DEF StationStop
<1> HIDE DEF v, soft
<1>11. ~(stopped < tx.run.last.ts)
  BY <1>2, <1>4, <1>5
<1>12. /\ tx.run.last.ts <= stopped => tx.run.last.v <= v /\ v <= reading[stopped]
       /\ stopped < tx.run.last.ts => v = tx.run.last.v
       /\ ~soft => /\ ended # Never /\ ended <= stopped /\ v = reading[now]
                   /\ tx.run.last.ts <= stopped
  BY <1>2, <1>5, <1>9, <1>11
<1>13. /\ h \in Flow /\ h.pc # "extra" /\ GoodHandler(h, reading, now, ended)
       /\ h.given = Started /\ Derives(tx, h.tx)
  BY <1>1, <1>2, <1>9, <1>10, <1>12, StopGood
<1>14. QED
  BY <1>1, <1>10, <1>13, Begun

LEMMA ReadToStopGood ==
  ASSUME MeteringInv, NEW f \in Flows, ReadToStop(f)
  PROVE  MeteringInv' /\ Copies
<1> DEFINE h == [Idle EXCEPT !.pc = "soft", !.given = tx]
<1>1. /\ ~tx.stop.is /\ TypeOK /\ StationInv /\ tx \in Transaction
      /\ UNCHANGED <<stationVars, tx, docs>> /\ Begin(f, h)
  BY DEF ReadToStop, MeteringInv, TypeOK
<1>2. GoodRun(tx, reading, now, ended)
  BY <1>1 DEF MeteringInv, GoodTx
<1>3. h \in Flow /\ h.pc = "soft" /\ h.tx = Started /\ h.given = tx
  BY <1>1, IdleType DEF Flow
<1> HIDE DEF h
<1>4. GoodHandler(h, reading, now, ended)
  BY <1>1, <1>2, <1>3, StartedGood DEF GoodHandler
<1>5. QED
  BY <1>1, <1>3, <1>4, Begun

(* The session may have gone on since its copy was given to the stop, or   *)
(* an older copy of it may have been saved.                                *)
LEMMA SoftStopGood ==
  ASSUME MeteringInv, NEW f \in Flows, SoftStop(f)
  PROVE  MeteringInv' /\ Copies
<1> DEFINE given == flow[f].given  v == tx.run.last.v  ts == given.run.last.ts
           soft == TRUE
<1>1. /\ ~tx.stop.is /\ TypeOK /\ StationInv /\ tx \in Transaction
      /\ UNCHANGED <<stationVars, tx, docs>> /\ ops' \in 0..MaxOps
      /\ flow[f].pc = "soft"
  BY DEF SoftStop, MeteringInv, TypeOK
<1>2. flow[f] \in Flow /\ GoodHandler(flow[f], reading, now, ended)
  BY FlowType
<1>3. given \in Transaction /\ ~given.stop.is /\ GoodRun(given, reading, now, ended)
  BY <1>2, FlowFacts DEF GoodHandler
<1>4. ts \in Times /\ ts <= now
  <2>1. given.run \in Runtime
    BY <1>3, TransactionFacts
  <2>2. QED
    BY <1>3, <2>1, RuntimeFacts DEF GoodRun
<1>5. v \in Nat /\ tx.run.last.v = v /\ v <= v /\ soft /\ soft \in BOOLEAN
  <2>1. tx.run \in Runtime
    BY <1>1, TransactionFacts
  <2>2. v \in Nat
    BY <2>1, RuntimeFacts
  <2>3. QED
    BY <2>2
<1>6. tx.run.last.ts <= ts => v <= reading[ts]
  BY <1>1, <1>4, SentLater
<1>7. PICK o \in Stops(tx, v, ts, soft) : Become(f, [o EXCEPT !.given = given])
  BY DEF SoftStop
<1> HIDE DEF given, ts, v, soft
<1>8. /\ o \in Flow /\ o.pc # "extra" /\ GoodHandler(o, reading, now, ended)
      /\ Derives(tx, o.tx)
  BY <1>1, <1>4, <1>5, <1>6, StopGood
<1> DEFINE h == [o EXCEPT !.given = given]
<1>9. /\ h \in Flow /\ h.pc = o.pc /\ h.tx = o.tx /\ h.given = given
      /\ h.doc = o.doc /\ h.at = o.at
  BY <1>3, <1>8 DEF Flow
<1> HIDE DEF h
<1>10. GoodHandler(h, reading, now, ended)
  BY <1>3, <1>8, <1>9 DEF GoodHandler
<1>11. Copied(f, h)
  BY <1>1, <1>8, <1>9 DEF Copied, given
<1>12. QED
  BY <1>1, <1>7, <1>9, <1>10, <1>11, FlowStep DEF h

-----------------------------------------------------------------------------
LEMMA AvailableGood ==
  ASSUME MeteringInv, NEW f \in Flows, Available(f)
  PROVE  MeteringInv' /\ Copies
<1> DEFINE stop == [tx.stop EXCEPT !.extra = TRUE]
           t == [tx EXCEPT !.stop.extra = TRUE]
           saved == Handler("saveTx", t, NoConsumption, now)
           extra == Handler("extra", t, NoConsumption, now)
<1>1. /\ TypeOK /\ StationInv /\ tx \in Transaction /\ now \in Times
      /\ tx.stop.is /\ ~tx.stop.extra
      /\ UNCHANGED <<stationVars, tx, docs>>
      /\ Begin(f, saved) \/ (now > tx.stop.ts /\ Begin(f, extra))
  BY DEF Available, MeteringInv, TypeOK
<1>2. GoodStop(tx, reading, now, ended)
  BY <1>1 DEF MeteringInv, GoodTx
<1>3. /\ stop \in Stop /\ stop.is = tx.stop.is /\ stop.soft = tx.stop.soft
      /\ stop.v = tx.stop.v /\ stop.ts = tx.stop.ts /\ stop.dur = tx.stop.dur
      /\ stop.total = tx.stop.total
      /\ stop.idle = tx.stop.idle /\ stop.extra = TRUE
  <2>1. tx.stop \in Stop
    BY <1>1, TransactionFacts
  <2>2. QED
    BY <2>1 DEF Stop
<1>4. t = [tx EXCEPT !.stop = stop]
  OBVIOUS
<1> HIDE DEF t, stop
<1>5. t \in Transaction /\ t.stop = stop /\ t.priced = tx.priced
  BY <1>1, <1>3, <1>4 DEF Transaction
<1>6. /\ GoodStop(t, reading, now, ended) /\ ~t.stop.soft
      /\ GoodPriced(t.priced, t.stop.ts, t.stop.total)
  BY <1>1, <1>2, <1>3, <1>5 DEF GoodStop
<1>7. /\ saved \in Flow /\ saved.pc = "saveTx" /\ saved.tx = t /\ saved.given = Started
      /\ extra \in Flow /\ extra.pc = "extra" /\ extra.tx = t /\ extra.at = now
      /\ extra.given = Started
  BY <1>1, <1>5, NoConsumptionType, HandlerFacts
<1> HIDE DEF saved, extra
<1>8. now \in Nat /\ t.stop.ts \in Nat
  <2>1. t.stop.ts \in Times
    BY <1>5, TransactionFacts
  <2>2. QED
    BY <1>1, <2>1, Bounds
<1>g. ~Started.stop.is /\ GoodRun(Started, reading, now, ended)
  BY <1>1, StartedGood
<1>9. GoodHandler(saved, reading, now, ended)
  BY <1>1, <1>3, <1>5, <1>6, <1>7, <1>g DEF GoodHandler, GoodTx
<1>10. now > tx.stop.ts => GoodHandler(extra, reading, now, ended)
  <2>1. now > tx.stop.ts => t.stop.ts < now /\ now <= now
    BY <1>3, <1>5, <1>8
  <2>2. t.stop.is /\ t.stop.extra
    BY <1>1, <1>3, <1>5
  <2>3. QED
    BY <1>6, <1>7, <1>g, <2>1, <2>2 DEF GoodHandler, GoodTx
<1>11. Derives(tx, t) /\ ~Final(tx)
  BY <1>1, <1>3, <1>5 DEF Derives, Keeps, SameEnergy, Delivered, Final
<1>12. QED
  BY <1>1, <1>7, <1>9, <1>10, <1>11, Begun

(* The consumption the extra inactivity is priced with is one of this      *)
(* session, so its total is not beyond the total of the stop.              *)
LEMMA ExtraInactivityGood ==
  ASSUME MeteringInv, NEW f \in Flows, ExtraInactivity(f)
  PROVE  MeteringInv' /\ Copies
<1> DEFINE h == flow[f]  t == h.tx  ts == h.at
<1>1. /\ TypeOK /\ StationInv /\ DocsInv /\ h \in Flow /\ h.pc = "extra"
      /\ GoodHandler(h, reading, now, ended)
      /\ UNCHANGED <<stationVars, tx, docs>> /\ ops' \in 0..MaxOps
  BY FlowType DEF ExtraInactivity, MeteringInv, TypeOK
<1>2. /\ GoodTx(t, reading, now, ended) /\ t.stop.is /\ t.stop.extra /\ ~t.stop.soft
      /\ t.stop.ts < ts /\ ts <= now /\ GoodPriced(t.priced, t.stop.ts, t.stop.total)
      /\ ~h.given.stop.is /\ GoodRun(h.given, reading, now, ended)
  BY <1>1 DEF GoodHandler
<1>3. /\ t \in Transaction /\ h.doc \in Consumption /\ ts \in Times
      /\ t.priced \in Priced /\ t.stop \in Stop /\ t.stop.ts \in Times
      /\ t.stop.total \in Nat /\ t.stop.idle \in Nat /\ t.stop.v \in Nat
  <2>1. t \in Transaction /\ h.doc \in Consumption /\ ts \in Times
    BY <1>1, FlowFacts
  <2>2. QED
    BY <2>1, TransactionFacts
<1>4. /\ t.stop.total = t.stop.v - MeterStart /\ t.stop.idle <= t.stop.ts
      /\ t.stop.dur = t.stop.ts
      /\ ended # Never /\ ended <= t.stop.ts /\ t.stop.v = reading[now]
  BY <1>2 DEF GoodTx, GoodStop
<1>5. /\ ts \in Nat /\ t.stop.ts \in Nat /\ now \in Nat /\ now \in Times
      /\ ended \in Nat /\ ended \in Times
      /\ MeterStart \in Nat /\ reading[now] \in Nat /\ reading[ts] \in Nat
      /\ reading[ended] = reading[now]
  BY <1>1, <1>3, <1>4, Bounds DEF TypeOK, StationInv
<1>6. reading[ts] = reading[now]
  <2>1. ended <= ts
    BY <1>2, <1>4, <1>5
  <2>2. reading[ended] <= reading[ts] /\ reading[ts] <= reading[now]
    BY <1>1, <1>2, <1>3, <1>5, <2>1 DEF StationInv
  <2>3. QED
    BY <1>5, <2>2
<1>7. CASE flow' = [flow EXCEPT ![f].pc = "saveTx"]
  <2> DEFINE r == [h EXCEPT !.pc = "saveTx"]
  <2>1. r \in Flow /\ r.pc = "saveTx" /\ r.tx = t /\ r.given = h.given
    BY <1>1 DEF Flow
  <2>2. Become(f, r)
    BY <1>7 DEF Become
  <2> HIDE DEF r, t
  <2>3. GoodHandler(r, reading, now, ended)
    BY <1>2, <2>1 DEF GoodHandler
  <2>4. Copied(f, r)
    BY <2>1 DEF Copied, t
  <2>5. QED
    BY <1>1, <2>1, <2>2, <2>3, <2>4, FlowStep
<1>8. ASSUME NEW d \in LastDocs, NEW k \in Tariffs,
             LET c == [docs[d] EXCEPT !.from = t.stop.ts, !.wh = 0,
                                      !.idle = @ + (ts - t.stop.ts)]
             IN Become(f, Handler("saveDoc", [t EXCEPT !.priced = Price(@, k, c, ts),
                                                       !.stop.ts = ts, !.stop.dur = ts], c, ts))
      PROVE  MeteringInv' /\ Copies
  <2> DEFINE idle == docs[d].idle + (ts - t.stop.ts)
             from == t.stop.ts
             c == [docs[d] EXCEPT !.from = from, !.wh = 0, !.idle = idle]
             p == Price(t.priced, k, c, ts)
             stop == [t.stop EXCEPT !.ts = ts, !.dur = ts]
             u == [t EXCEPT !.priced = p, !.stop = stop]
             r == Handler("saveDoc", u, c, ts)
  <2>1. Become(f, r)
    BY <1>8
  <2>2. d \in Times /\ docs[d] \in Consumption /\ docs[d].is
    BY <1>1 DEF LastDocs, TypeOK
  <2>3. docs[d].total \in Nat /\ idle \in Nat /\ from \in Times
    BY <1>2, <1>3, <1>5, <2>2, ConsumptionFacts
  <2> HIDE DEF idle, from
  <2>4. c \in Consumption /\ c.total = docs[d].total /\ c.wh = 0 /\ c.from = from
    BY <2>2, <2>3 DEF Consumption
  <2> HIDE DEF c
  <2>5. c.total <= t.stop.total
    <3>1. d <= now /\ docs[d].total <= reading[d] - MeterStart
      BY <1>1, <2>2 DEF DocsInv
    <3>2. reading[d] <= reading[now] /\ reading[d] \in Nat
      BY <1>1, <1>5, <2>2, <3>1, Bounds DEF StationInv
    <3>3. QED
      BY <1>3, <1>4, <1>5, <2>3, <2>4, <3>1, <3>2
  <2>6. c.from <= ts /\ c.from = t.stop.ts
    BY <1>2, <1>5, <2>4 DEF from
  <2>7. /\ p \in Priced /\ PricedOnce(p, ts, t.stop.total)
        /\ SameEnergy(PriceEnergy(t.priced, k, c), p)
    <3> DEFINE pr == t.priced  total == t.stop.total
    <3>1. pr \in Priced /\ total \in Nat /\ GoodPriced(pr, c.from, total)
          /\ c.total <= total /\ p = Price(pr, k, c, ts)
      BY <1>2, <1>3, <2>5, <2>6
    <3> HIDE DEF pr, total, p
    <3>2. /\ p \in Priced /\ PricedOnce(p, ts, total)
          /\ SameEnergy(PriceEnergy(pr, k, c), p)
      BY <1>3, <2>4, <2>6, <3>1, PriceLast
    <3>3. QED
      BY <3>2 DEF total, pr
  <2> HIDE DEF p
  <2>8. /\ stop \in Stop /\ stop.is = t.stop.is /\ stop.soft = t.stop.soft
        /\ stop.v = t.stop.v /\ stop.ts = ts /\ stop.dur = ts /\ stop.total = t.stop.total
        /\ stop.idle = t.stop.idle /\ stop.extra = t.stop.extra
    BY <1>3 DEF Stop
  <2> HIDE DEF stop
  <2>9. u \in Transaction /\ u.priced = p /\ u.stop = stop
    BY <1>3, <2>7, <2>8 DEF Transaction
  <2> HIDE DEF u
  <2>10. /\ r \in Flow /\ r.pc = "saveDoc" /\ r.tx = u /\ r.at = ts /\ r.doc = c
         /\ r.given = Started
    BY <1>3, <2>4, <2>9, HandlerFacts
  <2> HIDE DEF r
  <2>11. stop.idle <= ts /\ ended <= ts
    BY <1>2, <1>3, <1>4, <1>5, <2>8
  <2>12. GoodStop(u, reading, now, ended)
    BY <1>2, <1>4, <2>7, <2>8, <2>9, <2>11 DEF GoodStop
  <2>13. c.total <= reading[ts] - MeterStart
    BY <1>4, <1>6, <2>5
  <2>g. ~Started.stop.is /\ GoodRun(Started, reading, now, ended)
    BY <1>1, StartedGood
  <2>14. GoodHandler(r, reading, now, ended)
    BY <1>2, <2>g, <2>8, <2>9, <2>10, <2>12, <2>13 DEF GoodHandler, GoodTx
  <2>15. Ends(t, u)
    <3>1. Final(u) /\ Delivered(u) = Delivered(t) /\ Delivered(t) = t.stop.total
      BY <1>2, <2>8, <2>9 DEF Final, Delivered
    <3>2. t.priced.absorbed <= t.stop.total
      BY <1>2 DEF GoodPriced, GoodEnergy
    <3>3. QED
      BY <2>4, <2>5, <2>7, <2>9, <3>1, <3>2 DEF Ends
  <2>16. Copied(f, r)
    BY <1>1, <2>10, <2>15 DEF Copied
  <2>17. QED
    BY <1>1, <2>1, <2>10, <2>14, <2>16, FlowStep
<1>9. QED
  BY <1>7, <1>8 DEF ExtraInactivity

-----------------------------------------------------------------------------
LEMMA SaveDocGood ==
  ASSUME MeteringInv, NEW f \in Flows, SaveDoc(f)
  PROVE  MeteringInv' /\ Copies
<1> DEFINE h == flow[f]  r == [h EXCEPT !.pc = "saveTx"]
<1>1. /\ TypeOK /\ StationInv /\ DocsInv /\ h \in Flow /\ h.pc = "saveDoc"
      /\ GoodHandler(h, reading, now, ended) /\ FlowsInv
      /\ docs' = [docs EXCEPT ![h.at] = h.doc]
      /\ flow' = [flow EXCEPT ![f].pc = "saveTx"]
      /\ tx' = tx /\ ops' = ops
      /\ now' = now /\ reading' = reading /\ ended' = ended /\ stopped' = stopped
  BY FlowType DEF SaveDoc, MeteringInv, stationVars
<1>2. h.at <= now /\ h.doc.total <= reading[h.at] - MeterStart
  BY <1>1 DEF GoodHandler
<1>3. h.at \in Times /\ h.doc \in Consumption
  BY <1>1, FlowFacts
<1>4. r \in Flow /\ r.pc = "saveTx" /\ r.tx = h.tx /\ r.given = h.given
  BY <1>1 DEF Flow
<1>5. Become(f, r)
  BY <1>1 DEF Become
<1> HIDE DEF r
<1>6. GoodHandler(r, reading, now, ended)
  BY <1>1, <1>4 DEF GoodHandler
<1>7. FlowsInv' /\ flow' \in [Flows -> Flow]
  BY <1>1, <1>4, <1>5, <1>6, Moved
<1>8. docs' \in [Times -> Consumption]
      /\ \A t \in Times : docs'[t] = IF t = h.at THEN h.doc ELSE docs[t]
  BY <1>1, <1>3 DEF TypeOK
<1>9. DocsInv'
  BY <1>1, <1>2, <1>8 DEF DocsInv
<1>10. TypeOK'
  BY <1>1, <1>7, <1>8 DEF TypeOK
<1>11. (StationInv /\ GoodTx(tx, reading, now, ended))'
  BY <1>1 DEF MeteringInv, StationInv
<1>12. Copies
  BY <1>1, <1>4, <1>5 DEF Copies, NewCopies, Copied
<1>13. QED
  BY <1>7, <1>9, <1>10, <1>11, <1>12 DEF MeteringInv

(* saveTransaction() drops what only belongs to a session under way.       *)
LEMMA SavedGood ==
  ASSUME NEW t \in Transaction, GoodTx(t, reading, now, ended)
  PROVE  /\ Saved(t) \in Transaction /\ GoodTx(Saved(t), reading, now, ended)
         /\ Keeps(t, Saved(t))
<1>1. CASE ~t.stop.is
  BY <1>1 DEF Saved, Keeps, SameEnergy
<1>2. CASE t.stop.is
  <2>1. Saved(t) = [t EXCEPT !.run = NoRuntime]
    BY <1>2 DEF Saved
  <2>2. Saved(t) \in Transaction /\ Saved(t).stop = t.stop /\ Saved(t).priced = t.priced
    BY <2>1, StartedType DEF Transaction
  <2>3. GoodStop(Saved(t), reading, now, ended)
    BY <1>2, <2>2 DEF GoodTx, GoodStop
  <2>4. Keeps(t, Saved(t))
    BY <1>2, <2>2 DEF Keeps, SameEnergy, Delivered, Final
  <2>5. QED
    BY <1>2, <2>2, <2>3, <2>4 DEF GoodTx
<1>3. QED
  BY <1>1, <1>2

(* Whoever saves last, the saved copy is consistent in itself.             *)
LEMMA TxStep ==
  ASSUME MeteringInv, NEW f \in Flows, NEW t \in Transaction,
         GoodTx(t, reading, now, ended), tx' = Saved(t), Become(f, Idle),
         UNCHANGED <<stationVars, docs, ops>>,
         Keeps(flow[f].tx, t) \/ Keeps(flow[f].given, t)
  PROVE  MeteringInv' /\ Copies
<1>1. /\ TypeOK /\ StationInv /\ DocsInv /\ FlowsInv /\ docs' = docs /\ ops' = ops
      /\ now' = now /\ reading' = reading /\ ended' = ended /\ stopped' = stopped
  BY DEF MeteringInv, stationVars
<1>2. FlowsInv' /\ flow' \in [Flows -> Flow]
  BY <1>1, IdleType, IdleGood, Moved
<1>3. tx' \in Transaction /\ GoodTx(tx', reading, now, ended)
  BY SavedGood
<1>4. TypeOK'
  BY <1>1, <1>2, <1>3 DEF TypeOK
<1>5. (StationInv /\ DocsInv)'
  BY <1>1 DEF StationInv, DocsInv
<1>6. Copies
  <2>1. Keeps(t, tx')
    BY SavedGood
  <2>2. Saves(f)
    BY <2>1 DEF Saves, Keeps, SameEnergy
  <2>3. QED
    BY <2>2 DEF Copies
<1>7. QED
  BY <1>1, <1>2, <1>3, <1>4, <1>5, <1>6 DEF MeteringInv

LEMMA SaveTxGood ==
  ASSUME MeteringInv, NEW f \in Flows, SaveTx(f)
  PROVE  MeteringInv' /\ Copies
<1>1. /\ flow[f].tx \in Transaction /\ GoodTx(flow[f].tx, reading, now, ended)
      /\ tx' = Saved(flow[f].tx) /\ Become(f, Idle)
      /\ UNCHANGED <<stationVars, docs, ops>>
  BY FlowType, FlowFacts DEF SaveTx, GoodHandler
<1>2. Keeps(flow[f].tx, flow[f].tx)
  BY DEF Keeps, SameEnergy
<1>3. QED
  BY <1>1, <1>2, TxStep

(* The stop of the given copy: its last consumption is the end.            *)
LEMMA GivenGood ==
  ASSUME TypeOK, NEW t \in Transaction, ~t.stop.is, GoodRun(t, reading, now, ended),
         NEW soft \in BOOLEAN,
         NEW u, u = WithStop(t, t.run.last.v, t.run.last.ts, soft)
  PROVE  /\ u \in Transaction /\ (soft => GoodTx(u, reading, now, ended))
         /\ Keeps(t, u)
<1> DEFINE v == t.run.last.v  ts == t.run.last.ts
<1>1. v \in Nat /\ ts \in Times /\ ts \in Nat /\ t.priced \in Priced
  <2>1. t.run \in Runtime /\ t.priced \in Priced
    BY TransactionFacts
  <2>2. QED
    BY <2>1, RuntimeFacts, Bounds
<1>2. Duration(t, ts) = ts
  BY <1>1 DEF Duration
<1>3. /\ t.run.total = v - MeterStart /\ t.run.idle <= ts
      /\ GoodPriced(t.priced, ts, t.run.total)
  BY DEF GoodRun
<1>4. u = WithStop(t, v, ts, soft)
  OBVIOUS
<1> HIDE DEF v, ts
<1>5. /\ u \in Transaction /\ u.priced = t.priced
      /\ u.stop.is /\ u.stop.soft = soft /\ u.stop.v = v
      /\ u.stop.dur = Duration(t, ts) /\ u.stop.total = t.run.total
      /\ u.stop.idle = t.run.idle /\ u.stop.extra = soft
  BY <1>1, <1>4, WithStopFacts
<1>6. PricedOnce(u.priced, u.stop.dur, u.stop.total)
  BY <1>1, <1>2, <1>3, <1>5, GoodIsOnce
<1>7. soft => GoodStop(u, reading, now, ended)
  BY <1>2, <1>3, <1>5, <1>6 DEF GoodStop
<1>8. Keeps(t, u)
  BY <1>5 DEF Keeps, SameEnergy, Delivered, Final
<1>9. QED
  BY <1>5, <1>7, <1>8 DEF GoodTx

LEMMA FallbackGood ==
  ASSUME MeteringInv, NEW f \in Flows, Fallback(f)
  PROVE  MeteringInv' /\ Copies
<1> DEFINE given == flow[f].given
           soft == TRUE
           t == WithStop(given, given.run.last.v, given.run.last.ts, soft)
<1>1. TypeOK /\ given \in Transaction /\ ~given.stop.is /\ GoodRun(given, reading, now, ended)
  BY FlowType, FlowFacts DEF GoodHandler, MeteringInv
<1>a. soft \in BOOLEAN /\ soft
  OBVIOUS
<1>b. tx' = Saved(t) /\ Become(f, Idle) /\ UNCHANGED <<stationVars, docs, ops>>
  BY DEF Fallback
<1> HIDE DEF soft
<1>2. t \in Transaction /\ GoodTx(t, reading, now, ended) /\ Keeps(given, t)
  BY <1>1, <1>a, GivenGood
<1> HIDE DEF t
<1>3. QED
  BY <1>b, <1>2, TxStep

LEMMA CrashGood ==
  ASSUME MeteringInv, NEW f \in Flows, Crash(f)
  PROVE  MeteringInv' /\ Copies
<1>1. TypeOK /\ StationInv
  BY DEF MeteringInv
<1>2. Become(f, Idle) /\ UNCHANGED <<stationVars, tx, docs>> /\ ops' \in 0..MaxOps
  BY <1>1 DEF Crash, TypeOK
<1>3. Copied(f, Idle)
  BY IdleType DEF Copied
<1>4. QED
  BY <1>1, <1>2, <1>3, IdleType, IdleGood, FlowStep
-----------------------------------------------------------------------------
(* The station goes on under the copies.                                   *)
StationGoesOn ==
  /\ now <= now'
  /\ \A t \in Times : t <= now => reading'[t] = reading[t]
  /\ ended # Never => ended' = ended /\ reading'[now'] = reading[now]
  /\ ended = Never => ended' \in {Never, now}

LEMMA StationRun ==
  ASSUME TypeOK, now' \in Times, StationGoesOn,
         NEW t \in Transaction, GoodRun(t, reading, now, ended)
  PROVE  GoodRun(t, reading', now', ended')
<1>1. /\ now \in Nat /\ now' \in Nat
      /\ t.run.last.ts \in Times /\ t.run.last.ts \in Nat
  <2>1. t.run \in Runtime
    BY TransactionFacts
  <2>2. t.run.last.ts \in Times
    BY <2>1, RuntimeFacts
  <2>3. QED
    BY <2>2, MeteringAssumption DEF Times, TypeOK
<1>2. t.run.last.v = reading'[t.run.last.ts] /\ t.run.last.ts <= now'
  BY <1>1 DEF GoodRun, StationGoesOn
<1>3. ended' # Never => t.run.last.ts <= ended'
  BY DEF GoodRun, StationGoesOn
<1>4. t.run.end => ended' # Never /\ t.run.last.v = reading'[now']
  BY DEF GoodRun, StationGoesOn
<1>5. QED
  BY <1>2, <1>3, <1>4 DEF GoodRun

LEMMA StationTx ==
  ASSUME TypeOK, now' \in Times, StationGoesOn,
         NEW t \in Transaction, GoodTx(t, reading, now, ended)
  PROVE  GoodTx(t, reading', now', ended')
<1>1. CASE ~t.stop.is
  BY <1>1, StationRun DEF GoodTx
<1>2. CASE t.stop.is
  BY <1>2 DEF GoodTx, GoodStop, StationGoesOn
<1>3. QED
  BY <1>1, <1>2

LEMMA StationStep ==
  ASSUME MeteringInv, TypeOK', StationInv', StationGoesOn, UNCHANGED <<tx, docs, flow>>
  PROVE  MeteringInv' /\ Copies
<1>1. /\ TypeOK /\ now' \in Times /\ now \in Nat /\ now' \in Nat
      /\ tx \in Transaction
  BY MeteringAssumption DEF MeteringInv, TypeOK, Times
<1>2. GoodTx(tx, reading, now, ended)'
  BY <1>1, StationTx DEF MeteringInv
<1>3. DocsInv'
  <2>1. ASSUME NEW t \in Times, docs[t].is
        PROVE  t <= now' /\ docs[t].total <= reading'[t] - MeterStart
    <3>1. t <= now /\ docs[t].total <= reading[t] - MeterStart
      BY <2>1 DEF MeteringInv, DocsInv
    <3>2. t \in Nat
      BY <1>1, Bounds
    <3>3. QED
      BY <1>1, <3>1, <3>2 DEF StationGoesOn
  <2>2. QED
    BY <2>1 DEF DocsInv
<1>4. FlowsInv'
  <2>1. ASSUME NEW f \in Flows PROVE GoodHandler(flow[f], reading', now', ended')
    <3> DEFINE h == flow[f]
    <3>1. h \in Flow /\ GoodHandler(h, reading, now, ended)
      BY FlowType
    <3>2. /\ h.tx \in Transaction /\ h.given \in Transaction
          /\ h.at \in Times /\ h.at \in Nat
      BY <1>1, <3>1, FlowFacts, Bounds
    <3> HIDE DEF h
    <3>3. GoodTx(h.tx, reading', now', ended') /\ GoodRun(h.given, reading', now', ended')
      BY <1>1, <3>1, <3>2, StationTx, StationRun DEF GoodHandler
    <3>4. h.at <= now => h.at <= now' /\ reading'[h.at] = reading[h.at]
      BY <1>1, <3>2 DEF StationGoesOn
    <3>5. GoodHandler(h, reading', now', ended')
      BY <3>1, <3>3, <3>4 DEF GoodHandler
    <3>6. QED
      BY <3>5 DEF h
  <2>2. QED
    BY <2>1 DEF FlowsInv
<1>5. QED
  BY <1>2, <1>3, <1>4 DEF MeteringInv, Copies

LEMMA TickGood == ASSUME MeteringInv, Tick PROVE MeteringInv' /\ Copies
<1>1. /\ TypeOK /\ StationInv /\ now' = now + 1 /\ now < MaxTime
      /\ UNCHANGED <<ended, stopped, tx, docs, ops, flow>>
  BY DEF MeteringInv, Tick
<1>2. PICK w \in IF ended = Never THEN 0..MaxPower ELSE {0} :
        reading' = [t \in Times |-> IF t > now THEN reading[now] + w ELSE reading[t]]
  BY DEF Tick
<1>3. /\ w \in Nat /\ (ended # Never => w = 0)
      /\ now \in Times /\ now \in Nat /\ now' \in Times /\ 0 \in Times /\ reading[now] \in Nat
      /\ \A t \in Times : t \in Nat /\ reading[t] \in Nat
  BY <1>1, <1>2, MeteringAssumption DEF TypeOK, Times
<1>4. \A t \in Times : reading'[t] = IF t > now THEN reading[now] + w ELSE reading[t]
  BY <1>2
<1>5. reading' \in [Times -> Nat]
  BY <1>2, <1>3
<1>6. TypeOK'
  BY <1>1, <1>3, <1>5 DEF TypeOK
<1>7. StationGoesOn
  <2>1. now <= now' /\ reading'[now'] = reading[now] + w
    BY <1>1, <1>3, <1>4
  <2>2. QED
    BY <1>1, <1>3, <1>4, <2>1 DEF StationGoesOn
<1>8. StationInv'
  <2>1. reading'[0] = MeterStart
    BY <1>1, <1>3, <1>4 DEF StationInv
  <2>2. ASSUME NEW s \in Times, NEW t \in Times, s <= t PROVE reading'[s] <= reading'[t]
    <3>1. s \in Nat /\ t \in Nat /\ reading[s] \in Nat /\ reading[t] \in Nat
      BY <1>3
    <3>2. reading[s] <= reading[t] /\ (s <= now => reading[s] <= reading[now])
      BY <1>1, <1>3, <2>2 DEF StationInv
    <3>3. reading'[s] = (IF s > now THEN reading[now] + w ELSE reading[s])
          /\ reading'[t] = IF t > now THEN reading[now] + w ELSE reading[t]
      BY <1>4
    <3>4. QED
      BY <1>3, <2>2, <3>1, <3>2, <3>3
  <2>3. ASSUME NEW t \in Times, now' <= t PROVE reading'[t] = reading'[now']
    BY <1>1, <1>3, <1>4, <2>3
  <2>4. ended' # Never => ended' <= now' /\ reading'[ended'] = reading'[now']
    <3>1. SUFFICES ASSUME ended # Never
                   PROVE  ended <= now' /\ reading'[ended] = reading'[now']
      BY <1>1
    <3>2. ended \in Times /\ ended \in Nat /\ ended <= now /\ reading[ended] = reading[now]
      BY <1>1, <3>1, Bounds DEF StationInv
    <3>3. reading'[ended] = reading[ended] /\ reading'[now'] = reading[now]
      BY <1>1, <1>3, <1>4, <3>1, <3>2
    <3>4. QED
      BY <1>1, <1>3, <3>2, <3>3
  <2>5. stopped' # Never => ended' # Never /\ ended' <= stopped' /\ stopped' <= now'
    BY <1>1, <1>3, Bounds DEF StationInv
  <2>6. QED
    BY <2>1, <2>2, <2>3, <2>4, <2>5 DEF StationInv
<1>9. QED
  BY <1>1, <1>6, <1>7, <1>8, StationStep

LEMMA EndChargingGood == ASSUME MeteringInv, EndCharging PROVE MeteringInv' /\ Copies
<1>1. /\ TypeOK /\ StationInv /\ ended = Never /\ ended' = now
      /\ UNCHANGED <<now, reading, stopped, tx, docs, ops, flow>>
  BY DEF MeteringInv, EndCharging
<1>2. now \in Times /\ now \in Nat
  BY <1>1, Bounds DEF TypeOK
<1>3. TypeOK'
  BY <1>1, <1>2 DEF TypeOK
<1>4. StationInv'
  BY <1>1, <1>2 DEF StationInv
<1>5. StationGoesOn
  BY <1>1, <1>2 DEF StationGoesOn
<1>6. QED
  BY <1>1, <1>3, <1>4, <1>5, StationStep

LEMMA SendStopGood == ASSUME MeteringInv, SendStop PROVE MeteringInv' /\ Copies
<1>1. /\ TypeOK /\ StationInv /\ ended # Never /\ stopped' = now
      /\ UNCHANGED <<now, reading, ended, tx, docs, ops, flow>>
  BY DEF MeteringInv, SendStop
<1>2. now \in Times /\ now \in Nat
  BY <1>1, Bounds DEF TypeOK
<1>3. TypeOK'
  BY <1>1, <1>2 DEF TypeOK
<1>4. StationInv'
  BY <1>1, <1>2 DEF StationInv
<1>5. StationGoesOn
  BY <1>1, <1>2 DEF StationGoesOn
<1>6. QED
  BY <1>1, <1>3, <1>4, <1>5, StationStep

-----------------------------------------------------------------------------
LEMMA InitMeteringInv == Init => MeteringInv
<1> SUFFICES ASSUME Init PROVE MeteringInv
  OBVIOUS
<1>1. /\ now = 0 /\ reading = [t \in Times |-> MeterStart] /\ ended = Never
      /\ stopped = Never /\ tx = Started /\ docs = [t \in Times |-> NoConsumption]
      /\ ops = 0 /\ flow = [f \in Flows |-> Idle]
  BY DEF Init
<1>2. 0 \in Times /\ 0 \in 0..MaxOps /\ MeterStart \in Nat /\ \A t \in Times : t \in Nat
  BY MeteringAssumption DEF Times
<1>3. Started \in Transaction /\ Idle \in Flow /\ NoConsumption \in Consumption
  BY IdleType, StartedType, NoConsumptionType
<1>4. TypeOK
  BY <1>1, <1>2, <1>3 DEF TypeOK
<1>5. StationInv
  BY <1>1, <1>2 DEF StationInv
<1>6. DocsInv
  BY <1>1 DEF DocsInv, NoConsumption
<1>7. GoodTx(tx, reading, now, ended)
  BY <1>1, <1>4, <1>5, StartedGood
<1>8. FlowsInv
  BY <1>1, <1>4, <1>5, IdleGood DEF FlowsInv
<1>9. QED
  BY <1>4, <1>5, <1>6, <1>7, <1>8 DEF MeteringInv

LEMMA NextMeteringInv ==
  ASSUME MeteringInv, [Next]_vars
  PROVE  MeteringInv' /\ Copies
<1>1. ASSUME Tick \/ EndCharging \/ SendStop PROVE MeteringInv' /\ Copies
  BY <1>1, TickGood, EndChargingGood, SendStopGood
<1>2. ASSUME NEW f \in Flows, NEW ts \in Times, NEW end \in BOOLEAN, MeterValues(f, ts, end)
      PROVE  MeteringInv' /\ Copies
  BY <1>2, MeterValuesGood
<1>3. ASSUME NEW f \in Flows, StationStop(f) \/ ReadToStop(f) \/ SoftStop(f) \/ Fallback(f)
      PROVE  MeteringInv' /\ Copies
  BY <1>3, StationStopGood, ReadToStopGood, SoftStopGood, FallbackGood
<1>4. ASSUME NEW f \in Flows, Available(f) \/ ExtraInactivity(f) PROVE MeteringInv' /\ Copies
  BY <1>4, AvailableGood, ExtraInactivityGood
<1>5. ASSUME NEW f \in Flows, SaveDoc(f) \/ SaveTx(f) \/ Crash(f) PROVE MeteringInv' /\ Copies
  BY <1>5, SaveDocGood, SaveTxGood, CrashGood
<1>6. CASE UNCHANGED vars
  <2>1. /\ now' = now /\ reading' = reading /\ ended' = ended /\ stopped' = stopped
        /\ tx' = tx /\ docs' = docs /\ ops' = ops /\ flow' = flow
    BY <1>6 DEF vars, stationVars
  <2>2. QED
    BY <2>1 DEF MeteringInv, TypeOK, StationInv, DocsInv, FlowsInv, Copies
<1>7. QED
  BY <1>1, <1>2, <1>3, <1>4, <1>5, <1>6 DEF Next

LEMMA AlwaysMeteringInv == Spec => []MeteringInv
BY InitMeteringInv, NextMeteringInv, PTL DEF Spec

-----------------------------------------------------------------------------
(* Every copy of the transaction and every consumption has its type: no    *)
(* amount of energy or time ever gets negative, whatever is late.          *)
THEOREM MeteringTypeCorrect == Spec => []TypeOK
<1>1. MeteringInv => TypeOK
  BY DEF MeteringInv
<1>2. QED
  BY <1>1, AlwaysMeteringInv, PTL

(* What createConsumptionFromMeterValue() and the stop add up is what the  *)
(* register counted, from whichever copy it was saved.                     *)
THEOREM TotalMatches == Spec => []TotalMatchesMeter
<1>1. MeteringInv => TotalMatchesMeter
  BY DEF MeteringInv, TotalMatchesMeter, GoodTx, GoodRun, GoodStop
<1>2. QED
  BY <1>1, AlwaysMeteringInv, PTL

LEMMA SavedOnce ==
  ASSUME MeteringInv
  PROVE  PricedOnce(tx.priced, Elapsed(tx), Delivered(tx)) /\ IdleTime(tx) <= Elapsed(tx)
<1>1. TypeOK /\ tx \in Transaction /\ GoodTx(tx, reading, now, ended)
  BY DEF MeteringInv, TypeOK
<1>2. tx.run \in Runtime /\ tx.priced \in Priced
  BY <1>1, TransactionFacts
<1>3. tx.run.last.ts \in Nat
  BY <1>1, <1>2, RuntimeFacts, Bounds
<1>4. CASE tx.stop.is
  BY <1>1, <1>4 DEF GoodTx, GoodStop, Elapsed, Delivered, IdleTime
<1>5. CASE ~tx.stop.is
  <2>1. /\ GoodPriced(tx.priced, tx.run.last.ts, tx.run.total)
        /\ tx.run.idle <= tx.run.last.ts
    BY <1>1, <1>5 DEF GoodTx, GoodRun
  <2>2. PricedOnce(tx.priced, tx.run.last.ts, tx.run.total)
    BY <1>2, <1>3, <2>1, GoodIsOnce
  <2>3. QED
    BY <1>5, <2>1, <2>2 DEF Elapsed, Delivered, IdleTime
<1>6. QED
  BY <1>4, <1>5

(* priceTimeDimension() charges no time twice, as charging or as parking,  *)
(* and the inactivity that is shown did go by.                             *)
THEOREM TimeOnlyOnce == Spec => []TimeCountedOnce
<1>1. MeteringInv => TimeCountedOnce
  BY SavedOnce DEF TimeCountedOnce, PricedOnce
<1>2. QED
  BY <1>1, AlwaysMeteringInv, PTL

(* The flat fee is priced once, although every chunk may ask for it.       *)
THEOREM OneFlatFee == Spec => []FlatFeeOnce
<1>1. ASSUME MeteringInv PROVE FlatFeeOnce
  <2>1. GoodFees(tx.priced, Delivered(tx))
    BY <1>1, SavedOnce DEF PricedOnce
  <2>2. CASE tx.priced.fees = {}
    BY <2>2, FS_EmptySet DEF FlatFeeOnce
  <2>3. CASE tx.priced.fees # {}
    <3>1. PICK k \in Tariffs : tx.priced.fees = {k}
      BY <2>1, <2>3 DEF GoodFees
    <3>2. Cardinality({k}) = 1
      BY FS_Singleton
    <3>3. QED
      BY <2>1, <2>3, <3>1, <3>2 DEF FlatFeeOnce, GoodFees
  <2>4. QED
    BY <2>2, <2>3
<1>2. QED
  BY <1>1, AlwaysMeteringInv, PTL

(* A document of the consumptions never shows more than the meter counted, *)
(* even when the session it belongs to was not saved.                      *)
THEOREM DocsBehindMeter == Spec => []DocsNotAhead
<1>1. MeteringInv => DocsNotAhead
  BY DEF MeteringInv, DocsInv, DocsNotAhead
<1>2. QED
  BY <1>1, AlwaysMeteringInv, PTL

-----------------------------------------------------------------------------
(* No energy is forgotten: every copy of the transaction accounts for what *)
(* it shows as delivered, so that it matters not which of them is saved.   *)
CopyAccounted(t) == ~Final(t) => Accounted(Delivered(t), t.priced.absorbed)
AccountedInv ==
  /\ MeteringInv /\ CopyAccounted(tx)
  /\ \A f \in Flows : CopyAccounted(flow[f].tx) /\ CopyAccounted(flow[f].given)

LEMMA EnergyAccounts ==
  ASSUME NEW p \in Priced, NEW k \in Tariffs, NEW c \in Consumption,
         c.wh <= c.total, Accounted(c.total - c.wh, p.absorbed),
         NEW r, r = PriceEnergy(p, k, c)
  PROVE  Accounted(c.total, r.absorbed)
<1>1. /\ p.absorbed \in Nat /\ p.energy \in Nat /\ c.total \in Nat /\ c.wh \in Nat
      /\ \A j \in Tariffs : j.energy \in Nat \union {Off}
  BY PricedFacts, ConsumptionFacts, TariffType
<1>2. CASE k.energy = Off \/ (k.energy = 0 /\ c.wh > 0)
  <2>1. r.absorbed = c.total
    BY <1>2 DEF PriceEnergy, Priced, Off
  <2> QED
    BY <1>1, <2>1 DEF Accounted
<1>3. CASE k.energy = 0 /\ ~(c.wh > 0)
  <2>1. r = p /\ c.total - c.wh = c.total
    BY <1>1, <1>3 DEF PriceEnergy, Off
  <2> QED
    BY <2>1
<1>4. CASE k.energy > 0 /\ c.total - p.absorbed >= k.energy
  <2>1. k.energy \in Nat \ {0}
    BY <1>1, <1>4 DEF Off
  <2>2. r.absorbed = Steps(c.total, k.energy)
    BY <1>4, <2>1 DEF PriceEnergy, Priced, Off
  <2>3. c.total % k.energy \in 0..(k.energy - 1)
    BY <1>1, <2>1, Division
  <2>4. Steps(c.total, k.energy) = c.total - (c.total % k.energy)
    BY <2>1 DEF Steps
  <2>5. c.total < r.absorbed + k.energy
    BY <1>1, <2>1, <2>2, <2>3, <2>4
  <2> QED
    BY <2>5 DEF Accounted
<1>5. CASE k.energy > 0 /\ ~(c.total - p.absorbed >= k.energy)
  <2>1. r = p
    BY <1>1, <1>5 DEF PriceEnergy, Off
  <2>2. k.energy \in Nat
    BY <1>1, <1>5 DEF Off
  <2>3. c.total < p.absorbed + k.energy
    BY <1>1, <1>5, <2>2
  <2> QED
    BY <2>1, <2>3 DEF Accounted
<1> QED
  BY <1>1, <1>2, <1>3, <1>4, <1>5 DEF Off

LEMMA DerivedAccounts ==
  ASSUME NEW t \in Transaction, NEW u, Derives(t, u) \/ Ends(t, u), CopyAccounted(t)
  PROVE  CopyAccounted(u)
<1>1. CASE Keeps(t, u)
  BY <1>1 DEF Keeps, SameEnergy, CopyAccounted
<1>2. CASE Adds(t, u)
  <2>1. PICK k \in Tariffs, c \in Consumption :
          /\ c.wh <= c.total /\ Delivered(t) = c.total - c.wh /\ Delivered(u) = c.total
          /\ SameEnergy(PriceEnergy(t.priced, k, c), u.priced)
    BY <1>2 DEF Adds
  <2>2. Accounted(c.total - c.wh, t.priced.absorbed) /\ t.priced \in Priced
    BY <1>2, <2>1, TransactionFacts DEF Adds, CopyAccounted
  <2>3. Accounted(c.total, PriceEnergy(t.priced, k, c).absorbed)
    BY <2>1, <2>2, EnergyAccounts
  <2>4. QED
    BY <2>1, <2>3 DEF SameEnergy, CopyAccounted
<1>3. CASE Ends(t, u)
  BY <1>3 DEF Ends, CopyAccounted
<1>4. QED
  BY <1>1, <1>2, <1>3 DEF Derives

LEMMA StartedAccounts == CopyAccounted(Started)
BY DEF CopyAccounted, Accounted, Delivered, Started, NoStop, NoRuntime, NotPriced

LEMMA InitAccountedInv == Init => AccountedInv
<1>1. Init => tx = Started /\ \A f \in Flows : flow[f].tx = Started /\ flow[f].given = Started
  BY IdleType DEF Init
<1>2. QED
  BY <1>1, StartedAccounts, InitMeteringInv DEF AccountedInv

LEMMA NextAccountedInv ==
  ASSUME AccountedInv, [Next]_vars
  PROVE  AccountedInv'
<1>1. MeteringInv' /\ Copies
  BY NextMeteringInv DEF AccountedInv
<1>2. flow \in [Flows -> Flow] /\ tx \in Transaction
  BY DEF AccountedInv, MeteringInv, TypeOK
<1>3. CASE UNCHANGED <<tx, flow>>
  BY <1>1, <1>3 DEF AccountedInv
<1>4. ASSUME NEW f \in Flows, NewCopies(f) PROVE AccountedInv'
  <2>1. PICK h \in Flow : Become(f, h) /\ Copied(f, h) /\ tx' = tx
    BY <1>4 DEF NewCopies
  <2>2. \A g \in Flows : flow'[g] = IF g = f THEN h ELSE flow[g]
    BY <1>2, <2>1 DEF Become
  <2>3. flow[f].tx \in Transaction
    BY <1>2, FlowFacts
  <2>4. CopyAccounted(h.tx) /\ CopyAccounted(h.given)
    BY <1>2, <2>1, <2>3, StartedAccounts, DerivedAccounts DEF Copied, AccountedInv
  <2>5. QED
    BY <1>1, <2>1, <2>2, <2>4 DEF AccountedInv
<1>5. ASSUME NEW f \in Flows, Saves(f) PROVE AccountedInv'
  <2>1. \A g \in Flows : flow'[g] = IF g = f THEN Idle ELSE flow[g]
    BY <1>2, <1>5 DEF Saves, Become
  <2>2. CopyAccounted(Idle.tx) /\ CopyAccounted(Idle.given)
    BY IdleType, StartedAccounts
  <2>3. flow[f].tx \in Transaction /\ flow[f].given \in Transaction
    BY <1>2, FlowFacts
  <2>4. CopyAccounted(tx')
    BY <1>5, <2>3, DerivedAccounts DEF Saves, Derives, AccountedInv
  <2>5. QED
    BY <1>1, <2>1, <2>2, <2>4 DEF AccountedInv
<1>6. QED
  BY <1>1, <1>3, <1>4, <1>5 DEF Copies

(* The pricing keeps up with the meter: but for less than a step, all the  *)
(* energy a session shows as delivered was given to its tariffs, for any   *)
(* tariffs in any order and any overlap and loss of the handlers.          *)
THEOREM EnergyAccounted == Spec => []NoEnergyForgotten
<1>1. AccountedInv => NoEnergyForgotten
  BY DEF AccountedInv, CopyAccounted, NoEnergyForgotten
<1>2. QED
  BY <1>1, InitAccountedInv, NextAccountedInv, PTL DEF Spec

-----------------------------------------------------------------------------
(* Energy is priced twice by rounding only.                                *)
LEMMA WholeSteps ==
  ASSUME NEW a \in Nat, NEW size \in Nat \ {0}
  PROVE  /\ a % size = 0 <=> Steps(a, size) = a
         /\ Steps(a, size) % size = 0
<1>1. ASSUME NEW b \in Nat PROVE b % size = 0 <=> Steps(b, size) = b
  <2>1. b % size \in 0..(size - 1)
    BY Division
  <2>2. QED
    BY <2>1 DEF Steps
<1>2. Steps(a, size) \in Nat /\ Steps(Steps(a, size), size) = Steps(a, size)
  BY StepsBound, StepsTwice
<1>3. QED
  BY <1>1, <1>2

\* The mark is moved to a whole number of steps from the middle of one.
RoundedBy(p, k, r) == k.energy > 0 /\ p.absorbed % k.energy # 0 /\ r.absorbed % k.energy = 0

LEMMA EnergyMark ==
  ASSUME NEW p \in Priced, NEW e, NEW a, NEW r, r = WithEnergy(p, e, a)
  PROVE  r.energy = e /\ r.absorbed = a
BY DEF Priced, WithEnergy

\* What is priced is absorbed, and what is absorbed was delivered.
Below(p, total) == p.energy <= p.absorbed /\ p.absorbed <= total

LEMMA EnergyOnce ==
  ASSUME NEW p \in Priced, NEW k \in Tariffs, NEW c \in Consumption,
         c.wh <= c.total, Below(p, c.total - c.wh),
         NEW r, r = PriceEnergy(p, k, c), ~RoundedBy(p, k, r)
  PROVE  Below(r, c.total)
<1>1. /\ p.absorbed \in Nat /\ p.energy \in Nat /\ c.total \in Nat /\ c.wh \in Nat
      /\ p.absorbed <= c.total - c.wh /\ p.absorbed <= c.total /\ p.energy <= p.absorbed
      /\ p.energy <= c.total /\ p.energy + c.wh \in Nat /\ p.energy + c.wh <= c.total
  <2>1. /\ p.absorbed \in Nat /\ p.energy \in Nat /\ c.total \in Nat /\ c.wh \in Nat
    BY PricedFacts, ConsumptionFacts
  <2>2. QED
    BY <2>1 DEF Below
<1>2. CASE r = p
  BY <1>1, <1>2 DEF Below
<1>3. CASE r = WithEnergy(p, p.energy, c.total)
  <2>1. r.energy = p.energy /\ r.absorbed = c.total
    BY <1>3, EnergyMark
  <2>2. QED
    BY <1>1, <2>1 DEF Below
<1>4. CASE r = WithEnergy(p, p.energy + c.wh, c.total)
  <2> DEFINE e == p.energy + c.wh
  <2>1. e \in Nat /\ e <= c.total
    BY <1>1
  <2>2. r = WithEnergy(p, e, c.total)
    BY <1>4
  <2> HIDE DEF e
  <2>3. r.energy = e /\ r.absorbed = c.total
    BY <2>2, EnergyMark
  <2>4. QED
    BY <1>1, <2>1, <2>3 DEF Below
<1>5. CASE /\ k.energy > 0 /\ c.total - p.absorbed >= k.energy
           /\ r = WithEnergy(p, p.energy + Steps(c.total - p.absorbed, k.energy),
                              Steps(c.total, k.energy))
  <2> DEFINE e == p.energy + Steps(c.total - p.absorbed, k.energy)
             a == Steps(c.total, k.energy)
  <2>1. /\ e \in Nat /\ a \in 0..c.total
        /\ p.energy <= Steps(p.absorbed, k.energy) => e <= a
    BY <1>5, EnergyLaw
  <2>2. k.energy \in Nat \ {0}
    BY <1>5, TariffType DEF Off
  <2>3. a % k.energy = 0
    BY <1>1, <2>2, WholeSteps
  <2>4. r = WithEnergy(p, e, a)
    BY <1>5
  <2> HIDE DEF e, a
  <2>5. a \in Nat /\ a <= c.total
    BY <1>1, <2>1
  <2>6. r.energy = e /\ r.absorbed = a
    BY <2>4, EnergyMark
  <2>7. p.absorbed % k.energy = 0
    BY <1>5, <2>3, <2>6 DEF RoundedBy
  <2>8. Steps(p.absorbed, k.energy) = p.absorbed
    BY <1>1, <2>2, <2>7, WholeSteps
  <2>9. QED
    BY <1>1, <2>1, <2>5, <2>6, <2>8 DEF Below
<1>6. QED
  BY <1>2, <1>3, <1>4, <1>5, EnergyCases

\* The last chunk prices no more than was left.
LEMMA EnergyOnceLast ==
  ASSUME NEW p \in Priced, NEW k \in Tariffs, NEW c \in Consumption, NEW total \in Nat,
         c.wh = 0, c.total <= total, Below(p, total),
         NEW r, r = PriceEnergy(p, k, c)
  PROVE  r.energy <= total
<1>1. p.absorbed \in Nat /\ p.energy \in Nat /\ c.total \in Nat /\ p.energy <= total
      /\ p.energy <= p.absorbed
  <2>1. p.absorbed \in Nat /\ p.energy \in Nat /\ c.total \in Nat
    BY PricedFacts, ConsumptionFacts
  <2>2. QED
    BY <2>1 DEF Below
<1>2. CASE r = p
  BY <1>1, <1>2
<1>3. CASE r = WithEnergy(p, p.energy, c.total)
  <2>1. r.energy = p.energy
    BY <1>3, EnergyMark
  <2>2. QED
    BY <1>1, <2>1
<1>4. CASE /\ k.energy > 0 /\ c.total - p.absorbed >= k.energy
           /\ r = WithEnergy(p, p.energy + Steps(c.total - p.absorbed, k.energy),
                              Steps(c.total, k.energy))
  <2> DEFINE v == c.total - p.absorbed
             e == p.energy + Steps(v, k.energy)
             a == Steps(c.total, k.energy)
  <2>1. e \in Nat /\ a \in 0..c.total
    BY <1>4, EnergyLaw
  <2>2. v \in Nat /\ k.energy \in Nat /\ p.absorbed + v = c.total
    BY <1>1, <1>4, TariffType DEF Off
  <2>3. r = WithEnergy(p, e, a)
    BY <1>4
  <2>4. Steps(v, k.energy) \in 0..v
    BY <2>2, StepsBound
  <2> HIDE DEF v, a
  <2>5. e <= total
    BY <1>1, <2>2, <2>4
  <2> HIDE DEF e
  <2>6. a \in Nat
    BY <1>1, <2>1
  <2>7. r.energy = e
    BY <2>3, EnergyMark
  <2>8. QED
    BY <2>5, <2>7
<1>5. QED
  BY <1>1, <1>2, <1>3, <1>4, EnergyCases

\* A new copy prices nothing twice, or rounds.
LEMMA AddedOnce ==
  ASSUME NEW t \in Transaction, NEW u, Adds(t, u), Once(t, TRUE)
  PROVE  Once(u, TRUE) \/ \E k \in Tariffs : RoundedBy(t.priced, k, u.priced)
<1>1. PICK k \in Tariffs, c \in Consumption :
        /\ c.wh <= c.total /\ Delivered(t) = c.total - c.wh /\ Delivered(u) = c.total
        /\ SameEnergy(PriceEnergy(t.priced, k, c), u.priced)
  BY DEF Adds
<1> DEFINE r == PriceEnergy(t.priced, k, c)
<1>2. u.priced.energy = r.energy /\ u.priced.absorbed = r.absorbed
  BY <1>1 DEF SameEnergy
<1>3. CASE RoundedBy(t.priced, k, r)
  BY <1>2, <1>3 DEF RoundedBy
<1>4. CASE ~RoundedBy(t.priced, k, r)
  <2>1. t.priced \in Priced /\ Below(t.priced, c.total - c.wh)
    BY <1>1, TransactionFacts DEF Adds, Once, Below
  <2>2. Below(r, c.total)
    BY <1>1, <1>4, <2>1, EnergyOnce
  <2>3. r \in Priced /\ c.total \in Nat
    BY <2>1, EnergyPart, ConsumptionFacts
  <2>4. r.energy <= c.total
    BY <2>2, <2>3, PricedFacts DEF Below
  <2>5. QED
    BY <1>1, <1>2, <2>2, <2>4 DEF Once, Below
<1>5. QED
  BY <1>3, <1>4

LEMMA EndedOnce ==
  ASSUME NEW t \in Transaction, NEW u, Ends(t, u), Once(t, TRUE)
  PROVE  Once(u, FALSE)
<1>1. PICK k \in Tariffs, c \in Consumption :
        /\ c.wh = 0 /\ c.total <= Delivered(t)
        /\ SameEnergy(PriceEnergy(t.priced, k, c), u.priced)
  BY DEF Ends
<1>2. t.priced \in Priced /\ Delivered(t) \in Nat
  <2>1. t.run \in Runtime /\ t.priced \in Priced /\ t.stop.total \in Nat
    BY TransactionFacts
  <2>2. t.run.total \in Nat
    BY <2>1, RuntimeFacts
  <2>3. QED
    BY <2>1, <2>2 DEF Delivered
<1>3. Below(t.priced, Delivered(t))
  BY DEF Ends, Once, Below
<1>4. PriceEnergy(t.priced, k, c).energy <= Delivered(t)
  BY <1>1, <1>2, <1>3, EnergyOnceLast
<1>5. QED
  BY <1>1, <1>4 DEF SameEnergy, Once, Ends

LEMMA StartedOnce == Once(Started, TRUE)
BY DEF Once, Delivered, Started, NoStop, NoRuntime, NotPriced

LEMMA NewCopiesOnce ==
  ASSUME MeteringInv, NothingTwice, NEW f \in Flows, NewCopies(f)
  PROVE  NothingTwice' \/ Rounds(f)
<1>1. flow \in [Flows -> Flow] /\ flow[f].tx \in Transaction /\ tx \in Transaction
  BY FlowFacts DEF MeteringInv, TypeOK
<1>2. PICK h \in Flow : Become(f, h) /\ Copied(f, h) /\ tx' = tx
  BY DEF NewCopies
<1>3. \A g \in Flows : flow'[g] = IF g = f THEN h ELSE flow[g]
  BY <1>1, <1>2 DEF Become
<1>4. /\ Once(tx, ~Final(tx)) /\ Once(flow[f].given, TRUE)
      /\ Once(flow[f].tx, flow[f].pc = "extra" \/ ~Final(flow[f].tx))
  BY DEF NothingTwice
<1>5. Once(h.given, TRUE)
  BY <1>2, <1>4, StartedOnce DEF Copied, Once, Final
<1> DEFINE open == h.pc = "extra" \/ ~Final(h.tx)
<1>6. CASE h.pc # "extra" /\ h.tx \in {Started, flow[f].tx}
  <2>1. Once(h.tx, open)
    BY <1>4, <1>6, StartedOnce DEF Once
  <2>2. QED
    BY <1>2, <1>3, <1>5, <2>1 DEF NothingTwice
<1>7. CASE /\ flow[f].pc # "extra" /\ Derives(tx, h.tx)
           /\ h.pc = "extra" => ~Final(tx)
  <2>1. CASE Keeps(tx, h.tx)
    <3>1. Once(h.tx, open)
      BY <1>4, <1>7, <2>1 DEF Once, Keeps, SameEnergy
    <3>2. QED
      BY <1>2, <1>3, <1>5, <3>1 DEF NothingTwice
  <2>2. CASE Adds(tx, h.tx)
    <3>1. Once(tx, TRUE)
      BY <1>4, <2>2 DEF Adds, Once
    <3>2. Once(h.tx, TRUE) \/ \E k \in Tariffs : RoundedBy(tx.priced, k, h.tx.priced)
      BY <1>1, <2>2, <3>1, AddedOnce
    <3>3. CASE Once(h.tx, TRUE)
      <4>1. Once(h.tx, open)
        BY <3>3 DEF Once
      <4>2. QED
        BY <1>2, <1>3, <1>5, <4>1 DEF NothingTwice
    <3>4. CASE \E k \in Tariffs : RoundedBy(tx.priced, k, h.tx.priced)
      BY <1>3, <1>7, <3>4 DEF RoundedBy, Rounds, PricedFrom
    <3>5. QED
      BY <3>2, <3>3, <3>4
  <2>3. QED
    BY <1>7, <2>1, <2>2 DEF Derives
<1>8. CASE flow[f].pc = "extra" /\ h.pc # "extra" /\ Ends(flow[f].tx, h.tx)
  <2>1. Once(flow[f].tx, TRUE)
    BY <1>4, <1>8 DEF Once
  <2>2. Once(h.tx, FALSE)
    BY <1>1, <1>8, <2>1, EndedOnce
  <2>3. Once(h.tx, open)
    BY <1>8, <2>2 DEF Once, Ends
  <2>4. QED
    BY <1>2, <1>3, <1>5, <2>3 DEF NothingTwice
<1>9. QED
  BY <1>2, <1>6, <1>7, <1>8 DEF Copied

LEMMA SavesOnce ==
  ASSUME MeteringInv, NothingTwice, NEW f \in Flows, Saves(f)
  PROVE  NothingTwice'
<1>1. flow \in [Flows -> Flow]
  BY DEF MeteringInv, TypeOK
<1>2. \A g \in Flows : flow'[g] = IF g = f THEN Idle ELSE flow[g]
  BY <1>1 DEF Saves, Become
<1>3. /\ Once(flow[f].given, TRUE)
      /\ Once(flow[f].tx, flow[f].pc = "extra" \/ ~Final(flow[f].tx))
  BY DEF NothingTwice
<1>4. Once(tx', ~Final(tx'))
  BY <1>3 DEF Saves, Keeps, SameEnergy, Once
<1>5. Once(Idle.given, TRUE) /\ Once(Idle.tx, Idle.pc = "extra" \/ ~Final(Idle.tx))
  BY IdleType, StartedOnce DEF Once
<1>6. QED
  BY <1>2, <1>4, <1>5 DEF NothingTwice

(* ConsumptionChunkPricer comes to price energy twice in one way only: a   *)
(* tariff with steps rounds a mark that lies within one of its steps.  No  *)
(* lost, repeated or late value and no overlap of handlers does it, for    *)
(* any tariffs in any order.                                               *)
THEOREM OnlyRounding == Spec => OnlyRoundingReprices
<1>1. ASSUME MeteringInv, [Next]_vars, NothingTwice
      PROVE  NothingTwice' \/ \E f \in Flows : Rounds(f)
  <2>1. Copies
    BY <1>1, NextMeteringInv
  <2>2. CASE UNCHANGED <<tx, flow>>
    BY <1>1, <2>2 DEF NothingTwice
  <2>3. ASSUME NEW f \in Flows, NewCopies(f) \/ Saves(f)
        PROVE  NothingTwice' \/ Rounds(f)
    BY <1>1, <2>3, NewCopiesOnce, SavesOnce
  <2>4. QED
    BY <2>1, <2>2, <2>3 DEF Copies
<1>2. MeteringInv /\ [Next]_vars =>
        [NothingTwice => NothingTwice' \/ \E f \in Flows : Rounds(f)]_vars
  BY <1>1
<1>3. QED
  BY <1>2, AlwaysMeteringInv, PTL DEF Spec, OnlyRoundingReprices
=============================================================================
