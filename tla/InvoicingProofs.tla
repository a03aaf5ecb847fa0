---------------------------- MODULE InvoicingProofs ----------------------------
(***************************************************************************)
(* The safety of Invoicing for any number of flows, sessions, lines and    *)
(* operations, and the refinement of InvoiceLedger.                        *)
(***************************************************************************)
EXTENDS Invoicing, TLAPS

Keys == [Tx -> [1..Lines -> Invoices \union {NoTx}]]

(* All lines of session t are on invoice n.                                *)
On(k, t, n) == n \in Invoices /\ \A l \in 1..Lines : k[t][l] = n

(* Billing data that name an invoice name one that holds the lines, that   *)
(* the database knows, and that has come at least as far.                  *)
GoodBill(b, t, k, s, d) ==
  /\ b.status = "BILLED" => b.n # NoTx
  /\ b.n # NoTx => /\ On(k, t, b.n)
                   /\ d[b.n].status # "none"
                   /\ Rank(b.paid) <= Rank(s[b.n])

(* The steps that work for a session, those before an invoice is chosen,   *)
(* those with an invoice, and those after its lines were written.          *)
ForSession == {"billRead", "list", "create", "line", "saveBill", "updateSave",
               "pendingRead", "pendingQueue", "pendingSave", "unpaidRead",
               "unpaidFetch", "unpaidSync", "unpaidSave"}
NoInvoice == {"idle", "billRead", "list", "create", "pendingRead",
              "pendingQueue", "pendingSave", "unpaidRead"}
WithInvoice == {"line", "finalize", "pay", "fetch", "convert", "saveInvoice",
                "update", "updateSave", "unpaidFetch", "unpaidSync"}
Lined == {"finalize", "pay", "fetch", "convert", "saveInvoice", "unpaidFetch",
          "unpaidSync"}

(* What a flow may rely on, whatever the other flows do meanwhile.         *)
GoodFlow(r, k, s, d) ==
  /\ r.pc \in ForSession => r.t \in Tx
  /\ r.pc \in NoInvoice => r.n = NoTx /\ r.line = 1 /\ r.status = "none"
  /\ r.pc \in {"billRead", "list", "create"} => r.copy.n = NoTx
  /\ r.pc \in WithInvoice => r.n \in Invoices /\ s[r.n] # "none"
  /\ r.pc = "line" => \A l \in 1..(r.line - 1) : k[r.t][l] = r.n
  /\ r.pc \in Lined /\ r.t # NoTx => On(k, r.t, r.n)
  /\ r.pc \in {"unpaidFetch", "unpaidSync"} => d[r.n].status # "none"
  /\ r.pc \in {"convert", "saveInvoice", "unpaidSync"} => r.status # "none"
  /\ r.n # NoTx => Rank(r.status) <= Rank(s[r.n])
  /\ \A t \in r.doc.sessions \union r.todo : On(k, t, r.n)
  /\ r.t # NoTx => GoodBill(r.copy, r.t, k, s, d)

(* The lines in Stripe are those the keys stand for; they were written in  *)
(* order, on one invoice.                                                  *)
ItemsAreKeyed ==
  \A n \in Invoices, t \in Tx, l \in 1..Lines :
    items[n][t][l] = IF keyed[t][l] = n THEN 1 ELSE 0
LinesInOrder ==
  \A t \in Tx, l \in 1..Lines : keyed[t][l] # NoTx =>
    \A k \in 1..l : keyed[t][k] = keyed[t][l]

(* The documents of the database.                                          *)
GoodBills == \A t \in Tx : GoodBill(bill[t], t, keyed, stripe, local)
GoodLocals ==
  \A n \in Invoices :
    /\ local[n].status = "none" => local[n] = NoLocal
    /\ Rank(local[n].status) <= Rank(stripe[n])
    /\ \A t \in local[n].sessions : On(keyed, t, n)

GoodFlows == \A f \in Flows : GoodFlow(flow[f], keyed, stripe, local)

InvoicingInv ==
  /\ TypeOK
  /\ ItemsAreKeyed /\ LinesInOrder
  /\ GoodBills /\ GoodLocals
  /\ GoodFlows

-----------------------------------------------------------------------------
LEMMA RankType ==
  ASSUME NEW s \in Status
  PROVE  Rank(s) \in 0..3 /\ (Rank(s) = 0 <=> s = "none")
  BY DEF Status, Rank

LEMMA RankOrder ==
  /\ Rank("none") = 0 /\ Rank("draft") = 1 /\ Rank("open") = 2 /\ Rank("paid") = 3
  BY DEF Rank

(* What other flows change grows: a key once used stays with its invoice,  *)
(* an invoice of Stripe only advances, a document of an invoice stays.     *)
Grows(k, s, d, k2, s2, d2) ==
  /\ \A t \in Tx, l \in 1..Lines : k[t][l] # NoTx => k2[t][l] = k[t][l]
  /\ \A n \in Invoices : Rank(s[n]) <= Rank(s2[n])
  /\ \A n \in Invoices : d[n].status # "none" => d2[n].status # "none"

LEMMA OnGrows ==
  ASSUME NEW k, NEW s, NEW d, NEW k2, NEW s2, NEW d2, Grows(k, s, d, k2, s2, d2),
         NEW t \in Tx, NEW n, On(k, t, n)
  PROVE  On(k2, t, n)
  BY InvoicingAssumption DEF Grows, On, Invoices

LEMMA GoodBillGrows ==
  ASSUME NEW k, NEW s \in [Invoices -> Status], NEW d,
         NEW k2, NEW s2 \in [Invoices -> Status], NEW d2,
         Grows(k, s, d, k2, s2, d2),
         NEW t \in Tx, NEW b \in Bill, GoodBill(b, t, k, s, d)
  PROVE  GoodBill(b, t, k2, s2, d2)
<1> SUFFICES ASSUME b.n # NoTx
             PROVE  /\ On(k2, t, b.n)
                    /\ d2[b.n].status # "none"
                    /\ Rank(b.paid) <= Rank(s2[b.n])
  BY DEF GoodBill
<1>1. On(k, t, b.n) /\ d[b.n].status # "none" /\ Rank(b.paid) <= Rank(s[b.n])
  BY DEF GoodBill
<1>2. b.n \in Invoices /\ b.paid \in Status
  BY DEF Bill
<1>3. Rank(s[b.n]) <= Rank(s2[b.n]) /\ d2[b.n].status # "none"
  BY <1>1, <1>2 DEF Grows
<1>4. Rank(b.paid) \in Int /\ Rank(s[b.n]) \in Int /\ Rank(s2[b.n]) \in Int
  BY <1>2, RankType
<1>5. Rank(b.paid) <= Rank(s2[b.n])
  BY <1>1, <1>3, <1>4
<1>6. QED
  BY <1>1, <1>3, <1>5, OnGrows

LEMMA GoodFlowGrows ==
  ASSUME NEW k \in Keys, NEW s \in [Invoices -> Status], NEW d,
         NEW k2 \in Keys, NEW s2 \in [Invoices -> Status], NEW d2,
         Grows(k, s, d, k2, s2, d2),
         NEW r \in Flow, GoodFlow(r, k, s, d)
  PROVE  GoodFlow(r, k2, s2, d2)
<1>1. /\ r.t \in Tx \union {NoTx} /\ r.n \in Invoices \union {NoTx} /\ r.line \in 1..Lines
      /\ r.status \in Status /\ r.copy \in Bill /\ r.doc \in Local /\ r.todo \subseteq Tx
  BY DEF Flow
<1>2. r.pc \in WithInvoice => r.n \in Invoices /\ s2[r.n] # "none"
  <2>1. ASSUME NEW n \in Invoices, s[n] # "none" PROVE s2[n] # "none"
    <3>1. Rank(s[n]) \in 0..3 /\ Rank(s[n]) # 0 /\ Rank(s2[n]) \in 0..3
          /\ (Rank(s2[n]) = 0 <=> s2[n] = "none")
      BY <2>1, RankType
    <3>2. Rank(s[n]) <= Rank(s2[n])
      BY DEF Grows
    <3>3. QED
      BY <3>1, <3>2
  <2>2. QED
    BY <2>1 DEF GoodFlow
<1>3. r.pc = "line" => \A l \in 1..(r.line - 1) : k2[r.t][l] = r.n
  <2>1. SUFFICES ASSUME r.pc = "line", NEW l \in 1..(r.line - 1)
                 PROVE  k2[r.t][l] = r.n
    OBVIOUS
  <2>2. r.t \in Tx /\ r.n # NoTx /\ k[r.t][l] = r.n
    BY <2>1, InvoicingAssumption DEF GoodFlow, ForSession, WithInvoice, Invoices
  <2>3. l \in 1..Lines
    BY <1>1, InvoicingAssumption
  <2>4. QED
    BY <2>2, <2>3 DEF Grows
<1>4. r.pc \in Lined /\ r.t # NoTx => On(k2, r.t, r.n)
  BY <1>1, OnGrows DEF GoodFlow
<1>5. r.pc \in {"unpaidFetch", "unpaidSync"} => d2[r.n].status # "none"
  BY DEF GoodFlow, Grows, WithInvoice
<1>6. r.n # NoTx => Rank(r.status) <= Rank(s2[r.n])
  <2>1. SUFFICES ASSUME r.n # NoTx PROVE Rank(r.status) <= Rank(s2[r.n])
    OBVIOUS
  <2>2. r.n \in Invoices
    BY <1>1, <2>1
  <2>3. Rank(r.status) \in Int /\ Rank(s[r.n]) \in Int /\ Rank(s2[r.n]) \in Int
    BY <1>1, <2>2, RankType
  <2>4. Rank(r.status) <= Rank(s[r.n]) /\ Rank(s[r.n]) <= Rank(s2[r.n])
    BY <2>1, <2>2 DEF GoodFlow, Grows
  <2>5. QED
    BY <2>3, <2>4
<1>7. \A t \in r.doc.sessions \union r.todo : On(k2, t, r.n)
  <2>1. r.doc.sessions \subseteq Tx
    BY <1>1 DEF Local
  <2>2. QED
    BY <1>1, <2>1, OnGrows DEF GoodFlow
<1>8. r.t # NoTx => GoodBill(r.copy, r.t, k2, s2, d2)
  BY <1>1, GoodBillGrows DEF GoodFlow
<1>9. QED
  BY <1>2, <1>3, <1>4, <1>5, <1>6, <1>7, <1>8 DEF GoodFlow

-----------------------------------------------------------------------------
(* What a step does to the record of its flow leaves the others alone.     *)
LEMMA Moved ==
  ASSUME flow \in [Flows -> Flow], NEW f \in Flows, NEW r, Become(f, r)
  PROVE  flow'[f] = r /\ \A g \in Flows \ {f} : flow'[g] = flow[g]
  BY DEF Become

LEMMA BecomeType ==
  ASSUME flow \in [Flows -> Flow], NEW f \in Flows, NEW r \in Flow, Become(f, r)
  PROVE  flow' \in [Flows -> Flow]
  BY DEF Become

LEMMA IdleGood ==
  /\ Idle \in Flow
  /\ \A k, s, d : GoodFlow(Idle, k, s, d)
<1>1. Idle \in Flow
  BY InvoicingAssumption DEF Idle, Flow, Steps, Status, Bill, Pending, Local, NoLocal
<1>2. ASSUME NEW k, NEW s, NEW d PROVE GoodFlow(Idle, k, s, d)
  <2>1. /\ Idle.pc = "idle" /\ Idle.t = NoTx /\ Idle.n = NoTx /\ Idle.line = 1
        /\ Idle.status = "none"
        /\ Idle.doc.sessions = {} /\ Idle.todo = {}
    BY DEF Idle, NoLocal
  <2>2. QED
    BY <2>1 DEF GoodFlow, ForSession, WithInvoice, Lined
<1>3. QED
  BY <1>1, <1>2

(* The flows after a step of one of them that lets the rest grow.          *)
LEMMA FlowsStep ==
  ASSUME TypeOK, GoodFlows, NEW f \in Flows, NEW r \in Flow, Become(f, r),
         keyed' \in Keys, stripe' \in [Invoices -> Status],
         Grows(keyed, stripe, local, keyed', stripe', local'),
         GoodFlow(r, keyed', stripe', local')
  PROVE  GoodFlows' /\ flow' \in [Flows -> Flow]
<1>1. flow \in [Flows -> Flow] /\ keyed \in Keys /\ stripe \in [Invoices -> Status]
  BY DEF TypeOK, Keys
<1>2. flow'[f] = r /\ \A g \in Flows \ {f} : flow'[g] = flow[g]
  BY <1>1, Moved
<1>3. ASSUME NEW g \in Flows PROVE GoodFlow(flow'[g], keyed', stripe', local')
  <2>1. CASE g = f
    BY <1>2, <2>1
  <2>2. CASE g # f
    <3>1. flow'[g] = flow[g] /\ flow[g] \in Flow
      BY <1>1, <1>2, <2>2
    <3>2. GoodFlow(flow[g], keyed, stripe, local)
      BY DEF GoodFlows
    <3>3. GoodFlow(flow[g], keyed', stripe', local')
      BY <1>1, <3>1, <3>2, GoodFlowGrows
    <3>4. QED
      BY <3>1, <3>3
  <2>3. QED
    BY <2>1, <2>2
<1>4. QED
  BY <1>1, <1>3, BecomeType DEF GoodFlows

LEMMA StripeRank ==
  ASSUME TypeOK, NEW n \in Invoices
  PROVE  Rank(stripe[n]) \in Int
<1>1. stripe[n] \in Status
  BY DEF TypeOK
<1>2. QED
  BY <1>1, RankType

LEMMA NothingGrows ==
  ASSUME TypeOK, UNCHANGED <<keyed, stripe, local>>
  PROVE  Grows(keyed, stripe, local, keyed', stripe', local')
<1>1. ASSUME NEW n \in Invoices PROVE Rank(stripe[n]) <= Rank(stripe'[n])
  BY StripeRank
<1>2. QED
  BY <1>1 DEF Grows

(* A step that changes nothing but the record of the flow, or the          *)
(* collections outside of the invariant.                                   *)
LEMMA FlowStep ==
  ASSUME InvoicingInv, NEW f \in Flows, NEW r \in Flow, Become(f, r),
         UNCHANGED <<bill, local, stripeVars>>,
         extra' \in [Tx -> BOOLEAN], queued' \subseteq Tx, ops' \in 0..MaxOps,
         GoodFlow(r, keyed, stripe, local)
  PROVE  InvoicingInv'
<1>1. TypeOK /\ GoodFlows /\ keyed \in Keys
  BY DEF InvoicingInv, TypeOK, Keys
<1>2. GoodFlows' /\ flow' \in [Flows -> Flow]
  BY <1>1, FlowsStep, NothingGrows DEF stripeVars, TypeOK
<1>3. TypeOK'
  BY <1>1, <1>2 DEF TypeOK, stripeVars
<1>4. (ItemsAreKeyed /\ LinesInOrder /\ GoodBills /\ GoodLocals)'
  BY DEF InvoicingInv, ItemsAreKeyed, LinesInOrder, GoodBills, GoodLocals, stripeVars
<1>5. QED
  BY <1>2, <1>3, <1>4 DEF InvoicingInv

(* A step that saves the billing data of a session.                        *)
LEMMA BillStep ==
  ASSUME InvoicingInv, NEW f \in Flows, NEW r \in Flow, Become(f, r),
         NEW t \in Tx, NEW b \in Bill, bill' = [bill EXCEPT ![t] = b],
         UNCHANGED <<local, queued, stripeVars>>,
         extra' \in [Tx -> BOOLEAN], ops' \in 0..MaxOps,
         GoodBill(b, t, keyed, stripe, local),
         GoodFlow(r, keyed, stripe, local)
  PROVE  InvoicingInv'
<1>1. TypeOK /\ GoodFlows /\ keyed \in Keys
  BY DEF InvoicingInv, TypeOK, Keys
<1>2. GoodFlows' /\ flow' \in [Flows -> Flow]
  BY <1>1, FlowsStep, NothingGrows DEF stripeVars, TypeOK
<1>3. TypeOK'
  BY <1>1, <1>2 DEF TypeOK, stripeVars
<1>4. GoodBills'
  BY <1>1 DEF InvoicingInv, GoodBills, stripeVars, TypeOK
<1>5. (ItemsAreKeyed /\ LinesInOrder /\ GoodLocals)'
  BY DEF InvoicingInv, ItemsAreKeyed, LinesInOrder, GoodLocals, stripeVars
<1>6. QED
  BY <1>2, <1>3, <1>4, <1>5 DEF InvoicingInv

(* The rest of the invariant is kept by what grows.                        *)
LEMMA GoodBillsGrow ==
  ASSUME TypeOK, GoodBills, UNCHANGED bill,
         stripe' \in [Invoices -> Status],
         Grows(keyed, stripe, local, keyed', stripe', local')
  PROVE  GoodBills'
<1>1. ASSUME NEW t \in Tx PROVE GoodBill(bill'[t], t, keyed', stripe', local')
  <2>1. bill'[t] = bill[t] /\ bill[t] \in Bill /\ stripe \in [Invoices -> Status]
    BY DEF TypeOK
  <2>2. GoodBill(bill[t], t, keyed, stripe, local)
    BY DEF GoodBills
  <2>3. QED
    BY <2>1, <2>2, GoodBillGrows
<1>2. QED
  BY <1>1 DEF GoodBills

(* A step that writes the document of an invoice.                          *)
LEMMA ReplicaStep ==
  ASSUME InvoicingInv, NEW f \in Flows, NEW r \in Flow, Become(f, r),
         NEW n \in Invoices, NEW e \in Local, local' = [local EXCEPT ![n] = e],
         e.status # "none", Rank(e.status) <= Rank(stripe[n]),
         \A t \in e.sessions : On(keyed, t, n),
         UNCHANGED <<bill, extra, queued, stripeVars, ops>>,
         GoodFlow(r, keyed, stripe, local')
  PROVE  InvoicingInv'
<1>1. TypeOK /\ GoodFlows /\ GoodBills /\ keyed \in Keys
  BY DEF InvoicingInv, TypeOK, Keys
<1>2. Grows(keyed, stripe, local, keyed', stripe', local')
  <2>1. ASSUME NEW m \in Invoices, local[m].status # "none"
        PROVE  local'[m].status # "none"
    BY <1>1, <2>1 DEF TypeOK
  <2>2. ASSUME NEW m \in Invoices PROVE Rank(stripe[m]) <= Rank(stripe'[m])
    <3>1. Rank(stripe[m]) \in Int /\ stripe'[m] = stripe[m]
      BY <1>1, StripeRank DEF stripeVars
    <3>2. QED
      BY <3>1
  <2>3. QED
    BY <2>1, <2>2 DEF Grows, stripeVars
<1>3. GoodFlows' /\ flow' \in [Flows -> Flow]
  BY <1>1, <1>2, FlowsStep DEF stripeVars, TypeOK
<1>4. TypeOK'
  BY <1>1, <1>3 DEF TypeOK, stripeVars
<1>5. GoodBills'
  BY <1>1, <1>2, GoodBillsGrow DEF stripeVars, TypeOK
<1>6. GoodLocals'
  BY <1>1 DEF InvoicingInv, GoodLocals, TypeOK, stripeVars
<1>7. (ItemsAreKeyed /\ LinesInOrder)'
  BY DEF InvoicingInv, ItemsAreKeyed, LinesInOrder, stripeVars
<1>8. QED
  BY <1>3, <1>4, <1>5, <1>6, <1>7 DEF InvoicingInv

(* A step that advances an invoice in Stripe, or creates it.               *)
LEMMA StripeStep ==
  ASSUME InvoicingInv, NEW f \in Flows, NEW r \in Flow, Become(f, r),
         NEW n \in Invoices, NEW x \in Status, stripe' = [stripe EXCEPT ![n] = x],
         Rank(stripe[n]) <= Rank(x), created' \in Seq(Invoices),
         UNCHANGED <<dbVars, items, keyed, ops>>,
         GoodFlow(r, keyed, stripe', local)
  PROVE  InvoicingInv'
<1>1. TypeOK /\ GoodFlows /\ GoodBills /\ keyed \in Keys
  BY DEF InvoicingInv, TypeOK, Keys
<1>2. stripe' \in [Invoices -> Status]
  BY <1>1 DEF TypeOK
<1>3. \A m \in Invoices : Rank(stripe[m]) <= Rank(stripe'[m])
  <2>1. ASSUME NEW m \in Invoices PROVE Rank(stripe[m]) <= Rank(stripe'[m])
    <3>1. CASE m = n
      <4>1. stripe'[m] = x /\ stripe[m] = stripe[n]
        BY <3>1, <1>1 DEF TypeOK
      <4>2. QED
        BY <4>1
    <3>2. CASE m # n
      <4>1. Rank(stripe[m]) \in Int /\ stripe'[m] = stripe[m]
        BY <1>1, <3>2, StripeRank DEF TypeOK
      <4>2. QED
        BY <4>1
    <3>3. QED
      BY <3>1, <3>2
  <2>2. QED
    BY <2>1
<1>4. Grows(keyed, stripe, local, keyed', stripe', local')
  BY <1>3 DEF Grows, dbVars
<1>5. GoodFlows' /\ flow' \in [Flows -> Flow]
  BY <1>1, <1>2, <1>4, FlowsStep DEF dbVars
<1>6. TypeOK'
  BY <1>1, <1>2, <1>5 DEF TypeOK, dbVars
<1>7. GoodBills'
  BY <1>1, <1>2, <1>4, GoodBillsGrow DEF dbVars
<1>8. GoodLocals'
  <2>1. ASSUME NEW m \in Invoices PROVE Rank(local[m].status) <= Rank(stripe'[m])
    <3>1. local[m].status \in Status /\ stripe[m] \in Status /\ stripe'[m] \in Status
      BY <1>1, <1>2 DEF TypeOK, Local
    <3>2. Rank(local[m].status) \in Int /\ Rank(stripe[m]) \in Int /\ Rank(stripe'[m]) \in Int
      BY <3>1, RankType
    <3>3. Rank(local[m].status) <= Rank(stripe[m])
      BY DEF InvoicingInv, GoodLocals
    <3>4. QED
      BY <1>3, <3>2, <3>3
  <2>2. QED
    BY <2>1 DEF InvoicingInv, GoodLocals, dbVars
<1>9. (ItemsAreKeyed /\ LinesInOrder)'
  BY DEF InvoicingInv, ItemsAreKeyed, LinesInOrder
<1>10. QED
  BY <1>5, <1>6, <1>7, <1>8, <1>9 DEF InvoicingInv

-----------------------------------------------------------------------------
LEMMA FlowFacts ==
  ASSUME InvoicingInv, NEW f \in Flows
  PROVE  /\ flow[f] \in Flow
         /\ flow[f].t \in Tx \union {NoTx} /\ flow[f].n \in Invoices \union {NoTx}
         /\ flow[f].line \in 1..Lines /\ flow[f].now \in BOOLEAN
         /\ flow[f].status \in Status /\ flow[f].copy \in Bill /\ flow[f].doc \in Local
         /\ flow[f].doc.sessions \subseteq Tx /\ flow[f].todo \subseteq Tx
         /\ GoodFlow(flow[f], keyed, stripe, local)
<1>1. flow[f] \in Flow
  BY DEF InvoicingInv, TypeOK
<1>2. flow[f].doc \in Local
  BY <1>1 DEF Flow
<1>3. GoodFlow(flow[f], keyed, stripe, local)
  BY DEF InvoicingInv, GoodFlows
<1>4. QED
  BY <1>1, <1>2, <1>3 DEF Flow, Local

LEMMA Collections ==
  ASSUME InvoicingInv
  PROVE  /\ extra \in [Tx -> BOOLEAN] /\ queued \subseteq Tx /\ ops \in 0..MaxOps
         /\ \A t \in Tx : bill[t] \in Bill /\ GoodBill(bill[t], t, keyed, stripe, local)
         /\ \A n \in Invoices : stripe[n] \in Status /\ local[n] \in Local
  BY DEF InvoicingInv, TypeOK, GoodBills

(* Billing data that name no invoice.                                      *)
LEMMA NoBill ==
  /\ Pending \in Bill /\ Failed \in Bill
  /\ \A t, k, s, d : GoodBill(Pending, t, k, s, d) /\ GoodBill(Failed, t, k, s, d)
<1>1. Pending \in Bill /\ Failed \in Bill
  BY DEF Pending, Failed, Bill, Status
<1>2. /\ Pending.n = NoTx /\ Pending.status = "PENDING"
      /\ Failed.n = NoTx /\ Failed.status = "FAILED"
  BY DEF Pending, Failed
<1>3. QED
  BY <1>1, <1>2 DEF GoodBill

(* The record of a flow that begins an operation for a session.            *)
LEMMA BeginsGood ==
  ASSUME InvoicingInv, NEW f \in Flows, NEW t \in Tx,
         NEW step \in {"billRead", "pendingRead", "unpaidRead"},
         Begin(f, step, t, NoTx), UNCHANGED <<dbVars, stripeVars>>
  PROVE  InvoicingInv'
<1> DEFINE r == [Idle EXCEPT !.pc = step, !.t = t, !.n = NoTx]
<1>1. r \in Flow
  BY IdleGood DEF Flow, Steps
<1>2. /\ r.pc = step /\ r.t = t /\ r.n = NoTx /\ r.line = 1 /\ r.copy = Pending
      /\ r.status = "none" /\ r.doc.sessions = {} /\ r.todo = {} /\ Pending.n = NoTx
  BY DEF Idle, NoLocal, Pending
<1>3. Become(f, r) /\ ops' \in 0..MaxOps
  BY Collections, InvoicingAssumption DEF Begin
<1> HIDE DEF r
<1>4. GoodFlow(r, keyed, stripe, local)
  BY <1>2, NoBill DEF GoodFlow, ForSession, NoInvoice, WithInvoice, Lined
<1>5. QED
  BY <1>1, <1>3, <1>4, Collections, FlowStep DEF dbVars

LEMMA ChargeStartGood ==
  ASSUME InvoicingInv, NEW f \in Flows, NEW n \in Invoices, ChargeStart(f, n)
  PROVE  InvoicingInv'
<1> DEFINE r == [Idle EXCEPT !.pc = "finalize", !.t = NoTx, !.n = n]
<1>1. r \in Flow
  BY IdleGood DEF Flow, Steps
<1>2. /\ r.pc = "finalize" /\ r.t = NoTx /\ r.n = n /\ r.status = "none"
      /\ r.doc.sessions = {} /\ r.todo = {}
  BY DEF Idle, NoLocal
<1>3. Become(f, r) /\ ops' \in 0..MaxOps
  BY Collections, InvoicingAssumption DEF ChargeStart, Begin
<1> HIDE DEF r
<1>4. stripe[n] # "none" /\ Rank("none") <= Rank(stripe[n])
  <2>1. Rank(local[n].status) \in {1, 2} /\ Rank(local[n].status) <= Rank(stripe[n])
    BY RankOrder DEF ChargeStart, InvoicingInv, GoodLocals
  <2>2. Rank(stripe[n]) \in 0..3
    BY Collections, RankType
  <2>3. QED
    BY <2>1, <2>2, RankOrder
<1>5. GoodFlow(r, keyed, stripe, local)
  BY <1>2, <1>4 DEF GoodFlow, ForSession, NoInvoice, WithInvoice, Lined
<1>6. QED
  BY <1>1, <1>3, <1>5, Collections, FlowStep DEF ChargeStart, dbVars

(* A flow that ends, or dies.                                              *)
LEMMA EndGood ==
  ASSUME InvoicingInv, NEW f \in Flows, End(f), UNCHANGED <<dbVars, stripeVars, ops>>
  PROVE  InvoicingInv'
  BY IdleGood, Collections, FlowStep DEF End, dbVars

(* A flow that will save FAILED.                                           *)
LEMMA FailRecord ==
  ASSUME NEW t \in Tx
  PROVE  /\ [Idle EXCEPT !.pc = "saveBill", !.t = t, !.copy = Failed] \in Flow
         /\ \A k, s, d :
              GoodFlow([Idle EXCEPT !.pc = "saveBill", !.t = t, !.copy = Failed], k, s, d)
<1> DEFINE r == [Idle EXCEPT !.pc = "saveBill", !.t = t, !.copy = Failed]
<1>1. r \in Flow
  BY IdleGood, NoBill DEF Flow, Steps
<1>2. /\ r.pc = "saveBill" /\ r.t = t /\ r.n = NoTx /\ r.copy = Failed
      /\ r.doc.sessions = {} /\ r.todo = {}
  BY DEF Idle, NoLocal
<1> HIDE DEF r
<1>3. \A k, s, d : GoodFlow(r, k, s, d)
  BY <1>2, NoBill DEF GoodFlow, ForSession, NoInvoice, WithInvoice, Lined
<1>4. QED
  BY <1>1, <1>3 DEF r

LEMMA FailGood ==
  ASSUME InvoicingInv, NEW f \in Flows, flow[f].t \in Tx, Fail(f),
         UNCHANGED <<dbVars, stripeVars, ops>>
  PROVE  InvoicingInv'
  BY FailRecord, Collections, FlowStep DEF Fail, dbVars

-----------------------------------------------------------------------------
(* BillTransactionAsyncTask.                                               *)

LEMMA BillReadGood ==
  ASSUME InvoicingInv, NEW f \in Flows, BillRead(f), UNCHANGED ops
  PROVE  InvoicingInv'
<1>1. CASE End(f)
  BY <1>1, EndGood DEF BillRead
<1>2. ASSUME NEW now \in BOOLEAN,
             Become(f, [flow[f] EXCEPT !.now = now,
                                       !.pc = IF now THEN "create" ELSE "list"])
      PROVE  InvoicingInv'
  <2> DEFINE r == [flow[f] EXCEPT !.now = now, !.pc = IF now THEN "create" ELSE "list"]
  <2>1. r \in Flow
    BY FlowFacts DEF Flow, Steps
  <2>2. /\ r.pc \in {"create", "list"} /\ r.t = flow[f].t /\ r.n = flow[f].n
        /\ r.line = flow[f].line /\ r.copy = flow[f].copy
        /\ r.status = flow[f].status
        /\ r.doc.sessions = flow[f].doc.sessions /\ r.todo = flow[f].todo
    BY FlowFacts DEF Flow
  <2>3. Become(f, r)
    BY <1>2
  <2> HIDE DEF r
  <2>4. GoodFlow(r, keyed, stripe, local)
    BY <2>2, FlowFacts
    DEF BillRead, At, GoodFlow, ForSession, NoInvoice, WithInvoice, Lined
  <2>5. QED
    BY <2>1, <2>3, <2>4, Collections, FlowStep DEF BillRead, dbVars
<1>3. QED
  BY <1>1, <1>2 DEF BillRead

LEMMA BillFailsGood ==
  ASSUME InvoicingInv, NEW f \in Flows, BillFails(f), UNCHANGED ops
  PROVE  InvoicingInv'
  BY FlowFacts, FailGood DEF BillFails

(* From the choice of the invoice to its lines.                            *)
LEMMA LineRecord ==
  ASSUME InvoicingInv, NEW f \in Flows, flow[f].pc \in {"list", "create"},
         NEW n \in Invoices, NEW s \in [Invoices -> Status], s[n] # "none"
  PROVE  /\ [flow[f] EXCEPT !.pc = "line", !.n = n] \in Flow
         /\ GoodFlow([flow[f] EXCEPT !.pc = "line", !.n = n], keyed, s, local)
<1> DEFINE r == [flow[f] EXCEPT !.pc = "line", !.n = n]
<1>1. r \in Flow
  BY FlowFacts DEF Flow, Steps
<1>2. /\ r.pc = "line" /\ r.t = flow[f].t /\ r.n = n
      /\ r.line = flow[f].line /\ r.copy = flow[f].copy /\ r.status = flow[f].status
      /\ r.doc.sessions = flow[f].doc.sessions /\ r.todo = flow[f].todo
  BY FlowFacts DEF Flow
<1> HIDE DEF r
<1>3. /\ flow[f].line = 1 /\ flow[f].n = NoTx /\ flow[f].status = "none"
      /\ flow[f].t \in Tx /\ flow[f].copy.n = NoTx
  BY FlowFacts DEF GoodFlow, NoInvoice, ForSession
<1>4. r.doc.sessions = {} /\ r.todo = {}
  BY <1>2, <1>3, FlowFacts, InvoicingAssumption DEF GoodFlow, On, Invoices
<1>5. Rank("none") <= Rank(s[n])
  BY RankType, RankOrder
<1>6. GoodBill(r.copy, r.t, keyed, s, local)
  BY <1>2, <1>3, FlowFacts, InvoicingAssumption DEF GoodFlow, GoodBill
<1>7. GoodFlow(r, keyed, s, local)
  BY <1>2, <1>3, <1>4, <1>5, <1>6
  DEF GoodFlow, ForSession, NoInvoice, WithInvoice, Lined
<1>8. QED
  BY <1>1, <1>7 DEF r

LEMMA ListDraftsGood ==
  ASSUME InvoicingInv, NEW f \in Flows, ListDrafts(f), UNCHANGED ops
  PROVE  InvoicingInv'
<1>1. flow[f].pc = "list" /\ UNCHANGED <<dbVars, stripeVars>>
  BY DEF ListDrafts, At
<1>2. CASE GoTo(f, "create")
  <2> DEFINE r == [flow[f] EXCEPT !.pc = "create"]
  <2>1. r \in Flow
    BY FlowFacts DEF Flow, Steps
  <2>2. /\ r.pc = "create" /\ r.t = flow[f].t /\ r.n = flow[f].n
        /\ r.line = flow[f].line /\ r.copy = flow[f].copy /\ r.status = flow[f].status
        /\ r.doc.sessions = flow[f].doc.sessions /\ r.todo = flow[f].todo
    BY FlowFacts DEF Flow
  <2>3. Become(f, r)
    BY <1>2 DEF GoTo, Become
  <2> HIDE DEF r
  <2>4. GoodFlow(r, keyed, stripe, local)
    BY <1>1, <2>2, FlowFacts DEF GoodFlow, ForSession, NoInvoice, WithInvoice, Lined
  <2>5. QED
    BY <1>1, <2>1, <2>3, <2>4, Collections, FlowStep DEF dbVars
<1>3. ASSUME NEW n \in LatestDraft, Become(f, [flow[f] EXCEPT !.pc = "line", !.n = n])
      PROVE  InvoicingInv'
  <2>1. n \in Invoices /\ stripe[n] # "none" /\ stripe \in [Invoices -> Status]
    BY DEF LatestDraft, Drafts, InvoicingInv, TypeOK
  <2>2. QED
    BY <1>1, <1>3, <2>1, LineRecord, Collections, FlowStep DEF dbVars
<1>4. QED
  BY <1>2, <1>3 DEF ListDrafts

LEMMA CreateInvoiceGood ==
  ASSUME InvoicingInv, NEW f \in Flows, CreateInvoice(f), UNCHANGED ops
  PROVE  InvoicingInv'
<1> DEFINE n == flow[f].t
<1>1. flow[f].pc = "create" /\ n \in Invoices /\ UNCHANGED <<dbVars, items, keyed>>
  BY FlowFacts DEF CreateInvoice, At, GoodFlow, ForSession, Invoices
<1>2. stripe \in [Invoices -> Status] /\ created \in Seq(Invoices)
  BY DEF InvoicingInv, TypeOK
<1>3. CASE stripe[n] = "none"
  <2>1. stripe' = [stripe EXCEPT ![n] = "draft"] /\ created' = Append(created, n)
    BY <1>3 DEF CreateInvoice
  <2>2. stripe' \in [Invoices -> Status] /\ stripe'[n] # "none" /\ "draft" \in Status
    BY <1>1, <1>2, <2>1 DEF Status
  <2>3. created' \in Seq(Invoices)
    BY <1>1, <1>2, <2>1
  <2>4. Rank(stripe[n]) <= Rank("draft")
    BY <1>3, RankOrder
  <2>5. PICK r \in Flow : Become(f, r) /\ GoodFlow(r, keyed, stripe', local)
    BY <1>1, <2>2, LineRecord, FailRecord DEF CreateInvoice, Fail, Invoices
  <2>6. QED
    BY <1>1, <2>1, <2>2, <2>3, <2>4, <2>5, StripeStep
<1>4. CASE stripe[n] # "none"
  <2>1. UNCHANGED <<dbVars, stripeVars>>
    BY <1>1, <1>4 DEF CreateInvoice, stripeVars
  <2>2. CASE Fail(f)
    BY <1>1, <2>1, <2>2, FailGood DEF Invoices
  <2>3. CASE Become(f, [flow[f] EXCEPT !.pc = "line", !.n = n])
    BY <1>1, <1>2, <1>4, <2>1, <2>3, LineRecord, Collections, FlowStep DEF dbVars
  <2>4. QED
    BY <2>2, <2>3 DEF CreateInvoice
<1>5. QED
  BY <1>3, <1>4

-----------------------------------------------------------------------------
(* The lines.                                                              *)

(* The record after a line, when the keys of its session are those of its  *)
(* invoice up to that line.                                                *)
LEMMA NextLineRecord ==
  ASSUME InvoicingInv, NEW f \in Flows, flow[f].pc = "line", NextLine(f),
         NEW k \in Keys, Grows(keyed, stripe, local, k, stripe, local),
         \A l \in 1..flow[f].line : k[flow[f].t][l] = flow[f].n
  PROVE  \E r \in Flow : Become(f, r) /\ GoodFlow(r, k, stripe, local)
<1>1. GoodFlow(flow[f], k, stripe, local)
  <2>1. keyed \in Keys /\ stripe \in [Invoices -> Status]
    BY DEF InvoicingInv, TypeOK, Keys
  <2>2. QED
    BY <2>1, FlowFacts, GoodFlowGrows
<1>2. /\ flow[f].t \in Tx /\ flow[f].n \in Invoices /\ stripe[flow[f].n] # "none"
      /\ Rank(flow[f].status) <= Rank(stripe[flow[f].n])
  BY FlowFacts, InvoicingAssumption DEF GoodFlow, ForSession, WithInvoice, Invoices
<1>3. CASE flow[f].line < Lines
  <2> DEFINE r == [flow[f] EXCEPT !.line = @ + 1]
  <2>1. flow[f].line + 1 \in 1..Lines /\ (flow[f].line + 1) - 1 = flow[f].line
    BY <1>3, FlowFacts, InvoicingAssumption
  <2>2. r \in Flow
    BY <2>1, FlowFacts DEF Flow
  <2>3. /\ r.pc = "line" /\ r.t = flow[f].t /\ r.n = flow[f].n
        /\ r.line = flow[f].line + 1 /\ r.copy = flow[f].copy /\ r.status = flow[f].status
        /\ r.doc.sessions = flow[f].doc.sessions /\ r.todo = flow[f].todo
    BY FlowFacts DEF Flow
  <2>4. Become(f, r)
    BY <1>3 DEF NextLine
  <2> HIDE DEF r
  <2>5. GoodFlow(r, k, stripe, local)
    BY <1>1, <1>2, <2>1, <2>3
    DEF GoodFlow, ForSession, NoInvoice, WithInvoice, Lined
  <2>6. QED
    BY <2>2, <2>4, <2>5
<1>4. CASE ~(flow[f].line < Lines)
  <2> DEFINE r == [flow[f] EXCEPT !.pc = IF flow[f].now THEN "finalize" ELSE "fetch",
                                  !.line = 1, !.now = FALSE]
  <2>1. 1 \in 1..Lines /\ flow[f].line = Lines
    BY <1>4, FlowFacts, InvoicingAssumption
  <2>2. r \in Flow
    <3>1. ASSUME NEW step \in Steps, NEW l \in 1..Lines
          PROVE  [flow[f] EXCEPT !.pc = step, !.line = l, !.now = FALSE] \in Flow
      BY FlowFacts DEF Flow
    <3>2. (IF flow[f].now THEN "finalize" ELSE "fetch") \in Steps
      BY DEF Steps
    <3>3. QED
      BY <2>1, <3>1, <3>2
  <2>3. /\ r.pc \in {"finalize", "fetch"} /\ r.t = flow[f].t /\ r.n = flow[f].n
        /\ r.copy = flow[f].copy /\ r.status = flow[f].status
        /\ r.doc.sessions = flow[f].doc.sessions /\ r.todo = flow[f].todo
    BY FlowFacts DEF Flow
  <2>4. Become(f, r)
    BY <1>4 DEF NextLine
  <2> HIDE DEF r
  <2>5. On(k, r.t, r.n)
    BY <1>2, <2>1, <2>3 DEF On
  <2>6. GoodFlow(r, k, stripe, local)
    BY <1>1, <1>2, <2>3, <2>5
    DEF GoodFlow, ForSession, NoInvoice, WithInvoice, Lined
  <2>7. QED
    BY <2>2, <2>4, <2>6
<1>5. QED
  BY <1>3, <1>4

(* One more of one line.                                                   *)
LEMMA CountOne ==
  ASSUME NEW row \in [1..Lines -> Nat], NEW l \in 1..Lines
  PROVE  /\ [row EXCEPT ![l] = @ + 1] \in [1..Lines -> Nat]
         /\ \A k \in 1..Lines :
              [row EXCEPT ![l] = @ + 1][k] = IF k = l THEN row[l] + 1 ELSE row[k]
<1>1. row[l] + 1 \in Nat
  OBVIOUS
<1>2. ASSUME NEW x \in Nat
      PROVE  /\ [row EXCEPT ![l] = x] \in [1..Lines -> Nat]
             /\ \A k \in 1..Lines : [row EXCEPT ![l] = x][k] = IF k = l THEN x ELSE row[k]
  OBVIOUS
<1>3. QED
  BY <1>1, <1>2

LEMMA CreateLineGood ==
  ASSUME InvoicingInv, NEW f \in Flows, CreateLine(f), UNCHANGED ops
  PROVE  InvoicingInv'
<1> DEFINE t == flow[f].t  n == flow[f].n  l == flow[f].line
<1>1. flow[f].pc = "line" /\ UNCHANGED <<dbVars, stripe, created>>
      /\ (NextLine(f) \/ Fail(f))
  BY DEF CreateLine, At
<1>2. t \in Tx /\ n \in Invoices /\ l \in 1..Lines /\ n # NoTx
      /\ \A k \in 1..(l - 1) : keyed[t][k] = n
  BY <1>1, FlowFacts, InvoicingAssumption
  DEF GoodFlow, ForSession, WithInvoice, Invoices
<1>3. TypeOK /\ keyed \in Keys /\ GoodFlows /\ GoodBills
  BY DEF InvoicingInv, TypeOK, Keys
<1>4. CASE keyed[t][l] = NoTx
  <2>1. /\ stripe[n] = "draft"
        /\ items' = [items EXCEPT ![n][t][l] = @ + 1]
        /\ keyed' = [keyed EXCEPT ![t][l] = n]
    BY <1>4 DEF CreateLine
  <2>2. keyed' \in Keys
    BY <1>2, <1>3, <2>1 DEF Keys
  <2>3. \A u \in Tx, k \in 1..Lines :
          keyed'[u][k] = IF u = t /\ k = l THEN n ELSE keyed[u][k]
    BY <1>2, <1>3, <2>1 DEF Keys
  <2> DEFINE row == [items[n][t] EXCEPT ![l] = @ + 1]
  <2>4. /\ row \in [1..Lines -> Nat]
        /\ \A k \in 1..Lines : row[k] = IF k = l THEN items[n][t][l] + 1 ELSE items[n][t][k]
    <3>1. items[n] \in [Tx -> [1..Lines -> Nat]]
      BY <1>2, <1>3 DEF TypeOK
    <3>2. items[n][t] \in [1..Lines -> Nat]
      BY <1>2, <3>1
    <3>3. QED
      BY <1>2, <3>2, CountOne
  <2>5. /\ items' \in [Invoices -> [Tx -> [1..Lines -> Nat]]]
        /\ \A m \in Invoices, u \in Tx, k \in 1..Lines :
             items'[m][u][k] = IF m = n /\ u = t /\ k = l THEN items[n][t][l] + 1
                                                          ELSE items[m][u][k]
    <3>1. items' = [items EXCEPT ![n] = [items[n] EXCEPT ![t] = row]]
      BY <2>1
    <3> HIDE DEF row
    <3>2. items \in [Invoices -> [Tx -> [1..Lines -> Nat]]]
      BY <1>3 DEF TypeOK
    <3>3. [items[n] EXCEPT ![t] = row] \in [Tx -> [1..Lines -> Nat]]
      BY <1>2, <2>4, <3>2
    <3>4. items' \in [Invoices -> [Tx -> [1..Lines -> Nat]]]
      BY <3>1, <3>2, <3>3
    <3>5. ASSUME NEW m \in Invoices, NEW u \in Tx
          PROVE  items'[m][u] = IF m = n /\ u = t THEN row ELSE items[m][u]
      BY <1>2, <3>1, <3>2
    <3>6. QED
      BY <2>4, <3>4, <3>5
  <2>6. Grows(keyed, stripe, local, keyed', stripe, local)
    <3>1. \A m \in Invoices : Rank(stripe[m]) <= Rank(stripe[m])
      BY <1>3, StripeRank
    <3>2. QED
      BY <1>4, <2>3, <3>1 DEF Grows
  <2>7. \A k \in 1..l : keyed'[t][k] = n
    <3>1. ASSUME NEW k \in 1..l PROVE keyed'[t][k] = n
      <4>1. k \in 1..Lines /\ (k = l \/ k \in 1..(l - 1))
        BY <1>2, InvoicingAssumption
      <4>2. QED
        BY <1>2, <2>3, <4>1
    <3>2. QED
      BY <3>1
  <2>8. PICK r \in Flow : Become(f, r) /\ GoodFlow(r, keyed', stripe, local)
    <3>1. CASE NextLine(f)
      BY <1>1, <2>2, <2>6, <2>7, <3>1, NextLineRecord
    <3>2. CASE Fail(f)
      BY <1>2, <3>2, FailRecord DEF Fail
    <3>3. QED
      BY <1>1, <3>1, <3>2
  <2>9. UNCHANGED <<stripe, local>>
    BY <1>1 DEF dbVars
  <2>10. GoodFlows' /\ flow' \in [Flows -> Flow]
    BY <1>3, <2>2, <2>6, <2>8, <2>9, FlowsStep DEF TypeOK
  <2>11. TypeOK'
    BY <1>1, <1>3, <2>2, <2>5, <2>10 DEF TypeOK, Keys, dbVars
  <2>12. GoodBills'
    BY <1>1, <1>3, <2>6, <2>9, GoodBillsGrow DEF dbVars, TypeOK
  <2>13. GoodLocals'
    <3>1. ASSUME NEW m \in Invoices, NEW u \in local[m].sessions PROVE On(keyed', u, m)
      <4>1. local[m] \in Local
        BY <1>3 DEF TypeOK
      <4>2. u \in Tx /\ On(keyed, u, m)
        BY <4>1 DEF InvoicingInv, GoodLocals, Local
      <4>3. QED
        BY <2>6, <4>2, OnGrows
    <3>2. QED
      BY <2>9, <3>1 DEF InvoicingInv, GoodLocals
  <2>14. ItemsAreKeyed'
    <3>1. items[n][t][l] = 0
      BY <1>2, <1>4 DEF InvoicingInv, ItemsAreKeyed
    <3>2. ASSUME NEW m \in Invoices, NEW u \in Tx, NEW k \in 1..Lines
          PROVE  items'[m][u][k] = IF keyed'[u][k] = m THEN 1 ELSE 0
      <4>1. items[m][u][k] = IF keyed[u][k] = m THEN 1 ELSE 0
        BY DEF InvoicingInv, ItemsAreKeyed
      <4>2. keyed[t][l] # m
        BY <1>4, InvoicingAssumption DEF Invoices
      <4>3. QED
        BY <2>3, <2>5, <3>1, <4>1, <4>2
    <3>3. QED
      BY <3>2 DEF ItemsAreKeyed
  <2>15. LinesInOrder'
    <3>1. ASSUME NEW u \in Tx, NEW k \in 1..Lines, keyed'[u][k] # NoTx, NEW j \in 1..k
          PROVE  keyed'[u][j] = keyed'[u][k]
      <4>1. j \in 1..Lines
        BY InvoicingAssumption
      <4>2. CASE u # t
        BY <2>3, <3>1, <4>1, <4>2 DEF InvoicingInv, LinesInOrder
      <4>3. CASE u = t /\ k = l
        BY <2>7, <4>3
      <4>4. CASE u = t /\ k # l
        <5>1. keyed'[u][k] = keyed[u][k] /\ keyed[t][k] # NoTx
          BY <2>3, <3>1, <4>4
        <5>2. \A i \in 1..k : keyed[t][i] = keyed[t][k]
          BY <1>2, <5>1 DEF InvoicingInv, LinesInOrder
        <5>3. j # l
          BY <1>4, <5>1, <5>2, <4>4
        <5>4. QED
          BY <2>3, <4>1, <4>4, <5>1, <5>2, <5>3
      <4>5. QED
        BY <4>2, <4>3, <4>4
    <3>2. QED
      BY <3>1 DEF LinesInOrder
  <2>16. QED
    BY <2>10, <2>11, <2>12, <2>13, <2>14, <2>15 DEF InvoicingInv
<1>5. CASE keyed[t][l] # NoTx
  <2>1. keyed[t][l] = n /\ UNCHANGED <<dbVars, stripeVars>>
    BY <1>1, <1>5 DEF CreateLine, stripeVars
  <2>2. \A k \in 1..l : keyed[t][k] = n
    BY <1>2, <1>5, <2>1 DEF InvoicingInv, LinesInOrder
  <2>3. Grows(keyed, stripe, local, keyed, stripe, local)
    BY <1>3, StripeRank DEF Grows
  <2>4. PICK r \in Flow : Become(f, r) /\ GoodFlow(r, keyed, stripe, local)
    <3>1. CASE NextLine(f)
      BY <1>1, <1>3, <2>2, <2>3, <3>1, NextLineRecord
    <3>2. CASE Fail(f)
      BY <1>2, <3>2, FailRecord DEF Fail
    <3>3. QED
      BY <1>1, <3>1, <3>2
  <2>5. QED
    BY <2>1, <2>4, Collections, FlowStep DEF dbVars
<1>6. QED
  BY <1>4, <1>5

-----------------------------------------------------------------------------
(* The charging of an invoice.                                             *)

(* A flow with an invoice goes on with it.                                 *)
LEMMA WithInvoiceRecord ==
  ASSUME InvoicingInv, NEW f \in Flows,
         flow[f].pc \in {"finalize", "pay"}, NEW step \in {"pay", "fetch"},
         NEW s \in [Invoices -> Status], Grows(keyed, stripe, local, keyed, s, local)
  PROVE  /\ [flow[f] EXCEPT !.pc = step] \in Flow
         /\ GoodFlow([flow[f] EXCEPT !.pc = step], keyed, s, local)
<1> DEFINE r == [flow[f] EXCEPT !.pc = step]
<1>1. r \in Flow
  BY FlowFacts DEF Flow, Steps
<1>2. /\ r.pc = step /\ r.t = flow[f].t /\ r.n = flow[f].n
      /\ r.line = flow[f].line /\ r.copy = flow[f].copy /\ r.status = flow[f].status
      /\ r.doc.sessions = flow[f].doc.sessions /\ r.todo = flow[f].todo
  BY FlowFacts DEF Flow
<1> HIDE DEF r
<1>3. GoodFlow(flow[f], keyed, s, local)
  <2>1. keyed \in Keys /\ stripe \in [Invoices -> Status]
    BY DEF InvoicingInv, TypeOK, Keys
  <2>2. QED
    BY <2>1, FlowFacts, GoodFlowGrows
<1>4. GoodFlow(r, keyed, s, local)
  BY <1>2, <1>3 DEF GoodFlow, ForSession, NoInvoice, WithInvoice, Lined
<1>5. QED
  BY <1>1, <1>4 DEF r

LEMMA FinalizeOrPayGood ==
  ASSUME InvoicingInv, NEW f \in Flows, Finalize(f) \/ Pay(f), UNCHANGED ops
  PROVE  InvoicingInv'
<1> DEFINE n == flow[f].n
<1>1. flow[f].pc \in {"finalize", "pay"} /\ UNCHANGED <<dbVars, created, items, keyed>>
  BY DEF Finalize, Pay, At
<1>2. n \in Invoices /\ stripe \in [Invoices -> Status] /\ stripe[n] \in Status
      /\ created \in Seq(Invoices)
  BY <1>1, FlowFacts DEF GoodFlow, WithInvoice, InvoicingInv, TypeOK
<1>3. PICK step \in {"pay", "fetch"} : Become(f, [flow[f] EXCEPT !.pc = step])
  BY DEF Finalize, Pay, GoTo, Become
<1>4. PICK x \in Status : stripe' = [stripe EXCEPT ![n] = x] /\ Rank(stripe[n]) <= Rank(x)
  <2>1. CASE stripe' = stripe
    <3>1. stripe' = [stripe EXCEPT ![n] = stripe[n]]
      BY <1>2, <2>1
    <3>2. Rank(stripe[n]) <= Rank(stripe[n])
      BY <1>2, StripeRank DEF InvoicingInv
    <3>3. QED
      BY <1>2, <3>1, <3>2
  <2>2. CASE stripe[n] = "draft" /\ stripe' = [stripe EXCEPT ![n] = "open"]
    BY <2>2, RankOrder DEF Status
  <2>3. CASE stripe' = [stripe EXCEPT ![n] = "paid"]
    <3>1. Rank(stripe[n]) \in 0..3
      BY <1>2, RankType
    <3>2. QED
      BY <2>3, <3>1, RankOrder DEF Status
  <2>4. QED
    BY <2>1, <2>2, <2>3 DEF Finalize, Pay
<1>5. stripe' \in [Invoices -> Status]
  BY <1>2, <1>4
<1>6. Grows(keyed, stripe, local, keyed, stripe', local)
  <2>1. ASSUME NEW m \in Invoices PROVE Rank(stripe[m]) <= Rank(stripe'[m])
    <3>1. Rank(stripe[m]) \in Int
      BY StripeRank DEF InvoicingInv
    <3>2. CASE m = n
      <4>1. stripe'[m] = x
        BY <1>2, <1>4, <3>2
      <4>2. QED
        BY <1>4, <3>2, <4>1
    <3>3. CASE m # n
      <4>1. stripe'[m] = stripe[m]
        BY <1>2, <1>4, <3>3
      <4>2. QED
        BY <3>1, <4>1
    <3>4. QED
      BY <3>2, <3>3
  <2>2. QED
    BY <2>1 DEF Grows
<1>7. QED
  BY <1>1, <1>2, <1>3, <1>4, <1>5, <1>6, WithInvoiceRecord, StripeStep

LEMMA FetchGood ==
  ASSUME InvoicingInv, NEW f \in Flows, Fetch(f), UNCHANGED ops
  PROVE  InvoicingInv'
<1> DEFINE r == [flow[f] EXCEPT !.pc = "convert", !.status = stripe[flow[f].n]]
<1>1. flow[f].pc = "fetch" /\ flow[f].n \in Invoices /\ stripe[flow[f].n] # "none"
      /\ stripe[flow[f].n] \in Status
  BY FlowFacts, Collections DEF Fetch, At, GoodFlow, WithInvoice
<1>2. r \in Flow
  BY <1>1, FlowFacts DEF Flow, Steps
<1>3. /\ r.pc = "convert" /\ r.t = flow[f].t /\ r.n = flow[f].n
      /\ r.line = flow[f].line /\ r.copy = flow[f].copy /\ r.status = stripe[flow[f].n]
      /\ r.doc.sessions = flow[f].doc.sessions /\ r.todo = flow[f].todo
  BY FlowFacts DEF Flow
<1>4. Become(f, r) /\ UNCHANGED <<dbVars, stripeVars>>
  BY DEF Fetch
<1> HIDE DEF r
<1>5. Rank(stripe[flow[f].n]) <= Rank(stripe[flow[f].n])
  BY <1>1, StripeRank DEF InvoicingInv
<1>6. GoodFlow(r, keyed, stripe, local)
  BY <1>1, <1>3, <1>5, FlowFacts DEF GoodFlow, ForSession, NoInvoice, WithInvoice, Lined
<1>7. QED
  BY <1>2, <1>4, <1>6, Collections, FlowStep DEF dbVars

LEMMA ConvertGood ==
  ASSUME InvoicingInv, NEW f \in Flows, Convert(f), UNCHANGED ops
  PROVE  InvoicingInv'
<1> DEFINE r == [flow[f] EXCEPT !.pc = "saveInvoice", !.doc = local[flow[f].n]]
<1>1. flow[f].pc = "convert" /\ flow[f].n \in Invoices /\ local[flow[f].n] \in Local
  BY FlowFacts, Collections DEF Convert, At, GoodFlow, WithInvoice
<1>2. r \in Flow
  BY <1>1, FlowFacts DEF Flow, Steps
<1>3. /\ r.pc = "saveInvoice" /\ r.t = flow[f].t /\ r.n = flow[f].n
      /\ r.line = flow[f].line /\ r.copy = flow[f].copy /\ r.status = flow[f].status
      /\ r.doc.sessions = local[flow[f].n].sessions /\ r.todo = flow[f].todo
  BY FlowFacts DEF Flow
<1>4. Become(f, r) /\ UNCHANGED <<dbVars, stripeVars>>
  BY DEF Convert
<1> HIDE DEF r
<1>5. \A t \in local[flow[f].n].sessions : On(keyed, t, flow[f].n)
  BY <1>1 DEF InvoicingInv, GoodLocals
<1>6. GoodFlow(r, keyed, stripe, local)
  BY <1>1, <1>3, <1>5, FlowFacts DEF GoodFlow, ForSession, NoInvoice, WithInvoice, Lined
<1>7. QED
  BY <1>2, <1>4, <1>6, Collections, FlowStep DEF dbVars

(* What a flow knows that is to save the document of its invoice.          *)
LEMMA SaverFacts ==
  ASSUME InvoicingInv, NEW f \in Flows, flow[f].pc \in {"saveInvoice", "unpaidSync"}
  PROVE  /\ flow[f].n \in Invoices /\ flow[f].n # NoTx /\ stripe[flow[f].n] # "none"
         /\ flow[f].status \in Status /\ flow[f].status # "none"
         /\ Rank(flow[f].status) <= Rank(stripe[flow[f].n])
         /\ flow[f].t # NoTx => On(keyed, flow[f].t, flow[f].n)
         /\ \A t \in flow[f].doc.sessions \union flow[f].todo : On(keyed, t, flow[f].n)
  BY FlowFacts, InvoicingAssumption DEF GoodFlow, WithInvoice, Lined, Invoices

LEMMA BillSaveInvoiceGood ==
  ASSUME InvoicingInv, NEW f \in Flows, BillSaveInvoice(f), UNCHANGED ops
  PROVE  InvoicingInv'
<1> DEFINE n == flow[f].n  t == flow[f].t
           b == [status |-> "BILLED", n |-> n, paid |-> flow[f].status]
           r == [flow[f] EXCEPT !.pc = "saveBill", !.doc = NoLocal, !.copy = b]
           e == [status |-> flow[f].status, sessions |-> flow[f].doc.sessions \union {t}]
<1>1. /\ flow[f].pc = "saveInvoice" /\ t \in Tx
      /\ UNCHANGED <<bill, extra, queued, stripeVars>>
  BY FlowFacts DEF BillSaveInvoice, At
<1>2. /\ n \in Invoices /\ n # NoTx
      /\ flow[f].status \in Status /\ flow[f].status # "none"
      /\ Rank(flow[f].status) <= Rank(stripe[n])
      /\ On(keyed, t, n)
      /\ \A u \in flow[f].doc.sessions \union flow[f].todo : On(keyed, u, n)
  BY <1>1, SaverFacts, InvoicingAssumption
<1>3. b \in Bill /\ b.n = n /\ b.status = "BILLED" /\ b.paid = flow[f].status
  BY <1>2 DEF Bill
<1>4. NoLocal \in Local /\ NoLocal.sessions = {}
  BY DEF NoLocal, Local, Status
<1>5. Become(f, r)
  BY DEF BillSaveInvoice
<1> HIDE DEF b
<1>6. r \in Flow
  BY <1>3, <1>4, FlowFacts DEF Flow, Steps
<1>7. /\ r.pc = "saveBill" /\ r.t = t /\ r.n = n /\ r.copy = b /\ r.status = flow[f].status
      /\ r.doc = NoLocal /\ r.todo = flow[f].todo
  BY FlowFacts DEF Flow
<1> HIDE DEF r
<1>8. ASSUME NEW d, d[n].status # "none" PROVE GoodFlow(r, keyed, stripe, d)
  <2>1. GoodBill(b, t, keyed, stripe, d)
    BY <1>2, <1>3, <1>8 DEF GoodBill
  <2>2. QED
    BY <1>1, <1>2, <1>4, <1>7, <2>1
    DEF GoodFlow, ForSession, NoInvoice, WithInvoice, Lined
<1>9. CASE UNCHANGED local /\ local[n] # NoLocal
  <2>1. local[n].status # "none"
    BY <1>2, <1>9 DEF InvoicingInv, GoodLocals
  <2>2. GoodFlow(r, keyed, stripe, local)
    BY <1>8, <2>1
  <2>3. QED
    BY <1>1, <1>5, <1>6, <1>9, <2>2, Collections, FlowStep
<1>10. CASE local' = [local EXCEPT ![n] = e]
  <2>1. e \in Local /\ e.status = flow[f].status
        /\ e.sessions = flow[f].doc.sessions \union {t}
    BY <1>1, <1>2, FlowFacts DEF Local
  <2> HIDE DEF e
  <2>2. local' [n] = e
    BY <1>2, <1>10 DEF InvoicingInv, TypeOK
  <2>3. GoodFlow(r, keyed, stripe, local')
    BY <1>2, <1>8, <2>1, <2>2
  <2>4. QED
    BY <1>1, <1>2, <1>5, <1>6, <1>10, <2>1, <2>3, ReplicaStep
<1>11. QED
  BY <1>9, <1>10 DEF BillSaveInvoice, Replica

LEMMA ChargeSaveInvoiceGood ==
  ASSUME InvoicingInv, NEW f \in Flows, ChargeSaveInvoice(f), UNCHANGED ops
  PROVE  InvoicingInv'
<1> DEFINE n == flow[f].n
           r == [flow[f] EXCEPT !.pc = "update", !.doc = NoLocal,
                                !.todo = flow[f].doc.sessions]
           e == [status |-> flow[f].status, sessions |-> flow[f].doc.sessions]
<1>1. /\ flow[f].pc = "saveInvoice" /\ flow[f].t = NoTx
      /\ UNCHANGED <<bill, extra, queued, stripeVars>> /\ local' = [local EXCEPT ![n] = e]
      /\ Become(f, r)
  BY DEF ChargeSaveInvoice, At, Replica
<1>2. /\ n \in Invoices /\ stripe[n] # "none"
      /\ flow[f].status \in Status /\ flow[f].status # "none"
      /\ Rank(flow[f].status) <= Rank(stripe[n])
      /\ \A u \in flow[f].doc.sessions : On(keyed, u, n)
  BY <1>1, SaverFacts
<1>3. NoLocal \in Local /\ NoLocal.sessions = {}
  BY DEF NoLocal, Local, Status
<1>4. r \in Flow
  BY <1>3, FlowFacts DEF Flow, Steps
<1>5. /\ r.pc = "update" /\ r.t = NoTx /\ r.n = n /\ r.status = flow[f].status
      /\ r.doc = NoLocal /\ r.todo = flow[f].doc.sessions
  BY <1>1, FlowFacts DEF Flow
<1> HIDE DEF r
<1>6. GoodFlow(r, keyed, stripe, local')
  BY <1>2, <1>3, <1>5 DEF GoodFlow, ForSession, NoInvoice, WithInvoice, Lined
<1>7. e \in Local /\ e.status = flow[f].status /\ e.sessions = flow[f].doc.sessions
  BY <1>2, FlowFacts DEF Local
<1> HIDE DEF e
<1>8. QED
  BY <1>1, <1>2, <1>4, <1>6, <1>7, ReplicaStep

LEMMA UpdateReadGood ==
  ASSUME InvoicingInv, NEW f \in Flows, UpdateRead(f), UNCHANGED ops
  PROVE  InvoicingInv'
<1>1. CASE End(f)
  BY <1>1, EndGood DEF UpdateRead
<1>2. ASSUME NEW t \in flow[f].todo,
             Become(f, [flow[f] EXCEPT !.pc = "updateSave", !.t = t,
                          !.todo = @ \ {t}, !.copy = [bill[t] EXCEPT !.paid = flow[f].status]])
      PROVE  InvoicingInv'
  <2> DEFINE b == [bill[t] EXCEPT !.paid = flow[f].status]
             r == [flow[f] EXCEPT !.pc = "updateSave", !.t = t, !.todo = @ \ {t}, !.copy = b]
  <2>1. t \in Tx /\ bill[t] \in Bill /\ GoodBill(bill[t], t, keyed, stripe, local)
    BY FlowFacts, Collections
  <2>2. /\ flow[f].pc = "update" /\ UNCHANGED <<dbVars, stripeVars>>
        /\ flow[f].n \in Invoices /\ stripe[flow[f].n] # "none" /\ flow[f].n # NoTx
        /\ On(keyed, t, flow[f].n) /\ Rank(flow[f].status) <= Rank(stripe[flow[f].n])
    BY FlowFacts, InvoicingAssumption DEF UpdateRead, At, GoodFlow, WithInvoice, Invoices
  <2>3. b \in Bill /\ b.status = bill[t].status /\ b.n = bill[t].n /\ b.paid = flow[f].status
    BY <2>1, FlowFacts DEF Bill
  <2> HIDE DEF b
  <2>4. bill[t].n # NoTx => bill[t].n = flow[f].n
    BY <2>1, <2>2, InvoicingAssumption DEF GoodBill, On
  <2>5. GoodBill(b, t, keyed, stripe, local)
    BY <2>1, <2>2, <2>3, <2>4 DEF GoodBill
  <2>6. r \in Flow
    BY <2>1, <2>3, FlowFacts DEF Flow, Steps
  <2>7. /\ r.pc = "updateSave" /\ r.t = t /\ r.n = flow[f].n
        /\ r.copy = b /\ r.status = flow[f].status
        /\ r.doc.sessions = flow[f].doc.sessions /\ r.todo \subseteq flow[f].todo
    BY FlowFacts DEF Flow
  <2>8. Become(f, r)
    BY <1>2 DEF b
  <2> HIDE DEF r
  <2>9. GoodFlow(r, keyed, stripe, local)
    BY <2>1, <2>2, <2>5, <2>7, FlowFacts
    DEF GoodFlow, ForSession, NoInvoice, WithInvoice, Lined
  <2>10. QED
    BY <2>2, <2>6, <2>8, <2>9, Collections, FlowStep DEF dbVars
<1>3. QED
  BY <1>1, <1>2 DEF UpdateRead

(* The copy a flow is to save is good for its session.                     *)
LEMMA CopyFacts ==
  ASSUME InvoicingInv, NEW f \in Flows, flow[f].pc \in ForSession
  PROVE  /\ flow[f].t \in Tx /\ flow[f].copy \in Bill
         /\ GoodBill(flow[f].copy, flow[f].t, keyed, stripe, local)
<1>1. flow[f].t \in Tx
  BY FlowFacts DEF GoodFlow
<1>2. flow[f].t # NoTx
  BY <1>1, InvoicingAssumption
<1>3. QED
  BY <1>1, <1>2, FlowFacts DEF GoodFlow

LEMMA UpdateSaveGood ==
  ASSUME InvoicingInv, NEW f \in Flows, UpdateSave(f), UNCHANGED ops
  PROVE  InvoicingInv'
<1> DEFINE r == [flow[f] EXCEPT !.pc = "update", !.t = NoTx, !.copy = Pending]
<1>1. flow[f].pc = "updateSave" /\ UNCHANGED <<extra, queued, local, stripeVars>>
      /\ bill' = [bill EXCEPT ![flow[f].t] = flow[f].copy] /\ Become(f, r)
  BY DEF UpdateSave, At
<1>2. r \in Flow
  BY FlowFacts, NoBill DEF Flow, Steps
<1>3. /\ r.pc = "update" /\ r.t = NoTx /\ r.n = flow[f].n /\ r.status = flow[f].status
      /\ r.doc.sessions = flow[f].doc.sessions /\ r.todo = flow[f].todo
  BY FlowFacts DEF Flow
<1> HIDE DEF r
<1>4. GoodFlow(r, keyed, stripe, local)
  BY <1>1, <1>3, FlowFacts DEF GoodFlow, ForSession, NoInvoice, WithInvoice, Lined
<1>5. QED
  BY <1>1, <1>2, <1>4, CopyFacts, Collections, BillStep DEF ForSession

(* The saves that end an operation.                                        *)
LEMMA LastSaveGood ==
  ASSUME InvoicingInv, NEW f \in Flows,
         BillSave(f) \/ PendingSave(f) \/ UnpaidSave(f), UNCHANGED ops
  PROVE  InvoicingInv'
<1>1. /\ flow[f].pc \in {"saveBill", "pendingSave", "unpaidSave"}
      /\ bill' = [bill EXCEPT ![flow[f].t] = flow[f].copy]
      /\ Become(f, Idle) /\ UNCHANGED <<queued, local, stripeVars>>
  BY DEF BillSave, PendingSave, UnpaidSave, At, End
<1>2. extra' \in [Tx -> BOOLEAN]
  BY Collections DEF BillSave, PendingSave, UnpaidSave
<1>3. QED
  BY <1>1, <1>2, CopyFacts, IdleGood, Collections, BillStep DEF ForSession

-----------------------------------------------------------------------------
(* BillPendingTransactionTask and BillUnpaidTransactionTask.               *)

LEMMA PendingReadGood ==
  ASSUME InvoicingInv, NEW f \in Flows, PendingRead(f), UNCHANGED ops
  PROVE  InvoicingInv'
<1>1. CASE End(f)
  BY <1>1, EndGood DEF PendingRead
<1>2. CASE Become(f, [flow[f] EXCEPT !.pc = "pendingQueue", !.copy = bill[flow[f].t]])
  <2> DEFINE r == [flow[f] EXCEPT !.pc = "pendingQueue", !.copy = bill[flow[f].t]]
  <2>1. flow[f].pc = "pendingRead" /\ flow[f].t \in Tx /\ UNCHANGED <<dbVars, stripeVars>>
    BY CopyFacts DEF PendingRead, At, ForSession
  <2>2. bill[flow[f].t] \in Bill
        /\ GoodBill(bill[flow[f].t], flow[f].t, keyed, stripe, local)
    BY <2>1, Collections
  <2>3. r \in Flow
    BY <2>2, FlowFacts DEF Flow, Steps
  <2>4. /\ r.pc = "pendingQueue" /\ r.t = flow[f].t /\ r.n = flow[f].n
        /\ r.line = flow[f].line /\ r.copy = bill[flow[f].t] /\ r.status = flow[f].status
        /\ r.doc.sessions = flow[f].doc.sessions /\ r.todo = flow[f].todo
    BY FlowFacts DEF Flow
  <2> HIDE DEF r
  <2>5. GoodFlow(r, keyed, stripe, local)
    BY <2>1, <2>2, <2>4, FlowFacts
    DEF GoodFlow, ForSession, NoInvoice, WithInvoice, Lined
  <2>6. QED
    BY <1>2, <2>1, <2>3, <2>5, Collections, FlowStep DEF dbVars, r
<1>3. QED
  BY <1>1, <1>2 DEF PendingRead

LEMMA PendingQueueGood ==
  ASSUME InvoicingInv, NEW f \in Flows, PendingQueue(f), UNCHANGED ops
  PROVE  InvoicingInv'
<1>1. /\ flow[f].pc = "pendingQueue" /\ flow[f].t \in Tx
      /\ UNCHANGED <<bill, extra, local, stripeVars>> /\ queued' \subseteq Tx
  BY CopyFacts, Collections DEF PendingQueue, At, ForSession
<1>2. PICK b \in {Pending, flow[f].copy} :
        Become(f, [flow[f] EXCEPT !.pc = "pendingSave", !.copy = b])
  <2>1. [flow[f] EXCEPT !.pc = "pendingSave"]
          = [flow[f] EXCEPT !.pc = "pendingSave", !.copy = flow[f].copy]
    BY FlowFacts DEF Flow
  <2>2. GoTo(f, "pendingSave") => Become(f, [flow[f] EXCEPT !.pc = "pendingSave"])
    BY DEF GoTo, Become
  <2>3. QED
    BY <2>1, <2>2 DEF PendingQueue
<1> DEFINE r == [flow[f] EXCEPT !.pc = "pendingSave", !.copy = b]
<1>3. b \in Bill /\ GoodBill(b, flow[f].t, keyed, stripe, local)
  BY <1>1, CopyFacts, NoBill DEF ForSession
<1>4. r \in Flow
  BY <1>3, FlowFacts DEF Flow, Steps
<1>5. /\ r.pc = "pendingSave" /\ r.t = flow[f].t /\ r.n = flow[f].n
      /\ r.line = flow[f].line /\ r.copy = b /\ r.status = flow[f].status
      /\ r.doc.sessions = flow[f].doc.sessions /\ r.todo = flow[f].todo
  BY FlowFacts DEF Flow
<1>6. Become(f, r)
  BY <1>2
<1> HIDE DEF r
<1>7. GoodFlow(r, keyed, stripe, local)
  BY <1>1, <1>3, <1>5, FlowFacts DEF GoodFlow, ForSession, NoInvoice, WithInvoice, Lined
<1>8. QED
  BY <1>1, <1>4, <1>6, <1>7, Collections, FlowStep

LEMMA UnpaidReadGood ==
  ASSUME InvoicingInv, NEW f \in Flows, UnpaidRead(f), UNCHANGED ops
  PROVE  InvoicingInv'
<1> DEFINE t == flow[f].t  b == bill[t]
           r == [flow[f] EXCEPT !.pc = "unpaidFetch", !.copy = b, !.n = b.n,
                                !.status = local[b.n].status]
<1>1. CASE End(f)
  BY <1>1, EndGood DEF UnpaidRead
<1>2. CASE b.n # NoTx /\ Become(f, r)
  <2>1. flow[f].pc = "unpaidRead" /\ t \in Tx /\ UNCHANGED <<dbVars, stripeVars>>
    BY CopyFacts DEF UnpaidRead, At, ForSession
  <2>2. b \in Bill /\ GoodBill(b, t, keyed, stripe, local) /\ b.n \in Invoices
    BY <1>2, <2>1, Collections DEF Bill
  <2>3. /\ On(keyed, t, b.n) /\ local[b.n].status # "none" /\ local[b.n].status \in Status
        /\ stripe[b.n] \in Status /\ Rank(local[b.n].status) <= Rank(stripe[b.n])
    BY <1>2, <2>2, Collections DEF GoodBill, InvoicingInv, GoodLocals, Local
  <2>4. stripe[b.n] # "none"
    <3>1. Rank(local[b.n].status) \in 0..3 /\ Rank(local[b.n].status) # 0
          /\ Rank(stripe[b.n]) \in 0..3
      BY <2>3, RankType
    <3>2. QED
      BY <2>3, <3>1, RankType
  <2>5. flow[f].doc.sessions = {} /\ flow[f].todo = {}
    BY <2>1, FlowFacts, InvoicingAssumption DEF GoodFlow, NoInvoice, On, Invoices
  <2>6. r \in Flow
    BY <2>2, <2>3, FlowFacts DEF Flow, Steps
  <2>7. /\ r.pc = "unpaidFetch" /\ r.t = t /\ r.n = b.n /\ r.copy = b
        /\ r.status = local[b.n].status
        /\ r.doc.sessions = flow[f].doc.sessions /\ r.todo = flow[f].todo
    BY FlowFacts DEF Flow
  <2> HIDE DEF r
  <2>8. GoodFlow(r, keyed, stripe, local)
    BY <2>1, <2>2, <2>3, <2>4, <2>5, <2>7
    DEF GoodFlow, ForSession, NoInvoice, WithInvoice, Lined
  <2>9. QED
    BY <1>2, <2>1, <2>6, <2>8, Collections, FlowStep DEF dbVars
<1>3. QED
  BY <1>1, <1>2 DEF UnpaidRead

(* What synchronizeUnpaidBills() returns for an invoice it knows.          *)
LEMMA BilledGood ==
  ASSUME InvoicingInv, NEW f \in Flows, flow[f].pc \in {"unpaidFetch", "unpaidSync"},
         NEW x \in Status, Rank(x) <= Rank(stripe[flow[f].n])
  PROVE  /\ [flow[f] EXCEPT !.pc = "unpaidSave", !.copy = Billed(f, x)] \in Flow
         /\ \A d : d[flow[f].n].status # "none" =>
              GoodFlow([flow[f] EXCEPT !.pc = "unpaidSave", !.copy = Billed(f, x)],
                       keyed, stripe, d)
<1> DEFINE b == Billed(f, x)
           r == [flow[f] EXCEPT !.pc = "unpaidSave", !.copy = b]
<1>1. /\ flow[f].t \in Tx /\ flow[f].n \in Invoices /\ On(keyed, flow[f].t, flow[f].n)
      /\ Rank(flow[f].status) <= Rank(stripe[flow[f].n])
      /\ flow[f].n # NoTx /\ flow[f].t # NoTx
  BY FlowFacts, InvoicingAssumption DEF GoodFlow, ForSession, WithInvoice, Lined, Invoices
<1>2. b \in Bill /\ b.status = "BILLED" /\ b.n = flow[f].n /\ b.paid = x
  BY <1>1 DEF Billed, Bill
<1> HIDE DEF b
<1>3. r \in Flow
  BY <1>2, FlowFacts DEF Flow, Steps
<1>4. /\ r.pc = "unpaidSave" /\ r.t = flow[f].t /\ r.n = flow[f].n /\ r.copy = b
      /\ r.status = flow[f].status
      /\ r.doc.sessions = flow[f].doc.sessions /\ r.todo = flow[f].todo
  BY FlowFacts DEF Flow
<1> HIDE DEF r
<1>5. ASSUME NEW d, d[flow[f].n].status # "none" PROVE GoodFlow(r, keyed, stripe, d)
  <2>1. GoodBill(b, flow[f].t, keyed, stripe, d)
    BY <1>1, <1>2, <1>5 DEF GoodBill
  <2>2. QED
    BY <1>1, <1>4, <2>1, FlowFacts DEF GoodFlow, ForSession, NoInvoice, WithInvoice, Lined
<1>6. QED
  BY <1>3, <1>5 DEF r, b

LEMMA UnpaidFetchGood ==
  ASSUME InvoicingInv, NEW f \in Flows, UnpaidFetch(f), UNCHANGED ops
  PROVE  InvoicingInv'
<1> DEFINE n == flow[f].n
<1>1. /\ flow[f].pc = "unpaidFetch" /\ UNCHANGED <<dbVars, stripeVars>>
      /\ n \in Invoices /\ local[n].status # "none" /\ flow[f].status \in Status
      /\ n # NoTx /\ Rank(flow[f].status) <= Rank(stripe[n])
  BY FlowFacts, InvoicingAssumption
  DEF UnpaidFetch, At, GoodFlow, WithInvoice, Invoices
<1>2. local[n].status \in Status /\ Rank(local[n].status) <= Rank(stripe[n])
  BY <1>1, Collections DEF InvoicingInv, GoodLocals, Local
<1>3. CASE stripe[n] = "paid"
           /\ Become(f, [flow[f] EXCEPT !.pc = "unpaidSync", !.status = "paid"])
  <2> DEFINE r == [flow[f] EXCEPT !.pc = "unpaidSync", !.status = "paid"]
  <2>1. r \in Flow
    BY FlowFacts DEF Flow, Steps, Status
  <2>2. /\ r.pc = "unpaidSync" /\ r.t = flow[f].t /\ r.n = n /\ r.copy = flow[f].copy
        /\ r.status = "paid"
        /\ r.doc.sessions = flow[f].doc.sessions /\ r.todo = flow[f].todo
    BY FlowFacts DEF Flow
  <2> HIDE DEF r
  <2>3. Rank("paid") <= Rank(stripe[n])
    BY <1>3, RankOrder
  <2>4. GoodFlow(r, keyed, stripe, local)
    BY <1>1, <2>2, <2>3, FlowFacts
    DEF GoodFlow, ForSession, NoInvoice, WithInvoice, Lined
  <2>5. QED
    BY <1>1, <1>3, <2>1, <2>4, Collections, FlowStep DEF dbVars, r
<1>4. ASSUME NEW x \in {local[n].status, flow[f].status},
             Become(f, [flow[f] EXCEPT !.pc = "unpaidSave", !.copy = Billed(f, x)])
      PROVE  InvoicingInv'
  BY <1>1, <1>2, <1>4, BilledGood, Collections, FlowStep DEF dbVars
<1>5. QED
  BY <1>3, <1>4 DEF UnpaidFetch

LEMMA UnpaidSyncGood ==
  ASSUME InvoicingInv, NEW f \in Flows, UnpaidSync(f), UNCHANGED ops
  PROVE  InvoicingInv'
<1> DEFINE n == flow[f].n
           e == [status |-> flow[f].status, sessions |-> local[n].sessions]
           r == [flow[f] EXCEPT !.pc = "unpaidSave", !.copy = Billed(f, flow[f].status)]
<1>1. /\ flow[f].pc = "unpaidSync" /\ UNCHANGED <<bill, extra, queued, stripeVars>>
      /\ local' = [local EXCEPT ![n] = e] /\ Become(f, r)
  BY DEF UnpaidSync, At, Replica
<1>2. /\ n \in Invoices /\ flow[f].status \in Status /\ flow[f].status # "none"
      /\ Rank(flow[f].status) <= Rank(stripe[n]) /\ local[n] \in Local
  BY <1>1, SaverFacts, Collections
<1>3. e \in Local /\ e.status = flow[f].status /\ e.sessions = local[n].sessions
  BY <1>2 DEF Local
<1>4. \A u \in local[n].sessions : On(keyed, u, n)
  BY <1>2 DEF InvoicingInv, GoodLocals
<1> HIDE DEF e
<1>5. local'[n] = e
  BY <1>1, <1>2 DEF InvoicingInv, TypeOK
<1>6. r \in Flow /\ GoodFlow(r, keyed, stripe, local')
  BY <1>1, <1>2, <1>3, <1>5, BilledGood
<1> HIDE DEF r
<1>7. QED
  BY <1>1, <1>2, <1>3, <1>4, <1>6, ReplicaStep

-----------------------------------------------------------------------------
LEMMA InitInvoicingInv == Init => InvoicingInv
<1> SUFFICES ASSUME Init PROVE InvoicingInv
  OBVIOUS
<1>1. /\ Pending \in Bill /\ NoLocal \in Local /\ Idle \in Flow /\ "none" \in Status
      /\ NoLocal.status = "none" /\ NoLocal.sessions = {}
  BY NoBill, IdleGood DEF NoLocal, Local, Status
<1>2. TypeOK
  <2>1. created \in Seq(Invoices) /\ queued \subseteq Tx /\ extra \in [Tx -> BOOLEAN]
        /\ ops \in 0..MaxOps
    BY InvoicingAssumption DEF Init
  <2>2. items \in [Invoices -> [Tx -> [1..Lines -> Nat]]]
    BY DEF Init
  <2>3. keyed \in [Tx -> [1..Lines -> Invoices \union {NoTx}]]
    BY DEF Init
  <2>4. QED
    BY <1>1, <2>1, <2>2, <2>3 DEF Init, TypeOK
<1>3. ItemsAreKeyed /\ LinesInOrder
  BY InvoicingAssumption DEF Init, ItemsAreKeyed, LinesInOrder, Invoices
<1>4. GoodBills
  BY NoBill DEF Init, GoodBills
<1>5. GoodLocals
  BY <1>1, RankOrder DEF Init, GoodLocals
<1>6. GoodFlows
  BY IdleGood DEF Init, GoodFlows
<1>7. QED
  BY <1>2, <1>3, <1>4, <1>5, <1>6 DEF InvoicingInv

LEMMA NextInvoicingInv ==
  ASSUME InvoicingInv, [Next]_vars
  PROVE  InvoicingInv'
<1>1. ASSUME NEW f \in Flows, NEW t \in Tx, Starts(f, t) PROVE InvoicingInv'
  BY <1>1, BeginsGood, ChargeStartGood
  DEF Starts, BillStart, PendingStart, UnpaidStart, Invoices
<1>2. ASSUME NEW f \in Flows, Bills(f), UNCHANGED ops PROVE InvoicingInv'
  BY <1>2, BillReadGood, BillFailsGood, ListDraftsGood, CreateInvoiceGood,
     CreateLineGood, BillSaveInvoiceGood, LastSaveGood
  DEF Bills
<1>3. ASSUME NEW f \in Flows, Charges(f), UNCHANGED ops PROVE InvoicingInv'
  BY <1>3, FinalizeOrPayGood, FetchGood, ConvertGood, ChargeSaveInvoiceGood,
     UpdateReadGood, UpdateSaveGood
  DEF Charges
<1>4. ASSUME NEW f \in Flows, Reviews(f), UNCHANGED ops PROVE InvoicingInv'
  BY <1>4, PendingReadGood, PendingQueueGood, LastSaveGood, UnpaidReadGood,
     UnpaidFetchGood, UnpaidSyncGood
  DEF Reviews
<1>5. ASSUME NEW f \in Flows, Crash(f), UNCHANGED ops PROVE InvoicingInv'
  BY <1>5, EndGood DEF Crash
<1>6. CASE UNCHANGED vars
  <2>1. /\ bill' = bill /\ extra' = extra /\ queued' = queued /\ local' = local
        /\ stripe' = stripe /\ created' = created /\ items' = items
        /\ keyed' = keyed /\ ops' = ops /\ flow' = flow
    BY <1>6 DEF vars, dbVars, stripeVars
  <2>2. TypeOK'
    BY <2>1 DEF InvoicingInv, TypeOK
  <2>3. (ItemsAreKeyed /\ LinesInOrder)'
    BY <2>1 DEF InvoicingInv, ItemsAreKeyed, LinesInOrder
  <2>4. (GoodBills /\ GoodLocals /\ GoodFlows)'
    BY <2>1 DEF InvoicingInv, GoodBills, GoodLocals, GoodFlows
  <2>5. QED
    BY <2>2, <2>3, <2>4 DEF InvoicingInv
<1>7. QED
  BY <1>1, <1>2, <1>3, <1>4, <1>5, <1>6 DEF Next

LEMMA AlwaysInvoicingInv == Spec => []InvoicingInv
  BY InitInvoicingInv, NextInvoicingInv, PTL DEF Spec

-----------------------------------------------------------------------------
(* Every record, counter and copy has its type, whatever the flows do.     *)
THEOREM InvoicingTypeCorrect == Spec => []TypeOK
<1>1. InvoicingInv => TypeOK
  BY DEF InvoicingInv
<1>2. QED
  BY <1>1, AlwaysInvoicingInv, PTL

(* The idempotency keys of createStripeInvoiceItem() and the refusals of   *)
(* Stripe are enough: no session is invoiced twice, or on two invoices, by *)
(* any number of tasks that overlap, die and are run again.                *)
THEOREM InvoicingOnce == Spec => []InvoicedOnce
<1>1. ASSUME ItemsAreKeyed, LinesInOrder PROVE InvoicedOnce
  <2>1. SUFFICES ASSUME NEW t \in Tx, NEW n \in Invoices, NEW m \in Invoices,
                        NEW k \in 1..Lines, NEW l \in 1..Lines
                 PROVE  /\ items[n][t][l] <= 1
                        /\ items[n][t][k] > 0 /\ items[m][t][l] > 0 => n = m
    BY DEF InvoicedOnce
  <2>2. items[n][t][l] <= 1
    BY <1>1 DEF ItemsAreKeyed
  <2>3. ASSUME items[n][t][k] > 0, items[m][t][l] > 0 PROVE n = m
    <3>1. keyed[t][k] = n /\ keyed[t][l] = m
      BY <1>1, <2>3 DEF ItemsAreKeyed
    <3>2. n # NoTx /\ m # NoTx
      BY InvoicingAssumption DEF Invoices
    <3>3. k \in 1..l \/ l \in 1..k
      BY InvoicingAssumption
    <3>4. QED
      BY <1>1, <3>1, <3>2, <3>3 DEF LinesInOrder
  <2>4. QED
    BY <2>2, <2>3
<1>2. QED
  BY <1>1, AlwaysInvoicingInv, PTL DEF InvoicingInv

(* BILLED is only said of a session whose lines are all on the invoice it  *)
(* names: billTransaction() saves it last.                                 *)
THEOREM InvoicingBilled == Spec => []BilledIsInvoiced
<1>1. ASSUME InvoicingInv PROVE BilledIsInvoiced
  <2>1. SUFFICES ASSUME NEW t \in Tx, bill[t].status = "BILLED"
                 PROVE  /\ bill[t].n \in Invoices
                        /\ \A l \in 1..Lines : items[bill[t].n][t][l] = 1
                        /\ local[bill[t].n] # NoLocal
    BY DEF BilledIsInvoiced
  <2>2. bill[t].n # NoTx
    BY <1>1, <2>1 DEF InvoicingInv, GoodBills, GoodBill
  <2>3. On(keyed, t, bill[t].n) /\ local[bill[t].n].status # "none"
    BY <1>1, <2>2 DEF InvoicingInv, GoodBills, GoodBill
  <2>4. \A l \in 1..Lines : items[bill[t].n][t][l] = 1
    BY <1>1, <2>3 DEF InvoicingInv, ItemsAreKeyed, On
  <2>5. local[bill[t].n] # NoLocal
    BY <2>3 DEF NoLocal
  <2>6. QED
    BY <2>3, <2>4, <2>5 DEF On
<1>2. QED
  BY <1>1, AlwaysInvoicingInv, PTL

(* What the database calls open or paid is so in Stripe, although          *)
(* saveInvoice() and saveTransactionBillingData() write what was read      *)
(* several calls before.                                                   *)
THEOREM InvoicingNotAhead == Spec => []ReplicasNotAhead
<1>1. InvoicingInv => ReplicasNotAhead
  BY DEF InvoicingInv, GoodBills, GoodBill, GoodLocals, ReplicasNotAhead
<1>2. QED
  BY <1>1, AlwaysInvoicingInv, PTL

-----------------------------------------------------------------------------
Final == {n \in Invoices : stripe[n] \in {"open", "paid"}}

LEMMA InitLedger == Init => Ledger!Init
  BY DEF Init, Ledger!Init, Invoices

LEMMA CreateLineRefines ==
  ASSUME InvoicingInv, NEW f \in Flows, CreateLine(f)
  PROVE  [Ledger!Next]_<<items, Final>>
<1> DEFINE t == flow[f].t  n == flow[f].n  l == flow[f].line
<1>1. flow[f].pc = "line" /\ stripe' = stripe
  BY DEF CreateLine, At
<1>2. /\ t \in Tx /\ n \in Tx /\ l \in 1..Lines /\ n # NoTx
      /\ \A k \in 1..(l - 1) : keyed[t][k] = n
  BY <1>1, FlowFacts, InvoicingAssumption
  DEF InvoicingInv, GoodFlow, ForSession, WithInvoice, Invoices
<1>3. UNCHANGED Final
  BY <1>1 DEF Final
<1>4. ItemsAreKeyed /\ LinesInOrder
  BY DEF InvoicingInv
<1>5. CASE keyed[t][l] # NoTx
  <2>1. items' = items
    BY <1>5 DEF CreateLine
  <2>2. QED
    BY <1>3, <2>1
<1>6. CASE keyed[t][l] = NoTx
  <2>1. stripe[n] = "draft" /\ items' = [items EXCEPT ![n][t][l] = @ + 1]
    BY <1>6 DEF CreateLine
  <2>2. n \notin Final
    BY <2>1 DEF Final
  <2>3. ASSUME NEW m \in Tx PROVE items[m][t][l] = 0
    <3>1. keyed[t][l] # m
      BY <1>6, InvoicingAssumption
    <3>2. QED
      BY <1>2, <1>4, <3>1 DEF ItemsAreKeyed, Invoices
  <2>4. ASSUME NEW m \in Tx \ {n}, NEW k \in 1..Lines PROVE ~(items[m][t][k] > 0)
    <3>1. SUFFICES ASSUME items[m][t][k] > 0 PROVE FALSE
      OBVIOUS
    <3>2. keyed[t][k] = m /\ m # NoTx
      BY <1>2, <1>4, <3>1, InvoicingAssumption DEF ItemsAreKeyed, Invoices
    <3>3. ~(l \in 1..k)
      BY <1>2, <1>4, <1>6, <3>2 DEF LinesInOrder
    <3>4. k \in 1..(l - 1)
      BY <1>2, <3>3, InvoicingAssumption
    <3>5. QED
      BY <1>2, <3>2, <3>4
  <2>5. ASSUME NEW k \in 1..(l - 1) PROVE items[n][t][k] > 0
    <3>1. k \in 1..Lines
      BY <1>2, InvoicingAssumption
    <3>2. QED
      BY <1>2, <1>4, <3>1 DEF ItemsAreKeyed, Invoices
  <2>6. items[n][t][l] + 1 = 1
    BY <1>2, <2>3
  <2>7. items' = [items EXCEPT ![n][t][l] = 1]
    BY <2>1, <2>6
  <2>8. ~Ledger!WrittenElsewhere(t, n) /\ ~Ledger!Written(t, l)
    BY <2>3, <2>4 DEF Ledger!WrittenElsewhere, Ledger!Written
  <2>9. \A k \in 1..(l - 1) : Ledger!Written(t, k)
    BY <1>2, <2>5 DEF Ledger!Written
  <2>10. Ledger!WriteLine(t, l, n)
    BY <1>3, <2>2, <2>7, <2>8, <2>9 DEF Ledger!WriteLine, Final
  <2>11. QED
    BY <1>2, <2>10 DEF Ledger!Next
<1>7. QED
  BY <1>5, <1>6

LEMMA FinalizeIsNext ==
  ASSUME NEW n \in Tx, Final' = Final \union {n}, UNCHANGED items
  PROVE  Ledger!Next
BY DEF Ledger!Next, Ledger!Finalize, Final

(* A step that changes one invoice of Stripe finalizes it, or is nothing.  *)
LEMMA StripeRefines ==
  ASSUME InvoicingInv, NEW f \in Flows,
         CreateInvoice(f) \/ Finalize(f) \/ Pay(f)
  PROVE  [Ledger!Next]_<<items, Final>>
<1>1. stripe \in [Invoices -> Status] /\ items' = items
  BY DEF InvoicingInv, TypeOK, CreateInvoice, Finalize, Pay
<1>2. CASE CreateInvoice(f)
  <2>1. CASE stripe' = stripe
    BY <1>1, <2>1 DEF Final
  <2>2. CASE /\ stripe[flow[f].t] = "none"
             /\ stripe' = [stripe EXCEPT ![flow[f].t] = "draft"]
    <3>1. \A n \in Invoices : stripe'[n] \in {"open", "paid"} <=> stripe[n] \in {"open", "paid"}
      BY <1>1, <2>2
    <3>2. QED
      BY <1>1, <3>1 DEF Final
  <2>3. QED
    BY <1>2, <2>1, <2>2 DEF CreateInvoice
<1>3. CASE Finalize(f) \/ Pay(f)
  <2> DEFINE n == flow[f].n
  <2>1. n \in Invoices
    BY <1>3, FlowFacts DEF InvoicingInv, GoodFlow, WithInvoice, Finalize, Pay, At
  <2>2. CASE stripe' = stripe
    BY <1>1, <2>2 DEF Final
  <2>3. CASE \E s \in {"open", "paid"} : stripe' = [stripe EXCEPT ![n] = s]
    <3>1. Final' = Final \union {n}
      BY <1>1, <2>1, <2>3 DEF Final
    <3>2. n \in Tx
      BY <2>1 DEF Invoices
    <3>3. QED
      BY <1>1, <3>1, <3>2, FinalizeIsNext
  <2>4. QED
    BY <1>3, <2>2, <2>3 DEF Finalize, Pay
<1>4. QED
  BY <1>2, <1>3

LEMMA StepsRefine ==
  ASSUME InvoicingInv, [Next]_vars
  PROVE  [Ledger!Next]_<<items, Final>>
<1>1. ASSUME UNCHANGED <<stripe, items>> PROVE [Ledger!Next]_<<items, Final>>
  BY <1>1 DEF Final
<1>2. ASSUME NEW f \in Flows, NEW t \in Tx, Starts(f, t) PROVE UNCHANGED <<stripe, items>>
  BY <1>2 DEF Starts, BillStart, ChargeStart, PendingStart, UnpaidStart, stripeVars
<1>3. ASSUME NEW f \in Flows, Bills(f)
      PROVE  CreateInvoice(f) \/ CreateLine(f) \/ UNCHANGED <<stripe, items>>
  BY <1>3 DEF Bills, BillRead, BillFails, ListDrafts, BillSaveInvoice, BillSave, stripeVars
<1>4. ASSUME NEW f \in Flows, Charges(f)
      PROVE  Finalize(f) \/ Pay(f) \/ UNCHANGED <<stripe, items>>
  BY <1>4 DEF Charges, Fetch, Convert, ChargeSaveInvoice, UpdateRead, UpdateSave, stripeVars
<1>5. ASSUME NEW f \in Flows, Reviews(f) \/ Crash(f) PROVE UNCHANGED <<stripe, items>>
  BY <1>5 DEF Reviews, PendingRead, PendingQueue, PendingSave, UnpaidRead, UnpaidFetch,
              UnpaidSync, UnpaidSave, Crash, stripeVars
<1>6. ASSUME UNCHANGED vars PROVE UNCHANGED <<stripe, items>>
  BY <1>6 DEF vars, stripeVars
<1>7. QED
  BY <1>1, <1>2, <1>3, <1>4, <1>5, <1>6, CreateLineRefines, StripeRefines DEF Next

(* The tasks together keep the promise of InvoiceLedger: a line is added   *)
(* to an invoice that is not final, once, after the lines before it and on *)
(* the same invoice, and nothing is ever taken from an invoice.            *)
THEOREM InvoicingRefinement == Spec => ImplementsLedger
<1>1. InvoicingInv /\ [Next]_vars => [Ledger!Next]_(Ledger!vars)
  BY StepsRefine DEF Ledger!vars, Final
<1>2. QED
  BY <1>1, InitLedger, AlwaysInvoicingInv, PTL DEF Spec, ImplementsLedger, Ledger!Spec
=============================================================================
