------------------------------ MODULE Invoicing ------------------------------
(***************************************************************************)
(* How the stopped sessions of one user get on Stripe invoices:            *)
(* BillTransactionAsyncTask and StripeBillingIntegration.billTransaction,  *)
(* the charging of the invoices by BillingPeriodicOperationTask, and the   *)
(* tasks BillPendingTransactionTask and BillUnpaidTransactionTask.         *)
(*                                                                         *)
(* A flow runs one of these operations at a time.  Every call of Stripe    *)
(* and every read or write of the database is a step of its own; a flow    *)
(* may die between two steps, a call of Stripe may fail or lose its        *)
(* answer, and a task that was queued may be run at any time and again     *)
(* (the list of tasks of a pass is stale).                                 *)
(*                                                                         *)
(* Each operation works under a database lock, whose lease may run out     *)
(* under its owner (module Locking).  The locks are left out, so that any  *)
(* two operations overlap: what is shown here holds whatever the leases    *)
(* do.                                                                     *)
(***************************************************************************)
EXTENDS Integers, Sequences, FiniteSets

CONSTANTS
  Flows,          \* flows that run operations
  Tx,             \* the sessions of the user
  Lines,          \* lines a session has on its invoice
  MaxOps,         \* bound: how many operations are begun
  NoTx            \* stands for null where a session or an invoice is expected

ASSUME InvoicingAssumption ==
  /\ Lines \in Nat \ {0}
  /\ MaxOps \in Nat
  /\ NoTx \notin Tx

(* createStripeInvoice() is called with the idempotency key of a session,  *)
(* so a session makes one invoice at most: it is named like the session.   *)
Invoices == Tx

VARIABLES
  bill,           \* billingData.stop of the sessions
  extra,          \* stop.extraInactivityComputed of the sessions
  queued,         \* sessions a BILL_TRANSACTION task was created for
  stripe,         \* the status of the invoices in Stripe
  created,        \* the invoices in Stripe, in the order of their creation
  items,          \* items[n][t][l]: line l of session t on invoice n, how often
  keyed,          \* the invoice an idempotency key of a line was used with
  local,          \* the documents of the "invoices" collection
  ops,            \* how many operations were begun
  flow            \* the operation of each flow, with its copies

stripeVars == <<stripe, created, items, keyed>>
dbVars == <<bill, extra, queued, local>>
vars == <<dbVars, stripeVars, ops, flow>>

Status == {"none", "draft", "open", "paid"}
Bill == [status : {"PENDING", "BILLED", "FAILED"}, n : Invoices \union {NoTx},
         paid : Status]
Pending == [status |-> "PENDING", n |-> NoTx, paid |-> "none"]
Failed == [status |-> "FAILED", n |-> NoTx, paid |-> "none"]

\* The status is "none" while there is no document.
Local == [status : Status, sessions : SUBSET Tx]
NoLocal == [status |-> "none", sessions |-> {}]

Steps == {"idle", "billRead", "list", "create", "line", "finalize", "pay",
          "fetch", "convert", "saveInvoice", "saveBill", "update",
          "updateSave", "pendingRead", "pendingQueue", "pendingSave",
          "unpaidRead", "unpaidFetch", "unpaidSync", "unpaidSave"}

(* t, n, line: the session, the invoice and the line at hand; now:         *)
(* immediateBillingAllowed; status: what Stripe answered; copy, doc: the   *)
(* billing data and the invoice it read; todo: the sessions of             *)
(* updateTransactionsBillingData().                                        *)
Flow == [pc : Steps, t : Tx \union {NoTx},
         n : Invoices \union {NoTx}, line : 1..Lines, now : BOOLEAN,
         status : Status, copy : Bill, doc : Local, todo : SUBSET Tx]
Idle == [pc |-> "idle", t |-> NoTx, n |-> NoTx, line |-> 1,
         now |-> FALSE, status |-> "none", copy |-> Pending, doc |-> NoLocal,
         todo |-> {}]

TypeOK ==
  /\ bill \in [Tx -> Bill]
  /\ extra \in [Tx -> BOOLEAN]
  /\ queued \subseteq Tx
  /\ stripe \in [Invoices -> Status]
  /\ created \in Seq(Invoices)
  /\ items \in [Invoices -> [Tx -> [1..Lines -> Nat]]]
  /\ keyed \in [Tx -> [1..Lines -> Invoices \union {NoTx}]]
  /\ local \in [Invoices -> Local]
  /\ ops \in 0..MaxOps
  /\ flow \in [Flows -> Flow]

(* The sessions have stopped.  endTransaction() queued a task for those    *)
(* whose extra inactivity was known by then.                               *)
Init ==
  /\ bill = [t \in Tx |-> Pending]
  /\ extra \in [Tx -> BOOLEAN]
  /\ queued = {t \in Tx : extra[t]}
  /\ stripe = [n \in Invoices |-> "none"]
  /\ created = <<>>
  /\ items = [n \in Invoices |-> [t \in Tx |-> [l \in 1..Lines |-> 0]]]
  /\ keyed = [t \in Tx |-> [l \in 1..Lines |-> NoTx]]
  /\ local = [n \in Invoices |-> NoLocal]
  /\ ops = 0
  /\ flow = [f \in Flows |-> Idle]

At(f, step) == flow[f].pc = step
Become(f, r) == flow' = [flow EXCEPT ![f] = r]
GoTo(f, step) == flow' = [flow EXCEPT ![f].pc = step]

Begin(f, step, t, n) ==
  /\ At(f, "idle")
  /\ ops < MaxOps
  /\ ops' = ops + 1
  /\ Become(f, [Idle EXCEPT !.pc = step, !.t = t, !.n = n])
End(f) == Become(f, Idle)

\* The process of a flow dies; its lock stays until the lease runs out.
Crash(f) ==
  /\ ~At(f, "idle")
  /\ End(f)
  /\ UNCHANGED <<dbVars, stripeVars>>

-----------------------------------------------------------------------------
(* BillTransactionAsyncTask                                                *)

(* A task that does not get the lock of the user within 60 seconds ends    *)
(* with success and without a trace: it is one that never starts.          *)
BillStart(f, t) ==
  /\ t \in queued
  /\ Begin(f, "billRead", t, NoTx)
  /\ UNCHANGED <<dbVars, stripeVars>>

(* Only a PENDING session goes on.  The task also ends here when the       *)
(* connection to Stripe or the consistency of the session is refused.      *)
BillRead(f) ==
  /\ At(f, "billRead")
  /\ \/ End(f)
     \/ /\ bill[flow[f].t].status = "PENDING"
        /\ \E now \in BOOLEAN :
             Become(f, [flow[f] EXCEPT !.now = now,
                                       !.pc = IF now THEN "create" ELSE "list"])
  /\ UNCHANGED <<dbVars, stripeVars>>

\* The catch block of billTransaction(): the error becomes FAILED.
Fail(f) == Become(f, [Idle EXCEPT !.pc = "saveBill", !.t = flow[f].t,
                                  !.copy = Failed])

\* Any call of Stripe or of the database in billInvoiceItem() may throw.
BillFails(f) ==
  /\ flow[f].t # NoTx
  /\ flow[f].pc \in {"list", "create", "line", "fetch", "convert", "saveInvoice"}
  /\ Fail(f)
  /\ UNCHANGED <<dbVars, stripeVars>>

Drafts == {i \in 1..Len(created) : stripe[created[i]] = "draft"}

(* getLatestDraftInvoiceOfTheMonth(): the draft created last, unless it is *)
(* of an earlier month.                                                    *)
LatestDraft == {created[i] : i \in {i \in Drafts : \A j \in Drafts : j <= i}}

ListDrafts(f) ==
  /\ At(f, "list")
  /\ \/ GoTo(f, "create")
     \/ \E n \in LatestDraft : Become(f, [flow[f] EXCEPT !.pc = "line", !.n = n])
  /\ UNCHANGED <<dbVars, stripeVars>>

(* createStripeInvoice(): with a key that was used, Stripe answers what it *)
(* answered before.  The answer may get lost.                              *)
CreateInvoice(f) ==
  LET n == flow[f].t IN
  /\ At(f, "create")
  /\ IF stripe[n] = "none"
       THEN /\ stripe' = [stripe EXCEPT ![n] = "draft"]
            /\ created' = Append(created, n)
       ELSE UNCHANGED <<stripe, created>>
  /\ \/ Become(f, [flow[f] EXCEPT !.pc = "line", !.n = n])
     \/ Fail(f)
  /\ UNCHANGED <<dbVars, items, keyed>>

(* Seeded fault: one line too many.                                        *)
NextLineBeyond(f) ==
  IF flow[f].line <= Lines
    THEN Become(f, [flow[f] EXCEPT !.line = @ + 1])
    ELSE Become(f, [flow[f] EXCEPT !.pc = IF flow[f].now THEN "finalize" ELSE "fetch",
                                   !.line = 1, !.now = FALSE])

NextLine(f) ==
  IF flow[f].line < Lines
    THEN Become(f, [flow[f] EXCEPT !.line = @ + 1])
    ELSE Become(f, [flow[f] EXCEPT !.pc = IF flow[f].now THEN "finalize" ELSE "fetch",
                                   !.line = 1, !.now = FALSE])

(* Seeded fault: the lines are created without an idempotency key.         *)
CreateLineNoKey(f) ==
  LET t == flow[f].t  l == flow[f].line  n == flow[f].n IN
  /\ At(f, "line")
  /\ stripe[n] = "draft"
  /\ items' = [items EXCEPT ![n][t][l] = @ + 1]
  /\ keyed' = [keyed EXCEPT ![t][l] = n]
  /\ NextLine(f) \/ Fail(f)
  /\ UNCHANGED <<dbVars, stripe, created>>

(* Seeded fault: the invoice is part of the idempotency key.               *)
CreateLineKeyPerInvoice(f) ==
  LET t == flow[f].t  l == flow[f].line  n == flow[f].n IN
  /\ At(f, "line")
  /\ IF items[n][t][l] = 0
       THEN /\ stripe[n] = "draft"
            /\ items' = [items EXCEPT ![n][t][l] = 1]
            /\ keyed' = [keyed EXCEPT ![t][l] = n]
       ELSE UNCHANGED <<items, keyed>>
  /\ NextLine(f) \/ Fail(f)
  /\ UNCHANGED <<dbVars, stripe, created>>

(* Seeded fault: the billing goes on after a line that Stripe refused.     *)
CreateLineSwallow(f) ==
  LET t == flow[f].t  l == flow[f].line  n == flow[f].n IN
  /\ At(f, "line")
  /\ IF keyed[t][l] = NoTx /\ stripe[n] = "draft"
       THEN /\ items' = [items EXCEPT ![n][t][l] = @ + 1]
            /\ keyed' = [keyed EXCEPT ![t][l] = n]
       ELSE UNCHANGED <<items, keyed>>
  /\ NextLine(f)
  /\ UNCHANGED <<dbVars, stripe, created>>

(* createStripeInvoiceItem(): Stripe adds an item to a draft invoice only, *)
(* repeats its answer for a key it knows, and refuses the key with other   *)
(* parameters (another invoice); a refusal leaves BillFails.               *)
CreateLine(f) ==
  LET t == flow[f].t  l == flow[f].line  n == flow[f].n IN
  /\ At(f, "line")
  /\ IF keyed[t][l] = NoTx
       THEN /\ stripe[n] = "draft"
            /\ items' = [items EXCEPT ![n][t][l] = @ + 1]
            /\ keyed' = [keyed EXCEPT ![t][l] = n]
       ELSE keyed[t][l] = n /\ UNCHANGED <<items, keyed>>
  /\ NextLine(f) \/ Fail(f)
  /\ UNCHANGED <<dbVars, stripe, created>>

-----------------------------------------------------------------------------
(* chargeStripeInvoice(), called by billInvoiceItem() and chargeInvoice()  *)

Finalize(f) ==
  LET n == flow[f].n IN
  /\ At(f, "finalize")
  /\ \/ /\ stripe[n] = "draft"
        /\ stripe' = [stripe EXCEPT ![n] = "open"]
        /\ GoTo(f, "pay")
     \/ stripe[n] = "open" /\ GoTo(f, "pay") /\ UNCHANGED stripe
     \/ GoTo(f, "fetch") /\ UNCHANGED stripe    \* paid already, or an error
  /\ UNCHANGED <<dbVars, created, items, keyed>>

Pay(f) ==
  LET n == flow[f].n IN
  /\ At(f, "pay")
  /\ stripe' \in {stripe, [stripe EXCEPT ![n] = "paid"]}
  /\ GoTo(f, "fetch")
  /\ UNCHANGED <<dbVars, created, items, keyed>>

(* Seeded fault: the payment is taken for granted.                         *)
FetchPaid(f) ==
  /\ At(f, "fetch")
  /\ Become(f, [flow[f] EXCEPT !.pc = "convert", !.status =
       IF stripe[flow[f].n] = "open" THEN "paid" ELSE stripe[flow[f].n]])
  /\ UNCHANGED <<dbVars, stripeVars>>

(* getStripeInvoice().                                                     *)
Fetch(f) ==
  /\ At(f, "fetch")
  /\ Become(f, [flow[f] EXCEPT !.pc = "convert", !.status = stripe[flow[f].n]])
  /\ UNCHANGED <<dbVars, stripeVars>>

(* convertToBillingInvoice() reads the invoice of the database...          *)
Convert(f) ==
  /\ At(f, "convert")
  /\ Become(f, [flow[f] EXCEPT !.pc = "saveInvoice", !.doc = local[flow[f].n]])
  /\ UNCHANGED <<dbVars, stripeVars>>

Replica(f, sessions) ==
  local' = [local EXCEPT ![flow[f].n] = [status |-> flow[f].status,
                                         sessions |-> sessions]]

(* ...and saveInvoice() writes it whole.  Where none was read it inserts a *)
(* document; if one came in meanwhile, the older of the two stays the one  *)
(* that getInvoiceByInvoiceID() finds.                                     *)
BillSaveInvoice(f) ==
  /\ At(f, "saveInvoice")
  /\ flow[f].t # NoTx
  /\ IF flow[f].doc = NoLocal /\ local[flow[f].n] # NoLocal
       THEN UNCHANGED local
       ELSE Replica(f, flow[f].doc.sessions \union {flow[f].t})
  /\ Become(f, [flow[f] EXCEPT !.pc = "saveBill", !.doc = NoLocal,
                  !.copy = [status |-> "BILLED", n |-> flow[f].n,
                            paid |-> flow[f].status]])
  /\ UNCHANGED <<bill, extra, queued, stripeVars>>

BillSave(f) ==
  /\ At(f, "saveBill")
  /\ bill' = [bill EXCEPT ![flow[f].t] = flow[f].copy]
  /\ End(f)
  /\ UNCHANGED <<extra, queued, local, stripeVars>>

-----------------------------------------------------------------------------
(* BillingPeriodicOperationTask: the drafts of the previous month, or with *)
(* onlyProcessUnpaidInvoices the open ones of this month.  chargeInvoice() *)
(* trusts the status of Stripe, not the local one the invoice was listed   *)
(* for.                                                                    *)

ChargeStart(f, n) ==
  /\ local[n].status \in {"draft", "open"}
  /\ Begin(f, "finalize", NoTx, n)
  /\ UNCHANGED <<dbVars, stripeVars>>

ChargeSaveInvoice(f) ==
  /\ At(f, "saveInvoice")
  /\ flow[f].t = NoTx
  /\ Replica(f, flow[f].doc.sessions)
  /\ Become(f, [flow[f] EXCEPT !.pc = "update", !.doc = NoLocal,
                               !.todo = flow[f].doc.sessions])
  /\ UNCHANGED <<bill, extra, queued, stripeVars>>

(* updateTransactionsBillingData() for one of the sessions, in any order:  *)
(* read the session, then save its billing data whole.                     *)
UpdateRead(f) ==
  /\ At(f, "update")
  /\ \/ \E t \in flow[f].todo :
          Become(f, [flow[f] EXCEPT !.pc = "updateSave", !.t = t,
                       !.todo = @ \ {t}, !.copy = [bill[t] EXCEPT !.paid = flow[f].status]])
     \/ flow[f].todo = {} /\ End(f)
  /\ UNCHANGED <<dbVars, stripeVars>>

UpdateSave(f) ==
  /\ At(f, "updateSave")
  /\ bill' = [bill EXCEPT ![flow[f].t] = flow[f].copy]
  /\ Become(f, [flow[f] EXCEPT !.pc = "update", !.t = NoTx, !.copy = Pending])
  /\ UNCHANGED <<extra, queued, local, stripeVars>>

-----------------------------------------------------------------------------
(* BillPendingTransactionTask: the sessions whose extra inactivity was not *)
(* known when they stopped.                                                *)

PendingStart(f, t) ==
  /\ bill[t].status = "PENDING"
  /\ ~extra[t]
  /\ Begin(f, "pendingRead", t, NoTx)
  /\ UNCHANGED <<dbVars, stripeVars>>

(* The session is skipped when the connector is in use, when it is not     *)
(* PENDING any more and when it has an invoice.                            *)
PendingRead(f) ==
  LET t == flow[f].t IN
  /\ At(f, "pendingRead")
  /\ \/ End(f)
     \/ /\ bill[t].status = "PENDING" /\ bill[t].n = NoTx
        /\ Become(f, [flow[f] EXCEPT !.pc = "pendingQueue", !.copy = bill[t]])
  /\ UNCHANGED <<dbVars, stripeVars>>

(* processEndTransaction() creates the task; an error is only logged.      *)
PendingQueue(f) ==
  LET t == flow[f].t IN
  /\ At(f, "pendingQueue")
  /\ \/ queued' = queued \union {t} /\ Become(f, [flow[f] EXCEPT !.pc = "pendingSave",
                                                                 !.copy = Pending])
     \/ UNCHANGED queued /\ GoTo(f, "pendingSave")
  /\ UNCHANGED <<bill, extra, local, stripeVars>>

\* saveTransaction() writes the whole session it read before.
PendingSave(f) ==
  LET t == flow[f].t IN
  /\ At(f, "pendingSave")
  /\ bill' = [bill EXCEPT ![t] = flow[f].copy]
  /\ extra' = [extra EXCEPT ![t] = TRUE]
  /\ End(f)
  /\ UNCHANGED <<queued, local, stripeVars>>

-----------------------------------------------------------------------------
(* BillUnpaidTransactionTask: the sessions whose invoice was open.         *)

UnpaidStart(f, t) ==
  /\ bill[t].paid = "open"
  /\ Begin(f, "unpaidRead", t, NoTx)
  /\ UNCHANGED <<dbVars, stripeVars>>

(* Skipped when the connector is in use or there is no invoiceID; an error *)
(* before synchronizeUnpaidBills() ends it too.                            *)
UnpaidRead(f) ==
  LET b == bill[flow[f].t] IN
  /\ At(f, "unpaidRead")
  /\ \/ End(f)
     \/ /\ b.n # NoTx
        /\ Become(f, [flow[f] EXCEPT !.pc = "unpaidFetch", !.copy = b, !.n = b.n,
                                     !.status = local[b.n].status])
  /\ UNCHANGED <<dbVars, stripeVars>>

Billed(f, status) == [status |-> "BILLED", n |-> flow[f].n, paid |-> status]

(* A paid invoice is replicated; otherwise the status comes from the local *)
(* invoice, and after an error from the one read before.  That branch      *)
(* stores the invoice under its Stripe id, which the next pass cannot look *)
(* up (then UnpaidRead ends): here both ids are the invoice.               *)
UnpaidFetch(f) ==
  LET n == flow[f].n IN
  /\ At(f, "unpaidFetch")
  /\ \/ stripe[n] = "paid" /\ Become(f, [flow[f] EXCEPT !.pc = "unpaidSync", !.status = "paid"])
     \/ \E s \in {local[n].status, flow[f].status} :
          Become(f, [flow[f] EXCEPT !.pc = "unpaidSave", !.copy = Billed(f, s)])
  /\ UNCHANGED <<dbVars, stripeVars>>

\* synchronizeAsBillingInvoice() leaves the sessions of the document alone.
UnpaidSync(f) ==
  /\ At(f, "unpaidSync")
  /\ Replica(f, local[flow[f].n].sessions)
  /\ Become(f, [flow[f] EXCEPT !.pc = "unpaidSave", !.copy = Billed(f, flow[f].status)])
  /\ UNCHANGED <<bill, extra, queued, stripeVars>>

UnpaidSave(f) ==
  /\ At(f, "unpaidSave")
  /\ bill' = [bill EXCEPT ![flow[f].t] = flow[f].copy]
  /\ End(f)
  /\ UNCHANGED <<extra, queued, local, stripeVars>>

-----------------------------------------------------------------------------
Bills(f) ==
  \/ BillRead(f) \/ BillFails(f) \/ ListDrafts(f) \/ CreateInvoice(f)
  \/ CreateLine(f) \/ BillSaveInvoice(f) \/ BillSave(f)
Charges(f) ==
  \/ Finalize(f) \/ Pay(f) \/ Fetch(f) \/ Convert(f)
  \/ ChargeSaveInvoice(f) \/ UpdateRead(f) \/ UpdateSave(f)
Reviews(f) ==
  \/ PendingRead(f) \/ PendingQueue(f) \/ PendingSave(f)
  \/ UnpaidRead(f) \/ UnpaidFetch(f) \/ UnpaidSync(f) \/ UnpaidSave(f)
Starts(f, t) ==
  BillStart(f, t) \/ ChargeStart(f, t) \/ PendingStart(f, t) \/ UnpaidStart(f, t)

Next ==
  \/ \E f \in Flows, t \in Tx : Starts(f, t)
  \/ /\ \E f \in Flows : Bills(f) \/ Charges(f) \/ Reviews(f) \/ Crash(f)
     /\ UNCHANGED ops

Spec == Init /\ [][Next]_vars

-----------------------------------------------------------------------------
(* A session is invoiced once: no line of it appears twice, and its lines  *)
(* are on one invoice, however often and from wherever its task is run.    *)
InvoicedOnce ==
  \A t \in Tx : \A n, m \in Invoices : \A k, l \in 1..Lines :
    /\ items[n][t][l] <= 1
    /\ items[n][t][k] > 0 /\ items[m][t][l] > 0 => n = m

(* A session that says BILLED names, by one of its two ids, an invoice     *)
(* which holds all its lines and which the database knows.                 *)
BilledIsInvoiced ==
  \A t \in Tx : bill[t].status = "BILLED" =>
    /\ bill[t].n \in Invoices
    /\ \A l \in 1..Lines : items[bill[t].n][t][l] = 1
    /\ local[bill[t].n] # NoLocal

Rank(s) == CASE s = "none" -> 0 [] s = "draft" -> 1 [] s = "open" -> 2 [] s = "paid" -> 3

(* Neither the local invoice nor a session is ahead of Stripe: what they   *)
(* call paid is paid, whichever copy was saved last.                       *)
ReplicasNotAhead ==
  /\ \A n \in Invoices : Rank(local[n].status) <= Rank(stripe[n])
  /\ \A t \in Tx : bill[t].n # NoTx => Rank(bill[t].paid) <= Rank(stripe[bill[t].n])

(* The flows keep the promise of InvoiceLedger.                            *)
Ledger == INSTANCE InvoiceLedger WITH
  final <- {n \in Invoices : stripe[n] \in {"open", "paid"}}
ImplementsLedger == Ledger!Spec
=============================================================================
