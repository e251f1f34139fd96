---------------------------- MODULE TenantAccount ----------------------------
(***************************************************************************)
(* The account of one lease: the invoices the worker makes month by month  *)
(* (tasks/billing.py), what invoice_service.py and billing_service.py do   *)
(* to them, the payments, and the ledger whose last running balance the    *)
(* next invoice carries forward.  Every handler reads a document, awaits   *)
(* other calls, and writes fields computed from what it read; an action is *)
(* one database call.                                                      *)
(***************************************************************************)
EXTENDS Integers, Sequences, FiniteSets, FiniteSetsExt, SequencesExt

CONSTANTS Handlers,
          LastMonth,     \* bound: months that are billed
          Rent,          \* confirmed line items of a month's invoice
          Usage,         \* what a meter reading adds, 0 without metered utilities
          Amounts,       \* amounts a client may pay
          MaxPayments,   \* bound on payments, of either kind
          Ops,           \* the operations clients use
          Overrides,     \* statuses an owner may set by hand
          MayCrash

AllOps == {"bill", "pay", "deposit", "reading", "void", "send", "proforma", "update"}

InvoiceStatus == {"draft", "ready", "sent", "partial_paid", "paid", "overdue", "void"}

ASSUME AccountAssumption ==
  /\ LastMonth \in Nat \ {0} /\ Rent \in Nat /\ Usage \in Nat /\ MaxPayments \in Nat
  /\ Amounts \subseteq Nat \ {0}
  /\ Ops \subseteq AllOps
  /\ Overrides \subseteq InvoiceStatus
  /\ MayCrash \in BOOLEAN
  /\ IsFiniteSet(Handlers)

Months == 1..LastMonth

VARIABLES inv,       \* [Months -> Invoice \cup {None}], the lease's invoices
          payments,  \* amounts received, a sequence of [amount, invoice]
          ledger,    \* ledger_entries, in order: [amount, invoice, balance]
          req        \* [Handlers -> request in progress]
vars == <<inv, payments, ledger, req>>

(* pending: a metered line item waits for its reading.  category: the      *)
(* stored document has an invoice_category, which the worker's insert does *)
(* not write and a whole-document save does.                               *)
Invoice == [status: InvoiceStatus, total: Int, paid: Int, due: Int,
            carried: Nat, pending: BOOLEAN, category: BOOLEAN]
None == [status |-> "none"]
Payment == [amount : Amounts, invoice : BOOLEAN]
Entry == [amount : Amounts, invoice : BOOLEAN, balance : Int]
Exists(m) == inv[m] # None

(* A request: todo holds the copies of invoices it has listed and not yet  *)
(* paid; listed is FALSE for the one the client named when it was not among*)
(* the outstanding ones.                                                   *)
Copy == [m : Months, doc : Invoice, listed : BOOLEAN]
Steps == {"write", "record", "balance", "post", "list", "apply"}
Request == [op : AllOps, pc : Steps, m : Months, doc : Invoice \cup {None},
            amount : Int, balance : Int, todo : SUBSET Copy]
Idle == [pc |-> "idle"]
New(op, pc, m, d) ==
  [op |-> op, pc |-> pc, m |-> m, doc |-> d, amount |-> 0, balance |-> 0, todo |-> {}]

TypeOK ==
  /\ inv \in [Months -> Invoice \cup {None}]
  /\ payments \in Seq(Payment)
  /\ Len(payments) <= MaxPayments
  /\ ledger \in Seq(Entry)
  /\ req \in [Handlers -> Request \cup {Idle}]

Init ==
  /\ inv = [m \in Months |-> None]
  /\ payments = <<>> /\ ledger = <<>>
  /\ req = [p \in Handlers |-> Idle]

-----------------------------------------------------------------------------
At(p, op, pc) == req[p] # Idle /\ req[p].op = op /\ req[p].pc = pc
Goto(p, pc) == req' = [req EXCEPT ![p].pc = pc]
Done(p) == req' = [req EXCEPT ![p] = Idle]
Put(m, d) == inv' = [inv EXCEPT ![m] = d]

(* invoice_repository.get_by_id starts the request.                        *)
Read(p, op, m) ==
  /\ req[p] = Idle /\ op \in Ops /\ Exists(m)
  /\ req' = [req EXCEPT ![p] = New(op, "write", m, inv[m])]
  /\ UNCHANGED <<inv, payments, ledger>>

(* ledger_repository.last_balance.                                         *)
LastBalance == IF ledger = <<>> THEN 0 ELSE Last(ledger).balance

-----------------------------------------------------------------------------
(* The worker bills the next month: the last running balance is read and,  *)
(* when negative, carried forward ...                                      *)
NegatedBalance(balance) == -balance
CarriedForward(balance) == IF balance < 0 THEN -balance ELSE 0

BillRead(p, m) ==
  /\ req[p] = Idle /\ "bill" \in Ops
  /\ ~Exists(m) /\ \A k \in 1..(m - 1) : Exists(k)
  /\ req' = [req EXCEPT ![p] = [New("bill", "write", m, None) EXCEPT !.balance = LastBalance]]
  /\ UNCHANGED <<inv, payments, ledger>>

(* ... as a confirmed line item of the invoice; no ledger entry is made.   *)
(* The unique index refuses a second invoice of the month.                 *)
BillInsert(p) ==
  LET m == req[p].m
      carried == CarriedForward(req[p].balance) IN
  /\ At(p, "bill", "write")
  /\ inv' = IF Exists(m) THEN inv ELSE
       [inv EXCEPT ![m] =
         [status |-> "draft", total |-> Rent + carried, paid |-> 0, due |-> Rent + carried,
          carried |-> carried, pending |-> Usage > 0, category |-> FALSE]]
  /\ Done(p)
  /\ UNCHANGED <<payments, ledger>>

-----------------------------------------------------------------------------
(* record_invoice_payment.  A void invoice takes no payment; an invoice    *)
(* with nothing due does.                                                  *)
PayRead(p, m, a) ==
  /\ req[p] = Idle /\ "pay" \in Ops /\ Exists(m)
  /\ inv[m].status # "void"
  /\ req' = [req EXCEPT ![p] = [New("pay", "record", m, inv[m]) EXCEPT !.amount = a]]
  /\ UNCHANGED <<inv, payments, ledger>>

(* The Payment documents, one per category of the line items, are made as  *)
(* one here; record_payment makes one that is not of an invoice.           *)
Receive(p) ==
  /\ req[p] # Idle /\ req[p].pc = "record"
  /\ Len(payments) < MaxPayments
  /\ payments' = Append(payments, [amount |-> req[p].amount, invoice |-> req[p].op = "pay"])
  /\ Goto(p, "balance")
  /\ UNCHANGED <<inv, ledger>>

ReadBalance(p) ==
  /\ req[p] # Idle /\ req[p].pc = "balance"
  /\ req' = [req EXCEPT ![p].pc = "post", ![p].balance = LastBalance]
  /\ UNCHANGED <<inv, payments, ledger>>

(* The entry's running balance: a payment of an invoice is subtracted, a   *)
(* direct one added (_append_ledger).                                      *)
Balance(p) ==
  IF req[p].op = "pay" THEN req[p].balance - req[p].amount
                       ELSE req[p].balance + req[p].amount

Post(p) ==
  /\ req[p] # Idle /\ req[p].pc = "post"
  /\ ledger' = Append(ledger, [amount |-> req[p].amount, invoice |-> req[p].op = "pay",
                               balance |-> Balance(p)])
  /\ IF req[p].op = "pay" THEN Goto(p, "list") ELSE Done(p)
  /\ UNCHANGED <<inv, payments>>

(* list_outstanding_for_lease with an invoice_category: documents without  *)
(* the field do not match.                                                 *)
Collectable(d) == d.status \notin {"paid", "void"} /\ d.due > 0
Outstanding == {m \in Months : Exists(m) /\ inv[m].category /\ Collectable(inv[m])}

(* They are paid oldest first; the invoice the client named comes before   *)
(* them when it is not among them and was not paid when it was read.       *)
Named(p) ==
  IF req[p].m \notin Outstanding /\ req[p].doc.status \notin {"paid", "void"}
    THEN {[m |-> req[p].m, doc |-> req[p].doc, listed |-> FALSE]} ELSE {}

List(p) ==
  /\ At(p, "pay", "list")
  /\ req' = [req EXCEPT ![p].pc = "apply",
       ![p].todo = Named(p) \cup {[m |-> m, doc |-> inv[m], listed |-> TRUE] : m \in Outstanding}]
  /\ UNCHANGED <<inv, payments, ledger>>

Before(e, f) == ~e.listed \/ (f.listed /\ e.m <= f.m)
Foremost(todo) == {e \in todo : \A f \in todo : Before(e, f)}

(* One turn of the loop: amount_paid, balance_due and status are written   *)
(* from the copy that was listed.                                          *)
Settled(due) == due <= 0
AllOf(remaining, due) == remaining
WholeDebt(remaining, due) == due
Share(remaining, due) == IF remaining < due THEN remaining ELSE due

Apply(p) ==
  /\ At(p, "pay", "apply") /\ req[p].amount > 0
  /\ \E e \in Foremost(req[p].todo) :
       LET d == e.doc
           share == Share(req[p].amount, d.due)
           due == IF d.total - d.paid - share > 0 THEN d.total - d.paid - share ELSE 0 IN
       /\ inv' = [inv EXCEPT ![e.m].paid = d.paid + share, ![e.m].due = due,
                             ![e.m].status = IF Settled(due) THEN "paid" ELSE "partial_paid"]
       /\ req' = [req EXCEPT ![p].amount = @ - share, ![p].todo = @ \ {e}]
  /\ UNCHANGED <<payments, ledger>>

(* What is left over is kept nowhere but in the payment and the ledger.    *)
ApplyEnds(p) ==
  /\ At(p, "pay", "apply")
  /\ req[p].todo = {} \/ req[p].amount <= 0
  /\ Done(p)
  /\ UNCHANGED <<inv, payments, ledger>>

(* record_payment and the STK callback: a direct payment on the lease.     *)
DepositRead(p, a) ==
  /\ req[p] = Idle /\ "deposit" \in Ops
  /\ req' = [req EXCEPT ![p] = [New("deposit", "record", 1, None) EXCEPT !.amount = a]]
  /\ UNCHANGED <<inv, payments, ledger>>

-----------------------------------------------------------------------------
(* apply_meter_reading_to_invoice: totals from the line items read, the    *)
(* balance from the amount_paid read, the status kept unless the invoice   *)
(* was a draft.                                                            *)
ForgetsPaid(d) == 0
AmountPaid(d) == d.paid

Reading(p) ==
  LET d == req[p].doc
      total == IF d.pending THEN d.total + Usage ELSE d.total IN
  /\ At(p, "reading", "write")
  /\ inv' = [inv EXCEPT ![req[p].m] =
       [@ EXCEPT !.pending = FALSE, !.total = total, !.due = total - AmountPaid(d),
                 !.status = IF d.status = "draft" THEN "ready" ELSE d.status]]
  /\ Done(p)
  /\ UNCHANGED <<payments, ledger>>

(* void_invoice refuses void and paid invoices.                            *)
NotVoidable == {"void", "paid"}

Void(p) ==
  /\ At(p, "void", "write")
  /\ IF req[p].doc.status \in NotVoidable THEN UNCHANGED inv
       ELSE inv' = [inv EXCEPT ![req[p].m].status = "void"]
  /\ Done(p)
  /\ UNCHANGED <<payments, ledger>>

(* send_invoice: PDF and mail take their time, then a status that was not  *)
(* locked when it was read becomes sent.                                   *)
OnlySent == {"sent"}
LOCKED_STATUSES == {"sent", "partial_paid", "paid", "overdue"}

Send(p) ==
  /\ At(p, "send", "write")
  /\ IF req[p].doc.status \in LOCKED_STATUSES \cup {"void"} THEN UNCHANGED inv
       ELSE inv' = [inv EXCEPT ![req[p].m].status = "sent"]
  /\ Done(p)
  /\ UNCHANGED <<payments, ledger>>

(* send_proforma saves the whole document, with the model's default        *)
(* invoice_category.                                                       *)
Proforma(p) ==
  /\ At(p, "proforma", "write")
  /\ IF req[p].doc.status \in {"draft", "ready"}
       THEN Put(req[p].m, [req[p].doc EXCEPT !.category = TRUE])
       ELSE UNCHANGED inv
  /\ Done(p)
  /\ UNCHANGED <<payments, ledger>>

(* update_invoice: the owner sets any status of an invoice that is not void. *)
Update(p) ==
  /\ At(p, "update", "write")
  /\ IF req[p].doc.status = "void" THEN UNCHANGED inv
       ELSE \E s \in Overrides : inv' = [inv EXCEPT ![req[p].m].status = s]
  /\ Done(p)
  /\ UNCHANGED <<payments, ledger>>

(* The process dies between two calls.                                     *)
Crash(p) ==
  /\ MayCrash /\ req[p] # Idle
  /\ Done(p)
  /\ UNCHANGED <<inv, payments, ledger>>

Next ==
  \E p \in Handlers :
    \/ \E m \in Months :
         \/ BillRead(p, m)
         \/ \E a \in Amounts : PayRead(p, m, a)
         \/ \E op \in {"reading", "void", "send", "proforma", "update"} : Read(p, op, m)
    \/ \E a \in Amounts : DepositRead(p, a)
    \/ BillInsert(p) \/ Receive(p) \/ ReadBalance(p) \/ Post(p)
    \/ List(p) \/ Apply(p) \/ ApplyEnds(p)
    \/ Reading(p) \/ Void(p) \/ Send(p) \/ Proforma(p) \/ Update(p)
    \/ Crash(p)

Spec == Init /\ [][Next]_vars

-----------------------------------------------------------------------------
(* The sum of the first n values of a.                                     *)
Total(a, n) == LET sum[i \in 0..n] == IF i = 0 THEN 0 ELSE sum[i - 1] + a[i] IN sum[n]

Billed == {m \in Months : Exists(m)}
OfInvoices(entries) ==
  [i \in 1..Len(entries) |-> IF entries[i].invoice THEN entries[i].amount ELSE 0]
AppliedTotal == Total([m \in Months |-> IF Exists(m) THEN inv[m].paid ELSE 0], LastMonth)
PostedTotal == Total(OfInvoices(ledger), Len(ledger))
ReceivedTotal == Total(OfInvoices(payments), Len(payments))

(* Money is written down in one order: a payment is received before it is  *)
(* posted, and posted before it is applied.  While no meter reading changes*)
(* a total under it, no interleaving, crash or lost update lets the        *)
(* invoices show more than the ledger, or the ledger more than was         *)
(* received.                                                               *)
LedgerLeads ==
  /\ AppliedTotal <= PostedTotal
  /\ PostedTotal <= ReceivedTotal

(* The three amounts of an invoice agree: what is due is the total less    *)
(* what was applied, and never negative (test_billing_seed.py: "balance_due*)
(* = total - paid").                                                       *)
AmountsAgree ==
  \A m \in Billed : inv[m].due = inv[m].total - inv[m].paid /\ inv[m].due >= 0

(* An invoice moves forward only: what was sent is never a draft again,    *)
(* what was paid for is never merely sent, and paid and void are final.    *)
Rank(s) == CASE s = "draft" -> 0 [] s = "ready" -> 1 [] s = "sent" -> 2
             [] s = "overdue" -> 3 [] s = "partial_paid" -> 4
             [] s = "paid" -> 5 [] s = "void" -> 6
MovesForward ==
  [][\A m \in Billed :
       /\ Rank(inv'[m].status) >= Rank(inv[m].status)
       /\ inv[m].status = "paid" => inv'[m].status = "paid"]_vars

(* billing_service.py: "Positive = tenant owes money": what a new invoice  *)
(* carries forward is at most what is still due on the earlier ones.       *)
CarriedIsOwed ==
  [][\A m \in Months : ~Exists(m) /\ inv'[m] # None =>
       inv'[m].carried <= MapThenSumSet(LAMBDA k : inv[k].due, Billed)]_vars

(* invoice_repository.py: "Return all unpaid invoices for a lease": what   *)
(* is due on an invoice that is not void can still be collected.           *)
DebtIsCollectable ==
  \A m \in Billed : inv[m].due > 0 /\ inv[m].status # "void" => Collectable(inv[m])
=============================================================================
