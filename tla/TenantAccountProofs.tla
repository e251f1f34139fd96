------------------------- MODULE TenantAccountProofs -------------------------
(***************************************************************************)
(* Proofs about TenantAccount, for any number of handlers, months and      *)
(* payments, any rent and any amounts.                                     *)
(***************************************************************************)
EXTENDS MCTenantHistory, WellFoundedInduction, FiniteSetTheorems, TLAPS

(***************************************************************************)
(* Sums.  Induction over a set of numbers, from the least element of what  *)
(* is outside it.                                                          *)
(***************************************************************************)
LEMMA NatSetInduction ==
  ASSUME NEW S, 0 \in S, \A n \in Nat : n \in S => n + 1 \in S
  PROVE  Nat \subseteq S
<1> SUFFICES ASSUME Nat \ S # {} PROVE FALSE
  OBVIOUS
<1> DEFINE R == OpToRel(<, Nat)
<1>1. PICK x \in Nat \ S : \A y \in Nat \ S : ~(<<y, x>> \in R)
  <2>1. IsWellFoundedOn(R, Nat)
    BY NatLessThanWellFounded
  <2>2. Nat \ S \subseteq Nat
    OBVIOUS
  <2> HIDE DEF R
  <2> QED
    BY <2>1, <2>2, WFMin
<1>2. x # 0 /\ x - 1 \in Nat /\ x - 1 < x
  OBVIOUS
<1>3. <<x - 1, x>> \in R
  BY <1>2 DEF OpToRel
<1>4. x - 1 \in S
  BY <1>1, <1>2, <1>3
<1> QED
  BY <1>2, <1>4

(* f holds the sums of the first 0, 1, ... n values of a.                  *)
Sums(f, a, n) == f = [i \in 0..n |-> IF i = 0 THEN 0 ELSE f[i - 1] + a[i]]

LEMMA SumsExist == ASSUME NEW a, NEW n \in Nat PROVE \E f : Sums(f, a, n)
<1> DEFINE S == {k \in Nat : \E f : Sums(f, a, k)}
<1>1. 0 \in S
  <2> DEFINE f == [i \in 0..0 |-> 0]
  <2>1. Sums(f, a, 0)
    BY DEF Sums
  <2> QED
    BY <2>1
<1>2. ASSUME NEW k \in Nat, k \in S PROVE k + 1 \in S
  <2>1. PICK f : Sums(f, a, k)
    BY <1>2
  <2> DEFINE g == [i \in 0..(k + 1) |-> IF i <= k THEN f[i] ELSE f[k] + a[k + 1]]
  <2>2. ASSUME NEW i \in 0..(k + 1) PROVE g[i] = IF i = 0 THEN 0 ELSE g[i - 1] + a[i]
    BY <2>1 DEF Sums
  <2>3. Sums(g, a, k + 1)
    BY <2>2 DEF Sums
  <2> QED
    BY <2>3
<1> HIDE DEF S
<1>3. n \in S
  BY <1>1, <1>2, NatSetInduction
<1> QED
  BY <1>3 DEF S

LEMMA SumsAgree ==
  ASSUME NEW a, NEW n \in Nat, NEW k \in Nat, k <= n, NEW f, NEW g,
         Sums(f, a, n), Sums(g, a, k)
  PROVE  f[k] = g[k]
<1> DEFINE S == {i \in Nat : i <= k => f[i] = g[i]}
<1>1. 0 \in S
  BY DEF Sums
<1>2. ASSUME NEW i \in Nat, i \in S PROVE i + 1 \in S
  <2>1. CASE i + 1 <= k
    <3>1. i + 1 \in 0..n /\ i + 1 \in 0..k /\ i + 1 # 0 /\ (i + 1) - 1 = i /\ i <= k
      BY <2>1
    <3>2. f[i + 1] = f[i] + a[i + 1] /\ g[i + 1] = g[i] + a[i + 1]
      BY <3>1 DEF Sums
    <3> QED
      BY <1>2, <3>1, <3>2
  <2>2. CASE ~(i + 1 <= k)
    BY <2>2
  <2> QED
    BY <2>1, <2>2
<1> HIDE DEF S
<1>3. k \in S
  BY <1>1, <1>2, NatSetInduction
<1> QED
  BY <1>3 DEF S

LEMMA TotalIsSum ==
  ASSUME NEW a, NEW n \in Nat PROVE \E f : Sums(f, a, n) /\ Total(a, n) = f[n]
<1>1. Total(a, n) = (CHOOSE f : Sums(f, a, n))[n]
  BY DEF Total, Sums
<1>2. Sums(CHOOSE f : Sums(f, a, n), a, n)
  BY SumsExist
<1> QED
  BY <1>1, <1>2

(* The equations a sum is computed by.                                     *)
LEMMA TotalStep ==
  ASSUME NEW a
  PROVE  /\ Total(a, 0) = 0
         /\ \A n \in Nat : Total(a, n + 1) = Total(a, n) + a[n + 1]
<1>1. Total(a, 0) = 0
  <2>1. PICK f : Sums(f, a, 0) /\ Total(a, 0) = f[0]
    BY TotalIsSum
  <2> QED
    BY <2>1 DEF Sums
<1>2. ASSUME NEW n \in Nat PROVE Total(a, n + 1) = Total(a, n) + a[n + 1]
  <2>1. PICK f : Sums(f, a, n + 1) /\ Total(a, n + 1) = f[n + 1]
    BY TotalIsSum
  <2>2. PICK g : Sums(g, a, n) /\ Total(a, n) = g[n]
    BY TotalIsSum
  <2>3. f[n] = g[n]
    BY <2>1, <2>2, SumsAgree
  <2>4. f[n + 1] = f[n] + a[n + 1]
    BY <2>1 DEF Sums
  <2> QED
    BY <2>1, <2>2, <2>3, <2>4
<1> QED
  BY <1>1, <1>2

LEMMA TotalType ==
  ASSUME NEW n \in Nat, NEW a, \A i \in 1..n : a[i] \in Int
  PROVE  Total(a, n) \in Int
<1> DEFINE S == {k \in Nat : k <= n => Total(a, k) \in Int}
<1>1. 0 \in S
  BY TotalStep
<1>2. ASSUME NEW k \in Nat, k \in S PROVE k + 1 \in S
  BY <1>2, TotalStep
<1> HIDE DEF S
<1>3. n \in S
  BY <1>1, <1>2, NatSetInduction
<1> QED
  BY <1>3 DEF S

(* A sum grows with its values.                                            *)
LEMMA TotalMonotone ==
  ASSUME NEW n \in Nat, NEW a, NEW b,
         \A i \in 1..n : a[i] \in Int /\ b[i] \in Int /\ a[i] <= b[i]
  PROVE  Total(a, n) <= Total(b, n)
<1> DEFINE S == {k \in Nat : k <= n => Total(a, k) <= Total(b, k)}
<1>1. 0 \in S
  BY TotalStep
<1>2. ASSUME NEW k \in Nat, k \in S PROVE k + 1 \in S
  <2>1. CASE k + 1 <= n
    <3>1. Total(a, k) \in Int /\ Total(b, k) \in Int /\ k <= n /\ k + 1 \in 1..n
      BY <2>1, TotalType
    <3>2. Total(a, k + 1) = Total(a, k) + a[k + 1] /\ Total(b, k + 1) = Total(b, k) + b[k + 1]
      BY TotalStep
    <3> QED
      BY <1>2, <2>1, <3>1, <3>2
  <2> QED
    BY <2>1
<1> HIDE DEF S
<1>3. n \in S
  BY <1>1, <1>2, NatSetInduction
<1> QED
  BY <1>3 DEF S

LEMMA TotalSame ==
  ASSUME NEW n \in Nat, NEW a, NEW b,
         \A i \in 1..n : a[i] \in Int /\ b[i] = a[i]
  PROVE  Total(a, n) = Total(b, n)
<1>1. Total(a, n) \in Int /\ Total(b, n) \in Int
  BY TotalType
<1> QED
  BY <1>1, TotalMonotone

(* One value of a sum changes by d.                                        *)
LEMMA TotalUpdate ==
  ASSUME NEW n \in Nat, NEW a, NEW b, NEW j \in 1..n, NEW d \in Int,
         \A i \in 1..n : a[i] \in Int /\ b[i] = IF i = j THEN a[i] + d ELSE a[i]
  PROVE  Total(b, n) = Total(a, n) + d
<1> DEFINE S == {k \in Nat : k <= n => Total(b, k) = IF j <= k THEN Total(a, k) + d ELSE Total(a, k)}
<1>1. 0 \in S
  BY TotalStep
<1>2. ASSUME NEW k \in Nat, k \in S PROVE k + 1 \in S
  <2>1. CASE k + 1 <= n
    <3>1. Total(a, k) \in Int /\ k <= n /\ k + 1 \in 1..n
      BY <2>1, TotalType
    <3>2. Total(a, k + 1) = Total(a, k) + a[k + 1] /\ Total(b, k + 1) = Total(b, k) + b[k + 1]
      BY TotalStep
    <3> QED
      BY <1>2, <2>1, <3>1, <3>2
  <2> QED
    BY <2>1
<1> HIDE DEF S
<1>3. n \in S
  BY <1>1, <1>2, NatSetInduction
<1> QED
  BY <1>3 DEF S

(* A value is added at the end.                                            *)
LEMMA TotalAppend ==
  ASSUME NEW n \in Nat, NEW a, NEW b,
         \A i \in 1..n : a[i] \in Int /\ b[i] = a[i],
         b[n + 1] \in Int
  PROVE  Total(b, n + 1) = Total(a, n) + b[n + 1]
BY TotalStep, TotalSame

-----------------------------------------------------------------------------
(***************************************************************************)
(* Types.  A request that is about an invoice has read one that exists, as *)
(* have the copies it listed, and invoices are never removed.              *)
(***************************************************************************)
Reads(r) == r.op \notin {"bill", "deposit"}

WellFormed(r, invoices) ==
  /\ Reads(r) => r.doc \in Invoice /\ invoices[r.m] # None
  /\ r.pc \in {"record", "balance", "post"} => r.amount \in Amounts
  /\ r.pc \in {"list", "apply"} => r.op = "pay"
  /\ r.pc # "apply" => r.todo = {}
  /\ \A e \in r.todo : invoices[e.m] # None

Typed ==
  /\ TypeOK
  /\ \A p \in Handlers : req[p] # Idle => WellFormed(req[p], inv)

LEMMA TypedInit == Init => Typed
BY AccountAssumption DEF Init, Typed, TypeOK, WellFormed

LEMMA NotNone == \A d \in Invoice : d # None
BY DEF Invoice, InvoiceStatus, None

LEMMA NotIdle == \A r \in Request : r # Idle
BY DEF Request, Steps, Idle

LEMMA RequestFields ==
  ASSUME NEW r \in Request
  PROVE  /\ r.op \in AllOps /\ r.pc \in Steps /\ r.m \in Months
         /\ r.doc \in Invoice \cup {None} /\ r.amount \in Int /\ r.balance \in Int
         /\ r.todo \subseteq Copy
BY DEF Request

LEMMA InvoiceFields ==
  ASSUME NEW d \in Invoice
  PROVE  /\ d.status \in InvoiceStatus /\ d.total \in Int /\ d.paid \in Int /\ d.due \in Int
         /\ d.carried \in Nat /\ d.pending \in BOOLEAN /\ d.category \in BOOLEAN
BY DEF Invoice

LEMMA LastBalanceInt == TypeOK => LastBalance \in Int
<1> SUFFICES ASSUME TypeOK, ledger # <<>> PROVE Last(ledger).balance \in Int
  BY DEF LastBalance
<1>1. ledger[Len(ledger)] \in Entry
  BY DEF TypeOK
<1> QED
  BY <1>1 DEF Last, Entry

(* A handler moves on with its own request; the collections keep their     *)
(* types and no invoice disappears.                                        *)
LEMMA RequestStep ==
  ASSUME Typed, NEW p \in Handlers, NEW r \in Request \cup {Idle},
         req' = [req EXCEPT ![p] = r],
         inv' \in [Months -> Invoice \cup {None}],
         \A m \in Months : inv[m] # None => inv'[m] # None,
         payments' \in Seq(Payment), Len(payments') <= MaxPayments,
         ledger' \in Seq(Entry),
         r # Idle => WellFormed(r, inv')
  PROVE  Typed'
<1> USE DEF Typed, TypeOK
<1>1. TypeOK'
  OBVIOUS
<1>2. ASSUME NEW q \in Handlers, req'[q] # Idle PROVE WellFormed(req'[q], inv')
  <2>1. CASE q = p
    BY <1>2, <2>1
  <2>2. CASE q # p
    <3>1. req'[q] = req[q] /\ req[q] \in Request
      BY <1>2, <2>2
    <3>2. req[q].m \in Months /\ \A e \in req[q].todo : e.m \in Months
      BY <3>1 DEF Request, Copy
    <3>3. WellFormed(req[q], inv)
      BY <1>2, <3>1
    <3> QED
      BY <3>1, <3>2, <3>3 DEF WellFormed
  <2> QED
    BY <2>1, <2>2
<1> QED
  BY <1>1, <1>2

(* The two cases of it that most actions are: the request ends, or only    *)
(* the request changes.                                                    *)
LEMMA EndStep ==
  ASSUME Typed, NEW p \in Handlers, Done(p),
         inv' \in [Months -> Invoice \cup {None}],
         \A m \in Months : inv[m] # None => inv'[m] # None,
         payments' = payments, ledger' \in Seq(Entry)
  PROVE  Typed'
BY RequestStep DEF Done, Typed, TypeOK

LEMMA OwnStep ==
  ASSUME Typed, NEW p \in Handlers, NEW r \in Request,
         req' = [req EXCEPT ![p] = r], WellFormed(r, inv),
         UNCHANGED <<inv, payments, ledger>>
  PROVE  Typed'
BY RequestStep DEF Typed, TypeOK

LEMMA TypedStep == Typed /\ [Next]_vars => Typed'
<1> SUFFICES ASSUME Typed, [Next]_vars PROVE Typed'
  OBVIOUS
<1>a. Amounts \subseteq Int /\ Ops \subseteq AllOps
  BY AccountAssumption
<1>0. CASE UNCHANGED vars
  BY <1>0 DEF vars, Typed, TypeOK
<1>1. ASSUME NEW p \in Handlers, NEW m \in Months, BillRead(p, m) PROVE Typed'
  <2> DEFINE r == [New("bill", "write", m, None) EXCEPT !.balance = LastBalance]
  <2>1. LastBalance \in Int
    BY LastBalanceInt DEF Typed
  <2>2. r \in Request /\ r.op = "bill" /\ r.pc = "write" /\ r.todo = {}
    BY <2>1 DEF New, Request, AllOps, Steps
  <2>3. WellFormed(r, inv)
    BY <2>2 DEF WellFormed, Reads
  <2>4. req' = [req EXCEPT ![p] = r] /\ UNCHANGED <<inv, payments, ledger>>
    BY <1>1 DEF BillRead
  <2> QED
    BY <2>2, <2>3, <2>4, OwnStep
<1>2. ASSUME NEW p \in Handlers, NEW m \in Months, NEW a \in Amounts, PayRead(p, m, a) PROVE Typed'
  <2> DEFINE r == [New("pay", "record", m, inv[m]) EXCEPT !.amount = a]
  <2>1. inv[m] \in Invoice /\ inv[m] # None
    BY <1>2, NotNone DEF PayRead, Typed, TypeOK, Exists
  <2>2. /\ r \in Request /\ r.op = "pay" /\ r.pc = "record" /\ r.todo = {}
        /\ r.m = m /\ r.doc = inv[m] /\ r.amount = a
    BY <1>a, <2>1 DEF New, Request, AllOps, Steps
  <2>3. WellFormed(r, inv)
    BY <2>1, <2>2 DEF WellFormed, Reads
  <2>4. req' = [req EXCEPT ![p] = r] /\ UNCHANGED <<inv, payments, ledger>>
    BY <1>2 DEF PayRead
  <2> QED
    BY <2>2, <2>3, <2>4, OwnStep
<1>3. ASSUME NEW p \in Handlers, NEW m \in Months,
             NEW op \in {"reading", "void", "send", "proforma", "update"}, Read(p, op, m)
      PROVE  Typed'
  <2> DEFINE r == New(op, "write", m, inv[m])
  <2>1. inv[m] \in Invoice /\ inv[m] # None
    BY <1>3, NotNone DEF Read, Typed, TypeOK, Exists
  <2>2. /\ r \in Request /\ r.op = op /\ r.pc = "write" /\ r.todo = {}
        /\ r.m = m /\ r.doc = inv[m]
    BY <2>1 DEF New, Request, AllOps, Steps
  <2>3. WellFormed(r, inv)
    BY <2>1, <2>2 DEF WellFormed, Reads
  <2>4. req' = [req EXCEPT ![p] = r] /\ UNCHANGED <<inv, payments, ledger>>
    BY <1>3 DEF Read
  <2> HIDE DEF r
  <2> QED
    BY <2>2, <2>3, <2>4, OwnStep
<1>4. ASSUME NEW p \in Handlers, NEW a \in Amounts, DepositRead(p, a) PROVE Typed'
  <2> DEFINE r == [New("deposit", "record", 1, None) EXCEPT !.amount = a]
  <2>1. 1 \in Months
    BY AccountAssumption DEF Months
  <2>2. r \in Request /\ r.op = "deposit" /\ r.pc = "record" /\ r.todo = {} /\ r.amount = a
    BY <1>a, <2>1 DEF New, Request, AllOps, Steps
  <2>3. WellFormed(r, inv)
    BY <2>2 DEF WellFormed, Reads
  <2>4. req' = [req EXCEPT ![p] = r] /\ UNCHANGED <<inv, payments, ledger>>
    BY <1>4 DEF DepositRead
  <2> QED
    BY <2>2, <2>3, <2>4, OwnStep
<1>5. ASSUME NEW p \in Handlers, BillInsert(p) PROVE Typed'
  <2> DEFINE carried == CarriedForward(req[p].balance)
             d == [status |-> "draft", total |-> Rent + carried, paid |-> 0,
                   due |-> Rent + carried, carried |-> carried,
                   pending |-> Usage > 0, category |-> FALSE]
  <2>1. req[p] \in Request
    BY <1>5 DEF BillInsert, At, Typed, TypeOK
  <2>2. carried \in Nat
    BY <2>1, RequestFields DEF CarriedForward
  <2>3. d \in Invoice
    BY <2>2, AccountAssumption DEF Invoice, InvoiceStatus
  <2> HIDE DEF d
  <2>4. /\ inv' = IF Exists(req[p].m) THEN inv ELSE [inv EXCEPT ![req[p].m] = d]
        /\ Done(p) /\ UNCHANGED <<payments, ledger>>
    BY <1>5 DEF BillInsert, d
  <2>5. /\ inv' \in [Months -> Invoice \cup {None}]
        /\ \A m \in Months : inv[m] # None => inv'[m] # None
    BY <2>1, <2>3, <2>4, NotNone DEF Typed, TypeOK
  <2> QED
    BY <2>4, <2>5, EndStep DEF Typed, TypeOK
<1>6. ASSUME NEW p \in Handlers, Receive(p) PROVE Typed'
  <2> DEFINE r == [req[p] EXCEPT !.pc = "balance"]
             paid == [amount |-> req[p].amount, invoice |-> req[p].op = "pay"]
  <2>1. req[p] \in Request /\ req[p].pc = "record" /\ WellFormed(req[p], inv)
    BY <1>6 DEF Receive, Typed, TypeOK
  <2>2. /\ r \in Request /\ r.pc = "balance"
        /\ r.op = req[p].op /\ r.m = req[p].m /\ r.doc = req[p].doc
        /\ r.amount = req[p].amount /\ r.todo = req[p].todo
    BY <2>1 DEF Request, Steps
  <2>3. WellFormed(r, inv)
    BY <2>1, <2>2 DEF WellFormed, Reads
  <2>4. paid \in Payment
    BY <2>1 DEF WellFormed, Payment
  <2>5. payments' = Append(payments, paid) /\ Len(payments) < MaxPayments
    BY <1>6 DEF Receive
  <2> HIDE DEF paid
  <2>6. payments' \in Seq(Payment) /\ Len(payments') = Len(payments) + 1
    BY <2>4, <2>5 DEF Typed, TypeOK
  <2>7. Len(payments') <= MaxPayments
    BY <2>5, <2>6, AccountAssumption DEF Typed, TypeOK
  <2>8. req' = [req EXCEPT ![p] = r] /\ UNCHANGED <<inv, ledger>>
    BY <1>6 DEF Receive, Goto
  <2> QED
    BY <2>2, <2>3, <2>6, <2>7, <2>8, RequestStep DEF Typed, TypeOK
<1>7. ASSUME NEW p \in Handlers, ReadBalance(p) PROVE Typed'
  <2> DEFINE r == [req[p] EXCEPT !.pc = "post", !.balance = LastBalance]
  <2>1. req[p] \in Request /\ req[p].pc = "balance" /\ WellFormed(req[p], inv)
    BY <1>7 DEF ReadBalance, Typed, TypeOK
  <2>2. LastBalance \in Int
    BY LastBalanceInt DEF Typed
  <2>3. /\ r \in Request /\ r.pc = "post"
        /\ r.op = req[p].op /\ r.m = req[p].m /\ r.doc = req[p].doc
        /\ r.amount = req[p].amount /\ r.todo = req[p].todo
    BY <2>1, <2>2 DEF Request, Steps
  <2>4. WellFormed(r, inv)
    BY <2>1, <2>3 DEF WellFormed, Reads
  <2>5. req' = [req EXCEPT ![p] = r] /\ UNCHANGED <<inv, payments, ledger>>
    BY <1>7 DEF ReadBalance
  <2> QED
    BY <2>3, <2>4, <2>5, OwnStep
<1>8. ASSUME NEW p \in Handlers, Post(p) PROVE Typed'
  <2> DEFINE e == [amount |-> req[p].amount, invoice |-> req[p].op = "pay", balance |-> Balance(p)]
             r == [req[p] EXCEPT !.pc = "list"]
  <2>1. req[p] \in Request /\ req[p].pc = "post" /\ WellFormed(req[p], inv)
    BY <1>8 DEF Post, Typed, TypeOK
  <2>2. e \in Entry
    BY <2>1, RequestFields DEF WellFormed, Entry, Balance
  <2>3. ledger' = Append(ledger, e) /\ UNCHANGED <<inv, payments>>
    BY <1>8 DEF Post
  <2> HIDE DEF e
  <2>4. ledger' \in Seq(Entry)
    BY <2>2, <2>3 DEF Typed, TypeOK
  <2>5. CASE req[p].op = "pay"
    <3>1. /\ r \in Request /\ r.pc = "list"
          /\ r.op = req[p].op /\ r.m = req[p].m /\ r.doc = req[p].doc
          /\ r.amount = req[p].amount /\ r.todo = req[p].todo
      BY <2>1 DEF Request, Steps
    <3>2. WellFormed(r, inv)
      BY <2>1, <2>5, <3>1 DEF WellFormed, Reads
    <3>3. req' = [req EXCEPT ![p] = r]
      BY <1>8, <2>5 DEF Post, Goto
    <3> QED
      BY <2>3, <2>4, <3>1, <3>2, <3>3, RequestStep DEF Typed, TypeOK
  <2>6. CASE req[p].op # "pay"
    BY <1>8, <2>3, <2>4, <2>6, EndStep DEF Post, Typed, TypeOK
  <2> QED
    BY <2>5, <2>6
<1>9. ASSUME NEW p \in Handlers, List(p) PROVE Typed'
  <2> DEFINE t == Named(p) \cup {[m |-> m, doc |-> inv[m], listed |-> TRUE] : m \in Outstanding}
             r == [req[p] EXCEPT !.pc = "apply", !.todo = t]
  <2>1. req[p] \in Request /\ req[p].pc = "list" /\ req[p].op = "pay" /\ WellFormed(req[p], inv)
    BY <1>9 DEF List, At, Typed, TypeOK
  <2>2. req[p].m \in Months /\ req[p].doc \in Invoice /\ inv[req[p].m] # None
    BY <2>1, RequestFields DEF WellFormed, Reads
  <2>3. ASSUME NEW e \in t PROVE e \in Copy /\ inv[e.m] # None
    <3>1. CASE e \in Named(p)
      <4>1. e = [m |-> req[p].m, doc |-> req[p].doc, listed |-> FALSE]
        BY <3>1 DEF Named
      <4> QED
        BY <2>2, <4>1 DEF Copy
    <3>2. CASE e \notin Named(p)
      <4>1. PICK m \in Outstanding : e = [m |-> m, doc |-> inv[m], listed |-> TRUE]
        BY <3>2
      <4>2. m \in Months /\ inv[m] \in Invoice /\ inv[m] # None
        BY DEF Outstanding, Exists, Typed, TypeOK
      <4> QED
        BY <4>1, <4>2 DEF Copy
    <3> QED
      BY <3>1, <3>2
  <2>4. t \in SUBSET Copy
    BY <2>3
  <2> HIDE DEF t
  <2>5. /\ r \in Request /\ r.pc = "apply" /\ r.todo = t
        /\ r.op = req[p].op /\ r.m = req[p].m /\ r.doc = req[p].doc
    BY <2>1, <2>4 DEF Request, Steps
  <2>6. WellFormed(r, inv)
    BY <2>1, <2>3, <2>5 DEF WellFormed, Reads
  <2>7. req' = [req EXCEPT ![p] = r] /\ UNCHANGED <<inv, payments, ledger>>
    BY <1>9 DEF List, t
  <2> QED
    BY <2>5, <2>6, <2>7, OwnStep
<1>10. ASSUME NEW p \in Handlers, Apply(p) PROVE Typed'
  <2>1. /\ req[p] \in Request /\ req[p].pc = "apply" /\ req[p].op = "pay"
        /\ WellFormed(req[p], inv)
    BY <1>10 DEF Apply, At, Typed, TypeOK
  <2>2. PICK e \in Foremost(req[p].todo) :
          LET d == e.doc
              share == Share(req[p].amount, d.due)
              due == IF d.total - d.paid - share > 0 THEN d.total - d.paid - share ELSE 0 IN
          /\ inv' = [inv EXCEPT ![e.m].paid = d.paid + share, ![e.m].due = due,
                                ![e.m].status = IF Settled(due) THEN "paid" ELSE "partial_paid"]
          /\ req' = [req EXCEPT ![p].amount = @ - share, ![p].todo = @ \ {e}]
    BY <1>10 DEF Apply
  <2> DEFINE share == Share(req[p].amount, e.doc.due)
             left == e.doc.total - e.doc.paid - share
             due == IF left > 0 THEN left ELSE 0
             d == [inv[e.m] EXCEPT !.paid = e.doc.paid + share, !.due = due,
                                   !.status = IF Settled(due) THEN "paid" ELSE "partial_paid"]
             r == [req[p] EXCEPT !.amount = req[p].amount - share, !.todo = req[p].todo \ {e}]
  <2>3. e \in req[p].todo /\ e \in Copy /\ e.m \in Months /\ e.doc \in Invoice /\ inv[e.m] \in Invoice
    BY <2>1, RequestFields DEF Foremost, Copy, WellFormed, Typed, TypeOK
  <2>4. share \in Int /\ left \in Int /\ due \in Int /\ e.doc.paid + share \in Int
        /\ req[p].amount - share \in Int
    BY <2>1, <2>3, RequestFields, InvoiceFields DEF Share
  <2> HIDE DEF share, due
  <2>5. d \in Invoice
    <3>1. (IF Settled(due) THEN "paid" ELSE "partial_paid") \in InvoiceStatus
      BY DEF InvoiceStatus
    <3> HIDE DEF Settled
    <3> QED
      BY <2>3, <2>4, <3>1 DEF Invoice
  <2>6. r \in Request /\ r.pc = "apply" /\ r.op = "pay" /\ r.todo \subseteq req[p].todo
        /\ r.m = req[p].m /\ r.doc = req[p].doc
    <3>1. req[p].todo \ {e} \in SUBSET Copy
      BY <2>1, RequestFields
    <3> QED
      BY <2>1, <2>4, <3>1 DEF Request
  <2>7. inv' = [inv EXCEPT ![e.m] = d] /\ req' = [req EXCEPT ![p] = r]
    BY <2>2 DEF share, due
  <2>8. UNCHANGED <<payments, ledger>>
    BY <1>10 DEF Apply
  <2> HIDE DEF d, r
  <2>9. /\ inv' \in [Months -> Invoice \cup {None}]
        /\ \A m \in Months : inv[m] # None => inv'[m] # None
    BY <2>3, <2>5, <2>7, NotNone DEF Typed, TypeOK
  <2>10. WellFormed(r, inv')
    BY <2>1, <2>6, <2>9, RequestFields DEF WellFormed, Reads, Copy
  <2> QED
    BY <2>6, <2>7, <2>8, <2>9, <2>10, RequestStep DEF Typed, TypeOK
<1>11. ASSUME NEW p \in Handlers, ApplyEnds(p) \/ Crash(p) PROVE Typed'
  BY <1>11, EndStep DEF ApplyEnds, Crash, Typed, TypeOK
<1>12. ASSUME NEW p \in Handlers,
              Reading(p) \/ Void(p) \/ Send(p) \/ Proforma(p) \/ Update(p)
       PROVE  Typed'
  <2>1. /\ req[p] \in Request /\ req[p] # Idle /\ Reads(req[p])
        /\ Done(p) /\ UNCHANGED <<payments, ledger>>
    BY <1>12 DEF Reading, Void, Send, Proforma, Update, At, Reads, Typed, TypeOK
  <2> DEFINE m == req[p].m
  <2>2. m \in Months /\ req[p].doc \in Invoice /\ inv[m] \in Invoice
    BY <2>1, RequestFields DEF WellFormed, Typed, TypeOK
  <2>3. PICK d \in Invoice : inv' = [inv EXCEPT ![m] = d]
    <3>1. CASE UNCHANGED inv
      BY <2>2, <3>1 DEF Typed, TypeOK
    <3>2. ASSUME NEW s \in InvoiceStatus, inv' = [inv EXCEPT ![m].status = s]
          PROVE  \E d \in Invoice : inv' = [inv EXCEPT ![m] = d]
      <4>1. [inv[m] EXCEPT !.status = s] \in Invoice
        BY <2>2 DEF Invoice
      <4> QED
        BY <3>2, <4>1
    <3>3. CASE Reading(p)
      <4> DEFINE total == IF req[p].doc.pending THEN req[p].doc.total + Usage ELSE req[p].doc.total
                 s == IF req[p].doc.status = "draft" THEN "ready" ELSE req[p].doc.status
                 d == [inv[m] EXCEPT !.pending = FALSE, !.total = total,
                         !.due = total - AmountPaid(req[p].doc), !.status = s]
      <4>1. total \in Int /\ s \in InvoiceStatus /\ total - AmountPaid(req[p].doc) \in Int
        BY <2>2, InvoiceFields, AccountAssumption DEF AmountPaid, InvoiceStatus
      <4>2. d \in Invoice
        BY <2>2, <4>1 DEF Invoice
      <4>3. inv' = [inv EXCEPT ![m] = d]
        BY <3>3 DEF Reading
      <4> QED
        BY <4>2, <4>3
    <3>4. CASE Proforma(p)
      <4>1. [req[p].doc EXCEPT !.category = TRUE] \in Invoice
        BY <2>2 DEF Invoice
      <4> QED
        BY <3>1, <3>4, <4>1 DEF Proforma, Put
    <3>5. CASE Void(p) \/ Send(p) \/ Update(p)
      BY <3>1, <3>2, <3>5, AccountAssumption DEF Void, Send, Update, InvoiceStatus
    <3> QED
      BY <1>12, <3>3, <3>4, <3>5
  <2>4. /\ inv' \in [Months -> Invoice \cup {None}]
        /\ \A k \in Months : inv[k] # None => inv'[k] # None
    BY <2>2, <2>3, NotNone DEF Typed, TypeOK
  <2> QED
    BY <2>1, <2>4, EndStep DEF Typed, TypeOK
<1> QED
  BY <1>0, <1>1, <1>2, <1>3, <1>4, <1>5, <1>6, <1>7, <1>8, <1>9, <1>10, <1>11, <1>12 DEF Next

(* Every field of an invoice, a payment, a ledger entry and a request has  *)
(* its type, whatever operations run, however they interleave.             *)
THEOREM TypesHold == Spec => []TypeOK
<1>1. Spec => []Typed
  BY TypedInit, TypedStep, PTL DEF Spec
<1>2. Typed => TypeOK
  BY DEF Typed
<1> QED
  BY <1>1, <1>2, PTL

-----------------------------------------------------------------------------
(***************************************************************************)
(* Received before posted.  A payment of an invoice is booked once, by the *)
(* handler that received it: b[i] is what the ledger holds of payment i,   *)
(* t[p] the payment that p has received and not yet posted.                *)
(***************************************************************************)
OfInvoice(e) == IF e.invoice THEN e.amount ELSE 0

Posting(r) == r # Idle /\ r.op = "pay" /\ r.pc \in {"balance", "post"}

BookedBy(b, t, received, entries, requests) ==
  /\ b \in [1..Len(received) -> Nat] /\ t \in [Handlers -> Nat]
  /\ \A i \in 1..Len(received) : b[i] <= OfInvoices(received)[i]
  /\ \A p \in Handlers : Posting(requests[p]) =>
       /\ t[p] \in 1..Len(received) /\ b[t[p]] = 0
       /\ OfInvoices(received)[t[p]] = requests[p].amount
  /\ \A p, q \in Handlers :
       Posting(requests[p]) /\ Posting(requests[q]) /\ t[p] = t[q] => p = q
  /\ Total(b, Len(received)) = Total(OfInvoices(entries), Len(entries))

Booked == \E b, t : BookedBy(b, t, payments, ledger, req)

LEMMA OfInvoicesType ==
  ASSUME NEW T, NEW s \in Seq(T), \A x \in T : OfInvoice(x) \in Nat
  PROVE  /\ Len(s) \in Nat
         /\ \A i \in 1..Len(s) : OfInvoices(s)[i] \in Nat
BY DEF OfInvoices, OfInvoice

LEMMA OfInvoicesAppend ==
  ASSUME NEW T, NEW s \in Seq(T), \A x \in T : OfInvoice(x) \in Nat, NEW e \in T
  PROVE  /\ Len(Append(s, e)) = Len(s) + 1
         /\ \A i \in 1..Len(s) : OfInvoices(Append(s, e))[i] = OfInvoices(s)[i]
         /\ OfInvoices(Append(s, e))[Len(s) + 1] = OfInvoice(e)
         /\ Total(OfInvoices(Append(s, e)), Len(s) + 1)
              = Total(OfInvoices(s), Len(s)) + OfInvoice(e)
<1>1. /\ Len(s) \in Nat /\ Append(s, e) \in Seq(T) /\ Len(Append(s, e)) = Len(s) + 1
      /\ \A i \in 1..Len(s) : Append(s, e)[i] = s[i]
      /\ Append(s, e)[Len(s) + 1] = e
  OBVIOUS
<1>2. /\ \A i \in 1..Len(s) : OfInvoices(Append(s, e))[i] = OfInvoices(s)[i]
      /\ OfInvoices(Append(s, e))[Len(s) + 1] = OfInvoice(e)
  BY <1>1 DEF OfInvoices, OfInvoice
<1>3. \A i \in 1..Len(s) : OfInvoices(s)[i] \in Int
  BY OfInvoicesType
<1> DEFINE a == OfInvoices(s)
           b == OfInvoices(Append(s, e))
           n == Len(s)
<1>4. n \in Nat /\ (\A i \in 1..n : a[i] \in Int /\ b[i] = a[i]) /\ b[n + 1] \in Int
  BY <1>1, <1>2, <1>3
<1> HIDE DEF a, b, n
<1>5. Total(b, n + 1) = Total(a, n) + b[n + 1]
  BY <1>4, TotalAppend
<1> QED
  BY <1>1, <1>2, <1>5 DEF a, b, n

LEMMA AmountsOfInvoices ==
  (\A x \in Payment : OfInvoice(x) \in Nat) /\ (\A x \in Entry : OfInvoice(x) \in Nat)
BY AccountAssumption DEF OfInvoice, Payment, Entry

(* A step is Receive, Post, or one that neither receives nor posts, and    *)
(* after which its handler still posts what it was posting, or nothing.    *)
LEMMA PostingStep ==
  ASSUME Typed, Next
  PROVE  \E p \in Handlers :
           /\ \A q \in Handlers \ {p} : req'[q] = req[q]
           /\ \/ Receive(p)
              \/ Post(p)
              \/ /\ UNCHANGED <<payments, ledger>>
                 /\ Posting(req'[p]) => Posting(req[p]) /\ req'[p].amount = req[p].amount
<1> USE DEF Typed, TypeOK
<1>1. ASSUME NEW p \in Handlers, NEW m \in Months,
             \/ BillRead(p, m)
             \/ \E a \in Amounts : PayRead(p, m, a) \/ DepositRead(p, a)
             \/ \E op \in {"reading", "void", "send", "proforma", "update"} : Read(p, op, m)
      PROVE  /\ \A q \in Handlers \ {p} : req'[q] = req[q]
             /\ UNCHANGED <<payments, ledger>> /\ ~Posting(req'[p])
  BY <1>1 DEF BillRead, PayRead, DepositRead, Read, New, Posting
<1>2. ASSUME NEW p \in Handlers,
             \/ BillInsert(p) \/ ApplyEnds(p) \/ Reading(p) \/ Void(p) \/ Send(p)
             \/ Proforma(p) \/ Update(p) \/ Crash(p)
      PROVE  /\ \A q \in Handlers \ {p} : req'[q] = req[q]
             /\ UNCHANGED <<payments, ledger>> /\ ~Posting(req'[p])
  BY <1>2 DEF BillInsert, ApplyEnds, Reading, Void, Send, Proforma, Update, Crash, Done, Posting
<1>3. ASSUME NEW p \in Handlers, ReadBalance(p)
      PROVE  /\ \A q \in Handlers \ {p} : req'[q] = req[q]
             /\ UNCHANGED <<payments, ledger>>
             /\ Posting(req'[p]) => Posting(req[p]) /\ req'[p].amount = req[p].amount
  <2> DEFINE r == [req[p] EXCEPT !.pc = "post", !.balance = LastBalance]
  <2>1. req[p] \in Request /\ req[p].pc = "balance" /\ req[p] # Idle
    BY <1>3 DEF ReadBalance
  <2>2. r.amount = req[p].amount /\ r.op = req[p].op
    BY <2>1 DEF Request
  <2>3. req' = [req EXCEPT ![p] = r] /\ UNCHANGED <<payments, ledger>>
    BY <1>3 DEF ReadBalance
  <2> HIDE DEF r
  <2> QED
    BY <2>1, <2>2, <2>3 DEF Posting
<1>4. ASSUME NEW p \in Handlers, List(p)
      PROVE  /\ \A q \in Handlers \ {p} : req'[q] = req[q]
             /\ UNCHANGED <<payments, ledger>> /\ ~Posting(req'[p])
  <2> DEFINE t == Named(p) \cup {[m |-> m, doc |-> inv[m], listed |-> TRUE] : m \in Outstanding}
             r == [req[p] EXCEPT !.pc = "apply", !.todo = t]
  <2>1. req[p] \in Request
    BY <1>4 DEF List, At
  <2>2. r.pc = "apply"
    BY <2>1 DEF Request
  <2>3. req' = [req EXCEPT ![p] = r] /\ UNCHANGED <<payments, ledger>>
    BY <1>4 DEF List
  <2> HIDE DEF r
  <2> QED
    BY <2>2, <2>3 DEF Posting
<1>5. ASSUME NEW p \in Handlers, Apply(p)
      PROVE  /\ \A q \in Handlers \ {p} : req'[q] = req[q]
             /\ UNCHANGED <<payments, ledger>> /\ ~Posting(req'[p])
  BY <1>5 DEF Apply, At, Posting, Request
<1>6. ASSUME NEW p \in Handlers, Receive(p) \/ Post(p)
      PROVE  \A q \in Handlers \ {p} : req'[q] = req[q]
  BY <1>6 DEF Receive, Post, Goto, Done
<1>7. 1 \in Months
  BY AccountAssumption DEF Months
<1> QED
  BY <1>1, <1>2, <1>3, <1>4, <1>5, <1>6, <1>7 DEF Next

LEMMA BookedInit == Init => Booked
<1> SUFFICES ASSUME Init PROVE Booked
  OBVIOUS
<1> DEFINE none == [i \in 1..Len(payments) |-> 0]
           nobody == [p \in Handlers |-> 0]
<1>1. Len(payments) = 0 /\ Len(ledger) = 0 /\ \A p \in Handlers : ~Posting(req[p])
  BY DEF Init, Posting
<1>2. Total(none, 0) = 0 /\ Total(OfInvoices(ledger), 0) = 0
  BY TotalStep
<1>3. BookedBy(none, nobody, payments, ledger, req)
  BY <1>1, <1>2 DEF BookedBy
<1> QED
  BY <1>3 DEF Booked

LEMMA BookedStep == Typed /\ Booked /\ [Next]_vars => Booked'
<1> SUFFICES ASSUME Typed, Booked, [Next]_vars PROVE Booked'
  OBVIOUS
<1>1. CASE UNCHANGED vars
  BY <1>1 DEF Booked, vars
<1>2. CASE Next
  <2>1. PICK p \in Handlers :
           /\ \A q \in Handlers \ {p} : req'[q] = req[q]
           /\ \/ Receive(p)
              \/ Post(p)
              \/ /\ UNCHANGED <<payments, ledger>>
                 /\ Posting(req'[p]) => Posting(req[p]) /\ req'[p].amount = req[p].amount
    BY <1>2, PostingStep
  <2>2. PICK b, t : BookedBy(b, t, payments, ledger, req)
    BY DEF Booked
  <2> DEFINE n == Len(payments)
  <2>3. /\ n \in Nat /\ (\A i \in 1..n : OfInvoices(payments)[i] \in Nat)
        /\ payments \in Seq(Payment) /\ ledger \in Seq(Entry)
    BY AmountsOfInvoices, OfInvoicesType DEF Typed, TypeOK
  <2>b. /\ b \in [1..n -> Nat]
        /\ \A i \in 1..n : b[i] \in Nat /\ b[i] <= OfInvoices(payments)[i]
    BY <2>2 DEF BookedBy
  <2>4. CASE /\ UNCHANGED <<payments, ledger>>
             /\ Posting(req'[p]) => Posting(req[p]) /\ req'[p].amount = req[p].amount
    <3>1. \A q \in Handlers : Posting(req'[q]) => Posting(req[q]) /\ req'[q].amount = req[q].amount
      BY <2>1, <2>4
    <3>2. BookedBy(b, t, payments', ledger', req')
      BY <2>2, <2>4, <3>1 DEF BookedBy
    <3> QED
      BY <3>2 DEF Booked
  <2>5. CASE Receive(p)
    <3> DEFINE paid == [amount |-> req[p].amount, invoice |-> req[p].op = "pay"]
               b2 == [i \in 1..(n + 1) |-> IF i <= n THEN b[i] ELSE 0]
               t2 == [t EXCEPT ![p] = n + 1]
    <3>1. req[p] \in Request /\ req[p].pc = "record" /\ WellFormed(req[p], inv)
      BY <2>5 DEF Receive, Typed, TypeOK
    <3>2. paid \in Payment
      BY <3>1 DEF WellFormed, Payment
    <3>3. payments' = Append(payments, paid) /\ UNCHANGED ledger
      BY <2>5 DEF Receive
    <3>4. req'[p].amount = req[p].amount /\ (Posting(req'[p]) => req[p].op = "pay")
      BY <2>5, <3>1 DEF Receive, Goto, Posting, Request, Typed, TypeOK
    <3>5. OfInvoice(paid) \in Nat /\ (req[p].op = "pay" => OfInvoice(paid) = req[p].amount)
      BY <3>2, AmountsOfInvoices DEF OfInvoice
    <3> HIDE DEF paid
    <3>6. /\ Len(payments') = n + 1
          /\ \A i \in 1..n : OfInvoices(payments')[i] = OfInvoices(payments)[i]
          /\ OfInvoices(payments')[n + 1] = OfInvoice(paid)
      BY <2>3, <3>2, <3>3, AmountsOfInvoices, OfInvoicesAppend
    <3>7. Total(b2, n + 1) = Total(b, n)
      <4>1. \A i \in 1..n : b[i] \in Int /\ b2[i] = b[i]
        BY <2>3, <2>b
      <4>2. b2[n + 1] = 0
        BY <2>3
      <4>3. Total(b, n) \in Int
        BY <2>3, <4>1, TotalType
      <4> HIDE DEF b2, n
      <4>4. n \in Nat /\ (\A i \in 1..n : b[i] \in Int /\ b2[i] = b[i]) /\ b2[n + 1] \in Int
        BY <2>3, <4>1, <4>2
      <4>5. Total(b2, n + 1) = Total(b, n) + b2[n + 1]
        BY <4>4, TotalAppend
      <4> QED
        BY <4>2, <4>3, <4>5
    <3>8. BookedBy(b2, t2, payments', ledger', req')
      <4>1. b2 \in [1..(n + 1) -> Nat] /\ t2 \in [Handlers -> Nat]
        BY <2>2, <2>3 DEF BookedBy
      <4>2. \A i \in 1..(n + 1) : b2[i] <= OfInvoices(payments')[i]
        BY <2>2, <2>3, <3>5, <3>6 DEF BookedBy
      <4>3. ASSUME NEW q \in Handlers, Posting(req'[q])
            PROVE  /\ t2[q] \in 1..(n + 1) /\ b2[t2[q]] = 0
                   /\ OfInvoices(payments')[t2[q]] = req'[q].amount
                   /\ q # p => Posting(req[q]) /\ t2[q] = t[q] /\ t2[q] <= n
        BY <2>1, <2>2, <2>3, <3>4, <3>5, <3>6, <4>3 DEF BookedBy
      <4>4. ASSUME NEW q1 \in Handlers, NEW q2 \in Handlers,
                   Posting(req'[q1]), Posting(req'[q2]), t2[q1] = t2[q2]
            PROVE  q1 = q2
        <5>1. (q1 # p => t[q1] = t2[q1] /\ t2[q1] <= n) /\ (q2 # p => t[q2] = t2[q2] /\ t2[q2] <= n)
          BY <4>3, <4>4
        <5>2. t2[p] = n + 1
          BY <2>2 DEF BookedBy
        <5>3. q1 # p /\ q2 # p => q1 = q2
          BY <2>2, <4>3, <4>4, <5>1 DEF BookedBy
        <5> QED
          BY <2>3, <4>4, <5>1, <5>2, <5>3
      <4> QED
        BY <2>2, <3>3, <3>6, <3>7, <4>1, <4>2, <4>3, <4>4 DEF BookedBy
    <3> QED
      BY <3>8 DEF Booked
  <2>6. CASE Post(p)
    <3> DEFINE e == [amount |-> req[p].amount, invoice |-> req[p].op = "pay", balance |-> Balance(p)]
    <3>1. req[p] \in Request /\ req[p].pc = "post" /\ WellFormed(req[p], inv)
      BY <2>6 DEF Post, Typed, TypeOK
    <3>2. e \in Entry
      BY <3>1, RequestFields DEF WellFormed, Entry, Balance
    <3>3. ledger' = Append(ledger, e) /\ UNCHANGED payments
      BY <2>6 DEF Post
    <3>4. OfInvoice(e) \in Nat /\ OfInvoice(e) = IF req[p].op = "pay" THEN req[p].amount ELSE 0
      BY <3>2, AmountsOfInvoices DEF OfInvoice
    <3>5. ~Posting(req'[p])
      BY <2>6, <3>1 DEF Post, Goto, Done, Posting, Request, Typed, TypeOK
    <3> HIDE DEF e
    <3>6. Total(OfInvoices(ledger'), Len(ledger')) = Total(b, n) + OfInvoice(e)
      BY <2>2, <2>3, <3>2, <3>3, AmountsOfInvoices, OfInvoicesAppend DEF BookedBy
    <3>7. CASE req[p].op = "pay"
      <4> DEFINE b2 == [b EXCEPT ![t[p]] = OfInvoice(e)]
      <4>1. /\ t[p] \in 1..n /\ b[t[p]] = 0
            /\ OfInvoices(payments)[t[p]] = OfInvoice(e) /\ Posting(req[p])
        BY <2>2, <3>1, <3>4, <3>7, NotIdle DEF BookedBy, Posting
      <4>2. Total(b2, n) = Total(b, n) + OfInvoice(e)
        <5> DEFINE d == OfInvoice(e)
                   j == t[p]
        <5>1. n \in Nat /\ j \in 1..n /\ d \in Int
          BY <2>3, <3>4, <4>1
        <5>2. \A i \in 1..n : b[i] \in Int /\ b2[i] = IF i = j THEN b[i] + d ELSE b[i]
          BY <2>b, <3>4, <4>1
        <5> HIDE DEF b2, n, d, j
        <5>3. Total(b2, n) = Total(b, n) + d
          BY <5>1, <5>2, TotalUpdate
        <5> QED
          BY <5>3 DEF d
      <4>3. BookedBy(b2, t, payments', ledger', req')
        <5>1. b2 \in [1..n -> Nat] /\ \A i \in 1..n : b2[i] <= OfInvoices(payments)[i]
          BY <2>3, <2>b, <3>4, <4>1
        <5>2. ASSUME NEW q \in Handlers, Posting(req'[q])
              PROVE  /\ q # p /\ Posting(req[q]) /\ req'[q] = req[q]
                     /\ t[q] # t[p] /\ b2[t[q]] = b[t[q]]
          BY <2>1, <2>2, <3>5, <4>1, <5>2 DEF BookedBy
        <5> QED
          BY <2>2, <3>3, <3>6, <4>2, <5>1, <5>2 DEF BookedBy
      <4> QED
        BY <4>3 DEF Booked
    <3>8. CASE req[p].op # "pay"
      <4>1. Total(b, n) + OfInvoice(e) = Total(b, n)
        <5>1. Total(b, n) \in Int
          BY <2>3, <2>b, TotalType
        <5> QED
          BY <3>4, <3>8, <5>1
      <4>2. \A q \in Handlers : Posting(req'[q]) => Posting(req[q]) /\ req'[q] = req[q]
        BY <2>1, <3>5
      <4>3. BookedBy(b, t, payments', ledger', req')
        BY <2>2, <3>3, <3>6, <4>1, <4>2 DEF BookedBy
      <4> QED
        BY <4>3 DEF Booked
    <3> QED
      BY <3>7, <3>8
  <2> QED
    BY <2>1, <2>4, <2>5, <2>6
<1> QED
  BY <1>1, <1>2

LEMMA BookedSums == Typed /\ Booked => PostedTotal <= ReceivedTotal
<1> SUFFICES ASSUME Typed, Booked PROVE PostedTotal <= ReceivedTotal
  OBVIOUS
<1>1. PICK b, t : BookedBy(b, t, payments, ledger, req)
  BY DEF Booked
<1>2. /\ Len(payments) \in Nat
      /\ \A i \in 1..Len(payments) :
           b[i] \in Int /\ OfInvoices(payments)[i] \in Int /\ b[i] <= OfInvoices(payments)[i]
  <2>1. /\ Len(payments) \in Nat
        /\ \A i \in 1..Len(payments) : OfInvoices(payments)[i] \in Nat
    BY AmountsOfInvoices, OfInvoicesType DEF Typed, TypeOK
  <2> QED
    BY <1>1, <2>1 DEF BookedBy
<1>3. Total(b, Len(payments)) <= Total(OfInvoices(payments), Len(payments))
  BY <1>2, TotalMonotone
<1> QED
  BY <1>1, <1>3 DEF BookedBy, PostedTotal, ReceivedTotal

(* However requests overlap or die, the ledger never holds more of the     *)
(* invoices' payments than was received.                                   *)
THEOREM PostedWasReceived == Spec => [](PostedTotal <= ReceivedTotal)
<1>1. Typed /\ Booked /\ [Next]_vars => (Typed /\ Booked)'
  BY TypedStep, BookedStep
<1>2. Init => Typed /\ Booked
  BY TypedInit, BookedInit
<1>3. Typed /\ Booked => PostedTotal <= ReceivedTotal
  BY BookedSums
<1> QED
  BY <1>1, <1>2, <1>3, PTL DEF Spec

-----------------------------------------------------------------------------
(***************************************************************************)
(* What a step does to the invoices, the ledger and its handler's request, *)
(* as far as the amounts and the statuses of the invoices depend on it.    *)
(***************************************************************************)
SameAmounts(d, f) == d.total = f.total /\ d.paid = f.paid /\ d.due = f.due

Paying(r) == r # Idle /\ r.pc \in {"list", "apply"}

Moves(from, to) == Rank(to) >= Rank(from) /\ (from = "paid" => to = "paid")

Begins(p) ==
  /\ req[p] = Idle /\ req'[p] # Idle /\ ~Paying(req'[p])
  /\ req'[p].todo = {}
  /\ Reads(req'[p]) => req'[p].doc = inv[req'[p].m] /\ inv[req'[p].m] # None
  /\ UNCHANGED <<inv, ledger>>

Continues(p) ==
  /\ req[p] # Idle /\ ~Paying(req[p]) /\ req'[p] # Idle /\ ~Paying(req'[p])
  /\ req'[p].op = req[p].op /\ req'[p].m = req[p].m /\ req'[p].doc = req[p].doc
  /\ req'[p].todo = {}
  /\ UNCHANGED <<inv, ledger>>

Posts(p) ==
  \E e \in Entry :
    /\ req[p] # Idle /\ ~Paying(req[p])
    /\ ledger' = Append(ledger, e) /\ UNCHANGED inv
    /\ req'[p] # Idle =>
         /\ req'[p].op = req[p].op /\ req'[p].m = req[p].m /\ req'[p].doc = req[p].doc
         /\ req'[p].todo = {} /\ req'[p].amount = OfInvoice(e)

Lists(p) ==
  /\ req[p] # Idle /\ Paying(req[p]) /\ req'[p] # Idle
  /\ req'[p].op = req[p].op /\ req'[p].m = req[p].m /\ req'[p].doc = req[p].doc
  /\ req'[p].amount = req[p].amount
  /\ \A e \in req'[p].todo :
       \/ e.m = req[p].m /\ e.doc = req[p].doc /\ Reads(req[p])
       \/ inv[e.m] # None /\ e.doc = inv[e.m]
  /\ req[p].pc = "list" /\ req'[p].pc = "apply"
  /\ \A e \in req'[p].todo : e.doc.status \notin {"paid", "void"}
  /\ \A e, f \in req'[p].todo : e.m = f.m => e = f
  /\ UNCHANGED <<inv, ledger>>

Applies(p) ==
  \E e \in req[p].todo, d \in Invoice, share \in Int :
    /\ Paying(req[p]) /\ req[p].amount > 0 /\ req'[p] # Idle
    /\ share = Share(req[p].amount, e.doc.due)
    /\ d.total = inv[e.m].total /\ d.paid = e.doc.paid + share
    /\ d.due = IF e.doc.total - e.doc.paid - share > 0 THEN e.doc.total - e.doc.paid - share ELSE 0
    /\ inv' = [inv EXCEPT ![e.m] = d] /\ UNCHANGED ledger
    /\ req'[p].op = req[p].op /\ req'[p].m = req[p].m /\ req'[p].doc = req[p].doc
    /\ req'[p].todo = req[p].todo \ {e}
    /\ req'[p].amount = req[p].amount - share
    /\ req'[p].pc = "apply" /\ d.status \in {"partial_paid", "paid"}

Finishes(p) ==
  /\ req[p] # Idle /\ req'[p] = Idle
  /\ UNCHANGED ledger
  /\ \/ UNCHANGED inv
     \/ \E m \in Months, d \in Invoice :
          /\ inv' = [inv EXCEPT ![m] = d]
          /\ \/ inv[m] # None /\ SameAmounts(d, inv[m])
             \/ Reads(req[p]) /\ m = req[p].m /\ SameAmounts(d, req[p].doc)
             \/ inv[m] = None /\ d.paid = 0 /\ d.due = d.total /\ d.total >= 0
             \/ /\ req[p].op = "reading" /\ m = req[p].m
                /\ d.paid = inv[m].paid /\ d.due = d.total - req[p].doc.paid
                /\ d.total >= req[p].doc.total
          /\ \/ inv[m] = None
             \/ req[p].op = "update"
             \/ /\ Reads(req[p]) /\ req[p].pc = "write" /\ m = req[p].m
                /\ Moves(req[p].doc.status, d.status)


Shaped(p) ==
  /\ \A q \in Handlers \ {p} : req'[q] = req[q]
  /\ \/ Begins(p) \/ Continues(p) \/ Posts(p) \/ Lists(p) \/ Applies(p) \/ Finishes(p)

LEMMA ShapedStep ==
  ASSUME Typed, Next
  PROVE  \E p \in Handlers : Shaped(p)
<1>a. Amounts \subseteq Int /\ 1 \in Months
  BY AccountAssumption DEF Months
<1>b. /\ req \in [Handlers -> Request \cup {Idle}]
      /\ \A m \in Months : inv[m] # None => inv[m] \in Invoice
      /\ \A p \in Handlers : req[p] # Idle =>
           req[p] \in Request /\ req[p].m \in Months /\ WellFormed(req[p], inv)
  BY RequestFields DEF Typed, TypeOK
<1>1. ASSUME NEW p \in Handlers, NEW m \in Months,
             \/ BillRead(p, m)
             \/ \E a \in Amounts : PayRead(p, m, a) \/ DepositRead(p, a)
             \/ \E op \in {"reading", "void", "send", "proforma", "update"} : Read(p, op, m)
      PROVE  Shaped(p)
  <2>1. /\ req'[p].todo = {} /\ req'[p].pc \in {"write", "record"}
        /\ Reads(req'[p]) => req'[p].doc = inv[req'[p].m] /\ inv[req'[p].m] # None
        /\ req[p] = Idle /\ \A q \in Handlers \ {p} : req'[q] = req[q]
        /\ UNCHANGED <<inv, ledger>>
    <3>1. CASE BillRead(p, m)
      BY <1>b, <3>1 DEF BillRead, New, Reads
    <3>2. CASE \E a \in Amounts : DepositRead(p, a)
      BY <1>b, <3>2 DEF DepositRead, New, Reads
    <3>3. CASE \E a \in Amounts : PayRead(p, m, a)
      BY <1>b, <3>3 DEF PayRead, New, Reads, Exists
    <3>4. CASE \E op \in {"reading", "void", "send", "proforma", "update"} : Read(p, op, m)
      BY <1>b, <3>4 DEF Read, New, Reads, Exists
    <3> QED
      BY <1>1, <3>1, <3>2, <3>3, <3>4
  <2>2. req'[p] # Idle /\ ~Paying(req'[p])
    BY <2>1 DEF Idle, Paying
  <2> QED
    BY <2>1, <2>2 DEF Shaped, Begins
<1>2. ASSUME NEW p \in Handlers, Receive(p) \/ ReadBalance(p) PROVE Shaped(p)
  <2>1. req[p] \in Request /\ req[p].pc # "apply" /\ req[p].todo = {}
    BY <1>b, <1>2 DEF Receive, ReadBalance, WellFormed
  <2> DEFINE r1 == [req[p] EXCEPT !.pc = "balance"]
             r2 == [req[p] EXCEPT !.pc = "post", !.balance = LastBalance]
  <2>2. /\ r1.op = req[p].op /\ r1.m = req[p].m /\ r1.doc = req[p].doc /\ r1.todo = {}
        /\ r1.pc = "balance"
        /\ r2.op = req[p].op /\ r2.m = req[p].m /\ r2.doc = req[p].doc /\ r2.todo = {}
        /\ r2.pc = "post"
    BY <2>1 DEF Request
  <2>3. /\ req' = [req EXCEPT ![p] = r1] \/ req' = [req EXCEPT ![p] = r2]
        /\ req[p] # Idle /\ ~Paying(req[p]) /\ UNCHANGED <<inv, ledger>>
    BY <1>2 DEF Receive, ReadBalance, Goto, Paying
  <2> HIDE DEF r1, r2
  <2>4. (r1 # Idle /\ ~Paying(r1)) /\ (r2 # Idle /\ ~Paying(r2))
    BY <2>2 DEF Idle, Paying
  <2> QED
    BY <1>b, <2>2, <2>3, <2>4 DEF Shaped, Continues
<1>3. ASSUME NEW p \in Handlers, Post(p) PROVE Shaped(p)
  <2> DEFINE e == [amount |-> req[p].amount, invoice |-> req[p].op = "pay", balance |-> Balance(p)]
             r == [req[p] EXCEPT !.pc = "list"]
  <2>1. /\ req[p] \in Request /\ req[p].pc = "post" /\ WellFormed(req[p], inv)
        /\ req[p] # Idle /\ ~Paying(req[p]) /\ req[p].todo = {}
    BY <1>b, <1>3 DEF Post, WellFormed, Paying
  <2>2. e \in Entry
    BY <2>1, RequestFields DEF WellFormed, Entry, Balance
  <2>3. OfInvoice(e) = IF req[p].op = "pay" THEN req[p].amount ELSE 0
    BY DEF OfInvoice
  <2>4. ledger' = Append(ledger, e) /\ UNCHANGED inv
    BY <1>3 DEF Post
  <2>5. /\ r.op = req[p].op /\ r.m = req[p].m /\ r.doc = req[p].doc /\ r.todo = {}
        /\ r.amount = req[p].amount
    BY <2>1 DEF Request
  <2>6. /\ req[p].op = "pay" => req' = [req EXCEPT ![p] = r]
        /\ req[p].op # "pay" => req' = [req EXCEPT ![p] = Idle]
    BY <1>3 DEF Post, Goto, Done
  <2> HIDE DEF e, r
  <2> QED
    BY <1>b, <2>1, <2>2, <2>3, <2>4, <2>5, <2>6 DEF Shaped, Posts
<1>4. ASSUME NEW p \in Handlers, List(p) PROVE Shaped(p)
  <2> DEFINE t == Named(p) \cup {[m |-> m, doc |-> inv[m], listed |-> TRUE] : m \in Outstanding}
             r == [req[p] EXCEPT !.pc = "apply", !.todo = t]
  <2>1. /\ req[p] \in Request /\ req[p].pc = "list" /\ req[p].op = "pay"
        /\ req[p] # Idle /\ Reads(req[p])
    BY <1>b, <1>4 DEF List, At, Reads
  <2>2. ASSUME NEW e \in t
        PROVE  \/ e.m = req[p].m /\ e.doc = req[p].doc
               \/ inv[e.m] # None /\ e.doc = inv[e.m]
    <3>1. CASE e \in Named(p)
      BY <3>1 DEF Named
    <3>2. CASE e \notin Named(p)
      BY <3>2 DEF Outstanding, Exists
    <3> QED
      BY <3>1, <3>2
  <2>a. ASSUME NEW e \in t
        PROVE  /\ e.doc.status \notin {"paid", "void"}
               /\ e.m \notin Outstanding => e \in Named(p)
               /\ e.m \in Outstanding => e = [m |-> e.m, doc |-> inv[e.m], listed |-> TRUE]
    <3>1. CASE e \in Named(p)
      BY <3>1 DEF Named
    <3>2. CASE e \notin Named(p)
      BY <3>2 DEF Outstanding, Collectable
    <3> QED
      BY <3>1, <3>2
  <2>b. ASSUME NEW e \in t, NEW f \in t, e.m = f.m PROVE e = f
    BY <2>a, <2>b DEF Named
  <2>3. /\ r.op = req[p].op /\ r.m = req[p].m /\ r.doc = req[p].doc /\ r.todo = t
        /\ r.amount = req[p].amount /\ r.pc = "apply"
    BY <2>1 DEF Request
  <2>4. req' = [req EXCEPT ![p] = r] /\ UNCHANGED <<inv, ledger>>
    BY <1>4 DEF List
  <2> HIDE DEF r, t
  <2>5. r # Idle
    BY <2>3 DEF Idle
  <2> QED
    BY <1>b, <2>1, <2>2, <2>a, <2>b, <2>3, <2>4, <2>5 DEF Shaped, Lists, Paying
<1>5. ASSUME NEW p \in Handlers, Apply(p) PROVE Shaped(p)
  <2>1. /\ req[p] \in Request /\ req[p].pc = "apply" /\ req[p] # Idle
        /\ WellFormed(req[p], inv) /\ req[p].amount > 0 /\ UNCHANGED ledger
    BY <1>b, <1>5 DEF Apply, At
  <2>2. PICK e \in Foremost(req[p].todo) :
          LET d == e.doc
              share == Share(req[p].amount, d.due)
              due == IF d.total - d.paid - share > 0 THEN d.total - d.paid - share ELSE 0 IN
          /\ inv' = [inv EXCEPT ![e.m].paid = d.paid + share, ![e.m].due = due,
                                ![e.m].status = IF Settled(due) THEN "paid" ELSE "partial_paid"]
          /\ req' = [req EXCEPT ![p].amount = @ - share, ![p].todo = @ \ {e}]
    BY <1>5 DEF Apply
  <2> DEFINE share == Share(req[p].amount, e.doc.due)
             due == IF e.doc.total - e.doc.paid - share > 0 THEN e.doc.total - e.doc.paid - share ELSE 0
             status == IF Settled(due) THEN "paid" ELSE "partial_paid"
             d == [inv[e.m] EXCEPT !.paid = e.doc.paid + share, !.due = due, !.status = status]
             r == [req[p] EXCEPT !.amount = req[p].amount - share, !.todo = req[p].todo \ {e}]
  <2>3. e \in req[p].todo /\ e \in Copy /\ e.m \in Months /\ e.doc \in Invoice /\ inv[e.m] \in Invoice
    BY <1>b, <2>1, RequestFields DEF Foremost, Copy, WellFormed
  <2>4. share \in Int /\ due \in Int /\ e.doc.paid + share \in Int
        /\ req[p].amount - share \in Int
    BY <2>1, <2>3, RequestFields, InvoiceFields DEF Share
  <2>5. status \in {"partial_paid", "paid"} /\ status \in InvoiceStatus
    BY DEF InvoiceStatus
  <2>6. inv' = [inv EXCEPT ![e.m] = d] /\ req' = [req EXCEPT ![p] = r]
    BY <2>2
  <2> HIDE DEF share, status
  <2>7. /\ d \in Invoice /\ d.total = inv[e.m].total /\ d.paid = e.doc.paid + share
        /\ d.due = due /\ d.status = status
    BY <2>3, <2>4, <2>5 DEF Invoice
  <2>8. /\ r.amount = req[p].amount - share /\ r.todo = req[p].todo \ {e}
        /\ r.op = req[p].op /\ r.m = req[p].m /\ r.doc = req[p].doc /\ r.pc = "apply"
    BY <2>1 DEF Request
  <2> HIDE DEF d, r
  <2>9. r # Idle
    BY <2>8 DEF Idle
  <2>10. req'[p] = r /\ \A q \in Handlers \ {p} : req'[q] = req[q]
    BY <1>b, <2>6
  <2>11. Applies(p)
    BY <2>1, <2>3, <2>4, <2>5, <2>6, <2>7, <2>8, <2>9, <2>10 DEF Applies, Paying, share
  <2> QED
    BY <2>10, <2>11 DEF Shaped
<1>6. ASSUME NEW p \in Handlers, ApplyEnds(p) \/ Crash(p) PROVE Shaped(p)
  BY <1>b, <1>6 DEF ApplyEnds, Crash, At, Done, Shaped, Finishes
<1>7. ASSUME NEW p \in Handlers, BillInsert(p) PROVE Shaped(p)
  <2> DEFINE carried == CarriedForward(req[p].balance)
             d == [status |-> "draft", total |-> Rent + carried, paid |-> 0,
                   due |-> Rent + carried, carried |-> carried,
                   pending |-> Usage > 0, category |-> FALSE]
  <2>1. req[p] \in Request /\ req[p] # Idle /\ req[p].m \in Months
    BY <1>b, <1>7 DEF BillInsert, At
  <2>2. carried \in Nat
    BY <2>1, RequestFields DEF CarriedForward
  <2>3. d \in Invoice /\ d.paid = 0 /\ d.due = d.total /\ d.total >= 0
    BY <2>2, AccountAssumption DEF Invoice, InvoiceStatus
  <2> HIDE DEF d
  <2>4. /\ inv' = IF inv[req[p].m] # None THEN inv ELSE [inv EXCEPT ![req[p].m] = d]
        /\ Done(p) /\ UNCHANGED ledger
    BY <1>7 DEF BillInsert, d, Exists
  <2> QED
    BY <1>b, <2>1, <2>3, <2>4 DEF Shaped, Finishes, Done
<1>8. ASSUME NEW p \in Handlers, Reading(p) \/ Void(p) \/ Send(p) \/ Proforma(p) \/ Update(p)
      PROVE  Shaped(p)
  <2>1. /\ req[p] \in Request /\ req[p] # Idle /\ Reads(req[p]) /\ req[p].pc = "write"
        /\ Done(p) /\ UNCHANGED ledger
    BY <1>b, <1>8 DEF Reading, Void, Send, Proforma, Update, At, Reads
  <2> DEFINE m == req[p].m
  <2>2. m \in Months /\ req[p].doc \in Invoice /\ inv[m] \in Invoice /\ inv[m] # None
    BY <1>b, <2>1 DEF WellFormed
  <2>3. ASSUME NEW s \in InvoiceStatus, inv' = [inv EXCEPT ![m].status = s],
               req[p].op = "update" \/ Moves(req[p].doc.status, s)
        PROVE  Shaped(p)
    <3> DEFINE d == [inv[m] EXCEPT !.status = s]
    <3>1. d \in Invoice /\ SameAmounts(d, inv[m]) /\ d.status = s
      BY <2>2 DEF Invoice, SameAmounts
    <3>2. inv' = [inv EXCEPT ![m] = d]
      BY <2>3
    <3> HIDE DEF d
    <3> QED
      BY <1>b, <2>1, <2>2, <2>3, <3>1, <3>2 DEF Shaped, Finishes, Done
  <2>4. CASE UNCHANGED inv
    BY <1>b, <2>1, <2>4 DEF Shaped, Finishes, Done
  <2>5. CASE Void(p) \/ Send(p) \/ Update(p)
    <3>1. req[p].doc.status \in InvoiceStatus
      BY <2>2, InvoiceFields
    <3>2. CASE Void(p)
      <4>1. req[p].doc.status \notin NotVoidable => Moves(req[p].doc.status, "void")
        BY <3>1 DEF NotVoidable, Moves, Rank, InvoiceStatus
      <4> QED
        BY <2>3, <2>4, <3>2, <4>1 DEF Void, InvoiceStatus
    <3>3. CASE Send(p)
      <4>1. req[p].doc.status \notin LOCKED_STATUSES \cup {"void"} => Moves(req[p].doc.status, "sent")
        BY <3>1 DEF LOCKED_STATUSES, Moves, Rank, InvoiceStatus
      <4> QED
        BY <2>3, <2>4, <3>3, <4>1 DEF Send, InvoiceStatus
    <3>4. CASE Update(p)
      BY <2>3, <2>4, <3>4, AccountAssumption DEF Update, At
    <3> QED
      BY <2>5, <3>2, <3>3, <3>4
  <2>6. CASE Proforma(p)
    <3> DEFINE d == [req[p].doc EXCEPT !.category = TRUE]
    <3>1. /\ d \in Invoice /\ SameAmounts(d, req[p].doc)
          /\ d.status = req[p].doc.status /\ d.status \in InvoiceStatus
      BY <2>2 DEF Invoice, SameAmounts
    <3>a. Moves(d.status, d.status)
      BY <3>1 DEF Moves, Rank, InvoiceStatus
    <3>2. UNCHANGED inv \/ inv' = [inv EXCEPT ![m] = d]
      BY <2>6 DEF Proforma, Put
    <3> HIDE DEF d
    <3> QED
      BY <1>b, <2>1, <2>2, <2>4, <3>1, <3>a, <3>2 DEF Shaped, Finishes, Done
  <2>7. CASE Reading(p)
    <3> DEFINE total == IF req[p].doc.pending THEN req[p].doc.total + Usage ELSE req[p].doc.total
               s == IF req[p].doc.status = "draft" THEN "ready" ELSE req[p].doc.status
               due == total - AmountPaid(req[p].doc)
               d == [inv[m] EXCEPT !.pending = FALSE, !.total = total, !.due = due, !.status = s]
    <3>1. /\ total \in Int /\ total >= req[p].doc.total /\ s \in InvoiceStatus
          /\ due \in Int /\ due = total - req[p].doc.paid
      BY <2>2, InvoiceFields, AccountAssumption DEF AmountPaid, InvoiceStatus
    <3>2. inv' = [inv EXCEPT ![m] = d] /\ req[p].op = "reading"
      BY <2>7 DEF Reading, At
    <3>a. Moves(req[p].doc.status, s)
      BY <2>2, InvoiceFields DEF Moves, Rank, InvoiceStatus
    <3> HIDE DEF total, s, due
    <3>3. d \in Invoice /\ d.paid = inv[m].paid /\ d.total = total /\ d.due = due /\ d.status = s
      BY <2>2, <3>1 DEF Invoice
    <3> HIDE DEF d
    <3>4. Finishes(p)
      BY <1>b, <2>1, <2>2, <3>1, <3>2, <3>3, <3>a DEF Finishes, Done
    <3> QED
      BY <1>b, <2>1, <3>4 DEF Shaped, Done
  <2> QED
    BY <1>8, <2>5, <2>6, <2>7
<1> QED
  BY <1>a, <1>1, <1>2, <1>3, <1>4, <1>5, <1>6, <1>7, <1>8 DEF Next

-----------------------------------------------------------------------------
(***************************************************************************)
(* The amounts of an invoice agree, and so do those of every copy a        *)
(* request holds; a copy has the total of its invoice.  A meter reading,   *)
(* which changes a total, is alone while it runs.                          *)
(***************************************************************************)
Agrees(d) == d.due = d.total - d.paid /\ d.due >= 0
Fits(m, d, invoices) == Agrees(d) /\ d.total = invoices[m].total

Sound(r, invoices) ==
  /\ Reads(r) => Fits(r.m, r.doc, invoices)
  /\ r.op = "reading" => r.doc = invoices[r.m]
  /\ \A e \in r.todo : Fits(e.m, e.doc, invoices)

Balanced ==
  /\ \A m \in Months : inv[m] # None => Agrees(inv[m])
  /\ \A p \in Handlers : req[p] # Idle => Sound(req[p], inv)

Alone ==
  \A p, q \in Handlers :
    req[p] # Idle /\ req[p].op = "reading" /\ req[q] # Idle => p = q

LEMMA BalancedKept ==
  ASSUME Typed, Typed', Balanced, Alone, NEW p \in Handlers,
         \A q \in Handlers \ {p} : req'[q] = req[q],
         req[p] # Idle \/ UNCHANGED inv,
         \/ req[p] # Idle /\ req[p].op = "reading"
         \/ \A m \in Months : inv[m] # None => inv'[m].total = inv[m].total,
         \A m \in Months : inv'[m] # None => Agrees(inv'[m]),
         req'[p] # Idle => Sound(req'[p], inv')
  PROVE  Balanced'
<1>1. ASSUME NEW q \in Handlers, req'[q] # Idle PROVE Sound(req'[q], inv')
  <2>1. CASE q = p
    BY <1>1, <2>1
  <2>2. CASE q # p
    <3>1. /\ req'[q] = req[q] /\ req[q] # Idle /\ req[q] \in Request
          /\ Sound(req[q], inv) /\ WellFormed(req[q], inv)
      BY <1>1, <2>2 DEF Balanced, Typed, TypeOK
    <3>2. \A m \in Months : inv[m] # None => inv'[m].total = inv[m].total
      BY <2>2, <3>1 DEF Alone
    <3>3. req[q].op = "reading" => UNCHANGED inv
      BY <2>2, <3>1 DEF Alone
    <3>4. req[q].m \in Months /\ \A e \in req[q].todo : e.m \in Months
      BY <3>1 DEF Request, Copy
    <3> QED
      BY <3>1, <3>2, <3>3, <3>4 DEF Sound, Fits, WellFormed
  <2> QED
    BY <2>1, <2>2
<1> QED
  BY <1>1 DEF Balanced

LEMMA BalancedInit == Init => Balanced
BY DEF Init, Balanced

LEMMA BalancedStep ==
  ASSUME Typed, Typed', Balanced, Alone, NEW p \in Handlers, Shaped(p)
  PROVE  Balanced'
<1>1. \A q \in Handlers \ {p} : req'[q] = req[q]
  BY DEF Shaped
<1>2. /\ \A m \in Months : inv[m] # None => inv[m] \in Invoice /\ Agrees(inv[m])
      /\ req[p] # Idle => req[p] \in Request /\ req[p].m \in Months
                          /\ WellFormed(req[p], inv) /\ Sound(req[p], inv)
  BY RequestFields DEF Balanced, Typed, TypeOK
<1>3. CASE Begins(p)
  <2>1. Sound(req'[p], inv)
    <3>1. req'[p].m \in Months
      BY <1>3, RequestFields DEF Begins, Typed, TypeOK
    <3>2. req'[p].op = "reading" => Reads(req'[p])
      BY DEF Reads
    <3> QED
      BY <1>2, <1>3, <3>1, <3>2 DEF Begins, Sound, Fits
  <2> QED
    BY <1>1, <1>2, <1>3, <2>1, BalancedKept DEF Begins
<1>4. CASE Continues(p)
  <2>1. Sound(req'[p], inv)
    BY <1>2, <1>4 DEF Continues, Sound, Reads
  <2> QED
    BY <1>1, <1>2, <1>4, <2>1, BalancedKept DEF Continues
<1>5. CASE Posts(p)
  <2>1. req'[p] # Idle => Sound(req'[p], inv)
    BY <1>2, <1>5 DEF Posts, Sound, Reads
  <2>2. req[p] # Idle /\ UNCHANGED inv
    BY <1>5 DEF Posts
  <2> QED
    BY <1>1, <1>2, <2>1, <2>2, BalancedKept
<1>6. CASE Lists(p)
  <2>1. req[p] # Idle /\ UNCHANGED inv /\ Sound(req[p], inv)
    BY <1>2, <1>6 DEF Lists
  <2>2. ASSUME NEW e \in req'[p].todo PROVE Fits(e.m, e.doc, inv)
    <3>1. CASE e.m = req[p].m /\ e.doc = req[p].doc /\ Reads(req[p])
      BY <2>1, <3>1 DEF Sound
    <3>2. CASE inv[e.m] # None /\ e.doc = inv[e.m]
      <4>1. e.m \in Months
        BY <1>6, RequestFields DEF Lists, Copy, Typed, TypeOK
      <4> QED
        BY <1>2, <3>2, <4>1 DEF Fits
    <3> QED
      BY <1>6, <3>1, <3>2 DEF Lists
  <2>3. Sound(req'[p], inv)
    BY <1>6, <2>1, <2>2 DEF Lists, Sound, Reads
  <2> QED
    BY <1>1, <1>2, <2>1, <2>3, BalancedKept
<1>7. CASE Applies(p)
  <2>1. PICK e \in req[p].todo, d \in Invoice, share \in Int :
          /\ Paying(req[p]) /\ req[p].amount > 0 /\ req'[p] # Idle
          /\ share = Share(req[p].amount, e.doc.due)
          /\ d.total = inv[e.m].total /\ d.paid = e.doc.paid + share
          /\ d.due = IF e.doc.total - e.doc.paid - share > 0
                       THEN e.doc.total - e.doc.paid - share ELSE 0
          /\ inv' = [inv EXCEPT ![e.m] = d] /\ UNCHANGED ledger
          /\ req'[p].op = req[p].op /\ req'[p].m = req[p].m /\ req'[p].doc = req[p].doc
          /\ req'[p].todo = req[p].todo \ {e}
          /\ req'[p].amount = req[p].amount - share
    BY <1>7 DEF Applies
  <2>2. /\ req[p] # Idle /\ req[p] \in Request /\ WellFormed(req[p], inv)
        /\ Sound(req[p], inv) /\ req[p].op = "pay" /\ req[p].amount \in Int
    BY <1>2, <2>1, RequestFields DEF Paying, WellFormed
  <2>3. /\ e \in Copy /\ e.m \in Months /\ e.doc \in Invoice /\ inv[e.m] # None
        /\ Fits(e.m, e.doc, inv)
    BY <2>2, RequestFields DEF Copy, WellFormed, Sound
  <2>4. Agrees(d)
    BY <2>1, <2>2, <2>3, InvoiceFields DEF Fits, Agrees, Share
  <2>5. /\ \A m \in Months : inv[m] # None => inv'[m].total = inv[m].total
        /\ \A m \in Months : inv'[m] # None => Agrees(inv'[m])
    BY <1>2, <2>1, <2>3, <2>4 DEF Typed, TypeOK
  <2>6. Sound(req'[p], inv')
    <3>1. req[p].m \in Months /\ \A f \in req[p].todo : f.m \in Months
      BY <2>2 DEF Request, Copy
    <3> QED
      BY <2>1, <2>2, <2>5, <3>1 DEF Sound, Fits, Reads, WellFormed
  <2> QED
    BY <1>1, <2>2, <2>5, <2>6, BalancedKept
<1>8. CASE Finishes(p)
  <2>1. CASE UNCHANGED inv
    BY <1>1, <1>2, <1>8, <2>1, BalancedKept DEF Finishes
  <2>2. ASSUME NEW m \in Months, NEW d \in Invoice,
               inv' = [inv EXCEPT ![m] = d],
               \/ inv[m] # None /\ SameAmounts(d, inv[m])
               \/ Reads(req[p]) /\ m = req[p].m /\ SameAmounts(d, req[p].doc)
               \/ inv[m] = None /\ d.paid = 0 /\ d.due = d.total /\ d.total >= 0
               \/ /\ req[p].op = "reading" /\ m = req[p].m
                  /\ d.paid = inv[m].paid /\ d.due = d.total - req[p].doc.paid
                  /\ d.total >= req[p].doc.total
        PROVE  Balanced'
    <3>1. /\ req[p] # Idle /\ req'[p] = Idle /\ Sound(req[p], inv)
          /\ req[p] \in Request /\ WellFormed(req[p], inv)
      BY <1>2, <1>8 DEF Finishes
    <3>2. /\ Agrees(d)
          /\ req[p].op = "reading" \/ (inv[m] # None => d.total = inv[m].total)
      <4>1. CASE inv[m] # None /\ SameAmounts(d, inv[m])
        BY <1>2, <4>1 DEF SameAmounts, Agrees
      <4>2. CASE Reads(req[p]) /\ m = req[p].m /\ SameAmounts(d, req[p].doc)
        BY <3>1, <4>2 DEF SameAmounts, Agrees, Sound, Fits
      <4>3. CASE inv[m] = None /\ d.paid = 0 /\ d.due = d.total /\ d.total >= 0
        BY <4>3, InvoiceFields DEF Agrees
      <4>4. CASE /\ req[p].op = "reading" /\ m = req[p].m
                 /\ d.paid = inv[m].paid /\ d.due = d.total - req[p].doc.paid
                 /\ d.total >= req[p].doc.total
        <5>1. req[p].doc = inv[m] /\ Agrees(req[p].doc) /\ req[p].doc \in Invoice
          BY <3>1, <4>4 DEF Sound, Fits, Reads, WellFormed
        <5> QED
          BY <4>4, <5>1, InvoiceFields DEF Agrees
      <4> QED
        BY <2>2, <4>1, <4>2, <4>3, <4>4
    <3>3. /\ \A k \in Months : inv'[k] # None => Agrees(inv'[k])
          /\ req[p].op = "reading" \/ \A k \in Months : inv[k] # None => inv'[k].total = inv[k].total
      BY <1>2, <2>2, <3>2 DEF Typed, TypeOK
    <3> QED
      BY <1>1, <3>1, <3>3, BalancedKept
  <2> QED
    BY <1>8, <2>1, <2>2 DEF Finishes
<1> QED
  BY <1>3, <1>4, <1>5, <1>6, <1>7, <1>8 DEF Shaped

-----------------------------------------------------------------------------
(***************************************************************************)
(* Posted before applied.  high[m] bounds what any copy of invoice m, or   *)
(* the invoice itself, shows as paid: a lost update leaves it where it is. *)
(* spent[i] is what has been applied of ledger entry i, own[p] the entry   *)
(* that a request applies; its amount is what is left of it.               *)
(***************************************************************************)
PaidWithin(r, high) ==
  /\ Reads(r) => r.doc.paid <= high[r.m]
  /\ \A e \in r.todo : e.doc.paid <= high[e.m]

AccountedBy(high, spent, own, invoices, entries, requests) ==
  /\ high \in [Months -> Nat]
  /\ spent \in [1..Len(entries) -> Nat] /\ own \in [Handlers -> Nat]
  /\ \A m \in Months : invoices[m] # None => invoices[m].paid <= high[m]
  /\ \A p \in Handlers : requests[p] # Idle => PaidWithin(requests[p], high)
  /\ \A i \in 1..Len(entries) : spent[i] <= OfInvoices(entries)[i]
  /\ \A p \in Handlers : Paying(requests[p]) =>
       /\ own[p] \in 1..Len(entries) /\ requests[p].amount >= 0
       /\ requests[p].amount + spent[own[p]] <= OfInvoices(entries)[own[p]]
  /\ \A p, q \in Handlers :
       Paying(requests[p]) /\ Paying(requests[q]) /\ own[p] = own[q] => p = q
  /\ Total(high, LastMonth) = Total(spent, Len(entries))

Accounted == \E high, spent, own : AccountedBy(high, spent, own, inv, ledger, req)

LEMMA AccountedInit == Init => Accounted
<1> SUFFICES ASSUME Init PROVE Accounted
  OBVIOUS
<1> DEFINE high == [m \in Months |-> 0]
           none == [i \in 1..Len(ledger) |-> 0]
           nobody == [p \in Handlers |-> 0]
<1>1. /\ Len(ledger) = 0 /\ \A p \in Handlers : req[p] = Idle /\ ~Paying(req[p])
      /\ \A m \in Months : inv[m] = None
  BY DEF Init, Paying
<1>2. LastMonth \in Nat /\ Months = 1..LastMonth
  BY AccountAssumption DEF Months
<1>3. Total(high, LastMonth) = 0 /\ Total(none, 0) = 0
  <2> DEFINE S == {k \in Nat : k <= LastMonth => Total(high, k) = 0}
  <2>1. 0 \in S
    BY TotalStep
  <2>2. ASSUME NEW k \in Nat, k \in S PROVE k + 1 \in S
    <3>1. CASE k + 1 <= LastMonth
      <4>1. k <= LastMonth /\ k + 1 \in Months
        BY <1>2, <3>1
      <4>2. Total(high, k + 1) = Total(high, k) + high[k + 1]
        BY TotalStep
      <4> QED
        BY <2>2, <4>1, <4>2
    <3> QED
      BY <3>1
  <2> HIDE DEF S
  <2>3. LastMonth \in S
    BY <1>2, <2>1, <2>2, NatSetInduction
  <2> QED
    BY <2>3, TotalStep DEF S
<1>4. AccountedBy(high, none, nobody, inv, ledger, req)
  <2> HIDE DEF high
  <2>1. high \in [Months -> Nat]
    BY DEF high
  <2> QED
    BY <1>1, <1>3, <2>1 DEF AccountedBy
<1> QED
  BY <1>4 DEF Accounted

(* The steps that leave the ledger alone and apply nothing.                *)
LEMMA AccountedKept ==
  ASSUME Typed, NEW high, NEW spent, NEW own,
         AccountedBy(high, spent, own, inv, ledger, req), NEW p \in Handlers,
         \A q \in Handlers \ {p} : req'[q] = req[q],
         UNCHANGED ledger,
         \A m \in Months : inv'[m] # None => inv'[m].paid <= high[m],
         req'[p] # Idle => PaidWithin(req'[p], high),
         Paying(req'[p]) => Paying(req[p]) /\ req'[p].amount = req[p].amount
  PROVE  Accounted'
<1>1. \A q \in Handlers : req'[q] # Idle => PaidWithin(req'[q], high)
  BY DEF AccountedBy
<1>2. \A q \in Handlers : Paying(req'[q]) => Paying(req[q]) /\ req'[q].amount = req[q].amount
  OBVIOUS
<1>3. AccountedBy(high, spent, own, inv', ledger', req')
  BY <1>1, <1>2 DEF AccountedBy
<1> QED
  BY <1>3 DEF Accounted

LEMMA AccountedStep ==
  ASSUME Typed, Balanced, Accounted, NEW p \in Handlers, Shaped(p), Typed'
  PROVE  Accounted'
<1>1. \A q \in Handlers \ {p} : req'[q] = req[q]
  BY DEF Shaped
<1>2. PICK high, spent, own : AccountedBy(high, spent, own, inv, ledger, req)
  BY DEF Accounted
<1> DEFINE n == Len(ledger)
<1>3. /\ \A m \in Months : inv[m] # None => inv[m] \in Invoice /\ inv[m].paid <= high[m]
      /\ req[p] # Idle => req[p] \in Request /\ req[p].m \in Months
                          /\ WellFormed(req[p], inv) /\ Sound(req[p], inv) /\ PaidWithin(req[p], high)
  BY <1>2, RequestFields DEF AccountedBy, Balanced, Typed, TypeOK
<1>4. /\ n \in Nat /\ ledger \in Seq(Entry)
      /\ \A i \in 1..n : OfInvoices(ledger)[i] \in Nat
  BY AmountsOfInvoices, OfInvoicesType DEF Typed, TypeOK
<1>5. /\ spent \in [1..n -> Nat] /\ \A i \in 1..n : spent[i] \in Nat /\ spent[i] <= OfInvoices(ledger)[i]
      /\ high \in [Months -> Nat] /\ own \in [Handlers -> Nat]
  BY <1>2 DEF AccountedBy
<1>6. CASE Begins(p)
  <2>1. req'[p].m \in Months
    BY <1>6, RequestFields DEF Begins, Typed, TypeOK
  <2>2. PaidWithin(req'[p], high)
    BY <1>3, <1>6, <2>1 DEF Begins, PaidWithin
  <2> QED
    BY <1>1, <1>2, <1>3, <1>6, <2>2, AccountedKept DEF Begins
<1>7. CASE Continues(p)
  <2>1. PaidWithin(req'[p], high)
    BY <1>3, <1>7 DEF Continues, PaidWithin, Reads
  <2> QED
    BY <1>1, <1>2, <1>3, <1>7, <2>1, AccountedKept DEF Continues
<1>8. CASE Lists(p)
  <2>1. ASSUME NEW e \in req'[p].todo PROVE e.doc.paid <= high[e.m]
    <3>1. e.m \in Months
      BY <1>8, RequestFields DEF Lists, Copy, Typed, TypeOK
    <3> QED
      BY <1>3, <1>8, <3>1 DEF Lists, PaidWithin
  <2>2. PaidWithin(req'[p], high)
    BY <1>3, <1>8, <2>1 DEF Lists, PaidWithin, Reads
  <2> QED
    BY <1>1, <1>2, <1>3, <1>8, <2>2, AccountedKept DEF Lists
<1>9. CASE Finishes(p)
  <2>1. \A m \in Months : inv'[m] # None => inv'[m].paid <= high[m]
    <3>1. CASE UNCHANGED inv
      BY <1>3, <3>1
    <3>2. ASSUME NEW m \in Months, NEW d \in Invoice,
                 inv' = [inv EXCEPT ![m] = d],
                 \/ inv[m] # None /\ SameAmounts(d, inv[m])
                 \/ Reads(req[p]) /\ m = req[p].m /\ SameAmounts(d, req[p].doc)
                 \/ inv[m] = None /\ d.paid = 0 /\ d.due = d.total /\ d.total >= 0
                 \/ /\ req[p].op = "reading" /\ m = req[p].m
                    /\ d.paid = inv[m].paid /\ d.due = d.total - req[p].doc.paid
                    /\ d.total >= req[p].doc.total
          PROVE  \A k \in Months : inv'[k] # None => inv'[k].paid <= high[k]
      <4>1. req[p] # Idle
        BY <1>9 DEF Finishes
      <4>2. high[m] \in Nat
        BY <1>5
      <4>3. d.paid <= high[m]
        BY <1>3, <3>2, <4>1, <4>2 DEF SameAmounts, PaidWithin, Reads, WellFormed
      <4> QED
        BY <1>3, <3>2, <4>3 DEF Typed, TypeOK
    <3> QED
      BY <1>9, <3>1, <3>2 DEF Finishes
  <2> QED
    BY <1>1, <1>2, <1>9, <2>1, AccountedKept DEF Finishes, Paying
<1>10. CASE Posts(p)
  <2>1. PICK e \in Entry :
          /\ req[p] # Idle /\ ~Paying(req[p])
          /\ ledger' = Append(ledger, e) /\ UNCHANGED inv
          /\ req'[p] # Idle =>
               /\ req'[p].op = req[p].op /\ req'[p].m = req[p].m /\ req'[p].doc = req[p].doc
               /\ req'[p].todo = {} /\ req'[p].amount = OfInvoice(e)
    BY <1>10 DEF Posts
  <2> DEFINE spent2 == [i \in 1..(n + 1) |-> IF i <= n THEN spent[i] ELSE 0]
             own2 == [own EXCEPT ![p] = n + 1]
  <2>2. OfInvoice(e) \in Nat
    BY AmountsOfInvoices
  <2>3. /\ Len(ledger') = n + 1
        /\ \A i \in 1..n : OfInvoices(ledger')[i] = OfInvoices(ledger)[i]
        /\ OfInvoices(ledger')[n + 1] = OfInvoice(e)
    <3>1. ledger \in Seq(Entry) /\ ledger' = Append(ledger, e)
      BY <1>4, <2>1
    <3>2. \A x \in Entry : OfInvoice(x) \in Nat
      BY AmountsOfInvoices
    <3> QED
      BY <3>1, <3>2, OfInvoicesAppend
  <2>4. Total(spent2, n + 1) = Total(spent, n)
    <3>1. \A i \in 1..n : spent[i] \in Int /\ spent2[i] = spent[i]
      BY <1>4, <1>5
    <3>2. spent2[n + 1] = 0
      BY <1>4
    <3>3. Total(spent, n) \in Int
      BY <1>4, <3>1, TotalType
    <3> HIDE DEF spent2, n
    <3>4. n \in Nat /\ (\A i \in 1..n : spent[i] \in Int /\ spent2[i] = spent[i]) /\ spent2[n + 1] \in Int
      BY <1>4, <3>1, <3>2
    <3>5. Total(spent2, n + 1) = Total(spent, n) + spent2[n + 1]
      BY <3>4, TotalAppend
    <3> QED
      BY <3>2, <3>3, <3>5
  <2>5. /\ spent2 \in [1..(n + 1) -> Nat] /\ own2 \in [Handlers -> Nat]
        /\ \A i \in 1..(n + 1) : spent2[i] <= OfInvoices(ledger')[i]
    BY <1>4, <1>5, <2>2, <2>3
  <2>6. \A q \in Handlers : req'[q] # Idle => PaidWithin(req'[q], high)
    BY <1>1, <1>2, <1>3, <2>1 DEF AccountedBy, PaidWithin, Reads
  <2>7. ASSUME NEW q \in Handlers, Paying(req'[q])
        PROVE  /\ own2[q] \in 1..(n + 1) /\ req'[q].amount >= 0
               /\ req'[q].amount + spent2[own2[q]] <= OfInvoices(ledger')[own2[q]]
               /\ q # p => Paying(req[q]) /\ own2[q] = own[q] /\ own2[q] <= n
    <3>1. CASE q = p
      <4>1. req'[q].amount = OfInvoice(e) /\ own2[q] = n + 1 /\ spent2[n + 1] = 0
        BY <1>4, <1>5, <2>1, <2>7, <3>1 DEF Paying
      <4> QED
        BY <1>4, <2>2, <2>3, <3>1, <4>1
    <3>2. CASE q # p
      <4>1. req'[q] = req[q] /\ own2[q] = own[q]
        BY <1>1, <1>5, <3>2
      <4>2. /\ own[q] \in 1..n /\ req[q].amount >= 0
            /\ req[q].amount + spent[own[q]] <= OfInvoices(ledger)[own[q]]
        BY <1>2, <2>7, <4>1 DEF AccountedBy
      <4>3. spent2[own[q]] = spent[own[q]] /\ own[q] <= n /\ own[q] \in 1..(n + 1)
        BY <1>4, <4>2
      <4> HIDE DEF spent2, own2
      <4> QED
        BY <2>3, <2>7, <3>2, <4>1, <4>2, <4>3
    <3> QED
      BY <3>1, <3>2
  <2>8. ASSUME NEW q1 \in Handlers, NEW q2 \in Handlers,
               Paying(req'[q1]), Paying(req'[q2]), own2[q1] = own2[q2]
        PROVE  q1 = q2
    <3>1. (q1 # p => own[q1] = own2[q1] /\ own2[q1] <= n) /\ (q2 # p => own[q2] = own2[q2] /\ own2[q2] <= n)
      BY <2>7, <2>8
    <3>2. own2[p] = n + 1
      BY <1>5
    <3>3. q1 # p /\ q2 # p => q1 = q2
      BY <1>2, <2>7, <2>8, <3>1 DEF AccountedBy
    <3> QED
      BY <1>4, <2>8, <3>1, <3>2, <3>3
  <2>9. AccountedBy(high, spent2, own2, inv', ledger', req')
    BY <1>2, <2>1, <2>3, <2>4, <2>5, <2>6, <2>7, <2>8 DEF AccountedBy
  <2> QED
    BY <2>9 DEF Accounted
<1>11. CASE Applies(p)
  <2>1. PICK e \in req[p].todo, d \in Invoice, share \in Int :
          /\ Paying(req[p]) /\ req[p].amount > 0 /\ req'[p] # Idle
          /\ share = Share(req[p].amount, e.doc.due)
          /\ d.total = inv[e.m].total /\ d.paid = e.doc.paid + share
          /\ d.due = IF e.doc.total - e.doc.paid - share > 0
                       THEN e.doc.total - e.doc.paid - share ELSE 0
          /\ inv' = [inv EXCEPT ![e.m] = d] /\ UNCHANGED ledger
          /\ req'[p].op = req[p].op /\ req'[p].m = req[p].m /\ req'[p].doc = req[p].doc
          /\ req'[p].todo = req[p].todo \ {e}
          /\ req'[p].amount = req[p].amount - share
    BY <1>11 DEF Applies
  <2>2. /\ req[p] # Idle /\ req[p] \in Request /\ req[p].m \in Months
        /\ PaidWithin(req[p], high) /\ req[p].amount \in Int
        /\ \A f \in req[p].todo : f \in Copy /\ f.m \in Months
    BY <1>3, <2>1, RequestFields DEF Paying, Copy
  <2>3. /\ e.m \in Months /\ e.doc \in Invoice /\ Fits(e.m, e.doc, inv)
        /\ e.doc.paid <= high[e.m] /\ e.doc.paid \in Int
    BY <1>3, <2>2, InvoiceFields DEF Copy, Sound, PaidWithin
  <2>4. /\ share \in Nat /\ share <= req[p].amount
        /\ req'[p].amount >= 0 /\ req'[p].amount + share = req[p].amount
    BY <2>1, <2>2, <2>3, InvoiceFields DEF Share, Fits, Agrees
  <2> DEFINE i == own[p]
             spent2 == [spent EXCEPT ![i] = spent[i] + share]
             high2 == [high EXCEPT ![e.m] = high[e.m] + share]
  <2>5. /\ i \in 1..n
        /\ req[p].amount + spent[i] <= OfInvoices(ledger)[i]
    BY <1>2, <2>1 DEF AccountedBy
  <2>6. high2 \in [Months -> Nat] /\ \A m \in Months : high[m] <= high2[m]
    BY <1>5, <2>3, <2>4
  <2>7. \A m \in Months : inv'[m] # None => inv'[m].paid <= high2[m]
    <3>1. d.paid <= high2[e.m]
      BY <1>5, <2>1, <2>3, <2>4
    <3> HIDE DEF high2
    <3>2. ASSUME NEW m \in Months, m # e.m, inv'[m] # None PROVE inv'[m].paid <= high2[m]
      <4>1. inv'[m] = inv[m] /\ inv[m].paid \in Int /\ inv[m].paid <= high[m]
        BY <1>3, <2>1, <3>2, InvoiceFields DEF Typed, TypeOK
      <4>2. high[m] \in Nat /\ high2[m] \in Nat
        BY <1>5, <2>6
      <4> QED
        BY <2>6, <4>1, <4>2
    <3> QED
      BY <2>1, <2>3, <3>1, <3>2 DEF Typed, TypeOK
  <2>8. ASSUME NEW q \in Handlers, req'[q] # Idle PROVE PaidWithin(req'[q], high2)
    <3>1. /\ req'[q].op = req[q].op /\ req'[q].m = req[q].m /\ req'[q].doc = req[q].doc
          /\ req'[q].todo \subseteq req[q].todo /\ req[q] # Idle
      BY <1>1, <2>1, <2>2, <2>8
    <3>2. /\ req[q] \in Request /\ req[q].m \in Months /\ PaidWithin(req[q], high)
          /\ Reads(req[q]) => req[q].doc \in Invoice
          /\ \A f \in req[q].todo : f.m \in Months /\ f.doc \in Invoice
      BY <1>2, <3>1, RequestFields DEF AccountedBy, Copy, WellFormed, Typed, TypeOK
    <3>3. \A m \in Months : high[m] \in Int /\ high2[m] \in Int
      BY <1>5, <2>6
    <3> HIDE DEF high2
    <3>4. Reads(req[q]) => req[q].doc.paid <= high2[req[q].m]
      BY <2>6, <3>2, <3>3, InvoiceFields DEF PaidWithin
    <3>5. \A f \in req[q].todo : f.doc.paid <= high2[f.m]
      BY <2>6, <3>2, <3>3, InvoiceFields DEF PaidWithin
    <3> QED
      BY <3>1, <3>4, <3>5 DEF PaidWithin, Reads
  <2>9. /\ spent2 \in [1..n -> Nat]
        /\ \A k \in 1..n : spent2[k] <= OfInvoices(ledger)[k]
    BY <1>4, <1>5, <2>2, <2>4, <2>5
  <2>10. ASSUME NEW q \in Handlers, Paying(req'[q])
         PROVE  /\ Paying(req[q]) /\ own[q] \in 1..n /\ req'[q].amount >= 0
                /\ req'[q].amount + spent2[own[q]] <= OfInvoices(ledger)[own[q]]
    <3>1. CASE q = p
      BY <1>4, <1>5, <2>1, <2>2, <2>4, <2>5, <3>1
    <3>2. CASE q # p
      <4>1. req'[q] = req[q]
        BY <1>1, <3>2
      <4>2. own[q] # i /\ own[q] \in 1..n /\ req[q].amount >= 0
            /\ req[q].amount + spent[own[q]] <= OfInvoices(ledger)[own[q]]
        BY <1>2, <2>1, <2>10, <3>2, <4>1 DEF AccountedBy
      <4>3. spent2[own[q]] = spent[own[q]]
        BY <1>5, <4>2
      <4> HIDE DEF spent2
      <4> QED
        BY <2>10, <4>1, <4>2, <4>3
    <3> QED
      BY <3>1, <3>2
  <2>11. Total(high2, LastMonth) = Total(spent2, n)
    <3>1. LastMonth \in Nat /\ Months = 1..LastMonth
      BY AccountAssumption DEF Months
    <3> DEFINE j == e.m
               last == LastMonth
    <3>2. \A m \in 1..last : high[m] \in Int /\ high2[m] = IF m = j THEN high[m] + share ELSE high[m]
      BY <1>5, <2>3, <3>1
    <3>3. \A k \in 1..n : spent[k] \in Int /\ spent2[k] = IF k = i THEN spent[k] + share ELSE spent[k]
      BY <1>4, <1>5, <2>5
    <3>4. last \in Nat /\ j \in 1..last /\ share \in Int /\ n \in Nat /\ i \in 1..n
      BY <1>4, <2>3, <2>5, <3>1
    <3>5. Total(high, last) = Total(spent, n)
      BY <1>2 DEF AccountedBy
    <3> HIDE DEF high2, spent2, i, j, n, last
    <3>6. Total(high2, last) = Total(high, last) + share
      <4>1. last \in Nat
        BY <3>4
      <4>2. j \in 1..last
        BY <3>4
      <4>3. share \in Int
        BY <3>4
      <4> QED
        BY <3>2, <4>1, <4>2, <4>3, TotalUpdate
    <3>7. Total(spent2, n) = Total(spent, n) + share
      BY <3>3, <3>4, TotalUpdate
    <3> QED
      BY <3>5, <3>6, <3>7 DEF last
  <2>12. \A q1, q2 \in Handlers :
           Paying(req'[q1]) /\ Paying(req'[q2]) /\ own[q1] = own[q2] => q1 = q2
    BY <1>2, <2>10 DEF AccountedBy
  <2>13. AccountedBy(high2, spent2, own, inv', ledger', req')
    BY <1>5, <2>1, <2>6, <2>7, <2>8, <2>9, <2>10, <2>11, <2>12 DEF AccountedBy
  <2> QED
    BY <2>13 DEF Accounted
<1> QED
  BY <1>6, <1>7, <1>8, <1>9, <1>10, <1>11 DEF Shaped

LEMMA AccountedSums == Typed /\ Accounted => AppliedTotal <= PostedTotal
<1> SUFFICES ASSUME Typed, Accounted PROVE AppliedTotal <= PostedTotal
  OBVIOUS
<1>1. PICK high, spent, own : AccountedBy(high, spent, own, inv, ledger, req)
  BY DEF Accounted
<1> DEFINE paid == [m \in Months |-> IF Exists(m) THEN inv[m].paid ELSE 0]
           n == Len(ledger)
<1>2. LastMonth \in Nat /\ Months = 1..LastMonth
  BY AccountAssumption DEF Months
<1>3. n \in Nat /\ \A i \in 1..n : OfInvoices(ledger)[i] \in Nat
  BY AmountsOfInvoices, OfInvoicesType DEF Typed, TypeOK
<1>4. \A m \in 1..LastMonth : paid[m] \in Int /\ high[m] \in Int /\ paid[m] <= high[m]
  BY <1>1, <1>2, InvoiceFields DEF AccountedBy, Exists, Typed, TypeOK
<1>5. \A i \in 1..n : spent[i] \in Int /\ OfInvoices(ledger)[i] \in Int /\ spent[i] <= OfInvoices(ledger)[i]
  BY <1>1, <1>3 DEF AccountedBy
<1>6. Total(high, LastMonth) = Total(spent, n)
  BY <1>1 DEF AccountedBy
<1> HIDE DEF paid, n
<1>7. Total(paid, LastMonth) <= Total(high, LastMonth)
  BY <1>2, <1>4, TotalMonotone
<1>8. Total(spent, n) <= Total(OfInvoices(ledger), n)
  BY <1>3, <1>5, TotalMonotone
<1>9. /\ Total(paid, LastMonth) \in Int /\ Total(spent, n) \in Int
      /\ Total(OfInvoices(ledger), n) \in Int
  BY <1>2, <1>3, <1>4, <1>5, TotalType
<1> QED
  BY <1>6, <1>7, <1>8, <1>9 DEF paid, n, AppliedTotal, PostedTotal

-----------------------------------------------------------------------------
(***************************************************************************)
(* The account in which meter readings come one at a time.                 *)
(***************************************************************************)
LEMMA AloneStep ==
  ASSUME "reading" \notin Racing, Alone, [HNext]_<<vars, overlapped>>
  PROVE  Alone'
<1>1. CASE UNCHANGED <<vars, overlapped>>
  BY <1>1 DEF Alone, vars
<1>2. CASE HNext
  <2> SUFFICES ASSUME NEW p \in Handlers, NEW q \in Handlers,
                      req'[p] # Idle, req'[p].op = "reading", req'[q] # Idle
               PROVE  p = q
    BY DEF Alone
  <2> DEFINE S == {h \in Handlers : req'[h] # Idle}
  <2>1. Cardinality(S) = 1
    BY <1>2 DEF HNext
  <2>2. IsFiniteSet(S)
    <3>1. S \subseteq Handlers
      OBVIOUS
    <3> QED
      BY <3>1, AccountAssumption, FS_Subset
  <2>3. p \in S /\ q \in S
    OBVIOUS
  <2> HIDE DEF S
  <2>4. PICK x : S = {x}
    BY <2>1, <2>2, FS_Singleton
  <2> QED
    BY <2>3, <2>4
<1> QED
  BY <1>1, <1>2

LEMMA AccountInvariant ==
  ASSUME "reading" \notin Racing
  PROVE  HSpec => [](Typed /\ Alone /\ Balanced /\ Accounted /\ Booked)
<1> DEFINE I == Typed /\ Alone /\ Balanced /\ Accounted /\ Booked
<1>1. HInit => I
  <2>1. Init => Alone
    BY DEF Init, Alone
  <2> QED
    BY <2>1, TypedInit, BalancedInit, AccountedInit, BookedInit DEF HInit
<1>2. I /\ [HNext]_<<vars, overlapped>> => I'
  <2> SUFFICES ASSUME I, [HNext]_<<vars, overlapped>> PROVE I'
    OBVIOUS
  <2>1. [Next]_vars
    BY DEF HNext
  <2>2. Typed' /\ Booked' /\ Alone'
    BY <2>1, TypedStep, BookedStep, AloneStep
  <2>3. CASE Next
    <3>1. PICK p \in Handlers : Shaped(p)
      BY <2>3, ShapedStep
    <3> QED
      BY <2>2, <3>1, BalancedStep, AccountedStep
  <2>4. CASE UNCHANGED vars
    BY <2>2, <2>4 DEF Balanced, Accounted, vars
  <2> QED
    BY <2>1, <2>3, <2>4
<1> QED
  BY <1>1, <1>2, PTL DEF HSpec

(* While no meter reading runs beside another request, the amounts of an   *)
(* invoice agree: apply_meter_reading_to_invoice writes balance_due from   *)
(* the amount_paid it read, and nothing else writes one amount without the *)
(* others.                                                                 *)
THEOREM AmountsAlwaysAgree ==
  ASSUME "reading" \notin Racing
  PROVE  HSpec => []AmountsAgree
<1>1. Balanced => AmountsAgree
  BY DEF Balanced, AmountsAgree, Agrees, Billed, Exists
<1> QED
  BY <1>1, AccountInvariant, PTL

(* While no meter reading runs beside another request, no overlap, lost    *)
(* update or crash lets the invoices show more as paid than the ledger     *)
(* holds, or the ledger more than was received.                            *)
THEOREM LedgerAlwaysLeads ==
  ASSUME "reading" \notin Racing
  PROVE  HSpec => []LedgerLeads
<1>1. Typed /\ Accounted /\ Booked => LedgerLeads
  BY AccountedSums, BookedSums DEF LedgerLeads
<1> QED
  BY <1>1, AccountInvariant, PTL

-----------------------------------------------------------------------------
(***************************************************************************)
(* Requests that come one at a time.  While none has overlapped, at most   *)
(* one is in progress, and what it holds of an invoice is what is stored.  *)
(***************************************************************************)
Fresh(r, invoices) ==
  /\ Reads(r) /\ r.pc # "apply" => r.doc = invoices[r.m]
  /\ \A e \in r.todo : e.doc = invoices[e.m] /\ e.doc.status \notin {"paid", "void"}
  /\ \A e, f \in r.todo : e.m = f.m => e = f

Single == \A p, q \in Handlers : req[p] # Idle /\ req[q] # Idle => p = q

Serial ==
  ~overlapped => Single /\ \A p \in Handlers : req[p] # Idle => Fresh(req[p], inv)

LEMMA SingleStep ==
  ASSUME HNext, ~overlapped' PROVE ~overlapped /\ Single'
<1>1. ~overlapped /\ ~(Cardinality({p \in Handlers : req'[p] # Idle}) > 1)
  BY DEF HNext
<1>2. ASSUME NEW p \in Handlers, NEW q \in Handlers, req'[p] # Idle, req'[q] # Idle, p # q
      PROVE  FALSE
  <2> DEFINE S == {h \in Handlers : req'[h] # Idle}
  <2>1. IsFiniteSet(S)
    <3>1. S \subseteq Handlers
      OBVIOUS
    <3> QED
      BY <3>1, AccountAssumption, FS_Subset
  <2>2. p \in S /\ q \in S
    BY <1>2
  <2>3. ~(Cardinality(S) > 1)
    BY <1>1
  <2> HIDE DEF S
  <2>4. Cardinality(S) \in Nat
    BY <2>1, FS_CardinalityType
  <2>5. Cardinality(S) # 0
    BY <2>1, <2>2, FS_EmptySet
  <2>6. Cardinality(S) = 1
    BY <2>3, <2>4, <2>5
  <2>7. PICK x : S = {x}
    BY <2>1, <2>6, FS_Singleton
  <2> QED
    BY <1>2, <2>2, <2>7
<1> QED
  BY <1>1, <1>2 DEF Single

LEMMA SerialStep ==
  ASSUME Typed, Typed', Serial, HNext, ~overlapped'
  PROVE  /\ Serial'
         /\ \A m \in Billed : Moves(inv[m].status, inv'[m].status)
<1>1. ~overlapped /\ Single /\ Single'
  BY SingleStep DEF Serial
<1>2. PICK p \in Handlers : Shaped(p)
  BY ShapedStep DEF HNext
<1>3. \A q \in Handlers \ {p} : req'[q] = req[q]
  BY <1>2 DEF Shaped
<1>4. /\ \A m \in Months : inv[m] # None => inv[m] \in Invoice
      /\ req[p] # Idle => req[p] \in Request /\ req[p].m \in Months
                          /\ WellFormed(req[p], inv) /\ Fresh(req[p], inv)
  BY <1>1, RequestFields DEF Serial, Typed, TypeOK
<1>5. \A s \in InvoiceStatus : Moves(s, s)
  BY DEF Moves, Rank, InvoiceStatus
<1>6. /\ req'[p] # Idle => Fresh(req'[p], inv')
      /\ \A m \in Billed : Moves(inv[m].status, inv'[m].status)
      /\ UNCHANGED inv \/ req[p] # Idle
  <2>1. UNCHANGED inv => \A m \in Billed : Moves(inv[m].status, inv'[m].status)
    BY <1>4, <1>5, InvoiceFields DEF Billed, Exists
  <2>2. CASE Begins(p)
    BY <2>1, <2>2 DEF Begins, Fresh
  <2>3. CASE Continues(p)
    BY <1>4, <2>1, <2>3 DEF Continues, Fresh, Reads, Paying
  <2>4. CASE Posts(p)
    BY <1>4, <2>1, <2>4 DEF Posts, Fresh, Reads, Paying
  <2>5. CASE Lists(p)
    <3>1. ASSUME NEW e \in req'[p].todo PROVE e.doc = inv[e.m]
      BY <1>4, <2>5 DEF Lists, Fresh
    <3> QED
      BY <2>1, <2>5, <3>1 DEF Lists, Fresh
  <2>6. CASE Applies(p)
    <3>1. PICK e \in req[p].todo, d \in Invoice :
            /\ req[p] # Idle
            /\ inv' = [inv EXCEPT ![e.m] = d]
            /\ req'[p].todo = req[p].todo \ {e} /\ req'[p].pc = "apply"
            /\ d.status \in {"partial_paid", "paid"}
      BY <2>6 DEF Applies, Paying
    <3>2. /\ \A f \in req[p].todo : f \in Copy /\ f.m \in Months
          /\ e.m \in Months /\ e.doc \in Invoice /\ inv[e.m] = e.doc
          /\ e.doc.status \notin {"paid", "void"}
      BY <1>4, <3>1, RequestFields DEF Copy, Fresh
    <3>3. Moves(inv[e.m].status, d.status)
      BY <3>1, <3>2, InvoiceFields DEF Moves, Rank, InvoiceStatus
    <3>4. \A m \in Months : inv'[m] = IF m = e.m THEN d ELSE inv[m]
      BY <3>1 DEF Typed, TypeOK
    <3>5. \A m \in Billed : Moves(inv[m].status, inv'[m].status)
      BY <1>4, <1>5, <3>3, <3>4, InvoiceFields DEF Billed, Exists
    <3>6. Fresh(req'[p], inv')
      BY <1>4, <3>1, <3>2, <3>4 DEF Fresh
    <3> QED
      BY <3>1, <3>5, <3>6
  <2>7. CASE Finishes(p)
    <3>1. CASE UNCHANGED inv
      BY <2>1, <2>7, <3>1 DEF Finishes
    <3>2. ASSUME NEW m \in Months, NEW d \in Invoice,
                 inv' = [inv EXCEPT ![m] = d],
                 \/ inv[m] = None
                 \/ req[p].op = "update"
                 \/ /\ Reads(req[p]) /\ req[p].pc = "write" /\ m = req[p].m
                    /\ Moves(req[p].doc.status, d.status)
          PROVE  \A k \in Billed : Moves(inv[k].status, inv'[k].status)
      <4>1. req[p] # Idle /\ req[p].op # "update"
        BY <2>7 DEF Finishes, HNext
      <4>2. inv[m] # None => Moves(inv[m].status, d.status)
        BY <1>4, <3>2, <4>1 DEF Fresh
      <4>3. \A k \in Months : inv'[k] = IF k = m THEN d ELSE inv[k]
        BY <3>2 DEF Typed, TypeOK
      <4> QED
        BY <1>4, <1>5, <4>2, <4>3, InvoiceFields DEF Billed, Exists
    <3> QED
      BY <2>7, <3>1, <3>2 DEF Finishes
  <2> QED
    BY <1>2, <2>2, <2>3, <2>4, <2>5, <2>6, <2>7 DEF Shaped
<1>7. ASSUME NEW q \in Handlers, req'[q] # Idle PROVE Fresh(req'[q], inv')
  <2>1. CASE q = p
    BY <1>6, <1>7, <2>1
  <2>2. CASE q # p
    <3>1. req'[q] = req[q] /\ req[p] = Idle
      BY <1>1, <1>3, <1>7, <2>2 DEF Single
    <3> QED
      BY <1>1, <1>6, <1>7, <3>1 DEF Serial
  <2> QED
    BY <2>1, <2>2
<1> QED
  BY <1>1, <1>6, <1>7 DEF Serial

(* While requests come one at a time and no status is set by hand, an      *)
(* invoice only moves forward, and paid is final.                          *)
THEOREM InvoicesMoveForward == HSpec => SerialMovesForward
<1> DEFINE I == Typed /\ Serial
           Forward == ~overlapped' => \A m \in Billed :
                        /\ Rank(inv'[m].status) >= Rank(inv[m].status)
                        /\ inv[m].status = "paid" => inv'[m].status = "paid"
<1>1. HInit => I
  <2>1. Init => Serial
    BY DEF Init, Serial, Single
  <2> QED
    BY <2>1, TypedInit DEF HInit
<1>2. I /\ [HNext]_<<vars, overlapped>> => I' /\ [Forward]_<<vars, overlapped>>
  <2> SUFFICES ASSUME I, [HNext]_<<vars, overlapped>>
               PROVE  I' /\ [Forward]_<<vars, overlapped>>
    OBVIOUS
  <2>1. Typed'
    BY TypedStep DEF HNext
  <2>2. CASE UNCHANGED <<vars, overlapped>>
    BY <2>1, <2>2 DEF Serial, Single, vars
  <2>3. CASE HNext
    <3>1. ~overlapped' => Serial' /\ \A m \in Billed : Moves(inv[m].status, inv'[m].status)
      BY <2>1, <2>3, SerialStep
    <3>2. Serial'
      BY <3>1 DEF Serial
    <3> QED
      BY <2>1, <3>1, <3>2 DEF Moves
  <2> QED
    BY <2>2, <2>3
<1> QED
  BY <1>1, <1>2, PTL DEF HSpec, SerialMovesForward
=============================================================================
