--------------------------- MODULE LeaseUnitProofs ---------------------------
(***************************************************************************)
(* Proofs about LeaseUnit for any number of handlers, leases and units;    *)
(* the last two theorems are about one handler at a time.                  *)
(***************************************************************************)
EXTENDS LeaseUnit, TLAPS

(* A busy handler holds a request.                                         *)
LEMMA BusyIsRequest ==
  ASSUME ReqType, NEW p \in Handlers, ~At(p, "idle")
  PROVE  req[p] \in Request
BY DEF ReqType, At, Idle

(* Advancing the program counter keeps a request well formed.              *)
LEMMA GotoType ==
  ASSUME ReqType, NEW p \in Handlers, req[p] \in Request,
         NEW pc \in PCs, Goto(p, pc)
  PROVE  ReqType'
<1>1. [req[p] EXCEPT !.pc = pc] \in Request
  BY DEF Request
<1> QED
  BY <1>1 DEF Goto, ReqType

LEMMA DoneType ==
  ASSUME ReqType, NEW p \in Handlers, Done(p)
  PROVE  ReqType'
BY DEF Done, ReqType

LEMMA PutType ==
  ASSUME ReqType, NEW p \in Handlers, NEW r \in Request, req' = [req EXCEPT ![p] = r]
  PROVE  ReqType'
BY DEF ReqType

(* Changing the program counter and the copy's status together.            *)
LEMMA BecomeType ==
  ASSUME ReqType, NEW p \in Handlers, req[p] \in Request,
         NEW pc \in PCs, NEW s \in LeaseStatus,
         req' = [req EXCEPT ![p].pc = pc, ![p].doc.status = s]
  PROVE  ReqType'
<1> DEFINE d == [req[p].doc EXCEPT !.status = s]
<1> DEFINE r == [req[p] EXCEPT !.pc = pc, !.doc = d]
<1>1. d \in LeaseDoc
  BY DEF Request, LeaseDoc
<1>2. r \in Request
  BY <1>1 DEF Request
<1>3. req' = [req EXCEPT ![p] = r]
  BY DEF ReqType
<1> QED
  BY <1>2, <1>3, PutType

LEMMA FreshType ==
  ASSUME ReqType, NEW p \in Handlers, NEW op \in AllOps, NEW pc \in PCs,
         NEW l \in Leases, NEW d \in LeaseDoc, req' = [req EXCEPT ![p] = New(op, pc, l, d)]
  PROVE  ReqType'
<1>1. New(op, pc, l, d) \in Request
  BY DEF New, Request, UnitStatus
<1> QED
  BY <1>1, PutType

-----------------------------------------------------------------------------
(* No callback takes a completed payment back.                             *)
Kept == "fail" \notin Ops

(* What a copy of lease l may claim: if it says active, then the lease was *)
(* activated by hand or carries a signature and, where payments are kept,  *)
(* the full amount.                                                        *)
Safe(d, l) ==
  d.status = "active" =>
    l \in direct \/ (d.signed /\ (Kept => FullyPaid(paid[l])))

(* Which operations may stand at a step, how far activate_lease's two      *)
(* attempts count, and what a handler that is about to activate a lease    *)
(* has already seen.  The totals it saw are still true when it acts, as    *)
(* long as completed payments are kept.                                    *)
HandlerOK(p) ==
  ~At(p, "idle") =>
    /\ At(p, "lock") => req[p].op \in {"activate", "reserve", "release"}
    /\ At(p, "payRead") \/ At(p, "book") \/ At(p, "decide") => req[p].op = "pay"
    /\ req[p].op = "activate" => req[p].n < 3
    /\ At(p, "sum") /\ req[p].op = "sign" => req[p].doc.signed
    /\ (At(p, "book") \/ At(p, "decide")) => (Kept => req[p].total <= paid[req[p].l])
    /\ At(p, "take") /\ req[p].op # "activate" =>
         req[p].doc.signed /\ (Kept => FullyPaid(paid[req[p].l]))
    /\ req[p].op # "activate" => Safe(req[p].doc, req[p].l)

StoreOK == \A l \in Leases : Safe(lease[l], l)

Inv == TypeOK /\ StoreOK /\ \A p \in Handlers : HandlerOK(p)

(* A new request is well formed and, but for a payment, changes no         *)
(* collection.                                                             *)
LEMMA StartType ==
  ASSUME TypeOK, NEW p \in Handlers, Start(p)
  PROVE  TypeOK'
<1> USE DEF TypeOK
<1>a. {"create", "activate", "sign", "pay", "terminate", "edit", "reserve", "release",
       "update"} \subseteq AllOps
  BY DEF AllOps
<1>b. {"checkActive", "lock", "sum", "payRead", "save", "saveUnit"} \subseteq PCs
  BY DEF PCs
<1>c. Absent \in LeaseDoc /\ \A l \in Leases : lease[l] \in LeaseDoc
  BY DEF Absent, LeaseDoc, LeaseStatus, StoreType
<1> PICK l \in Leases :
      \/ CreateRead(p, l) \/ ActivateRead(p, l) \/ SignRead(p, l)
      \/ \E a \in 0..Required : PayRecord(p, l, a)
      \/ TerminateRead(p, l) \/ EditRead(p, l)
      \/ \E op \in {"reserve", "release"} : UnitRequest(p, op, l)
      \/ UpdateRead(p, l)
  BY DEF Start
<1>1. CASE CreateRead(p, l)
  BY <1>1, <1>a, <1>b, <1>c, FreshType DEF CreateRead, StoreType
<1>2. CASE ActivateRead(p, l)
  BY <1>2, <1>a, <1>b, <1>c, FreshType DEF ActivateRead, StoreType
<1>3. CASE SignRead(p, l)
  <2>1. [lease[l] EXCEPT !.signed = TRUE] \in LeaseDoc
    BY <1>c DEF LeaseDoc
  <2> QED
    BY <1>3, <2>1, <1>a, <1>b, FreshType DEF SignRead, StoreType
<1>4. ASSUME NEW a \in 0..Required, PayRecord(p, l, a) PROVE TypeOK'
  <2>1. ReqType'
    BY <1>4, <1>a, <1>b, <1>c, FreshType DEF PayRecord
  <2>2. paid' \in [Leases -> Nat]
    BY <1>4, ConstantsAssumption DEF PayRecord, StoreType
  <2> QED
    BY <1>4, <2>1, <2>2 DEF PayRecord, StoreType
<1>5. CASE TerminateRead(p, l)
  <2>1. [lease[l] EXCEPT !.status = "terminated"] \in LeaseDoc
    BY <1>c DEF LeaseDoc, LeaseStatus
  <2> QED
    BY <1>5, <2>1, <1>a, <1>b, FreshType DEF TerminateRead, StoreType
<1>6. CASE EditRead(p, l)
  BY <1>6, <1>a, <1>b, <1>c, FreshType DEF EditRead, StoreType
<1>7. ASSUME NEW op \in {"reserve", "release"}, UnitRequest(p, op, l) PROVE TypeOK'
  BY <1>7, <1>a, <1>b, <1>c, FreshType DEF UnitRequest, StoreType
<1>8. CASE UpdateRead(p, l)
  <2>1. PICK s \in UnitStatus, pc \in {"checkActive", "saveUnit"} :
          req' = [req EXCEPT ![p] = [New("update", pc, l, Absent) EXCEPT !.ust = s]]
    BY <1>8 DEF UpdateRead
  <2>2. [New("update", pc, l, Absent) EXCEPT !.ust = s] \in Request
    BY <1>a, <1>b, <1>c DEF New, Request
  <2> QED
    BY <1>8, <2>1, <2>2, PutType DEF UpdateRead, StoreType
<1> QED
  BY <1>1, <1>2, <1>3, <1>4, <1>5, <1>6, <1>7, <1>8

(* Every later step of a handler keeps the types too.                      *)
LEMMA ContinueType ==
  ASSUME Inv, NEW p \in Handlers, Continue(p)
  PROVE  TypeOK'
<1> USE DEF TypeOK, Inv
<1>0. req[p] \in Request
  BY BusyIsRequest DEF Continue, CreateCheck, CreateInsert, AcquireLock, SignSum, PayRead,
    PaySum, PayBook, PayDecide, TakeUnit, SaveLease, Unlock, TerminateReadUnit, SaveUnit,
    Reserve, Release, UpdateCheck, At
<1>a. /\ req[p].l \in Leases /\ req[p].doc \in LeaseDoc /\ req[p].ust \in UnitStatus
      /\ req[p].n \in 1..3 /\ Of(p) \in Units
      /\ unit \in [Units -> UnitStatus]
  BY <1>0, ConstantsAssumption DEF Request, Of, StoreType
<1>b. PCs = {"checkActive", "insert", "lock", "take", "save", "unlock",
        "sum", "payRead", "book", "decide", "readUnit", "saveUnit",
        "reserve", "release"}
  BY DEF PCs
<1>c. {"draft", "pending_payment", "pending_signature", "active"} \subseteq LeaseStatus
  BY DEF LeaseStatus
<1>d. \A s \in UnitStatus : [unit EXCEPT ![Of(p)] = s] \in [Units -> UnitStatus]
  BY <1>a
<1>e. {"vacant", "reserved", "booked", "occupied"} \subseteq UnitStatus
  BY DEF UnitStatus
<1>1. CASE CreateCheck(p)
  BY <1>0, <1>1, <1>b, GotoType, DoneType DEF CreateCheck, StoreType
<1>2. CASE CreateInsert(p)
  <2>1. Draft \in LeaseDoc
    BY <1>c DEF LeaseDoc, Draft
  <2>2. [req[p] EXCEPT !.pc = "save", !.doc = Draft] \in Request
    BY <1>0, <2>1, <1>b DEF Request
  <2>3. \/ req' = [req EXCEPT ![p] = [req[p] EXCEPT !.pc = "save", !.doc = Draft]]
        \/ Done(p)
    BY <1>2 DEF CreateInsert, ReqType
  <2>4. ReqType'
    BY <2>2, <2>3, PutType, DoneType
  <2> QED
    BY <1>2, <2>1, <2>4 DEF CreateInsert, StoreType
<1>3. CASE AcquireLock(p)
  <2> DEFINE c == IF req[p].op = "activate" THEN "take" ELSE req[p].op
  <2>1. c \in PCs
    BY <1>3, <1>b DEF AcquireLock, HandlerOK, At
  <2>2. Goto(p, c) \/ Done(p)
    BY <1>3 DEF AcquireLock
  <2>3. ReqType'
    BY <1>0, <2>1, <2>2, GotoType, DoneType
  <2> QED
    BY <1>3, <2>3 DEF AcquireLock, StoreType
<1>4. CASE SignSum(p)
  BY <1>0, <1>4, <1>b, <1>c, GotoType, BecomeType DEF SignSum, StoreType
<1>5. CASE PayRead(p)
  <2>1. lease[req[p].l] \in LeaseDoc
    BY <1>a DEF StoreType
  <2>2. [req[p] EXCEPT !.pc = "sum", !.doc = lease[req[p].l]] \in Request
    BY <1>0, <2>1, <1>b DEF Request
  <2>3. \/ req' = [req EXCEPT ![p] = [req[p] EXCEPT !.pc = "sum", !.doc = lease[req[p].l]]]
        \/ Done(p)
    BY <1>5 DEF PayRead, ReqType
  <2> QED
    BY <1>5, <2>2, <2>3, PutType, DoneType DEF PayRead, StoreType
<1>6. CASE PaySum(p)
  <2> DEFINE c == IF req[p].doc.status = "pending_signature" THEN "decide" ELSE "book"
  <2>1. paid[req[p].l] \in Nat /\ c \in PCs
    BY <1>a, <1>b DEF StoreType
  <2>2. [req[p] EXCEPT !.total = paid[req[p].l], !.pc = c] \in Request
    BY <1>0, <2>1 DEF Request
  <2>3. req' = [req EXCEPT ![p] = [req[p] EXCEPT !.total = paid[req[p].l], !.pc = c]]
    BY <1>6 DEF PaySum, ReqType
  <2> QED
    BY <1>6, <2>2, <2>3, PutType DEF PaySum, StoreType
<1>7. CASE PayBook(p)
  <2>1. [req[p] EXCEPT !.pc = "decide", !.n = 1] \in Request
    <3>1. "decide" \in PCs /\ 1 \in 1..3
      BY <1>b
    <3> QED
      BY <1>0, <3>1 DEF Request
  <2>2. req[p].n # 3 => [req[p] EXCEPT !.n = req[p].n + 1] \in Request
    <3> HAVE req[p].n # 3
    <3>1. req[p].n + 1 \in 1..3
      BY <1>a
    <3> QED
      BY <1>0, <3>1 DEF Request
  <2>3. \/ req' = [req EXCEPT ![p] = [req[p] EXCEPT !.pc = "decide", !.n = 1]]
        \/ req[p].n # 3 /\ req' = [req EXCEPT ![p] = [req[p] EXCEPT !.n = req[p].n + 1]]
    BY <1>7 DEF PayBook, ReqType
  <2> QED
    BY <1>7, <2>1, <2>2, <2>3, <1>d, <1>e, PutType DEF PayBook, StoreType
<1>8. CASE PayDecide(p)
  BY <1>0, <1>8, <1>b, <1>c, GotoType, DoneType, BecomeType DEF PayDecide, StoreType
<1>9. CASE TakeUnit(p)
  <2> DEFINE last == req[p].n = Len(TakeFrom(req[p].op))
  <2>1. ~last => req[p].n + 1 \in 1..3
    BY <1>a, <1>9 DEF TakeFrom, HandlerOK, TakeUnit, At
  <2>2. ~last => [req[p] EXCEPT !.n = req[p].n + 1] \in Request
    BY <1>0, <2>1 DEF Request
  <2>3. \/ req' = [req EXCEPT ![p].pc = "save", ![p].doc.status = "active"]
        \/ Goto(p, "unlock")
        \/ ~last /\ req' = [req EXCEPT ![p] = [req[p] EXCEPT !.n = req[p].n + 1]]
    BY <1>9 DEF TakeUnit, ReqType
  <2>4. ReqType'
    BY <1>0, <1>b, <1>c, <2>2, <2>3, PutType, GotoType, BecomeType
  <2> QED
    BY <1>9, <2>4, <1>d, <1>e DEF TakeUnit, StoreType
<1>10. CASE SaveLease(p)
  BY <1>0, <1>10, <1>a, <1>b, GotoType, DoneType DEF SaveLease, Save, StoreType
<1>11. CASE Unlock(p)
  BY <1>11, <1>a, DoneType DEF Unlock, StoreType
<1>12. CASE TerminateReadUnit(p)
  <2>1. [req[p] EXCEPT !.pc = "saveUnit", !.ust = "vacant"] \in Request
    BY <1>0, <1>b, <1>e DEF Request
  <2>2. \/ req' = [req EXCEPT ![p] = [req[p] EXCEPT !.pc = "saveUnit", !.ust = "vacant"]]
        \/ Done(p)
    BY <1>12 DEF TerminateReadUnit, ReqType
  <2> QED
    BY <1>12, <2>1, <2>2, PutType, DoneType DEF TerminateReadUnit, StoreType
<1>13. CASE SaveUnit(p)
  BY <1>13, <1>a, <1>d, DoneType DEF SaveUnit, StoreType
<1>14. CASE Reserve(p)
  BY <1>0, <1>14, <1>b, <1>d, <1>e, GotoType DEF Reserve, StoreType
<1>15. CASE Release(p)
  BY <1>0, <1>15, <1>b, <1>d, <1>e, GotoType DEF Release, StoreType
<1>16. CASE UpdateCheck(p)
  BY <1>0, <1>16, <1>b, GotoType, DoneType DEF UpdateCheck, StoreType
<1> QED
  BY <1>1, <1>2, <1>3, <1>4, <1>5, <1>6, <1>7, <1>8, <1>9, <1>10, <1>11, <1>12,
     <1>13, <1>14, <1>15, <1>16 DEF Continue

(* Payments and hand activations only accumulate, so a step that leaves a  *)
(* handler's memory alone cannot falsify what it has seen.                 *)
LEMMA OthersOK ==
  ASSUME Inv, TypeOK', NEW q \in Handlers, HandlerOK(q), req'[q] = req[q],
         Kept => \A l \in Leases : paid[l] <= paid'[l], direct \subseteq direct'
  PROVE  HandlerOK(q)'
<1>1. CASE At(q, "idle")
  BY <1>1 DEF HandlerOK, At
<1>2. CASE ~At(q, "idle")
  <2>1. req[q] \in Request
    BY <1>2, BusyIsRequest DEF Inv, TypeOK
  <2>2. /\ req[q].l \in Leases /\ req[q].total \in Nat
        /\ paid[req[q].l] \in Nat /\ paid'[req[q].l] \in Nat
        /\ Kept => paid[req[q].l] <= paid'[req[q].l]
    BY <2>1 DEF Request, Inv, TypeOK, StoreType
  <2>3. Kept /\ FullyPaid(paid[req[q].l]) => FullyPaid(paid'[req[q].l])
    BY <2>2, ConstantsAssumption DEF FullyPaid
  <2>4. Kept /\ req[q].total <= paid[req[q].l] => req[q].total <= paid'[req[q].l]
    BY <2>2
  <2>5. FullyPaid(paid[req[q].l])' = FullyPaid(paid'[req[q].l])
    BY DEF FullyPaid
  <2> QED
    BY <1>2, <2>3, <2>4, <2>5 DEF HandlerOK, At, Safe, Kept
<1> QED
  BY <1>1, <1>2

(* The step of a handler that begins: its new memory is as it should be.   *)
LEMMA StartOK ==
  ASSUME Inv, NEW p \in Handlers, Start(p)
  PROVE  HandlerOK(p)' /\ StoreOK' /\ (\A q \in Handlers \ {p} : req'[q] = req[q])
         /\ (\A l \in Leases : paid[l] <= paid'[l]) /\ direct' = direct
<1> USE DEF Inv, TypeOK, StoreType, ReqType
<1>a. \A l \in Leases : paid[l] <= paid[l]
  OBVIOUS
<1> PICK l \in Leases :
      \/ CreateRead(p, l) \/ ActivateRead(p, l) \/ SignRead(p, l)
      \/ \E a \in 0..Required : PayRecord(p, l, a)
      \/ TerminateRead(p, l) \/ EditRead(p, l)
      \/ \E op \in {"reserve", "release"} : UnitRequest(p, op, l)
      \/ UpdateRead(p, l)
  BY DEF Start
<1>b. lease[l] \in LeaseDoc /\ Safe(lease[l], l)
  BY DEF StoreOK
<1> USE DEF HandlerOK, At, New, Absent, Safe, Kept
<1>c. UNCHANGED <<lease, paid, direct>> => StoreOK'
  BY DEF StoreOK, FullyPaid
<1>1. CASE CreateRead(p, l)
  BY <1>1, <1>a, <1>c DEF CreateRead
<1>2. CASE ActivateRead(p, l)
  BY <1>2, <1>a, <1>c DEF ActivateRead
<1>3. CASE SignRead(p, l)
  <2>1. [lease[l] EXCEPT !.signed = TRUE].signed = TRUE
        /\ [lease[l] EXCEPT !.signed = TRUE].status # "active"
    BY <1>3, <1>b DEF SignRead, Pending, LeaseDoc
  <2> QED
    BY <1>3, <2>1, <1>a, <1>c DEF SignRead
<1>4. ASSUME NEW a \in 0..Required, PayRecord(p, l, a)
      PROVE  /\ HandlerOK(p)' /\ StoreOK' /\ direct' = direct
             /\ \A q \in Handlers \ {p} : req'[q] = req[q]
             /\ \A k \in Leases : paid[k] <= paid'[k]
  <2>1. \A k \in Leases : paid[k] <= paid'[k]
    BY <1>4, ConstantsAssumption DEF PayRecord
  <2>2. \A k \in Leases : FullyPaid(paid[k]) => FullyPaid(paid[k])'
    BY <1>4, <2>1, ConstantsAssumption DEF PayRecord, FullyPaid
  <2>3. StoreOK'
    BY <1>4, <2>2 DEF PayRecord, StoreOK
  <2>4. HandlerOK(p)'
    BY <1>4 DEF PayRecord
  <2> QED
    BY <1>4, <2>1, <2>3, <2>4 DEF PayRecord
<1>5. CASE TerminateRead(p, l)
  <2>1. [lease[l] EXCEPT !.status = "terminated"].status = "terminated"
    BY <1>b DEF LeaseDoc
  <2> QED
    BY <1>5, <2>1, <1>a, <1>c DEF TerminateRead
<1>6. CASE EditRead(p, l)
  BY <1>6, <1>a, <1>b, <1>c DEF EditRead, FullyPaid
<1>7. ASSUME NEW op \in {"reserve", "release"}, UnitRequest(p, op, l)
      PROVE  /\ HandlerOK(p)' /\ StoreOK' /\ direct' = direct
             /\ \A q \in Handlers \ {p} : req'[q] = req[q]
             /\ \A k \in Leases : paid[k] <= paid'[k]
  BY <1>7, <1>a, <1>c DEF UnitRequest
<1>8. CASE UpdateRead(p, l)
  <2>1. PICK s \in UnitStatus, pc \in {"checkActive", "saveUnit"} :
          req' = [req EXCEPT ![p] = [New("update", pc, l, Absent) EXCEPT !.ust = s]]
    BY <1>8 DEF UpdateRead
  <2> QED
    BY <1>8, <2>1, <1>a, <1>c DEF UpdateRead
<1> QED
  BY <1>1, <1>2, <1>3, <1>4, <1>5, <1>6, <1>7, <1>8

(* The later steps.  The two that matter: a handler decides to take the    *)
(* unit only after seeing signature and money, and a save stores what the  *)
(* handler was entitled to write.                                          *)
LEMMA ContinueOK ==
  ASSUME Inv, NEW p \in Handlers, Continue(p)
  PROVE  HandlerOK(p)' /\ StoreOK' /\ (\A q \in Handlers \ {p} : req'[q] = req[q])
         /\ (\A l \in Leases : paid[l] <= paid'[l]) /\ direct \subseteq direct'
<1> USE DEF Inv, TypeOK, StoreType, ReqType
<1>0. req[p] \in Request
  BY BusyIsRequest DEF Continue, CreateCheck, CreateInsert, AcquireLock, SignSum, PayRead,
    PaySum, PayBook, PayDecide, TakeUnit, SaveLease, Unlock, TerminateReadUnit, SaveUnit,
    Reserve, Release, UpdateCheck, At
<1>a. /\ req[p].l \in Leases /\ req[p].doc \in LeaseDoc /\ req[p].n \in 1..3
      /\ req[p].total \in Nat /\ paid[req[p].l] \in Nat
      /\ req[p].doc.signed \in BOOLEAN
  BY <1>0 DEF Request, LeaseDoc
<1>b. \A l \in Leases : paid[l] <= paid[l]
  OBVIOUS
<1>d. \A d \in LeaseDoc, l \in Leases :
         UNCHANGED paid /\ direct \subseteq direct' /\ Safe(d, l) => Safe(d, l)'
  BY DEF Safe, FullyPaid, Kept
<1>c. UNCHANGED <<lease, paid, direct>> => StoreOK'
  BY <1>d DEF StoreOK
<1> USE <1>0, <1>a, <1>b, <1>c DEF HandlerOK, At, Goto, Done, Idle, Safe, FullyPaid, Request,
    Kept
<1>1. CASE CreateCheck(p)
  BY <1>1 DEF CreateCheck
<1>2. CASE CreateInsert(p)
  <2>1. StoreOK'
    BY <1>2 DEF CreateInsert, StoreOK, Draft
  <2> QED
    BY <1>2, <2>1 DEF CreateInsert, Draft
<1>3. CASE AcquireLock(p)
  BY <1>3 DEF AcquireLock
<1>4. CASE SignSum(p)
  BY <1>4 DEF SignSum
<1>5. CASE PayRead(p)
  <2>1. Safe(lease[req[p].l], req[p].l) /\ lease[req[p].l] \in LeaseDoc
    BY DEF StoreOK
  <2>2. At(p, "payRead") /\ UNCHANGED <<lease, unit, paid, lock, direct>>
    BY <1>5 DEF PayRead
  <2>3. CASE req' = [req EXCEPT ![p].pc = "sum", ![p].doc = lease[req[p].l]]
             /\ lease[req[p].l].status \in Pending
    BY <2>2, <2>3 DEF Pending
  <2>4. CASE Done(p)
    BY <2>2, <2>4
  <2> QED
    BY <1>5, <2>3, <2>4 DEF PayRead
<1>6. CASE PaySum(p)
  BY <1>6 DEF PaySum
<1>7. CASE PayBook(p)
  BY <1>7 DEF PayBook
<1>8. CASE PayDecide(p)
  BY <1>8, ConstantsAssumption DEF PayDecide
<1>9. CASE TakeUnit(p)
  BY <1>9 DEF TakeUnit, TakeFrom
<1>10. CASE SaveLease(p)
  <2>1. direct \subseteq direct'
    BY <1>10 DEF SaveLease
  <2>2. lease' = [lease EXCEPT ![req[p].l] = req[p].doc] /\ UNCHANGED paid
    BY <1>10 DEF SaveLease, Save
  <2>3. req[p].doc.status = "active" =>
          req[p].l \in direct' \/ (req[p].doc.signed /\ (Kept => FullyPaid(paid[req[p].l])))
    BY <1>10 DEF SaveLease
  <2>4. ASSUME NEW l \in Leases PROVE Safe(lease[l], l)'
    <3>1. CASE l = req[p].l
      BY <2>2, <2>3, <3>1
    <3>2. CASE l # req[p].l
      BY <2>1, <2>2, <3>2, <1>d DEF StoreOK
    <3> QED
      BY <3>1, <3>2
  <2>5. StoreOK'
    BY <2>4 DEF StoreOK
  <2>6. HandlerOK(p)' /\ \A q \in Handlers \ {p} : req'[q] = req[q]
    BY <1>10, <2>1, <2>2 DEF SaveLease
  <2> QED
    BY <2>1, <2>2, <2>5, <2>6
<1>11. CASE Unlock(p)
  BY <1>11 DEF Unlock
<1>12. CASE TerminateReadUnit(p)
  BY <1>12 DEF TerminateReadUnit
<1>13. CASE SaveUnit(p)
  BY <1>13 DEF SaveUnit
<1>14. CASE Reserve(p)
  BY <1>14 DEF Reserve
<1>15. CASE Release(p)
  BY <1>15 DEF Release
<1>16. CASE UpdateCheck(p)
  BY <1>16 DEF UpdateCheck
<1> QED
  BY <1>1, <1>2, <1>3, <1>4, <1>5, <1>6, <1>7, <1>8, <1>9, <1>10, <1>11, <1>12,
     <1>13, <1>14, <1>15, <1>16 DEF Continue

-----------------------------------------------------------------------------
LEMMA InitInv == Init => Inv
BY ConstantsAssumption DEF Init, Inv, TypeOK, StoreType, ReqType, StoreOK, HandlerOK, At,
   Idle, Absent, Safe, LeaseDoc, LeaseStatus, UnitStatus

(* A step that only ends requests and moves locks keeps the invariant.     *)
LEMMA ForgetOK ==
  ASSUME Inv, TypeOK', UNCHANGED lease, UNCHANGED paid, UNCHANGED direct,
         \A q \in Handlers : req'[q] = req[q] \/ req'[q] = Idle
  PROVE  Inv'
<1>1. StoreOK'
  BY DEF Inv, StoreOK, Safe, FullyPaid, Kept
<1>2. ASSUME NEW q \in Handlers, req'[q] = Idle PROVE HandlerOK(q)'
  BY <1>2 DEF HandlerOK, At, Idle
<1>3. ASSUME NEW q \in Handlers, req'[q] = req[q] PROVE HandlerOK(q)'
  BY <1>3, OthersOK DEF Inv, TypeOK, StoreType
<1> QED
  BY <1>1, <1>2, <1>3 DEF Inv

LEMMA StepInv == Inv /\ [Next]_vars => Inv'
<1> SUFFICES ASSUME Inv, [Next]_vars PROVE Inv'
  OBVIOUS
<1>1. ASSUME NEW p \in Handlers, Start(p) PROVE Inv'
  <2>1. TypeOK'
    BY <1>1, StartType DEF Inv
  <2>2. \A q \in Handlers \ {p} : HandlerOK(q)'
    BY <1>1, <2>1, StartOK, OthersOK DEF Inv
  <2> QED
    BY <1>1, <2>1, <2>2, StartOK DEF Inv
<1>2. ASSUME NEW p \in Handlers, Continue(p) PROVE Inv'
  <2>1. TypeOK'
    BY <1>2, ContinueType
  <2>2. \A q \in Handlers \ {p} : HandlerOK(q)'
    BY <1>2, <2>1, ContinueOK, OthersOK DEF Inv
  <2> QED
    BY <1>2, <2>1, <2>2, ContinueOK DEF Inv
<1>4. ASSUME NEW p \in Handlers, Crash(p) PROVE Inv'
  <2>1. TypeOK'
    BY <1>4, DoneType DEF Crash, Inv, TypeOK, StoreType
  <2>2. \A q \in Handlers : req'[q] = req[q] \/ req'[q] = Idle
    BY <1>4 DEF Crash, Done, Inv, TypeOK, ReqType
  <2> QED
    BY <1>4, <2>1, <2>2, ForgetOK DEF Crash
<1>5. ASSUME NEW u \in Units, LockExpires(u) PROVE Inv'
  <2>1. TypeOK'
    BY <1>5 DEF LockExpires, Inv, TypeOK, StoreType, ReqType
  <2> QED
    BY <1>5, <2>1, ForgetOK DEF LockExpires
<1>6. CASE UNCHANGED vars
  <2>1. TypeOK'
    BY <1>6 DEF vars, Inv, TypeOK, StoreType, ReqType
  <2> QED
    BY <1>6, <2>1, ForgetOK DEF vars
<1>7. ASSUME NEW l \in Leases, NEW a \in 1..Required, PayFails(l, a) PROVE Inv'
  <2>1. ~Kept /\ ~Kept' /\ UNCHANGED <<lease, unit, lock, direct, req>>
    BY <1>7 DEF PayFails, Kept
  <2>2. paid[l] \in Nat /\ a \in Nat /\ a <= paid[l] /\ paid' = [paid EXCEPT ![l] = @ - a]
    BY <1>7, ConstantsAssumption DEF PayFails, Inv, TypeOK, StoreType
  <2>3. TypeOK'
    BY <2>1, <2>2 DEF Inv, TypeOK, StoreType, ReqType
  <2>4. StoreOK'
    BY <2>1 DEF Inv, StoreOK, Safe
  <2>5. \A q \in Handlers : HandlerOK(q)'
    BY <2>1, <2>3, OthersOK DEF Inv
  <2> QED
    BY <2>3, <2>4, <2>5 DEF Inv
<1> QED
  BY <1>1, <1>2, <1>4, <1>5, <1>6, <1>7 DEF Next

(* The collections and the handlers' memory stay well formed whatever the  *)
(* handlers interleave, crash, or lose their lock.                         *)
THEOREM TypeCorrect == Spec => []TypeOK
<1>1. Inv => TypeOK
  BY DEF Inv
<1> QED
  BY InitInv, StepInv, <1>1, PTL DEF Spec

(* Where no callback takes a completed payment back, no interleaving of    *)
(* payments, signatures, stale saves, crashes and expired locks produces   *)
(* an active lease that was neither activated by hand nor both signed and  *)
(* paid in full.                                                           *)
THEOREM SignedAndPaid ==
  ASSUME Kept
  PROVE  Spec => []ActiveIsSignedAndPaid
<1>1. Inv => ActiveIsSignedAndPaid
  BY DEF Inv, StoreOK, Safe, ActiveIsSignedAndPaid, FullyPaid
<1> QED
  BY InitInv, StepInv, <1>1, PTL DEF Spec

-----------------------------------------------------------------------------
(***************************************************************************)
(* Activation by hand.  Where tenants do not sign, nothing is terminated   *)
(* and no unit is edited, a unit is taken by compare-and-set only.         *)
(***************************************************************************)
OwnerOnly == Ops \cap {"sign", "terminate", "update"} = {}

(* No document is signed, and only activate_lease reaches for a unit.      *)
Plain ==
  /\ \A l \in Leases : ~lease[l].signed
  /\ \A p \in Handlers : ~At(p, "idle") =>
       /\ req[p].op \in Ops
       /\ ~req[p].doc.signed
       /\ ~At(p, "saveUnit") /\ ~At(p, "readUnit")
       /\ At(p, "take") => req[p].op = "activate"

(* A lease is active, or a handler holds a copy of it that says so.        *)
Claims(l) ==
  \/ lease[l].status = "active"
  \/ \E p \in Handlers : ~At(p, "idle") /\ req[p].l = l /\ req[p].doc.status = "active"

Exclusive ==
  /\ \A l \in Leases : Claims(l) => unit[UnitOf[l]] = "occupied"
  /\ \A k, l \in Leases : Claims(k) /\ Claims(l) /\ UnitOf[k] = UnitOf[l] => k = l

OwnerInv == Inv /\ Plain /\ Exclusive

LEMMA PlainStep ==
  ASSUME OwnerOnly, OwnerInv, Next
  PROVE  Plain'
<1> USE DEF OwnerOnly, OwnerInv, Inv, TypeOK, StoreType, ReqType, Plain, At, Done, Goto, Idle
<1>1. ASSUME NEW p \in Handlers, Start(p) PROVE Plain'
  <2> PICK l \in Leases :
        \/ CreateRead(p, l) \/ ActivateRead(p, l) \/ SignRead(p, l)
        \/ \E a \in 0..Required : PayRecord(p, l, a)
        \/ TerminateRead(p, l) \/ EditRead(p, l)
        \/ \E op \in {"reserve", "release"} : UnitRequest(p, op, l)
        \/ UpdateRead(p, l)
    BY <1>1 DEF Start
  <2>1. ~SignRead(p, l) /\ ~TerminateRead(p, l) /\ ~UpdateRead(p, l)
    BY DEF SignRead, TerminateRead, UpdateRead, Begin
  <2>2. UNCHANGED lease
    BY <2>1 DEF CreateRead, ActivateRead, PayRecord, EditRead, UnitRequest
  <2>3. PICK op \in Ops, pc \in {"checkActive", "lock", "payRead", "save"},
             d \in {lease[l], Absent} : req' = [req EXCEPT ![p] = New(op, pc, l, d)]
    BY <2>1 DEF CreateRead, ActivateRead, PayRecord, EditRead, UnitRequest, Begin
  <2>4. ~d.signed
    BY DEF Absent
  <2> QED
    BY <2>2, <2>3, <2>4 DEF New
<1>2. ASSUME NEW p \in Handlers, Continue(p) PROVE Plain'
  <2>0. req[p] \in Request
    BY <1>2, BusyIsRequest DEF Continue, CreateCheck, CreateInsert, AcquireLock, SignSum,
      PayRead, PaySum, PayBook, PayDecide, TakeUnit, SaveLease, Unlock, TerminateReadUnit,
      SaveUnit, Reserve, Release, UpdateCheck
  <2> USE <2>0 DEF Request
  <2>1. CASE CreateCheck(p)
    BY <2>1 DEF CreateCheck
  <2>2. CASE CreateInsert(p)
    BY <2>2 DEF CreateInsert, Draft
  <2>3. CASE AcquireLock(p)
    BY <2>3 DEF AcquireLock, HandlerOK
  <2>4. CASE SignSum(p)
    BY <2>4 DEF SignSum
  <2>5. CASE PayRead(p)
    BY <2>5 DEF PayRead
  <2>6. CASE PaySum(p)
    BY <2>6 DEF PaySum
  <2>7. CASE PayBook(p)
    BY <2>7 DEF PayBook
  <2>8. CASE PayDecide(p)
    BY <2>8 DEF PayDecide, LeaseDoc
  <2>9. CASE TakeUnit(p)
    <3>1. \/ req' = [req EXCEPT ![p].pc = "save", ![p].doc.status = "active"]
          \/ req' = [req EXCEPT ![p].pc = "unlock"]
          \/ req' = [req EXCEPT ![p].n = req[p].n + 1]
      BY <2>9 DEF TakeUnit
    <3>2. At(p, "take") /\ UNCHANGED lease
      BY <2>9 DEF TakeUnit
    <3> QED
      BY <3>1, <3>2 DEF LeaseDoc
  <2>10. CASE SaveLease(p)
    BY <2>10 DEF SaveLease, Save
  <2>11. CASE Unlock(p)
    BY <2>11 DEF Unlock
  <2>12. CASE TerminateReadUnit(p)
    BY <2>12 DEF TerminateReadUnit
  <2>13. CASE SaveUnit(p)
    BY <2>13 DEF SaveUnit
  <2>14. CASE Reserve(p)
    BY <2>14 DEF Reserve
  <2>15. CASE Release(p)
    BY <2>15 DEF Release
  <2>16. CASE UpdateCheck(p)
    BY <2>16 DEF UpdateCheck
  <2> QED
    BY <1>2, <2>1, <2>2, <2>3, <2>4, <2>5, <2>6, <2>7, <2>8, <2>9, <2>10, <2>11, <2>12,
       <2>13, <2>14, <2>15, <2>16 DEF Continue
<1>3. ASSUME NEW p \in Handlers, Crash(p) PROVE Plain'
  BY <1>3 DEF Crash
<1>4. ASSUME UNCHANGED <<lease, req>> PROVE Plain'
  BY <1>4
<1> QED
  BY <1>1, <1>2, <1>3, <1>4 DEF Next, LockExpires, PayFails

(* What a step can do to claims and units: it either takes a free unit for *)
(* the lease it is about, or makes no new claim and vacates no let unit.   *)
Takes(p) ==
  /\ unit[Of(p)] # "occupied"
  /\ unit' = [unit EXCEPT ![Of(p)] = "occupied"]
  /\ \A l \in Leases : Claims(l)' => Claims(l) \/ l = req[p].l
Leaves ==
  /\ \A l \in Leases : Claims(l)' => Claims(l)
  /\ \A u \in Units : unit[u] = "occupied" => unit'[u] = "occupied"

LEMMA StartLeaves ==
  ASSUME OwnerOnly, OwnerInv, NEW p \in Handlers, Start(p)
  PROVE  Leaves
<1> USE DEF OwnerOnly, OwnerInv, Inv, TypeOK, StoreType, ReqType, At, Idle
<1> PICK l \in Leases :
      \/ CreateRead(p, l) \/ ActivateRead(p, l) \/ SignRead(p, l)
      \/ \E a \in 0..Required : PayRecord(p, l, a)
      \/ TerminateRead(p, l) \/ EditRead(p, l)
      \/ \E op \in {"reserve", "release"} : UnitRequest(p, op, l)
      \/ UpdateRead(p, l)
  BY DEF Start
<1>1. ~SignRead(p, l) /\ ~TerminateRead(p, l) /\ ~UpdateRead(p, l)
  BY DEF SignRead, TerminateRead, UpdateRead, Begin
<1>2. UNCHANGED <<lease, unit>>
  BY <1>1 DEF CreateRead, ActivateRead, PayRecord, EditRead, UnitRequest
<1>3. PICK op \in Ops, pc \in {"checkActive", "lock", "payRead", "save"},
           d \in {lease[l], Absent} : req' = [req EXCEPT ![p] = New(op, pc, l, d)]
  BY <1>1 DEF CreateRead, ActivateRead, PayRecord, EditRead, UnitRequest, Begin
<1>4. At(p, "idle")
  BY <1>1 DEF CreateRead, ActivateRead, PayRecord, EditRead, UnitRequest, Begin
<1>5. ASSUME NEW k \in Leases, Claims(k)' PROVE Claims(k)
  BY <1>2, <1>3, <1>5 DEF Claims, New, Absent
<1> QED
  BY <1>2, <1>5 DEF Leaves

LEMMA ContinueTakes ==
  ASSUME OwnerOnly, OwnerInv, NEW p \in Handlers, Continue(p)
  PROVE  Leaves \/ Takes(p)
<1> USE DEF OwnerOnly, OwnerInv, Inv, TypeOK, StoreType, ReqType, At, Done, Goto, Idle
<1>0. req[p] \in Request
  BY BusyIsRequest DEF Continue, CreateCheck, CreateInsert, AcquireLock, SignSum,
    PayRead, PaySum, PayBook, PayDecide, TakeUnit, SaveLease, Unlock, TerminateReadUnit,
    SaveUnit, Reserve, Release, UpdateCheck
<1>a. req[p].l \in Leases /\ req[p].n \in 1..3 /\ Of(p) \in Units /\ req[p].doc \in LeaseDoc
  BY <1>0, ConstantsAssumption DEF Request, Of
<1> USE <1>0, <1>a DEF Request
<1>b. (\A l \in Leases : Claims(l)' => Claims(l)) /\ UNCHANGED unit => Leaves
  BY DEF Leaves
<1>1. CASE CreateCheck(p)
  BY <1>1, <1>b DEF CreateCheck, Claims
<1>2. CASE CreateInsert(p)
  BY <1>2, <1>b DEF CreateInsert, Claims, Draft
<1>3. CASE AcquireLock(p)
  BY <1>3, <1>b DEF AcquireLock, Claims
<1>4. CASE SignSum(p)
  BY <1>4 DEF SignSum, Plain
<1>5. CASE PayRead(p)
  BY <1>5, <1>b DEF PayRead, Claims
<1>6. CASE PaySum(p)
  BY <1>6, <1>b DEF PaySum, Claims
<1>7. CASE PayBook(p)
  <2>1. \A l \in Leases : Claims(l)' => Claims(l)
    BY <1>7 DEF PayBook, Claims
  <2>2. \A u \in Units : unit[u] = "occupied" => unit'[u] = "occupied"
    BY <1>7 DEF PayBook, BookFrom
  <2> QED
    BY <2>1, <2>2 DEF Leaves
<1>8. CASE PayDecide(p)
  <2>1. UNCHANGED <<lease, unit>> /\ ~req[p].doc.signed
    BY <1>8 DEF PayDecide, Plain
  <2>2. PICK s \in {"pending_signature", "pending_payment"} :
          \/ req' = [req EXCEPT ![p].pc = "save", ![p].doc.status = s]
          \/ req' = [req EXCEPT ![p] = [pc |-> "idle"]]
    BY <1>8, <2>1 DEF PayDecide
  <2>3. \A l \in Leases : Claims(l)' => Claims(l)
    BY <1>8, <2>1, <2>2 DEF PayDecide, Claims, LeaseDoc
  <2> QED
    BY <2>1, <2>3, <1>b
<1>9. CASE TakeUnit(p)
  <2> DEFINE from == TakeFrom("activate")
             got == unit[Of(p)] = from[req[p].n]
  <2>1. req[p].op = "activate" /\ req[p].n \in {1, 2}
    BY <1>9 DEF TakeUnit, Plain, HandlerOK
  <2>2. CASE got
    <3>1. unit[Of(p)] # "occupied"
      BY <2>1, <2>2 DEF TakeFrom
    <3>2. unit' = [unit EXCEPT ![Of(p)] = "occupied"]
      BY <1>9, <2>1, <2>2 DEF TakeUnit
    <3>3. \A l \in Leases : Claims(l)' => Claims(l) \/ l = req[p].l
      <4>1. req' = [req EXCEPT ![p].pc = "save", ![p].doc.status = "active"]
        BY <1>9, <2>1, <2>2 DEF TakeUnit
      <4>2. UNCHANGED lease
        BY <1>9 DEF TakeUnit
      <4> QED
        BY <4>1, <4>2 DEF Claims
    <3> QED
      BY <3>1, <3>2, <3>3 DEF Takes
  <2>3. CASE ~got
    <3>1. UNCHANGED unit /\ UNCHANGED lease
      BY <1>9, <2>1, <2>3 DEF TakeUnit
    <3>2. \/ req' = [req EXCEPT ![p].pc = "unlock"]
          \/ req' = [req EXCEPT ![p].n = req[p].n + 1]
      BY <1>9, <2>1, <2>3 DEF TakeUnit, ActivatesWithoutUnit
    <3>3. \A l \in Leases : Claims(l)' => Claims(l)
      <4>1. ~At(p, "idle")
        BY <1>9 DEF TakeUnit
      <4>2. \A q \in Handlers : /\ req'[q].doc = req[q].doc
                               /\ req'[q].l = req[q].l
                               /\ At(q, "idle")' => At(q, "idle")
        BY <3>2, <4>1
      <4> SUFFICES ASSUME NEW l \in Leases, Claims(l)' PROVE Claims(l)
        OBVIOUS
      <4>3. CASE lease'[l].status = "active"
        BY <3>1, <4>3 DEF Claims
      <4>4. CASE lease'[l].status # "active"
        <5>1. PICK q \in Handlers :
                ~At(q, "idle")' /\ req'[q].l = l /\ req'[q].doc.status = "active"
          BY <4>4 DEF Claims
        <5>2. ~At(q, "idle") /\ req[q].l = l /\ req[q].doc.status = "active"
          BY <3>2, <4>1, <4>2, <5>1
        <5> QED
          BY <5>2 DEF Claims
      <4> QED
        BY <4>3, <4>4
    <3> QED
      BY <3>1, <3>3, <1>b
  <2> QED
    BY <2>2, <2>3
<1>10. CASE SaveLease(p)
  <2>1. \A l \in Leases : Claims(l)' => Claims(l)
    BY <1>10 DEF SaveLease, Save, Claims
  <2> QED
    BY <1>10, <2>1, <1>b DEF SaveLease
<1>11. CASE Unlock(p)
  BY <1>11, <1>b DEF Unlock, Claims
<1>12. CASE TerminateReadUnit(p)
  BY <1>12 DEF TerminateReadUnit, Plain
<1>13. CASE SaveUnit(p)
  BY <1>13 DEF SaveUnit, Plain
<1>14. CASE Reserve(p)
  BY <1>14 DEF Reserve, Claims, Leaves
<1>15. CASE Release(p)
  BY <1>15 DEF Release, Releasable, Claims, Leaves
<1>16. CASE UpdateCheck(p)
  BY <1>16 DEF UpdateCheck, Plain
<1> QED
  BY <1>1, <1>2, <1>3, <1>4, <1>5, <1>6, <1>7, <1>8, <1>9, <1>10, <1>11, <1>12,
     <1>13, <1>14, <1>15, <1>16 DEF Continue

LEMMA ExclusiveStep ==
  ASSUME OwnerOnly, OwnerInv, Next
  PROVE  Exclusive'
<1> USE DEF OwnerInv, Inv, TypeOK, StoreType, ReqType
<1>1. ASSUME Leaves PROVE Exclusive'
  BY <1>1, ConstantsAssumption DEF Leaves, Exclusive
<1>2. ASSUME NEW p \in Handlers, Takes(p), req[p].l \in Leases PROVE Exclusive'
  <2>1. \A l \in Leases : Claims(l) => UnitOf[l] # Of(p)
    BY <1>2 DEF Exclusive, Takes
  <2>2. \A l \in Leases : Claims(l)' => unit'[UnitOf[l]] = "occupied"
    BY <1>2, <2>1, ConstantsAssumption DEF Exclusive, Takes, Of
  <2>3. \A k, l \in Leases : Claims(k)' /\ Claims(l)' /\ UnitOf[k] = UnitOf[l] => k = l
    BY <1>2, <2>1 DEF Exclusive, Takes, Of
  <2> QED
    BY <2>2, <2>3 DEF Exclusive
<1>3. ASSUME NEW p \in Handlers, Continue(p) PROVE req[p].l \in Leases
  <2>1. ~At(p, "idle")
    BY <1>3 DEF Continue, CreateCheck, CreateInsert, AcquireLock, SignSum, At,
      PayRead, PaySum, PayBook, PayDecide, TakeUnit, SaveLease, Unlock, TerminateReadUnit,
      SaveUnit, Reserve, Release, UpdateCheck
  <2> QED
    BY <2>1, BusyIsRequest DEF Request
<1>4. ASSUME NEW p \in Handlers, Crash(p) PROVE Leaves
  BY <1>4 DEF Crash, Done, Idle, At, Leaves, Claims
<1>5. ASSUME UNCHANGED <<lease, unit, req>> PROVE Leaves
  BY <1>5 DEF At, Leaves, Claims
<1> QED
  BY <1>1, <1>2, <1>3, <1>4, <1>5, StartLeaves, ContinueTakes DEF Next, LockExpires, PayFails

LEMMA OwnerInvariant ==
  ASSUME OwnerOnly
  PROVE  Spec => []OwnerInv
<1>1. Init => OwnerInv
  BY InitInv DEF OwnerInv, Plain, Exclusive, Claims, Init, At, Idle, Absent
<1>2. OwnerInv /\ [Next]_vars => OwnerInv'
  <2>1. ASSUME OwnerInv, Next PROVE OwnerInv'
    BY <2>1, StepInv, PlainStep, ExclusiveStep DEF OwnerInv
  <2>2. ASSUME OwnerInv, UNCHANGED vars PROVE OwnerInv'
    <3>1. Inv'
      BY <2>2, StepInv DEF OwnerInv
    <3> QED
      BY <2>2, <3>1 DEF OwnerInv, vars, Plain, Exclusive, Claims, At
  <2> QED
    BY <2>1, <2>2
<1> QED
  BY <1>1, <1>2, PTL DEF Spec

(* Among requests to create, activate, pay, edit, reserve and release, a   *)
(* unit never has two active leases: compare-and-set alone guarantees it,  *)
(* also when the Redis lock expires under its holder.                      *)
THEOREM OneLeasePerUnit ==
  ASSUME OwnerOnly
  PROVE  Spec => []AtMostOneActive
<1>1. OwnerInv => AtMostOneActive
  BY DEF OwnerInv, Exclusive, Claims, AtMostOneActive, ActiveOn
<1> QED
  BY OwnerInvariant, <1>1, PTL

(* Among the same requests the unit of an active lease is occupied, so     *)
(* create_lease and reserve_unit turn everyone else away.                  *)
THEOREM ActiveLeaseHoldsUnit ==
  ASSUME OwnerOnly
  PROVE  Spec => []ActiveIsOccupied
<1>1. OwnerInv => ActiveIsOccupied
  BY DEF OwnerInv, Exclusive, Claims, ActiveIsOccupied
<1> QED
  BY OwnerInvariant, <1>1, PTL

-----------------------------------------------------------------------------
(***************************************************************************)
(* One request after the other.  With a single handler nothing is written  *)
(* between a request's read and its save: its copy is the lease but for    *)
(* its own edit, and its total is the lease's.                             *)
(***************************************************************************)
OneHandler == \E h : Handlers = {h}

(* What the request in progress may rely on, and therefore may save, about *)
(* the status of its lease.                                                *)
Standing(p) ==
  LET l == req[p].l IN
  ~At(p, "idle") =>
    /\ At(p, "lock") /\ req[p].op = "activate" => lease[l].status # "terminated"
    /\ At(p, "sum") \/ At(p, "book") \/ At(p, "decide") \/ At(p, "take") =>
         lease[l].status # "terminated"
    /\ At(p, "save") /\ lease[l].status = "terminated" =>
         req[p].doc.status = "terminated"
    /\ (At(p, "checkActive") /\ req[p].op = "create") \/ At(p, "insert") =>
         lease[l].status = "absent"

(* Terminated leases are not written over in this step.                    *)
StaysTerminated ==
  \A l \in Leases : lease[l].status = "terminated" => lease'[l].status = "terminated"

LEMMA StandingStart ==
  ASSUME Inv, NEW p \in Handlers, Start(p)
  PROVE  Standing(p)' /\ StaysTerminated
<1> USE DEF Inv, TypeOK, StoreType, ReqType
<1> PICK l \in Leases :
      \/ CreateRead(p, l) \/ ActivateRead(p, l) \/ SignRead(p, l)
      \/ \E a \in 0..Required : PayRecord(p, l, a)
      \/ TerminateRead(p, l) \/ EditRead(p, l)
      \/ \E op \in {"reserve", "release"} : UnitRequest(p, op, l)
      \/ UpdateRead(p, l)
  BY DEF Start
<1>0. UNCHANGED lease
  BY DEF CreateRead, ActivateRead, SignRead, PayRecord, TerminateRead, EditRead,
    UnitRequest, UpdateRead
<1>a. StaysTerminated
  BY <1>0 DEF StaysTerminated
<1>b. lease[l] \in LeaseDoc
  OBVIOUS
<1> USE <1>0, <1>a DEF Standing, At, New
<1>1. CASE CreateRead(p, l)
  BY <1>1 DEF CreateRead
<1>2. CASE ActivateRead(p, l)
  BY <1>2 DEF ActivateRead
<1>3. CASE SignRead(p, l)
  BY <1>3 DEF SignRead, Pending
<1>4. ASSUME NEW a \in 0..Required, PayRecord(p, l, a) PROVE Standing(p)'
  BY <1>4 DEF PayRecord
<1>5. CASE TerminateRead(p, l)
  <2>1. [lease[l] EXCEPT !.status = "terminated"].status = "terminated"
    BY <1>b DEF LeaseDoc
  <2> QED
    BY <1>5, <2>1 DEF TerminateRead
<1>6. CASE EditRead(p, l)
  BY <1>6 DEF EditRead
<1>7. ASSUME NEW op \in {"reserve", "release"}, UnitRequest(p, op, l) PROVE Standing(p)'
  BY <1>7 DEF UnitRequest
<1>8. CASE UpdateRead(p, l)
  <2>1. PICK s \in UnitStatus, pc \in {"checkActive", "saveUnit"} :
          req' = [req EXCEPT ![p] = [New("update", pc, l, Absent) EXCEPT !.ust = s]]
    BY <1>8 DEF UpdateRead
  <2> QED
    BY <2>1
<1> QED
  BY <1>1, <1>2, <1>3, <1>4, <1>5, <1>6, <1>7, <1>8

LEMMA StandingContinue ==
  ASSUME Inv, NEW p \in Handlers, Standing(p), Continue(p)
  PROVE  Standing(p)' /\ StaysTerminated
<1> USE DEF Inv, TypeOK, StoreType, ReqType
<1>0. req[p] \in Request
  BY BusyIsRequest DEF Continue, CreateCheck, CreateInsert, AcquireLock, SignSum, PayRead,
    PaySum, PayBook, PayDecide, TakeUnit, SaveLease, Unlock, TerminateReadUnit, SaveUnit,
    Reserve, Release, UpdateCheck, At
<1>a. req[p].l \in Leases /\ req[p].doc \in LeaseDoc /\ lease[req[p].l] \in LeaseDoc
  BY <1>0 DEF Request
<1>b. UNCHANGED lease => StaysTerminated
  BY DEF StaysTerminated
<1> USE <1>0, <1>a, <1>b DEF HandlerOK, Standing, At, Goto, Done, Idle, Request
<1>1. CASE CreateCheck(p)
  BY <1>1 DEF CreateCheck
<1>2. CASE CreateInsert(p)
  BY <1>2 DEF CreateInsert, StaysTerminated, Draft
<1>3. CASE AcquireLock(p)
  BY <1>3 DEF AcquireLock
<1>4. CASE SignSum(p)
  BY <1>4 DEF SignSum
<1>5. CASE PayRead(p)
  BY <1>5 DEF PayRead, Pending
<1>6. CASE PaySum(p)
  BY <1>6 DEF PaySum
<1>7. CASE PayBook(p)
  BY <1>7 DEF PayBook
<1>8. CASE PayDecide(p)
  BY <1>8 DEF PayDecide
<1>9. CASE TakeUnit(p)
  <2>1. At(p, "take") /\ UNCHANGED lease
    BY <1>9 DEF TakeUnit
  <2>2. \/ req' = [req EXCEPT ![p].pc = "save", ![p].doc.status = "active"]
        \/ Goto(p, "unlock")
        \/ req' = [req EXCEPT ![p].n = req[p].n + 1]
    BY <1>9 DEF TakeUnit
  <2> QED
    BY <2>1, <2>2
<1>10. CASE SaveLease(p)
  BY <1>10 DEF SaveLease, Save, StaysTerminated
<1>11. CASE Unlock(p)
  BY <1>11 DEF Unlock
<1>12. CASE TerminateReadUnit(p)
  BY <1>12 DEF TerminateReadUnit
<1>13. CASE SaveUnit(p)
  BY <1>13 DEF SaveUnit
<1>14. CASE Reserve(p)
  BY <1>14 DEF Reserve
<1>15. CASE Release(p)
  BY <1>15 DEF Release
<1>16. CASE UpdateCheck(p)
  BY <1>16 DEF UpdateCheck
<1> QED
  BY <1>1, <1>2, <1>3, <1>4, <1>5, <1>6, <1>7, <1>8, <1>9, <1>10, <1>11, <1>12,
     <1>13, <1>14, <1>15, <1>16 DEF Continue

StandingInv == Inv /\ \A p \in Handlers : Standing(p)

LEMMA StandingStep ==
  ASSUME OneHandler, StandingInv, [Next]_vars
  PROVE  StandingInv' /\ StaysTerminated
<1> USE DEF StandingInv
<1>0. Inv'
  BY StepInv
<1>1. ASSUME NEW p \in Handlers, Start(p) \/ Continue(p)
      PROVE  StandingInv' /\ StaysTerminated
  <2>1. Standing(p)' /\ StaysTerminated
    BY <1>1, StandingStart, StandingContinue
  <2>2. \A q \in Handlers : q = p
    BY DEF OneHandler
  <2> QED
    BY <1>0, <2>1, <2>2
<1>2. ASSUME NEW p \in Handlers, Crash(p) PROVE StandingInv' /\ StaysTerminated
  <2>1. Standing(p)'
    BY <1>2 DEF Crash, Done, Idle, Standing, At, Inv, TypeOK, ReqType
  <2>2. \A q \in Handlers : q = p
    BY DEF OneHandler
  <2>3. StaysTerminated
    BY <1>2 DEF Crash, StaysTerminated
  <2> QED
    BY <1>0, <2>1, <2>2, <2>3
<1>3. ASSUME UNCHANGED <<lease, req>> PROVE StandingInv' /\ StaysTerminated
  BY <1>0, <1>3 DEF Standing, At, StaysTerminated
<1> QED
  BY <1>1, <1>2, <1>3 DEF Next, LockExpires, PayFails, vars

(* While the requests come one after the other, no later request takes a   *)
(* terminated lease back: every handler that saves a lease refuses a       *)
(* terminated one when it reads it, or saves it as it read it.             *)
THEOREM TerminationLasts ==
  ASSUME OneHandler
  PROVE  Spec => TerminatedIsFinal
<1>1. Init => StandingInv
  BY InitInv DEF StandingInv, Standing, Init, At, Idle
<1>2. StandingInv /\ [Next]_vars => StandingInv'
  BY StandingStep
<1>3. StandingInv /\ [Next]_vars =>
        [\A l \in Leases : lease[l].status = "terminated" =>
                             lease'[l].status = "terminated"]_vars
  BY StandingStep DEF StaysTerminated
<1> QED
  BY <1>1, <1>2, <1>3, PTL DEF Spec, TerminatedIsFinal

-----------------------------------------------------------------------------
(* A lease whose document is d is not waiting: if it is signed and paid in *)
(* full, it has been activated, or is over.                                *)
Settled(d, l) ==
  d.signed /\ FullyPaid(paid[l]) => d.status \in {"active", "terminated"}

Paying == {"payRead", "sum", "book", "decide", "take", "save"}

(* Between requests every lease is settled.  During one every other lease  *)
(* is, and its own is too unless it is being paid for; then the payment    *)
(* that completes the amount has read the lease and its total as they are, *)
(* so it cannot miss a signature that is already there, nor can a          *)
(* signature miss a payment.  A payment that fails meanwhile only lowers   *)
(* what is paid.                                                           *)
Settling(p) ==
  LET l == req[p].l IN
  IF At(p, "idle")
    THEN \A k \in Leases : Settled(lease[k], k)
    ELSE /\ \A k \in Leases \ {l} : Settled(lease[k], k)
         /\ req[p].op # "pay" => Settled(lease[l], l)
         /\ req[p].op = "pay" => req[p].pc \in Paying
         /\ At(p, "payRead") => lease[l].status # "absent"
         /\ req[p].op = "pay" /\ (At(p, "sum") \/ At(p, "book") \/ At(p, "decide")) =>
              req[p].doc = lease[l]
         /\ At(p, "book") \/ At(p, "decide") => req[p].total >= paid[l]
         /\ At(p, "save") => Settled(req[p].doc, l)

LEMMA SettlingStart ==
  ASSUME Inv, NEW p \in Handlers, Settling(p), Start(p)
  PROVE  Settling(p)'
<1> USE DEF Inv, TypeOK, StoreType, ReqType
<1> PICK l \in Leases :
      \/ CreateRead(p, l) \/ ActivateRead(p, l) \/ SignRead(p, l)
      \/ \E a \in 0..Required : PayRecord(p, l, a)
      \/ TerminateRead(p, l) \/ EditRead(p, l)
      \/ \E op \in {"reserve", "release"} : UnitRequest(p, op, l)
      \/ UpdateRead(p, l)
  BY DEF Start
<1>0. UNCHANGED lease /\ At(p, "idle")
  BY DEF CreateRead, ActivateRead, SignRead, PayRecord, TerminateRead, EditRead,
    UnitRequest, UpdateRead, Begin
<1>b. lease[l] \in LeaseDoc /\ \A k \in Leases : Settled(lease[k], k)
  BY <1>0 DEF Settling
<1>c. UNCHANGED paid => \A k \in Leases : Settled(lease[k], k)'
  BY <1>0, <1>b DEF Settled, FullyPaid
<1> USE <1>0 DEF At, New
<1>1. CASE CreateRead(p, l)
  BY <1>1, <1>c DEF CreateRead, Settling
<1>2. CASE ActivateRead(p, l)
  BY <1>2, <1>c DEF ActivateRead, Settling
<1>3. CASE SignRead(p, l)
  BY <1>3, <1>c DEF SignRead, Settling
<1>4. ASSUME NEW a \in 0..Required, PayRecord(p, l, a) PROVE Settling(p)'
  <2>1. req'[p] = New("pay", "payRead", l, Absent) /\ lease[l].status # "absent"
    BY <1>4 DEF PayRecord, Begin
  <2>2. \A k \in Leases \ {l} : paid'[k] = paid[k]
    BY <1>4 DEF PayRecord
  <2>3. \A k \in Leases \ {l} : Settled(lease[k], k)'
    BY <1>b, <2>2 DEF Settled, FullyPaid
  <2> QED
    BY <2>1, <2>3 DEF Settling, Paying
<1>5. CASE TerminateRead(p, l)
  <2>1. [lease[l] EXCEPT !.status = "terminated"].status = "terminated"
    BY <1>b DEF LeaseDoc
  <2>2. Settled([lease[l] EXCEPT !.status = "terminated"], l)'
    BY <2>1, <1>0 DEF Settled
  <2> QED
    BY <1>5, <2>2, <1>c DEF TerminateRead, Settling, Settled
<1>6. CASE EditRead(p, l)
  BY <1>6, <1>c DEF EditRead, Settling, Settled
<1>7. ASSUME NEW op \in {"reserve", "release"}, UnitRequest(p, op, l) PROVE Settling(p)'
  BY <1>7, <1>c DEF UnitRequest, Settling
<1>8. CASE UpdateRead(p, l)
  <2>1. PICK s \in UnitStatus, pc \in {"checkActive", "saveUnit"} :
          req' = [req EXCEPT ![p] = [New("update", pc, l, Absent) EXCEPT !.ust = s]]
    BY <1>8 DEF UpdateRead
  <2> QED
    BY <1>8, <2>1, <1>c DEF UpdateRead, Settling
<1> QED
  BY <1>1, <1>2, <1>3, <1>4, <1>5, <1>6, <1>7, <1>8

LEMMA SettlingContinue ==
  ASSUME Inv, NEW p \in Handlers, Settling(p), Continue(p)
  PROVE  Settling(p)'
<1> USE DEF Inv, TypeOK, StoreType, ReqType
<1>0. req[p] \in Request
  BY BusyIsRequest DEF Continue, CreateCheck, CreateInsert, AcquireLock, SignSum, PayRead,
    PaySum, PayBook, PayDecide, TakeUnit, SaveLease, Unlock, TerminateReadUnit, SaveUnit,
    Reserve, Release, UpdateCheck, At
<1>a. /\ req[p].l \in Leases /\ req[p].doc \in LeaseDoc /\ lease[req[p].l] \in LeaseDoc
      /\ req[p].n \in 1..3
  BY <1>0 DEF Request
<1>n. ~At(p, "idle") /\ UNCHANGED paid
  BY DEF Continue, CreateCheck, CreateInsert, AcquireLock, SignSum, PayRead,
    PaySum, PayBook, PayDecide, TakeUnit, SaveLease, Unlock, TerminateReadUnit, SaveUnit,
    Reserve, Release, UpdateCheck, At
<1>c. UNCHANGED lease => \A k \in Leases : Settled(lease[k], k) => Settled(lease[k], k)'
  BY <1>n DEF Settled, FullyPaid
<1>d. \A d \in LeaseDoc, k \in Leases : Settled(d, k) => Settled(d, k)'
  BY <1>n DEF Settled, FullyPaid
<1>e. /\ \A k \in Leases \ {req[p].l} : Settled(lease[k], k)
      /\ req[p].op # "pay" => Settled(lease[req[p].l], req[p].l)
      /\ req[p].op = "pay" => req[p].pc \in Paying
  BY <1>n DEF Settling
(* A request that ends, or goes on without reading or writing a lease.     *)
<1>f. ASSUME UNCHANGED lease, Done(p), Settled(lease[req[p].l], req[p].l)
      PROVE  Settling(p)'
  BY <1>a, <1>c, <1>e, <1>f DEF Done, Idle, At, Settling
<1>g. ASSUME UNCHANGED lease, NEW pc \in {"insert", "unlock", "readUnit", "saveUnit", "reserve",
                        "release"},
             req[p].op # "pay", req'[p].pc = pc,
             req'[p].op = req[p].op, req'[p].l = req[p].l
      PROVE  Settling(p)'
  BY <1>a, <1>c, <1>e, <1>g DEF At, Settling
<1>r. \A pc : Goto(p, pc) => req'[p] = [req[p] EXCEPT !.pc = pc]
  BY DEF ReqType, Goto
<1> USE <1>0, <1>a, <1>n, <1>e DEF HandlerOK, At, Goto, Idle, Request
<1>1. CASE CreateCheck(p)
  BY <1>1, <1>f, <1>g, <1>r DEF CreateCheck, Paying
<1>2. CASE CreateInsert(p)
  BY <1>2 DEF CreateInsert, Settled, FullyPaid, Settling, Done, Draft, Paying
<1>3. CASE AcquireLock(p)
  BY <1>3, <1>f, <1>g, <1>r, <1>c DEF AcquireLock, Settling
<1>4. CASE SignSum(p)
  BY <1>4, <1>c, <1>r DEF SignSum, Settling, Settled, FullyPaid, LeaseDoc
<1>5. CASE PayRead(p)
  BY <1>5, <1>c, <1>f DEF PayRead, Settling, Pending, Settled, LeaseDoc, LeaseStatus, Paying
<1>6. CASE PaySum(p)
  BY <1>6, <1>c DEF PaySum, Settling, Paying
<1>7. CASE PayBook(p)
  BY <1>7, <1>c DEF PayBook, Settling, Paying
<1>8. CASE PayDecide(p)
  <2>1. /\ req[p].doc = lease[req[p].l] /\ req[p].op = "pay"
        /\ req[p].total >= paid[req[p].l]
    BY <1>8 DEF PayDecide, Settling
  <2>2. FullyPaid(paid[req[p].l]) => FullyPaid(req[p].total)
    <3>1. req[p].total \in Nat /\ paid[req[p].l] \in Nat
      OBVIOUS
    <3> QED
      BY <2>1, <3>1, ConstantsAssumption DEF FullyPaid
  <2> QED
    BY <1>8, <1>c, <1>f, <2>1, <2>2 DEF PayDecide, Settling, Settled, LeaseDoc, Paying
<1>9. CASE TakeUnit(p)
  <2>1. At(p, "take") /\ UNCHANGED lease
    BY <1>9 DEF TakeUnit
  <2>2. \/ req' = [req EXCEPT ![p].pc = "save", ![p].doc.status = "active"]
        \/ Goto(p, "unlock") /\ req[p].op = "activate"
        \/ req' = [req EXCEPT ![p].n = req[p].n + 1]
    BY <1>9 DEF TakeUnit, ActivatesWithoutUnit
  <2> QED
    BY <2>1, <2>2, <1>c, <1>g, <1>r DEF Settling, Settled, LeaseDoc, Paying
<1>10. CASE SaveLease(p)
  BY <1>10, <1>d DEF SaveLease, Save, Settling, Done
<1>11. CASE Unlock(p)
  BY <1>11, <1>f DEF Unlock, Paying
<1>12. CASE TerminateReadUnit(p)
  BY <1>12, <1>f, <1>g DEF TerminateReadUnit, Paying
<1>13. CASE SaveUnit(p)
  BY <1>13, <1>f DEF SaveUnit, Paying
<1>14. CASE Reserve(p)
  BY <1>14, <1>g, <1>r DEF Reserve, Paying
<1>15. CASE Release(p)
  BY <1>15, <1>g, <1>r DEF Release, Paying
<1>16. CASE UpdateCheck(p)
  BY <1>16, <1>f, <1>g, <1>r DEF UpdateCheck, Paying
<1> QED
  BY <1>1, <1>2, <1>3, <1>4, <1>5, <1>6, <1>7, <1>8, <1>9, <1>10, <1>11, <1>12,
     <1>13, <1>14, <1>15, <1>16 DEF Continue

SettlingInv == Inv /\ \A p \in Handlers : Settling(p)

LEMMA SettlingStep ==
  ASSUME OneHandler, ~MayCrash, SettlingInv, [Next]_vars
  PROVE  SettlingInv'
<1> USE DEF SettlingInv
<1>0. Inv'
  BY StepInv
<1>1. ASSUME NEW p \in Handlers, Start(p) \/ Continue(p) PROVE SettlingInv'
  <2>1. Settling(p)'
    BY <1>1, SettlingStart, SettlingContinue
  <2>2. \A q \in Handlers : q = p
    BY DEF OneHandler
  <2> QED
    BY <1>0, <2>1, <2>2
<1>2. ASSUME UNCHANGED <<lease, req, paid>> PROVE SettlingInv'
  BY <1>0, <1>2 DEF Settling, Settled, FullyPaid, At
<1>3. ASSUME NEW l \in Leases, NEW a \in 1..Required, PayFails(l, a) PROVE SettlingInv'
  <2>1. UNCHANGED <<lease, req>>
    BY <1>3 DEF PayFails
  <2>2. \A k \in Leases : paid[k] \in Nat /\ paid'[k] \in Nat /\ paid'[k] <= paid[k]
    BY <1>3, ConstantsAssumption DEF PayFails, Inv, TypeOK, StoreType
  <2>3. \A k \in Leases, d \in LeaseDoc : Settled(d, k) => Settled(d, k)'
    BY <2>2, ConstantsAssumption DEF Settled, FullyPaid
  <2>4. ASSUME NEW q \in Handlers PROVE Settling(q)'
    <3>1. CASE At(q, "idle")
      BY <2>1, <2>3, <3>1 DEF Settling, At, Inv, TypeOK, StoreType
    <3>2. CASE ~At(q, "idle")
      <4>1. req[q] \in Request
        BY <3>2, BusyIsRequest DEF Inv, TypeOK
      <4>2. /\ req[q].l \in Leases /\ req[q].doc \in LeaseDoc /\ req[q].total \in Nat
            /\ \A k \in Leases : lease[k] \in LeaseDoc
        BY <4>1 DEF Request, Inv, TypeOK, StoreType
      <4> QED
        BY <2>1, <2>2, <2>3, <3>2, <4>2 DEF Settling, At
    <3> QED
      BY <3>1, <3>2
  <2> QED
    BY <1>0, <2>4
<1> QED
  BY <1>1, <1>2, <1>3 DEF Next, Crash, LockExpires, vars

(* When requests come one after the other and none dies, a lease that is   *)
(* signed and paid in full has been activated as soon as the last of them  *)
(* ended, whether the signature or the money came first.                   *)
THEOREM PaidAndSignedActivates ==
  ASSUME OneHandler, ~MayCrash
  PROVE  Spec => []PaidAndSignedIsActive
<1>1. Init => SettlingInv
  BY InitInv DEF SettlingInv, Settling, Settled, Init, At, Idle, Absent
<1>2. SettlingInv /\ [Next]_vars => SettlingInv'
  BY SettlingStep
<1>3. SettlingInv => PaidAndSignedIsActive
  BY DEF OneHandler, SettlingInv, Settling, Settled, FullyPaid, PaidAndSignedIsActive
<1> QED
  BY <1>1, <1>2, <1>3, PTL DEF Spec
=============================================================================
