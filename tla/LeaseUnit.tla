------------------------------ MODULE LeaseUnit ------------------------------
(***************************************************************************)
(* The lease and the unit it lets, as the backend's request handlers       *)
(* change them (lease_service.py, payment_service.py, unit_service.py).    *)
(*                                                                         *)
(* Every handler is a coroutine of its own.  It reads documents into       *)
(* memory, awaits, and later writes them back, so one action here is one   *)
(* database (or Redis) call together with the local code up to the next    *)
(* await.  Three kinds of write matter:                                    *)
(*                                                                         *)
(*   - unit.status by compare-and-set (find_one_and_update on the status), *)
(*   - a whole lease document by Beanie's save(): status and signature     *)
(*     go back as the handler read them, whoever wrote in between,         *)
(*   - a whole unit document by save(), with the same hazard.              *)
(*                                                                         *)
(* A handler may die between any two steps.  The Redis lock carries a TTL  *)
(* and no owner: it can expire under its holder, and whoever deletes it    *)
(* frees it.                                                               *)
(***************************************************************************)
EXTENDS Naturals, Sequences

CONSTANTS Handlers,   \* the requests that may be in progress at once
          Leases,     \* lease ids
          Units,      \* unit ids
          UnitOf,     \* [Leases -> Units]: lease.unit_id, fixed at creation
          Required,   \* _compute_required: deposit + utility + pro-rated rent
          MaxPaid,    \* bound: no lease receives more than this
          Ops,        \* the operations in use in this deployment
          MayCrash    \* whether a process may die inside a request

AllOps == {"create", "activate", "sign", "pay", "fail", "terminate", "edit",
           "reserve", "release", "update"}

ASSUME ConstantsAssumption ==
  /\ UnitOf \in [Leases -> Units]
  /\ Required \in Nat \ {0}
  /\ MaxPaid \in Nat
  /\ Ops \subseteq AllOps
  /\ MayCrash \in BOOLEAN

LeaseStatus == {"absent", "draft", "pending_payment", "pending_signature",
                "active", "terminated"}
UnitStatus == {"vacant", "reserved", "booked", "occupied", "inactive"}
LeaseDoc == [status: LeaseStatus, signed: BOOLEAN]

VARIABLES lease,    \* [Leases -> LeaseDoc], the leases collection
          unit,     \* [Units -> UnitStatus], the units collection
          paid,     \* [Leases -> Nat], completed inbound payments of a lease
          lock,     \* [Units -> BOOLEAN], Redis key lock:<org>:unit_assign:<unit>
          direct,   \* history: leases saved as active by activate_lease
          req       \* [Handlers -> Request], what each handler holds in memory
vars == <<lease, unit, paid, lock, direct, req>>

PCs == {"checkActive", "insert", "lock", "take", "save", "unlock",
        "sum", "payRead", "book", "decide", "readUnit", "saveUnit",
        "reserve", "release"}
Absent == [status |-> "absent", signed |-> FALSE]

(***************************************************************************)
(* A request in progress: its next step pc, the lease l it is about (and   *)
(* so the unit), its copy doc of the lease, the total it summed, the       *)
(* position n in a loop over statuses, the status ust to save on the unit. *)
(***************************************************************************)
Request == [op: AllOps, pc: PCs, l: Leases, doc: LeaseDoc, total: Nat,
            n: 1..3, ust: UnitStatus]
Idle == [pc |-> "idle"]
New(op, pc, l, d) == [op |-> op, pc |-> pc, l |-> l, doc |-> d,
                      total |-> 0, n |-> 1, ust |-> "vacant"]

StoreType ==
  /\ lease \in [Leases -> LeaseDoc]
  /\ unit \in [Units -> UnitStatus]
  /\ paid \in [Leases -> Nat]
  /\ lock \in [Units -> BOOLEAN]
  /\ direct \subseteq Leases
ReqType == req \in [Handlers -> Request \cup {Idle}]
TypeOK == StoreType /\ ReqType

Init ==
  /\ lease = [l \in Leases |-> Absent]
  /\ unit = [u \in Units |-> "vacant"]
  /\ paid = [l \in Leases |-> 0]
  /\ lock = [u \in Units |-> FALSE]
  /\ direct = {}
  /\ req = [p \in Handlers |-> Idle]

-----------------------------------------------------------------------------
At(p, pc) == req[p].pc = pc
Of(p) == UnitOf[req[p].l]
Goto(p, pc) == req' = [req EXCEPT ![p].pc = pc]
Done(p) == req' = [req EXCEPT ![p] = Idle]
Save(p) == lease' = [lease EXCEPT ![req[p].l] = req[p].doc]
PendingOrOver == {"draft", "pending_payment", "pending_signature", "terminated"}

(* The statuses from which a lease can still be signed or paid for.        *)
Pending == {"draft", "pending_payment", "pending_signature"}

(* total_paid >= required.                                                 *)
FullyPaidOnce(total) == total > 0
FullyPaidMore(total) == total > Required
FullyPaid(total) == total >= Required

(* The first step of a handler that begins by reading lease l.             *)
Begin(p, op, l) ==
  /\ At(p, "idle")
  /\ op \in Ops
  /\ lease[l].status # "absent"

(* create_lease: the unit must not be occupied and must have no active     *)
(* lease; each check is a read of its own before the insert.               *)
CreateRead(p, l) ==
  /\ At(p, "idle")
  /\ "create" \in Ops
  /\ lease[l].status = "absent"
  /\ \A q \in Handlers : ~At(q, "idle") => <<req[q].op, req[q].l>> # <<"create", l>>
  /\ unit[UnitOf[l]] # "occupied"
  /\ req' = [req EXCEPT ![p] = New("create", "checkActive", l, Absent)]
  /\ UNCHANGED <<lease, unit, paid, lock, direct>>

ActiveOn(u) == {l \in Leases : UnitOf[l] = u /\ lease[l].status = "active"}

CreateCheck(p) ==
  /\ At(p, "checkActive")
  /\ req[p].op = "create"
  /\ IF ActiveOn(Of(p)) = {} THEN Goto(p, "insert") ELSE Done(p)
  /\ UNCHANGED <<lease, unit, paid, lock, direct>>

(* The draft is inserted.  If it came without an onboarding, one is created *)
(* for it, and several awaits later the draft is saved again as inserted.  *)
Draft == [status |-> "draft", signed |-> FALSE]

CreateInsert(p) ==
  /\ At(p, "insert")
  /\ lease' = [lease EXCEPT ![req[p].l] = Draft]
  /\ Done(p) \/ req' = [req EXCEPT ![p].pc = "save", ![p].doc = Draft]
  /\ UNCHANGED <<unit, paid, lock, direct>>

(* activate_lease: the lease is read and must be a draft.                  *)
ActivateRead(p, l) ==
  /\ Begin(p, "activate", l)
  /\ lease[l].status = "draft"
  /\ req' = [req EXCEPT ![p] = New("activate", "lock", l, lease[l])]
  /\ UNCHANGED <<lease, unit, paid, lock, direct>>

(* SET NX on the unit's lock; a held lock ends the request with a conflict. *)
(* activate_lease, reserve_unit and release_reservation share the key.     *)
AcquireLock(p) ==
  /\ At(p, "lock")
  /\ IF lock[Of(p)]
       THEN Done(p) /\ UNCHANGED lock
       ELSE /\ lock' = [lock EXCEPT ![Of(p)] = TRUE]
            /\ Goto(p, IF req[p].op = "activate" THEN "take" ELSE req[p].op)
  /\ UNCHANGED <<lease, unit, paid, direct>>

(* sign_lease and sign_lease_from_onboarding: read, check, set signed_at   *)
(* on the copy.                                                            *)
SignRead(p, l) ==
  /\ Begin(p, "sign", l)
  /\ lease[l].status \in Pending
  /\ ~lease[l].signed
  /\ req' = [req EXCEPT ![p] =
       New("sign", "sum", l, [lease[l] EXCEPT !.signed = TRUE])]
  /\ UNCHANGED <<lease, unit, paid, lock, direct>>

(* Summing the completed payments.  A signer that finds the move-in amount *)
(* paid goes on to take the unit, otherwise saves pending_payment.         *)
SignSum(p) ==
  /\ At(p, "sum")
  /\ req[p].op = "sign"
  /\ IF FullyPaid(paid[req[p].l])
       THEN Goto(p, "take")
       ELSE req' = [req EXCEPT ![p].pc = "save",
                               ![p].doc.status = "pending_payment"]
  /\ UNCHANGED <<lease, unit, paid, lock, direct>>

(* A completed payment of a: record_payment in cash, a sandbox payment or  *)
(* the STK callback.  a = 0 is a callback delivered again, which runs the  *)
(* transition a second time.                                               *)
PayRecord(p, l, a) ==
  /\ Begin(p, "pay", l)
  /\ a > 0 \/ paid[l] > 0
  /\ paid[l] + a <= MaxPaid
  /\ paid' = [paid EXCEPT ![l] = @ + a]
  /\ req' = [req EXCEPT ![p] = New("pay", "payRead", l, Absent)]
  /\ UNCHANGED <<lease, unit, lock, direct>>

(* A callback that reports failure marks its payment failed, also one that *)
(* an earlier callback completed; the lease is left as it is.              *)
PayFails(l, a) ==
  /\ "fail" \in Ops
  /\ paid[l] >= a
  /\ paid' = [paid EXCEPT ![l] = @ - a]
  /\ UNCHANGED <<lease, unit, lock, direct, req>>

(* _process_payment_transition reads the lease ...                         *)
PayRead(p) ==
  LET l == req[p].l IN
  /\ At(p, "payRead")
  /\ IF lease[l].status \in Pending
       THEN req' = [req EXCEPT ![p].pc = "sum", ![p].doc = lease[l]]
       ELSE Done(p)
  /\ UNCHANGED <<lease, unit, paid, lock, direct>>

(* ... and then its payments.                                              *)
PaySum(p) ==
  /\ At(p, "sum")
  /\ req[p].op = "pay"
  /\ req' = [req EXCEPT
       ![p].total = paid[req[p].l],
       ![p].pc = IF req[p].doc.status = "pending_signature"
                   THEN "decide" ELSE "book"]
  /\ UNCHANGED <<lease, unit, paid, lock, direct>>

(* for from_status in (...): compare-and-set the unit to "booked".         *)
BookFrom == <<"reserved", "vacant", "booked">>

PayBook(p) ==
  LET u == Of(p)
      n == req[p].n IN
  /\ At(p, "book")
  /\ IF unit[u] = BookFrom[n] \/ n = 3
       THEN req' = [req EXCEPT ![p].pc = "decide", ![p].n = 1]
       ELSE req' = [req EXCEPT ![p].n = n + 1]
  /\ unit' = IF unit[u] = BookFrom[n] THEN [unit EXCEPT ![u] = "booked"] ELSE unit
  /\ UNCHANGED <<lease, paid, lock, direct>>

(* What the transition does with its stale copy: activate when signed and  *)
(* fully paid, ask for the signature when fully paid, note a part payment. *)
PayDecide(p) ==
  LET d == req[p].doc
      full == FullyPaid(req[p].total)
      become(s) == req' = [req EXCEPT ![p].pc = "save", ![p].doc.status = s] IN
  /\ At(p, "decide")
  /\ \/ full /\ d.signed /\ Goto(p, "take")
     \/ /\ full /\ ~d.signed
        /\ IF d.status = "pending_signature" THEN Done(p)
                                             ELSE become("pending_signature")
     \/ /\ ~full
        /\ IF d.status = "draft" THEN become("pending_payment") ELSE Done(p)
  /\ UNCHANGED <<lease, unit, paid, lock, direct>>

(* The compare-and-set loop that takes the unit.  activate_lease tries     *)
(* reserved, then vacant, and gives up with a conflict (finally: unlock).  *)
(* Signing and paying also try booked, and activate the lease whether or   *)
(* not one of the three attempts succeeded.                                *)
TakeFromAll(op) == <<"booked", "reserved", "vacant", "inactive">>
TakeFrom(op) == IF op = "activate" THEN <<"reserved", "vacant">>
                                   ELSE <<"booked", "reserved", "vacant">>

ActivatesAnyway(op) == TRUE
ActivatesWithoutUnit(op) == op # "activate"

TakeUnit(p) ==
  LET u == Of(p)
      from == TakeFrom(req[p].op)
      n == req[p].n
      got == unit[u] = from[n]
      last == n = Len(from) IN
  /\ At(p, "take")
  /\ unit' = IF got THEN [unit EXCEPT ![u] = "occupied"] ELSE unit
  /\ IF got \/ (last /\ ActivatesWithoutUnit(req[p].op))
       THEN req' = [req EXCEPT ![p].pc = "save", ![p].doc.status = "active"]
       ELSE IF last THEN Goto(p, "unlock")
                    ELSE req' = [req EXCEPT ![p].n = n + 1]
  /\ UNCHANGED <<lease, paid, lock, direct>>

(* lease.save(): the whole document as this handler holds it.              *)
SaveLease(p) ==
  /\ At(p, "save")
  /\ Save(p)
  /\ direct' = IF req[p].op = "activate" THEN direct \cup {req[p].l} ELSE direct
  /\ CASE req[p].op = "activate" -> Goto(p, "unlock")
       [] req[p].op = "terminate" -> Goto(p, "readUnit")
       [] OTHER -> Done(p)
  /\ UNCHANGED <<unit, paid, lock>>

(* finally: redis.delete(lock_key), whoever holds it by now.               *)
Unlock(p) ==
  /\ At(p, "unlock")
  /\ lock' = [lock EXCEPT ![Of(p)] = FALSE]
  /\ Done(p)
  /\ UNCHANGED <<lease, unit, paid, direct>>

(* terminate_lease: any lease that is not yet terminated is terminated ... *)
TerminateRead(p, l) ==
  /\ Begin(p, "terminate", l)
  /\ lease[l].status # "terminated"
  /\ req' = [req EXCEPT ![p] =
       New("terminate", "save", l, [lease[l] EXCEPT !.status = "terminated"])]
  /\ UNCHANGED <<lease, unit, paid, lock, direct>>

(* ... and its unit, if found occupied, is saved back as vacant.           *)
TerminateReadUnit(p) ==
  /\ At(p, "readUnit")
  /\ IF unit[Of(p)] = "occupied"
       THEN req' = [req EXCEPT ![p].pc = "saveUnit", ![p].ust = "vacant"]
       ELSE Done(p)
  /\ UNCHANGED <<lease, unit, paid, lock, direct>>

SaveUnit(p) ==
  /\ At(p, "saveUnit")
  /\ unit' = [unit EXCEPT ![Of(p)] = req[p].ust]
  /\ Done(p)
  /\ UNCHANGED <<lease, paid, lock, direct>>

(* Handlers that change another field of the lease (discount, escalation,  *)
(* renewal offer, co-tenant, note, rating, reminder) and save it whole.    *)
EditRead(p, l) ==
  /\ Begin(p, "edit", l)
  /\ req' = [req EXCEPT ![p] = New("edit", "save", l, lease[l])]
  /\ UNCHANGED <<lease, unit, paid, lock, direct>>

(* reserve_unit and release_reservation: lock, compare-and-set, unlock.    *)
UnitRequest(p, op, l) ==
  /\ At(p, "idle")
  /\ op \in {"reserve", "release"} \cap Ops
  /\ req' = [req EXCEPT ![p] = New(op, "lock", l, Absent)]
  /\ UNCHANGED <<lease, unit, paid, lock, direct>>

Reserve(p) ==
  LET u == Of(p) IN
  /\ At(p, "reserve")
  /\ unit' = IF unit[u] = "vacant" THEN [unit EXCEPT ![u] = "reserved"] ELSE unit
  /\ Goto(p, "unlock")
  /\ UNCHANGED <<lease, paid, lock, direct>>

ReleasableOrLet == {"reserved", "occupied"}
Releasable == {"reserved"}

Release(p) ==
  LET u == Of(p) IN
  /\ At(p, "release")
  /\ unit' = IF unit[u] \in Releasable THEN [unit EXCEPT ![u] = "vacant"] ELSE unit
  /\ Goto(p, "unlock")
  /\ UNCHANGED <<lease, paid, lock, direct>>

(* update_unit: a status of the caller's choice, or none (the status read  *)
(* is saved back); "occupied" needs an active lease at the time of check.  *)
UpdateRead(p, l) ==
  /\ At(p, "idle")
  /\ "update" \in Ops
  /\ \E s \in UnitStatus :
       \E pc \in IF s = "occupied" /\ unit[UnitOf[l]] # s
                   THEN {"checkActive"}
                 ELSE IF s = "occupied" THEN {"checkActive", "saveUnit"}
                 ELSE {"saveUnit"} :
         req' = [req EXCEPT ![p] =
                   [New("update", pc, l, Absent) EXCEPT !.ust = s]]
  /\ UNCHANGED <<lease, unit, paid, lock, direct>>

UpdateCheck(p) ==
  /\ At(p, "checkActive")
  /\ req[p].op = "update"
  /\ IF ActiveOn(Of(p)) = {} THEN Done(p) ELSE Goto(p, "saveUnit")
  /\ UNCHANGED <<lease, unit, paid, lock, direct>>

(* The process dies between two steps: its memory is gone, the lock stays. *)
Crash(p) ==
  /\ MayCrash
  /\ ~At(p, "idle")
  /\ Done(p)
  /\ UNCHANGED <<lease, unit, paid, lock, direct>>

(* SET ... EX 30 elapses.                                                  *)
LockExpires(u) ==
  /\ lock[u]
  /\ lock' = [lock EXCEPT ![u] = FALSE]
  /\ UNCHANGED <<lease, unit, paid, direct, req>>

-----------------------------------------------------------------------------
Start(p) ==
  \E l \in Leases :
    \/ CreateRead(p, l) \/ ActivateRead(p, l) \/ SignRead(p, l)
    \/ \E a \in 0..Required : PayRecord(p, l, a)
    \/ TerminateRead(p, l) \/ EditRead(p, l)
    \/ \E op \in {"reserve", "release"} : UnitRequest(p, op, l)
    \/ UpdateRead(p, l)

Continue(p) ==
  \/ CreateCheck(p) \/ CreateInsert(p) \/ AcquireLock(p) \/ SignSum(p)
  \/ PayRead(p) \/ PaySum(p) \/ PayBook(p) \/ PayDecide(p) \/ TakeUnit(p)
  \/ SaveLease(p) \/ Unlock(p) \/ TerminateReadUnit(p) \/ SaveUnit(p)
  \/ Reserve(p) \/ Release(p) \/ UpdateCheck(p)

Next ==
  \/ \E p \in Handlers : Start(p) \/ Continue(p) \/ Crash(p)
  \/ \E l \in Leases, a \in 1..Required : PayFails(l, a)
  \/ \E u \in Units : LockExpires(u)

Spec == Init /\ [][Next]_vars

-----------------------------------------------------------------------------
(* Where no completed payment is marked failed later, every active lease   *)
(* has the full move-in amount and a signature, unless the owner activated *)
(* it by hand: no order of payment, signature and stale save lets a tenant *)
(* in without both.                                                        *)
ActiveIsSignedAndPaid ==
  \A l \in Leases : lease[l].status = "active" /\ l \notin direct =>
    lease[l].signed /\ paid[l] >= Required

(* One unit is let to one lease at a time (lease_service.py: "Unit already *)
(* has an active lease").                                                  *)
AtMostOneActive ==
  \A u \in Units : \A k, l \in ActiveOn(u) : k = l

(* The unit of an active lease is occupied, so that nobody else can take   *)
(* it (docs/reporting-spec.md G2).                                         *)
ActiveIsOccupied ==
  \A l \in Leases : lease[l].status = "active" => unit[UnitOf[l]] = "occupied"

(* When no request is in progress, a lease that was paid in full and       *)
(* signed is active (or over): neither handler left it to the other.       *)
PaidAndSignedIsActive ==
  (\A p \in Handlers : At(p, "idle")) =>
    \A l \in Leases : lease[l].signed /\ paid[l] >= Required =>
      lease[l].status \in {"active", "terminated"}

(* A terminated lease stays terminated: terminate_lease refuses a second   *)
(* termination, and no other handler accepts a terminated lease.           *)
TerminatedIsFinal ==
  [][\A l \in Leases : lease[l].status = "terminated" =>
                         lease'[l].status = "terminated"]_vars
=============================================================================
