--------------------------- MODULE MCTenantHistory ---------------------------
(* The account for TLC with two requests in progress, and a history variable *)
(* that tells whether requests have overlapped or died.  Payments, bills,    *)
(* proformas and statuses set by hand overlap with anything of their kind;   *)
(* readings, voids, mails and direct payments come one at a time.            *)
EXTENDS TenantAccount, TLC

CONSTANT Racing    \* the operations that overlap

(* Handlers are interchangeable.                                             *)
Symmetric == Permutations(Handlers)

VARIABLE overlapped

(* A step in which a handler dies and which none of its own steps explains.  *)
Died(p) ==
  /\ Crash(p)
  /\ ~(\/ BillInsert(p) \/ Receive(p) \/ ReadBalance(p) \/ Post(p)
       \/ List(p) \/ Apply(p) \/ ApplyEnds(p)
       \/ Reading(p) \/ Void(p) \/ Send(p) \/ Proforma(p) \/ Update(p))

HInit == Init /\ overlapped = FALSE
HNext ==
  /\ Next
  /\ overlapped' = (overlapped
       \/ Cardinality({p \in Handlers : req'[p] # Idle}) > 1
       \/ (\E p \in Handlers : req[p] # Idle /\ req[p].op = "update")
       \/ (\E p \in Handlers : Died(p)))
  /\ (\E p \in Handlers : req'[p] # Idle /\ req'[p].op \notin Racing) =>
       Cardinality({p \in Handlers : req'[p] # Idle}) = 1
HSpec == HInit /\ [][HNext]_<<vars, overlapped>>

(* While requests come one at a time and no status is set by hand, the       *)
(* status of an invoice only moves forward.                                  *)
SerialMovesForward ==
  [][~overlapped' => \A m \in Billed :
       /\ Rank(inv'[m].status) >= Rank(inv[m].status)
       /\ inv[m].status = "paid" => inv'[m].status = "paid"]_<<vars, overlapped>>
=============================================================================
