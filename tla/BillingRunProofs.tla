-------------------------- MODULE BillingRunProofs ---------------------------
(***************************************************************************)
(* Proofs about BillingRun for any messages, workers, leases and bounds.   *)
(***************************************************************************)
EXTENDS BillingRun, SequenceTheorems, TLAPS

(***************************************************************************)
(* The inductive invariant.  Reference numbers that are drawn and not yet  *)
(* inserted: below the counter, on no invoice, and each in one hand.       *)
(***************************************************************************)
Drawn ==
  /\ \A m \in Triggers : At(m, "insert") =>
       h[m].ref \in 1..counter /\ \A i \in invoices : i.ref # h[m].ref
  /\ \A m, n \in Triggers : At(m, "insert") /\ At(n, "insert") /\ m # n =>
       h[m].ref # h[n].ref

(* The lease a coroutine c has in hand, and what its outcome sets claim.   *)
Working(c) ==
  /\ c.at \in {"number", "insert"} => \E l \in Leases : c.on = {l}
  /\ c.at = "collect" => c.on \subseteq c.made
  /\ c.at \notin {"number", "insert", "collect"} => c.on = {}
  /\ \A l \in c.made \cup c.skipped : Billed(l)

(* Between OpenRun and CloseRun the coroutine c of m has a run record of   *)
(* its own, open, of which it accounts for every lease.                    *)
InLoop == {"leases", "number", "insert", "collect"}
OwnRun(m, c) ==
  /\ c.at \in InLoop \cup {"snapshot"} =>
       c.run \in DOMAIN runs /\ runs[c.run].by = m /\ runs[c.run].status = "running"
  /\ c.at \in InLoop =>
       runs[c.run].leases \subseteq c.todo \cup c.on \cup c.made \cup c.skipped \cup c.failed

Inv ==
  /\ TypeOK /\ Drawn
  /\ \A m \in Triggers : Working(h[m]) /\ OwnRun(m, h[m])
  /\ OneInvoicePerLease /\ DistinctReferences /\ CompletedRunBilledAll

-----------------------------------------------------------------------------
(* Every point but "idle" is a coroutine under way.                        *)
Busy == Points \ {"idle"}

(* A coroutine that moves to a well formed state keeps h well formed.      *)
LEMMA PutType ==
  ASSUME HandlerType, NEW m \in Triggers, NEW s \in Handler, Goto(m, s)
  PROVE  HandlerType'
BY DEF HandlerType, Goto

(* The state of a message without a coroutine is well formed.              *)
LEMMA IdleType == Idle \in Handler
BY DEF Idle, Handler, Points

(* A step of a coroutine that leaves the queue alone and keeps it busy.    *)
LEMMA BusyStepType ==
  ASSUME TypeOK, NEW m \in Triggers, h[m].at \in Busy, NEW s \in Handler,
         s.at \in Busy, s.tasks \subseteq s.made \cap Metered,
         Goto(m, s), UNCHANGED qvars,
         StoreType', \A i \in invoices' : i.ref \in 1..counter'
  PROVE  TypeOK'
<1>1. HandlerType'
  BY PutType DEF TypeOK
<1>2. Queue!QTypeOK'
  BY DEF TypeOK, Queue!QTypeOK, qvars
<1>3. ASSUME NEW n \in Triggers
      PROVE  /\ (h[n].at = "idle")' <=> (loc[n] # "unacked")'
             /\ (h[n].tasks \subseteq h[n].made \cap Metered)'
  BY DEF TypeOK, HandlerType, Goto, Busy, qvars
<1> QED
  BY <1>1, <1>2, <1>3 DEF TypeOK

(* The system starts well formed.                                          *)
LEMMA InitType == Init => TypeOK
<1> SUFFICES ASSUME Init PROVE TypeOK
  OBVIOUS
<1>1. Queue!QTypeOK
  BY BillingAssumption DEF Init, Queue!QInit, Queue!QTypeOK, Queue!Places
<1>2. StoreType
  BY BillingAssumption DEF Init, StoreType, LeaseStatus, JobStatus, CronState
<1>3. HandlerType
  BY IdleType DEF Init, HandlerType
<1> QED
  BY <1>1, <1>2, <1>3 DEF Init, TypeOK, Queue!QInit, Idle

(* Changing one field of a run record keeps the sequence of runs well      *)
(* formed.                                                                 *)
LEMMA RunsPut ==
  ASSUME NEW rs \in Seq(RunDoc), NEW i \in Nat,
         NEW s \in RunStatus, NEW ls \in SUBSET Leases
  PROVE  /\ [rs EXCEPT ![i].status = s] \in Seq(RunDoc)
         /\ [rs EXCEPT ![i].leases = ls] \in Seq(RunDoc)
<1>1. CASE i \in 1..Len(rs)
  <2>1. rs[i] \in RunDoc
    BY <1>1, ElementOfSeq
  <2>2. [rs[i] EXCEPT !.status = s] \in RunDoc /\ [rs[i] EXCEPT !.leases = ls] \in RunDoc
    BY <2>1 DEF RunDoc
  <2> QED
    BY <1>1, <2>2, ExceptSeq
<1>2. CASE i \notin 1..Len(rs)
  <2>1. DOMAIN rs = 1..Len(rs)
    OBVIOUS
  <2>2. [rs EXCEPT ![i].status = s] = rs /\ [rs EXCEPT ![i].leases = ls] = rs
    BY <1>2, <2>1
  <2> QED
    BY <2>2
<1> QED
  BY <1>1, <1>2

(* The calls of a coroutine that do not end it.                            *)
LEMMA ProceedType ==
  ASSUME TypeOK, Drawn, NEW m \in Triggers, Working(h[m]),
         \/ MarkJob(m) \/ OpenRun(m) \/ Snapshot(m)
         \/ \E l \in Leases : Visit(m, l)
         \/ Number(m) \/ Insert(m) \/ Collect(m)
         \/ \E p \in Properties : Ticket(m, p)
         \/ CloseRun(m) \/ CloseJob(m)
  PROVE  TypeOK'
<1>0. h[m] \in Handler /\ h[m].tasks \subseteq h[m].made \cap Metered
  BY DEF TypeOK, HandlerType
<1>a. h[m].run \in Nat
  BY <1>0 DEF Handler
<1>1. CASE MarkJob(m)
  <2> DEFINE s == [h[m] EXCEPT !.at = "run"]
  <2>1. StoreType'
    BY <1>1 DEF MarkJob, SetJob, TypeOK, StoreType, JobStatus
  <2>2. s \in Handler /\ s.at \in Busy /\ s.tasks \subseteq s.made \cap Metered
    BY <1>0 DEF Handler, Busy, Points
  <2>3. Goto(m, s) /\ h[m].at \in Busy /\ UNCHANGED <<qvars, invoices, counter>>
    BY <1>1 DEF MarkJob, At, Busy, Points
  <2> QED
    BY <2>1, <2>2, <2>3, BusyStepType DEF TypeOK
<1>2. CASE OpenRun(m)
  <2> DEFINE s == [h[m] EXCEPT !.at = "snapshot", !.run = Len(runs')]
  <2>1. StoreType' /\ Len(runs') \in Nat
    <3>1. [by |-> m, status |-> "running", leases |-> {}] \in RunDoc
      BY DEF RunDoc, RunStatus
    <3> QED
      BY <1>2, <3>1 DEF OpenRun, TypeOK, StoreType
  <2>2. s \in Handler /\ s.at \in Busy /\ s.tasks \subseteq s.made \cap Metered
    BY <1>0, <2>1 DEF Handler, Busy, Points
  <2>3. Goto(m, s) /\ h[m].at \in Busy /\ UNCHANGED <<qvars, invoices, counter>>
    BY <1>2 DEF OpenRun, At, Busy, Points
  <2> QED
    BY <2>1, <2>2, <2>3, BusyStepType DEF TypeOK
<1>3. CASE Snapshot(m)
  <2> DEFINE found == {l \in Leases : lease[l] = "active"}
  <2> DEFINE s == [h[m] EXCEPT !.at = "leases", !.todo = found]
  <2>1. StoreType'
    <3>1. runs' = [runs EXCEPT ![h[m].run].leases = found]
      BY <1>3 DEF Snapshot
    <3>2. found \in SUBSET Leases /\ "running" \in RunStatus
      BY DEF RunStatus
    <3>3. runs' \in Seq(RunDoc)
      BY <1>a, <3>1, <3>2, RunsPut DEF TypeOK, StoreType
    <3> QED
      BY <1>3, <3>3 DEF Snapshot, TypeOK, StoreType
  <2>2. s \in Handler /\ s.at \in Busy /\ s.tasks \subseteq s.made \cap Metered
    BY <1>0 DEF Handler, Busy, Points
  <2>3. Goto(m, s) /\ h[m].at \in Busy /\ UNCHANGED <<qvars, invoices, counter>>
    BY <1>3 DEF Snapshot, At, Busy, Points
  <2> QED
    BY <2>1, <2>2, <2>3, BusyStepType DEF TypeOK
<1>4. ASSUME NEW l \in Leases, Visit(m, l) PROVE TypeOK'
  <2>1. PICK s \in Handler :
          s.at \in Busy /\ s.tasks \subseteq s.made \cap Metered /\ Goto(m, s)
    BY <1>0, <1>4 DEF Visit, At, Handler, Busy, Points
  <2>2. h[m].at \in Busy /\ UNCHANGED <<qvars, invoices, counter>> /\ StoreType'
    BY <1>4 DEF Visit, At, Busy, Points, TypeOK, StoreType
  <2> QED
    BY <2>1, <2>2, BusyStepType DEF TypeOK
<1>5. CASE Number(m)
  <2> DEFINE s == [h[m] EXCEPT !.at = "insert", !.ref = counter + 1]
  <2>1. StoreType' /\ counter \in Nat /\ counter + 1 \in Nat
    BY <1>5 DEF Number, NextNumber, TypeOK, StoreType
  <2> DEFINE ref == counter + 1
  <2>a. ref \in Nat
    BY <2>1
  <2> HIDE DEF ref
  <2>b. [h[m] EXCEPT !.at = "insert", !.ref = ref] \in Handler
    BY <1>0, <2>a DEF Handler, Points
  <2>2. s \in Handler /\ s.at \in Busy /\ s.tasks \subseteq s.made \cap Metered
    BY <1>0, <2>b DEF ref, Handler, Busy, Points
  <2>3. /\ Goto(m, s) /\ h[m].at \in Busy /\ UNCHANGED <<qvars, invoices>>
        /\ counter' = counter + 1
    BY <1>5 DEF Number, NextNumber, At, Busy, Points
  <2>4. \A i \in invoices' : i.ref \in 1..counter'
    BY <2>1, <2>3 DEF TypeOK
  <2> QED
    BY <2>1, <2>2, <2>3, <2>4, BusyStepType
<1>6. CASE Insert(m)
  <2>1. PICK l \in h[m].on :
          \/ /\ invoices' = invoices \cup {[lease |-> l, ref |-> h[m].ref, ticket |-> FALSE]}
             /\ Goto(m, [h[m] EXCEPT !.at = "collect", !.made = @ \cup {l}])
          \/ /\ Goto(m, [h[m] EXCEPT !.at = "leases", !.on = {}, !.failed = @ \cup {l}])
             /\ UNCHANGED invoices
    BY <1>6 DEF Insert
  <2>2. h[m].at = "insert" /\ UNCHANGED <<qvars, lease, counter, runs, job, cron, errors>>
    BY <1>6 DEF Insert, At
  <2>3. h[m].ref \in 1..counter
    BY <2>2 DEF Drawn, At
  <2>a. l \in Leases /\ h[m].ref \in Nat
    BY <1>0 DEF Handler
  <2> DEFINE d == [lease |-> l, ref |-> h[m].ref, ticket |-> FALSE]
  <2>b. /\ d \in InvoiceDoc /\ d.ref = h[m].ref
        /\ invoices' = invoices \/ invoices' = invoices \cup {d}
    BY <2>1, <2>a DEF InvoiceDoc
  <2> HIDE DEF d
  <2>c. \A i \in invoices' : i \in InvoiceDoc /\ i.ref \in 1..counter
    BY <2>b, <2>3 DEF TypeOK, StoreType
  <2>4. StoreType' /\ \A i \in invoices' : i.ref \in 1..counter'
    BY <2>2, <2>c DEF TypeOK, StoreType
  <2>5. PICK s \in Handler :
          s.at \in Busy /\ s.tasks \subseteq s.made \cap Metered /\ Goto(m, s)
    BY <1>0, <2>1 DEF Handler, Busy, Points
  <2> QED
    BY <2>2, <2>4, <2>5, BusyStepType DEF Busy, Points
<1>7. CASE Collect(m)
  <2> DEFINE s == [h[m] EXCEPT !.at = "leases", !.on = {}, !.tasks = @ \cup (h[m].on \cap Metered)]
  <2>1. StoreType' /\ Goto(m, s) /\ h[m].at = "collect" /\ UNCHANGED <<qvars, invoices, counter>>
    BY <1>7 DEF Collect, At, TypeOK, StoreType
  <2>2. h[m].on \subseteq h[m].made
    BY <2>1 DEF Working, At
  <2>3. s \in Handler /\ s.at \in Busy /\ s.tasks \subseteq s.made \cap Metered
    BY <1>0, <2>2 DEF Handler, Busy, Points
  <2> QED
    BY <2>1, <2>3, BusyStepType DEF TypeOK, Busy, Points
<1>8. ASSUME NEW p \in Properties, Ticket(m, p) PROVE TypeOK'
  <2> DEFINE mine == {l \in h[m].tasks : PropertyOf[l] = p}
  <2> DEFINE s == [h[m] EXCEPT !.tasks = @ \ mine]
  <2>1. /\ invoices' = {[i EXCEPT !.ticket = @ \/ i.lease \in mine] : i \in invoices}
        /\ h[m].at = "leases" /\ Goto(m, s)
        /\ UNCHANGED <<qvars, lease, counter, runs, job, cron, errors>>
    BY <1>8 DEF Ticket, At
  <2>2. ASSUME NEW i \in invoices
        PROVE  LET j == [i EXCEPT !.ticket = @ \/ i.lease \in mine]
               IN j \in InvoiceDoc /\ j.ref = i.ref
    <3>1. i \in InvoiceDoc
      BY DEF TypeOK, StoreType
    <3>2. (i.ticket \/ i.lease \in mine) \in BOOLEAN
      OBVIOUS
    <3> QED
      BY <3>1, <3>2 DEF InvoiceDoc
  <2>3. StoreType' /\ \A i \in invoices' : i.ref \in 1..counter'
    BY <2>1, <2>2 DEF TypeOK, StoreType
  <2>4. s \in Handler /\ s.at = "leases" /\ s.tasks \subseteq s.made \cap Metered
    BY <1>0, <2>1 DEF Handler
  <2> QED
    BY <2>1, <2>3, <2>4, BusyStepType DEF Busy, Points
<1>9. CASE CloseRun(m)
  <2> DEFINE s == [h[m] EXCEPT !.at = "closejob"]
  <2>1. FinalStatus(m) \in RunStatus
    BY DEF FinalStatus, RunStatus
  <2>2. StoreType'
    BY <1>a, <1>9, <2>1, RunsPut DEF CloseRun, TypeOK, StoreType
  <2>3. s \in Handler /\ s.at \in Busy /\ s.tasks \subseteq s.made \cap Metered
    BY <1>0 DEF Handler, Busy, Points
  <2>4. Goto(m, s) /\ h[m].at \in Busy /\ UNCHANGED <<qvars, invoices, counter>>
    BY <1>9 DEF CloseRun, AllVisited, At, Busy, Points
  <2> QED
    BY <2>2, <2>3, <2>4, BusyStepType DEF TypeOK
<1>10. CASE CloseJob(m)
  <2> DEFINE s == [h[m] EXCEPT !.at = "ack"]
  <2>1. StoreType'
    BY <1>10 DEF CloseJob, SetJob, TypeOK, StoreType, JobStatus
  <2>2. s \in Handler /\ s.at \in Busy /\ s.tasks \subseteq s.made \cap Metered
    BY <1>0 DEF Handler, Busy, Points
  <2>3. Goto(m, s) /\ h[m].at \in Busy /\ UNCHANGED <<qvars, invoices, counter>>
    BY <1>10 DEF CloseJob, At, Busy, Points
  <2> QED
    BY <2>1, <2>2, <2>3, BusyStepType DEF TypeOK
<1> QED
  BY <1>1, <1>2, <1>3, <1>4, <1>5, <1>6, <1>7, <1>8, <1>9, <1>10

-----------------------------------------------------------------------------
(* The handler ends: its coroutine is idle and the broker no longer holds  *)
(* the message for it.                                                     *)
LEMMA EndType ==
  ASSUME TypeOK, StoreType', NEW m \in Triggers, NEW w \in Workers, UNCHANGED <<invoices, counter>>,
         Queue!Ack(w, m) \/ Queue!Reject(w, m), h' = [h EXCEPT ![m] = Idle]
  PROVE  TypeOK'
<1>1. HandlerType'
  BY PutType, IdleType DEF Goto, TypeOK
<1>2. PICK place \in {"acked", "retry"} :
        /\ loc' = [loc EXCEPT ![m] = place]
        /\ held' = [held EXCEPT ![w] = @ \ {m}]
        /\ UNCHANGED faults
  BY DEF Queue!Ack, Queue!Reject, Queue!Move, Queue!AfterFailure
<1>3. Queue!QTypeOK'
  BY <1>2 DEF TypeOK, Queue!QTypeOK, Queue!Places
<1>4. ASSUME NEW n \in Triggers
      PROVE  /\ (h[n].at = "idle")' <=> (loc[n] # "unacked")'
             /\ (h[n].tasks \subseteq h[n].made \cap Metered)'
  BY <1>2 DEF TypeOK, HandlerType, Idle, Queue!QTypeOK
<1> QED
  BY <1>1, <1>3, <1>4 DEF TypeOK

(* The other steps.                                                        *)
LEMMA OtherType ==
  ASSUME TypeOK, Next,
         ~\E m \in Triggers :
            \/ MarkJob(m) \/ OpenRun(m) \/ Snapshot(m)
            \/ \E l \in Leases : Visit(m, l)
            \/ Number(m) \/ Insert(m) \/ Collect(m)
            \/ \E p \in Properties : Ticket(m, p)
            \/ CloseRun(m) \/ CloseJob(m)
  PROVE  TypeOK'
<1> USE DEF TypeOK
<1>1. ASSUME NEW l \in Leases, LeaseMoves(l) PROVE TypeOK'
  BY <1>1 DEF LeaseMoves, StoreType, LeaseStatus, HandlerType, Queue!QTypeOK, qvars
<1>2. ASSUME NEW m \in Manual, CreateJob(m) PROVE TypeOK'
  BY <1>2 DEF CreateJob, StoreType, JobStatus, HandlerType, Queue!QTypeOK, qvars
<1>3. ASSUME NEW m \in Triggers, Queue!Publish(m) \/ Queue!RetryExpires(m),
             StoreType', UNCHANGED <<invoices, counter, h>> PROVE TypeOK'
  BY <1>3 DEF Queue!Publish, Queue!RetryExpires, Queue!Move, HandlerType,
    Queue!QTypeOK, Queue!Places
<1>4. ASSUME NEW m \in Manual, PublishJob(m) PROVE TypeOK'
  BY <1>3, <1>4 DEF PublishJob, Triggers, StoreType
<1>5. CASE DryRun
  <2>1. [by |-> "dry", status |-> "completed", leases |-> {}] \in RunDoc
    BY DEF RunDoc, RunStatus
  <2> QED
    BY <1>5, <2>1 DEF DryRun, StoreType, HandlerType, Queue!QTypeOK, qvars
<1>6. ASSUME NEW w \in Workers, CronCheck(w) PROVE TypeOK'
  BY <1>6 DEF CronCheck, StoreType, CronState, HandlerType, Queue!QTypeOK, qvars
<1>7. ASSUME NEW w \in Workers, CronPublish(w) PROVE TypeOK'
  <2>1. StoreType'
    BY <1>7 DEF CronPublish, StoreType, CronState
  <2> QED
    BY <1>3, <1>7, <2>1 DEF CronPublish, Triggers
<1>8. ASSUME NEW w \in Workers, CronPublishFails(w) PROVE TypeOK'
  BY <1>8, BillingAssumption
    DEF CronPublishFails, StoreType, CronState, HandlerType, Queue!QTypeOK, qvars
<1>9. ASSUME NEW m \in Triggers, LeaseFails(m) PROVE TypeOK'
  <2>0. h[m] \in Handler
    BY DEF HandlerType
  <2>a. \/ \E l \in Leases : Goto(m, [h[m] EXCEPT !.todo = @ \ {l}, !.failed = @ \cup {l}])
                            /\ At(m, "leases")
        \/ Goto(m, [h[m] EXCEPT !.at = "leases", !.on = {}, !.failed = @ \cup h[m].on])
    BY <1>9, <2>0 DEF LeaseFails, Handler
  <2>1. PICK s \in Handler :
          s.at \in Busy /\ s.tasks \subseteq s.made \cap Metered /\ Goto(m, s)
    <3>1. ASSUME NEW l \in Leases, At(m, "leases")
          PROVE  LET s == [h[m] EXCEPT !.todo = @ \ {l}, !.failed = @ \cup {l}]
                 IN s \in Handler /\ s.at \in Busy /\ s.tasks \subseteq s.made \cap Metered
      BY <2>0, <3>1 DEF Handler, At, Busy, Points
    <3>2. LET s == [h[m] EXCEPT !.at = "leases", !.on = {}, !.failed = @ \cup h[m].on]
          IN s \in Handler /\ s.at \in Busy /\ s.tasks \subseteq s.made \cap Metered
      BY <2>0 DEF Handler, Busy, Points
    <3> QED
      BY <2>a, <3>1, <3>2
  <2>2. h[m].at \in Busy
    BY <1>9 DEF LeaseFails, At, Busy, Points
  <2>3. /\ errors < MaxErrors /\ errors' = errors + 1
        /\ UNCHANGED <<qvars, lease, invoices, counter, runs, job, cron>>
    BY <1>9 DEF LeaseFails
  <2>4. StoreType'
    BY <2>3, BillingAssumption DEF StoreType
  <2> QED
    BY <2>1, <2>2, <2>3, <2>4, BusyStepType
<1>10. ASSUME NEW m \in Triggers, TicketsFail(m) PROVE TypeOK'
  <2>1. PICK s \in Handler :
          s.at \in Busy /\ s.tasks \subseteq s.made \cap Metered /\ Goto(m, s)
    BY <1>10 DEF TicketsFail, At, HandlerType, Handler, Busy, Points
  <2>2. StoreType' /\ h[m].at \in Busy /\ UNCHANGED <<qvars, invoices, counter>>
    BY <1>10, BillingAssumption DEF TicketsFail, StoreType, At, Busy, Points
  <2> QED
    BY <2>1, <2>2, BusyStepType
<1>11. ASSUME NEW m \in Triggers, Redeliver(m) PROVE TypeOK'
  BY <1>3, <1>11 DEF Redeliver, StoreType
<1>12. ASSUME NEW w \in Workers, NEW m \in Triggers, Start(w, m) PROVE TypeOK'
  <2> DEFINE s == [h[m] EXCEPT !.at = "job"]
  <2>1. s \in Handler /\ s.at = "job" /\ s.tasks \subseteq s.made \cap Metered
    BY DEF HandlerType, Handler, Points
  <2>2. Goto(m, s) /\ StoreType' /\ Queue!Deliver(w, m) /\ UNCHANGED <<invoices, counter>>
    BY <1>12 DEF Start, StoreType
  <2> HIDE DEF s
  <2>3. HandlerType'
    BY <2>1, <2>2, PutType
  <2> QED
    BY <2>1, <2>2, <2>3 DEF Queue!Deliver, Queue!Move, Queue!QTypeOK, Queue!Places,
      HandlerType, Goto
<1>13. ASSUME NEW w \in Workers, NEW m \in Triggers, Acknowledge(w, m) PROVE TypeOK'
  BY <1>13, EndType DEF Acknowledge, StoreType
<1>14. ASSUME NEW w \in Workers, NEW m \in Triggers, HandlerFails(w, m) PROVE TypeOK'
  <2>1. StoreType'
    BY <1>14, BillingAssumption DEF HandlerFails, SetJob, StoreType, JobStatus
  <2> QED
    BY <1>14, <2>1, EndType DEF HandlerFails, Reraises
<1>15. ASSUME NEW w \in Workers, WorkerDies(w) PROVE TypeOK'
  <2>1. HandlerType'
    BY <1>15, IdleType DEF WorkerDies, HandlerType
  <2>2. Queue!QTypeOK'
    BY <1>15, BillingAssumption DEF WorkerDies, Queue!ConsumerDies, Queue!QTypeOK, Queue!Places
  <2>3. StoreType' /\ UNCHANGED <<invoices, counter>>
    BY <1>15 DEF WorkerDies, StoreType
  <2>4. ASSUME NEW n \in Triggers
        PROVE  \/ h'[n] = Idle /\ loc'[n] = "main"
               \/ h'[n] = h[n] /\ loc'[n] = loc[n]
    BY <1>15 DEF WorkerDies, Queue!ConsumerDies, HandlerType, Queue!QTypeOK
  <2>5. ASSUME NEW n \in Triggers
        PROVE  /\ (h[n].at = "idle")' <=> (loc[n] # "unacked")'
               /\ (h[n].tasks \subseteq h[n].made \cap Metered)'
    BY <2>4 DEF Idle
  <2>6. \A i \in invoices' : i.ref \in 1..counter'
    BY <2>3
  <2> QED
    BY <2>1, <2>2, <2>3, <2>5, <2>6
<1> QED
  BY <1>1, <1>2, <1>4, <1>5, <1>6, <1>7, <1>8, <1>9, <1>10, <1>11, <1>12, <1>13,
     <1>14, <1>15 DEF Next, Proceed

-----------------------------------------------------------------------------
(* A step that leaves invoices and counter alone keeps the invariant when  *)
(* each coroutine either stays, its run record with it, or is well placed  *)
(* afterwards, and no run that has not billed all is marked completed.     *)
LEMMA QuietStep ==
  ASSUME Inv, TypeOK', UNCHANGED <<invoices, counter>>,
         \A n \in Triggers :
           \/ /\ h'[n] = h[n]
              /\ \A i \in DOMAIN runs : runs[i].by = n => i \in DOMAIN runs' /\ runs'[i] = runs[i]
           \/ /\ h'[n].at # "insert" \/ (h[n].at = "insert" /\ h'[n].ref = h[n].ref)
              /\ Working(h[n])' /\ OwnRun(n, h[n])',
         CompletedRunBilledAll'
  PROVE  Inv'
<1>1. OneInvoicePerLease' /\ DistinctReferences'
  BY DEF Inv, OneInvoicePerLease, DistinctReferences
<1>2. Drawn'
  BY DEF Inv, Drawn, At
<1>3. ASSUME NEW n \in Triggers PROVE Working(h[n])' /\ OwnRun(n, h[n])'
  BY DEF Inv, Working, OwnRun, Billed, InLoop
<1> QED
  BY <1>1, <1>2, <1>3 DEF Inv

(* In most such steps the runs stay too.                                   *)
LEMMA StillStep ==
  ASSUME Inv, TypeOK', UNCHANGED <<invoices, counter, runs>>,
         \A n \in Triggers :
           \/ h'[n] = h[n]
           \/ h'[n].at # "insert" /\ Working(h[n])' /\ OwnRun(n, h[n])'
  PROVE  Inv'
<1>1. CompletedRunBilledAll'
  BY DEF Inv, CompletedRunBilledAll, Billed
<1> QED
  BY <1>1, QuietStep

(* A coroutine that is idle or before its run claims nothing.              *)
LEMMA IdleFits ==
  ASSUME NEW m \in Triggers PROVE Working(Idle) /\ OwnRun(m, Idle)
BY DEF Working, OwnRun, Idle, InLoop

(* A coroutine moves to state s, nothing else that matters changes.        *)
LEMMA MoveStep ==
  ASSUME Inv, TypeOK', UNCHANGED <<invoices, counter, runs>>,
         NEW m \in Triggers, NEW s, h' = [h EXCEPT ![m] = s],
         s.at # "insert", Working(s), OwnRun(m, s)
  PROVE  Inv'
<1>1. h'[m] = s /\ \A n \in Triggers \ {m} : h'[n] = h[n]
  BY DEF Inv, TypeOK, HandlerType
<1>2. Working(h[m])' /\ OwnRun(m, h[m])'
  BY <1>1 DEF Working, OwnRun, Billed
<1> QED
  BY <1>1, <1>2, StillStep

(* The loop over the leases, ticket failures and the calls around them.    *)
LEMMA MovesKeepInv ==
  ASSUME Inv, TypeOK', NEW m \in Triggers,
         \/ MarkJob(m) \/ CloseJob(m) \/ Collect(m) \/ LeaseFails(m) \/ TicketsFail(m)
         \/ \E l \in Leases : Visit(m, l)
         \/ \E w \in Workers : Start(w, m) \/ Acknowledge(w, m) \/ HandlerFails(w, m)
  PROVE  Inv'
<1>0. /\ h[m] \in Handler /\ Working(h[m]) /\ OwnRun(m, h[m])
      /\ h[m].at = "idle" <=> loc[m] # "unacked"
  BY DEF Inv, TypeOK, HandlerType
<1>1. ASSUME \/ MarkJob(m) \/ CloseJob(m) \/ \E w \in Workers : Start(w, m)
      PROVE  Inv'
  <2>1. PICK point \in {"run", "ack", "job"} :
          /\ Goto(m, [h[m] EXCEPT !.at = point]) /\ h[m].at \in {"job", "closejob", "idle"}
          /\ UNCHANGED <<invoices, counter, runs>>
    BY <1>0, <1>1 DEF MarkJob, CloseJob, Start, Queue!Deliver, At
  <2> DEFINE s == [h[m] EXCEPT !.at = point]
  <2>2. s.at # "insert" /\ Working(s) /\ OwnRun(m, s)
    BY <1>0, <2>1 DEF Working, OwnRun, InLoop, Handler
  <2> QED
    BY <2>1, <2>2, MoveStep DEF Goto
<1>2. CASE Collect(m)
  <2> DEFINE s == [h[m] EXCEPT !.at = "leases", !.on = {}, !.tasks = @ \cup (h[m].on \cap Metered)]
  <2>1. h[m].at = "collect" /\ Goto(m, s) /\ UNCHANGED <<invoices, counter, runs>>
    BY <1>2 DEF Collect, At
  <2>2. s.at # "insert" /\ Working(s) /\ OwnRun(m, s)
    BY <1>0, <2>1 DEF Working, OwnRun, InLoop, Handler
  <2> QED
    BY <2>1, <2>2, MoveStep DEF Goto
<1>3. CASE LeaseFails(m)
  <2>0. UNCHANGED <<invoices, counter, runs>>
    BY <1>3 DEF LeaseFails
  <2>1. ASSUME NEW l \in h[m].todo, At(m, "leases"),
               Goto(m, [h[m] EXCEPT !.todo = @ \ {l}, !.failed = @ \cup {l}])
        PROVE  Inv'
    <3> DEFINE s == [h[m] EXCEPT !.todo = @ \ {l}, !.failed = @ \cup {l}]
    <3>1. s.at # "insert" /\ Working(s) /\ OwnRun(m, s)
      BY <1>0, <2>1 DEF Working, OwnRun, InLoop, Handler, At
    <3> QED
      BY <2>0, <2>1, <3>1, MoveStep DEF Goto
  <2>2. ASSUME h[m].at \in {"number", "insert", "collect"},
               Goto(m, [h[m] EXCEPT !.at = "leases", !.on = {}, !.failed = @ \cup h[m].on])
        PROVE  Inv'
    <3> DEFINE s == [h[m] EXCEPT !.at = "leases", !.on = {}, !.failed = @ \cup h[m].on]
    <3>1. s.at # "insert" /\ Working(s) /\ OwnRun(m, s)
      BY <1>0, <2>2 DEF Working, OwnRun, InLoop, Handler
    <3> QED
      BY <2>0, <2>2, <3>1, MoveStep DEF Goto
  <2> QED
    BY <1>3, <2>1, <2>2 DEF LeaseFails
<1>4. CASE TicketsFail(m)
  <2> DEFINE s == [h[m] EXCEPT !.tasks = {}]
  <2>1. h[m].at = "leases" /\ Goto(m, s) /\ UNCHANGED <<invoices, counter, runs>>
    BY <1>4 DEF TicketsFail, At
  <2>2. s.at # "insert" /\ Working(s) /\ OwnRun(m, s)
    BY <1>0, <2>1 DEF Working, OwnRun, InLoop, Handler
  <2> QED
    BY <2>1, <2>2, MoveStep DEF Goto
<1>5. ASSUME NEW l \in Leases, Visit(m, l) PROVE Inv'
  <2>1. At(m, "leases") /\ l \in h[m].todo /\ UNCHANGED <<invoices, counter, runs>>
    BY <1>5 DEF Visit
  <2>2. ASSUME Billed(l), Goto(m, [h[m] EXCEPT !.todo = @ \ {l}, !.skipped = @ \cup {l}])
        PROVE  Inv'
    <3> DEFINE s == [h[m] EXCEPT !.todo = @ \ {l}, !.skipped = @ \cup {l}]
    <3>1. s.at # "insert" /\ Working(s) /\ OwnRun(m, s)
      BY <1>0, <2>1, <2>2 DEF Working, OwnRun, InLoop, Handler, At
    <3> QED
      BY <2>1, <2>2, <3>1, MoveStep DEF Goto
  <2>3. ASSUME Goto(m, [h[m] EXCEPT !.todo = @ \ {l}, !.failed = @ \cup {l}])
        PROVE  Inv'
    <3> DEFINE s == [h[m] EXCEPT !.todo = @ \ {l}, !.failed = @ \cup {l}]
    <3>1. s.at # "insert" /\ Working(s) /\ OwnRun(m, s)
      BY <1>0, <2>1 DEF Working, OwnRun, InLoop, Handler, At
    <3> QED
      BY <2>1, <2>3, <3>1, MoveStep DEF Goto
  <2>4. ASSUME Goto(m, [h[m] EXCEPT !.todo = @ \ {l}, !.at = "number", !.on = {l}])
        PROVE  Inv'
    <3> DEFINE s == [h[m] EXCEPT !.todo = @ \ {l}, !.at = "number", !.on = {l}]
    <3>1. s.at # "insert" /\ Working(s) /\ OwnRun(m, s)
      BY <1>0, <2>1 DEF Working, OwnRun, InLoop, Handler, At
    <3> QED
      BY <2>1, <2>4, <3>1, MoveStep DEF Goto
  <2> QED
    BY <1>0, <1>5, <2>2, <2>3, <2>4 DEF Visit, Handler
<1>6. ASSUME NEW w \in Workers, Acknowledge(w, m) \/ HandlerFails(w, m) PROVE Inv'
  <2>1. h' = [h EXCEPT ![m] = Idle] /\ UNCHANGED <<invoices, counter, runs>>
    BY <1>6 DEF Acknowledge, HandlerFails
  <2> QED
    BY <2>1, IdleFits, MoveStep DEF Idle
<1> QED
  BY <1>1, <1>2, <1>3, <1>4, <1>5, <1>6

(* The steps that write a run record: each touches one of its own.         *)
LEMMA RunStep ==
  ASSUME Inv, TypeOK', UNCHANGED <<invoices, counter>>,
         NEW m \in Triggers, NEW s, h' = [h EXCEPT ![m] = s],
         s.at # "insert", Working(s), OwnRun(m, h[m])',
         \A i \in DOMAIN runs : runs[i].by # m => i \in DOMAIN runs' /\ runs'[i] = runs[i],
         CompletedRunBilledAll'
  PROVE  Inv'
<1>1. h'[m] = s /\ \A n \in Triggers \ {m} : h'[n] = h[n]
  BY DEF Inv, TypeOK, HandlerType
<1>2. Working(h[m])'
  BY <1>1 DEF Working, Billed
<1> QED
  BY <1>1, <1>2, QuietStep

(* The run record of a delivery is opened, given its snapshot and closed.  *)
LEMMA RunsKeepInv ==
  ASSUME Inv, TypeOK', NEW m \in Triggers, OpenRun(m) \/ Snapshot(m) \/ CloseRun(m)
  PROVE  Inv'
<1>a. DOMAIN h = Triggers
  BY DEF Inv, TypeOK, HandlerType
<1>0. /\ h[m] \in Handler /\ Working(h[m]) /\ OwnRun(m, h[m])
      /\ runs \in Seq(RunDoc) /\ CompletedRunBilledAll
  BY DEF Inv, TypeOK, HandlerType, StoreType
<1>1. CASE OpenRun(m)
  <2> DEFINE doc == [by |-> m, status |-> "running", leases |-> {}]
  <2> DEFINE s == [h[m] EXCEPT !.at = "snapshot", !.run = Len(runs')]
  <2>1. /\ runs' = Append(runs, doc) /\ h' = [h EXCEPT ![m] = s] /\ h[m].at = "run"
        /\ UNCHANGED <<invoices, counter>>
    BY <1>1 DEF OpenRun, Goto, At
  <2>2. doc \in RunDoc /\ doc.by = m /\ doc.status = "running"
    BY DEF RunDoc, RunStatus
  <2> HIDE DEF doc
  <2>3. /\ Len(runs') = Len(runs) + 1 /\ Len(runs) \in Nat /\ DOMAIN runs = 1..Len(runs)
        /\ runs'[Len(runs')] = doc /\ DOMAIN runs' = 1..Len(runs')
        /\ \A i \in DOMAIN runs : i \in DOMAIN runs' /\ runs'[i] = runs[i]
    BY <1>0, <2>1, <2>2, AppendProperties
  <2>4. s.at = "snapshot" /\ s.run = Len(runs') /\ Working(s)
    BY <1>0, <2>1 DEF Handler, Working
  <2>a. h'[m] = s
    BY <1>a, <2>1
  <2> HIDE DEF s
  <2>5. OwnRun(m, h[m])'
    BY <2>2, <2>3, <2>4, <2>a DEF OwnRun, InLoop
  <2>6. CompletedRunBilledAll'
    <3>1. ASSUME NEW i \in DOMAIN runs' PROVE i \in DOMAIN runs \/ runs'[i] = doc
      BY <2>3
    <3> QED
      BY <1>0, <2>1, <2>2, <2>3, <3>1 DEF CompletedRunBilledAll, Billed
  <2> QED
    BY <2>1, <2>3, <2>4, <2>5, <2>6, RunStep
<1>2. CASE Snapshot(m)
  <2> DEFINE found == {l \in Leases : lease[l] = "active"}
  <2> DEFINE s == [h[m] EXCEPT !.at = "leases", !.todo = found]
  <2>1. /\ runs' = [runs EXCEPT ![h[m].run].leases = found]
        /\ h' = [h EXCEPT ![m] = s] /\ h[m].at = "snapshot"
        /\ UNCHANGED <<invoices, counter>>
    BY <1>2 DEF Snapshot, Goto, At
  <2>2. /\ h[m].run \in DOMAIN runs /\ runs[h[m].run].by = m
        /\ runs[h[m].run].status = "running" /\ runs[h[m].run] \in RunDoc
    BY <1>0, <2>1, ElementOfSeq DEF OwnRun
  <2>3. /\ DOMAIN runs' = DOMAIN runs
        /\ \A i \in DOMAIN runs : i # h[m].run => runs'[i] = runs[i]
        /\ runs'[h[m].run] = [runs[h[m].run] EXCEPT !.leases = found]
    BY <2>1, <2>2
  <2>4. s.at = "leases" /\ s.run = h[m].run /\ s.todo = found /\ Working(s)
    BY <1>0, <2>1 DEF Handler, Working
  <2>5. /\ runs'[h[m].run].by = m /\ runs'[h[m].run].status = "running"
        /\ runs'[h[m].run].leases = found
    BY <2>2, <2>3 DEF RunDoc
  <2>a. h'[m] = s
    BY <1>a, <2>1
  <2> HIDE DEF s, found
  <2>6. OwnRun(m, h[m])'
    BY <2>2, <2>3, <2>4, <2>5, <2>a DEF OwnRun, InLoop
  <2>7. CompletedRunBilledAll'
    BY <1>0, <2>1, <2>3, <2>5 DEF CompletedRunBilledAll, Billed
  <2> QED
    BY <2>1, <2>2, <2>3, <2>4, <2>6, <2>7, RunStep
<1>3. CASE CloseRun(m)
  <2> DEFINE s == [h[m] EXCEPT !.at = "closejob"]
  <2>1. /\ runs' = [runs EXCEPT ![h[m].run].status = FinalStatus(m)]
        /\ h' = [h EXCEPT ![m] = s] /\ h[m].at = "leases" /\ h[m].todo = {}
        /\ UNCHANGED <<invoices, counter>>
    BY <1>3 DEF CloseRun, AllVisited, Goto, At
  <2>2. /\ h[m].run \in DOMAIN runs /\ runs[h[m].run].by = m /\ runs[h[m].run] \in RunDoc
    BY <1>0, <2>1, ElementOfSeq DEF OwnRun, InLoop
  <2>3. /\ DOMAIN runs' = DOMAIN runs
        /\ \A i \in DOMAIN runs : i # h[m].run => runs'[i] = runs[i]
        /\ runs'[h[m].run] = [runs[h[m].run] EXCEPT !.status = FinalStatus(m)]
    BY <2>1, <2>2
  <2>4. s.at = "closejob" /\ Working(s) /\ OwnRun(m, h[m])'
    BY <1>0, <1>a, <2>1 DEF Handler, Working, OwnRun, InLoop
  <2>5. FinalStatus(m) = "completed" =>
          \A l \in runs[h[m].run].leases : Billed(l)
    <3>1. FinalStatus(m) = "completed" => h[m].failed = {}
      BY DEF FinalStatus
    <3>2. h[m].on = {} /\ \A l \in h[m].made \cup h[m].skipped : Billed(l)
      BY <1>0, <2>1 DEF Working
    <3>3. runs[h[m].run].leases
            \subseteq h[m].todo \cup h[m].on \cup h[m].made \cup h[m].skipped \cup h[m].failed
      BY <1>0, <2>1 DEF OwnRun, InLoop
    <3> QED
      BY <2>1, <3>1, <3>2, <3>3
  <2>6. /\ runs'[h[m].run].status = FinalStatus(m)
        /\ runs'[h[m].run].leases = runs[h[m].run].leases
    BY <2>2, <2>3 DEF RunDoc
  <2>7. CompletedRunBilledAll'
    BY <1>0, <2>1, <2>3, <2>5, <2>6 DEF CompletedRunBilledAll, Billed
  <2> QED
    BY <2>1, <2>2, <2>3, <2>4, <2>7, RunStep
<1> QED
  BY <1>1, <1>2, <1>3

(* The record of a dry run belongs to no message.                          *)
LEMMA DryRunKeepsInv ==
  ASSUME Inv, TypeOK', DryRun PROVE Inv'
<1> DEFINE doc == [by |-> "dry", status |-> "completed", leases |-> {}]
<1>1. /\ runs' = Append(runs, doc) /\ UNCHANGED <<invoices, counter, h>>
      /\ doc \in RunDoc /\ doc.by = "dry"
  BY DEF DryRun, RunDoc, RunStatus
<1> HIDE DEF doc
<1>2. runs \in Seq(RunDoc) /\ CompletedRunBilledAll
  BY DEF Inv, TypeOK, StoreType
<1>3. /\ \A i \in DOMAIN runs : i \in DOMAIN runs' /\ runs'[i] = runs[i]
      /\ \A i \in DOMAIN runs' : i \in DOMAIN runs \/ runs'[i] = doc
  BY <1>1, <1>2, AppendProperties
<1>4. CompletedRunBilledAll'
  BY <1>1, <1>2, <1>3 DEF CompletedRunBilledAll, Billed
<1> QED
  BY <1>1, <1>3, <1>4, QuietStep

-----------------------------------------------------------------------------
(* The steps that draw a number or write an invoice: a billed lease stays  *)
(* billed, so what the other coroutines and the closed runs claim holds.   *)
LEMMA InvoiceStep ==
  ASSUME Inv, TypeOK', UNCHANGED runs,
         NEW m \in Triggers, NEW s, h' = [h EXCEPT ![m] = s],
         \A l : Billed(l) => Billed(l)',
         Drawn', OneInvoicePerLease', DistinctReferences',
         Working(h[m])', OwnRun(m, s)
  PROVE  Inv'
<1>1. h'[m] = s /\ \A n \in Triggers \ {m} : h'[n] = h[n]
  BY DEF Inv, TypeOK, HandlerType
<1>2. CompletedRunBilledAll'
  BY DEF Inv, CompletedRunBilledAll
<1>3. ASSUME NEW n \in Triggers PROVE Working(h[n])' /\ OwnRun(n, h[n])'
  <2>1. CASE n = m
    BY <1>1, <2>1 DEF OwnRun
  <2>2. CASE n # m
    BY <1>1, <2>2 DEF Inv, Working, OwnRun
  <2> QED
    BY <2>1, <2>2
<1> QED
  BY <1>2, <1>3 DEF Inv

(* The atomic increment puts a fresh number into one hand.                 *)
LEMMA NumberKeepsInv ==
  ASSUME Inv, TypeOK', NEW m \in Triggers, Number(m) PROVE Inv'
<1> DEFINE s == [h[m] EXCEPT !.at = "insert", !.ref = counter + 1]
<1>0. /\ h[m] \in Handler /\ Working(h[m]) /\ OwnRun(m, h[m]) /\ Drawn
      /\ counter \in Nat /\ \A i \in invoices : i.ref \in 1..counter
      /\ DOMAIN h = Triggers
  BY DEF Inv, TypeOK, HandlerType, StoreType
<1>1. /\ h' = [h EXCEPT ![m] = s] /\ h[m].at = "number" /\ counter' = counter + 1
      /\ UNCHANGED <<invoices, runs>>
  BY DEF Number, NextNumber, Goto, At
<1>2. /\ s.at = "insert" /\ s.ref = counter + 1 /\ s.on = h[m].on /\ s.made = h[m].made
      /\ s.skipped = h[m].skipped /\ OwnRun(m, s)
  BY <1>0, <1>1 DEF Handler, OwnRun, InLoop
<1>3. h'[m] = s /\ \A n \in Triggers \ {m} : h'[n] = h[n]
  BY <1>0, <1>1
<1> HIDE DEF s
<1>4. Working(h[m])'
  BY <1>0, <1>1, <1>2, <1>3 DEF Working, Billed
<1>5. Drawn'
  <2>1. ASSUME NEW n \in Triggers, At(n, "insert")'
        PROVE  (h[n].ref \in 1..counter /\ \A i \in invoices : i.ref # h[n].ref)'
    BY <1>0, <1>1, <1>2, <1>3, <2>1 DEF Drawn, At
  <2>2. ASSUME NEW n \in Triggers, NEW o \in Triggers,
               At(n, "insert")', At(o, "insert")', n # o
        PROVE  h'[n].ref # h'[o].ref
    BY <1>0, <1>1, <1>2, <1>3, <2>2 DEF Drawn, At
  <2> QED
    BY <2>1, <2>2 DEF Drawn
<1>6. OneInvoicePerLease' /\ DistinctReferences' /\ \A l : Billed(l) => Billed(l)'
  BY <1>1 DEF Inv, OneInvoicePerLease, DistinctReferences, Billed
<1> QED
  BY <1>1, <1>2, <1>4, <1>5, <1>6, InvoiceStep

(* The insert uses the drawn number up, or the unique index refuses it.    *)
LEMMA InsertKeepsInv ==
  ASSUME Inv, TypeOK', NEW m \in Triggers, Insert(m) PROVE Inv'
<1>0. /\ h[m] \in Handler /\ Working(h[m]) /\ OwnRun(m, h[m]) /\ Drawn
      /\ OneInvoicePerLease /\ DistinctReferences /\ DOMAIN h = Triggers
  BY DEF Inv, TypeOK, HandlerType
<1>1. h[m].at = "insert" /\ UNCHANGED <<counter, runs>>
  BY DEF Insert, At
<1>2. PICK l \in Leases : h[m].on = {l}
  BY <1>0, <1>1 DEF Working
<1>3. CASE UniqueKey(l)
  <2> DEFINE d == [lease |-> l, ref |-> h[m].ref, ticket |-> FALSE]
  <2> DEFINE s == [h[m] EXCEPT !.at = "collect", !.made = @ \cup {l}]
  <2>1. invoices' = invoices \cup {d} /\ h' = [h EXCEPT ![m] = s] /\ ~Billed(l)
    BY <1>2, <1>3 DEF Insert, UniqueKey, Goto
  <2>2. d.lease = l /\ d.ref = h[m].ref
    OBVIOUS
  <2>3. /\ s.at = "collect" /\ s.on = {l} /\ s.made = h[m].made \cup {l}
        /\ s.skipped = h[m].skipped /\ OwnRun(m, s)
    BY <1>0, <1>1, <1>2 DEF Handler, OwnRun, InLoop
  <2>4. h'[m] = s /\ \A n \in Triggers \ {m} : h'[n] = h[n]
    BY <1>0, <2>1
  <2> HIDE DEF d, s
  <2>5. \A k : Billed(k) => Billed(k)'
    BY <2>1 DEF Billed
  <2>6. Billed(l)'
    BY <2>1, <2>2 DEF Billed
  <2>7. Working(h[m])'
    BY <1>0, <2>3, <2>4, <2>5, <2>6 DEF Working
  <2>8. OneInvoicePerLease'
    BY <1>0, <2>1, <2>2 DEF OneInvoicePerLease, Billed
  <2>9. DistinctReferences'
    BY <1>0, <1>1, <2>1, <2>2 DEF DistinctReferences, Drawn, At
  <2>10. Drawn'
    <3>1. ASSUME NEW n \in Triggers, At(n, "insert")'
          PROVE  (h[n].ref \in 1..counter /\ \A i \in invoices : i.ref # h[n].ref)'
      BY <1>0, <1>1, <2>1, <2>2, <2>3, <2>4, <3>1 DEF Drawn, At
    <3>2. ASSUME NEW n \in Triggers, NEW o \in Triggers,
                 At(n, "insert")', At(o, "insert")', n # o
          PROVE  h'[n].ref # h'[o].ref
      BY <1>0, <2>3, <2>4, <3>2 DEF Drawn, At
    <3> QED
      BY <3>1, <3>2 DEF Drawn
  <2> QED
    BY <1>1, <2>1, <2>3, <2>5, <2>7, <2>8, <2>9, <2>10, InvoiceStep
<1>4. CASE ~UniqueKey(l)
  <2> DEFINE s == [h[m] EXCEPT !.at = "leases", !.on = {}, !.failed = @ \cup {l}]
  <2>1. UNCHANGED invoices /\ h' = [h EXCEPT ![m] = s]
    BY <1>2, <1>4 DEF Insert, Goto
  <2>2. s.at # "insert" /\ Working(s) /\ OwnRun(m, s)
    BY <1>0, <1>1, <1>2 DEF Working, OwnRun, InLoop, Handler
  <2> QED
    BY <1>1, <2>1, <2>2, MoveStep
<1> QED
  BY <1>3, <1>4

(* A ticket is stamped on invoices that keep their lease and number.       *)
LEMMA TicketKeepsInv ==
  ASSUME Inv, TypeOK', NEW m \in Triggers, NEW p \in Properties, Ticket(m, p)
  PROVE  Inv'
<1> DEFINE mine == {l \in h[m].tasks : PropertyOf[l] = p}
<1> DEFINE s == [h[m] EXCEPT !.tasks = @ \ mine]
<1> DEFINE stamp(i) == [i EXCEPT !.ticket = @ \/ i.lease \in mine]
<1>0. /\ h[m] \in Handler /\ Working(h[m]) /\ OwnRun(m, h[m]) /\ Drawn
      /\ OneInvoicePerLease /\ DistinctReferences /\ DOMAIN h = Triggers
      /\ invoices \subseteq InvoiceDoc
  BY DEF Inv, TypeOK, HandlerType, StoreType
<1>1. /\ invoices' = {stamp(i) : i \in invoices} /\ h' = [h EXCEPT ![m] = s]
      /\ h[m].at = "leases" /\ UNCHANGED <<counter, runs>>
  BY DEF Ticket, Goto, At
<1>2. \A i \in invoices : stamp(i).lease = i.lease /\ stamp(i).ref = i.ref
  BY <1>0 DEF InvoiceDoc
<1>3. /\ s.at = "leases" /\ s.on = h[m].on /\ s.made = h[m].made
      /\ s.skipped = h[m].skipped /\ OwnRun(m, s)
  BY <1>0, <1>1 DEF Handler, OwnRun, InLoop
<1>4. h'[m] = s /\ \A n \in Triggers \ {m} : h'[n] = h[n]
  BY <1>0, <1>1
<1> HIDE DEF s, stamp
<1>5. \A k : Billed(k) => Billed(k)'
  BY <1>1, <1>2 DEF Billed
<1>6. Working(h[m])'
  BY <1>0, <1>1, <1>3, <1>4, <1>5 DEF Working
<1>7. OneInvoicePerLease'
  BY <1>0, <1>1, <1>2 DEF OneInvoicePerLease
<1>8. DistinctReferences'
  BY <1>0, <1>1, <1>2 DEF DistinctReferences
<1>9. Drawn'
  <2>1. ASSUME NEW n \in Triggers, At(n, "insert")'
        PROVE  (h[n].ref \in 1..counter /\ \A i \in invoices : i.ref # h[n].ref)'
    BY <1>0, <1>1, <1>2, <1>3, <1>4, <2>1 DEF Drawn, At
  <2>2. ASSUME NEW n \in Triggers, NEW o \in Triggers,
               At(n, "insert")', At(o, "insert")', n # o
        PROVE  h'[n].ref # h'[o].ref
    BY <1>0, <1>3, <1>4, <2>2 DEF Drawn, At
  <2> QED
    BY <2>1, <2>2 DEF Drawn
<1> QED
  BY <1>1, <1>3, <1>5, <1>6, <1>7, <1>8, <1>9, InvoiceStep

(* A worker that dies leaves the coroutines of its messages idle.          *)
LEMMA CrashKeepsInv ==
  ASSUME Inv, TypeOK', NEW w \in Workers, WorkerDies(w) PROVE Inv'
<1>1. /\ UNCHANGED <<invoices, counter, runs>>
      /\ \A n \in Triggers : h'[n] = h[n] \/ h'[n] = Idle
  BY DEF WorkerDies
<1>2. ASSUME NEW n \in Triggers, h'[n] = Idle
      PROVE  h'[n].at # "insert" /\ Working(h[n])' /\ OwnRun(n, h[n])'
  BY <1>2 DEF Idle, Working, OwnRun, InLoop
<1> QED
  BY <1>1, <1>2, StillStep

(* Clients, leases, schedulers and the retry queue touch no coroutine.     *)
LEMMA OutsideKeepsInv ==
  ASSUME Inv, TypeOK', UNCHANGED <<invoices, counter, runs, h>> PROVE Inv'
BY StillStep

(* No coroutine is under way at the start, so nothing is claimed.          *)
LEMMA InitInv == Init => Inv
<1> SUFFICES ASSUME Init PROVE Inv
  OBVIOUS
<1>1. \A m \in Triggers : h[m] = Idle
  BY DEF Init
<1>2. Drawn
  BY <1>1 DEF Drawn, At, Idle
<1>3. OneInvoicePerLease /\ DistinctReferences /\ CompletedRunBilledAll
  BY DEF Init, OneInvoicePerLease, DistinctReferences, CompletedRunBilledAll
<1> QED
  BY <1>1, <1>2, <1>3, IdleFits, InitType DEF Inv

(* Every step of Next, and stuttering, keeps the invariant.                *)
LEMMA StepInv == Inv /\ [Next]_vars => Inv'
<1> SUFFICES ASSUME Inv, [Next]_vars PROVE Inv'
  OBVIOUS
<1>1. CASE UNCHANGED vars
  <2>1. TypeOK'
    BY <1>1 DEF Inv, TypeOK, StoreType, HandlerType, Queue!QTypeOK, vars
  <2> QED
    BY <1>1, <2>1, OutsideKeepsInv DEF vars
<1>2. CASE Next
  <2>1. TypeOK'
    BY <1>2, ProceedType, OtherType DEF Inv
  <2>2. ASSUME NEW m \in Triggers, Proceed(m) PROVE Inv'
    BY <2>1, <2>2, MovesKeepInv, RunsKeepInv, NumberKeepsInv, InsertKeepsInv,
       TicketKeepsInv DEF Proceed
  <2>3. ASSUME NEW m \in Triggers,
               \/ LeaseFails(m) \/ TicketsFail(m)
               \/ \E w \in Workers : Start(w, m) \/ HandlerFails(w, m)
        PROVE  Inv'
    BY <2>1, <2>3, MovesKeepInv
  <2>4. ASSUME NEW w \in Workers, WorkerDies(w) PROVE Inv'
    BY <2>1, <2>4, CrashKeepsInv
  <2>5. ASSUME \/ \E l \in Leases : LeaseMoves(l)
               \/ \E m \in Manual : CreateJob(m) \/ PublishJob(m)
               \/ \E w \in Workers : CronCheck(w) \/ CronPublish(w) \/ CronPublishFails(w)
               \/ \E m \in Triggers : Redeliver(m)
        PROVE  Inv'
    BY <2>1, <2>5, OutsideKeepsInv DEF LeaseMoves, CreateJob, PublishJob, CronCheck,
       CronPublish, CronPublishFails, Redeliver
  <2> QED
    BY <1>2, <2>1, <2>2, <2>3, <2>4, <2>5, DryRunKeepsInv DEF Next
<1> QED
  BY <1>1, <1>2

(* Every reachable state of the billing run satisfies the inductive        *)
(* invariant: drawn numbers stay in one hand, coroutines account for the   *)
(* leases of their own open run, and the safety properties hold.           *)
THEOREM Invariance == Spec => []Inv
BY InitInv, StepInv, PTL DEF Spec

(* However many messages, workers and leases there are, the stores, the    *)
(* queue and the coroutines of billing.py stay well formed, a coroutine is *)
(* under way exactly when its message is unacked, and every reference      *)
(* number in use was drawn from orgs.invoice_counter.                      *)
THEOREM BillingTypeCorrect == Spec => []TypeOK
<1>1. Inv => TypeOK
  BY DEF Inv
<1> QED
  BY <1>1, Invariance, PTL

(* Concurrent runs, retries, redeliveries and failed calls never give a    *)
(* lease two invoices for the month.                                       *)
THEOREM OneInvoiceEach == Spec => []OneInvoicePerLease
<1>1. Inv => OneInvoicePerLease
  BY DEF Inv
<1> QED
  BY <1>1, Invariance, PTL

(* No two invoices carry the same reference number, whichever coroutines   *)
(* drew the numbers and in which order they inserted.                      *)
THEOREM ReferencesDistinct == Spec => []DistinctReferences
<1>1. Inv => DistinctReferences
  BY DEF Inv
<1> QED
  BY <1>1, Invariance, PTL

(* A billing_cycle_runs record that says completed means that each lease   *)
(* of its snapshot has its invoice, made by this run or by one it raced.   *)
THEOREM CompletedMeansBilled == Spec => []CompletedRunBilledAll
<1>1. Inv => CompletedRunBilledAll
  BY DEF Inv
<1> QED
  BY <1>1, Invariance, PTL

-----------------------------------------------------------------------------
(***************************************************************************)
(* What is asked for through the API is kept: the run under the queue      *)
(* implements AtLeastOnce, with "done" read off billing_cycle_runs.        *)
(***************************************************************************)

(* The broker and the workers agree on what is in whose hands.             *)
Hands ==
  /\ \A w \in Workers : \A m \in held[w] : loc[m] = "unacked"
  /\ \A v, w \in Workers : v # w => held[v] \cap held[w] = {}

(* A coroutine past the closing of its run has left the record of it, and  *)
(* so has a message that was acknowledged.                                 *)
Closed(c) == c.at \in {"closejob", "ack"}
Ended == \A m \in Triggers : loc[m] = "acked" \/ Closed(h[m]) => Recorded(m)

KeptInv == Inv /\ Hands /\ Ended

(* How the billing run uses its queue: as RetryQueue allows, and a message *)
(* is acknowledged at the end of its coroutine only.                       *)
QueueStep ==
  \/ UNCHANGED <<loc, held>>
  \/ \E m \in Triggers : Queue!Publish(m) \/ Queue!RetryExpires(m)
  \/ \E m \in Triggers, w \in Workers :
       Queue!Deliver(w, m) \/ Queue!Reject(w, m) \/ (Queue!Ack(w, m) /\ At(m, "ack"))
  \/ \E w \in Workers : Queue!ConsumerDies(w)

LEMMA StepsUseQueue == Next => QueueStep
<1>0. UNCHANGED qvars => QueueStep
  BY DEF qvars, QueueStep
<1>1. ASSUME NEW m \in Triggers, Proceed(m) PROVE QueueStep
  <2>1. MarkJob(m) => UNCHANGED qvars
    BY DEF MarkJob
  <2>2. OpenRun(m) => UNCHANGED qvars
    BY DEF OpenRun
  <2>3. Snapshot(m) => UNCHANGED qvars
    BY DEF Snapshot
  <2>4. \A l \in Leases : Visit(m, l) => UNCHANGED qvars
    BY DEF Visit
  <2>5. Number(m) => UNCHANGED qvars
    BY DEF Number
  <2>6. Insert(m) => UNCHANGED qvars
    BY DEF Insert
  <2>7. Collect(m) => UNCHANGED qvars
    BY DEF Collect
  <2>8. \A p \in Properties : Ticket(m, p) => UNCHANGED qvars
    BY DEF Ticket
  <2>9. CloseRun(m) \/ CloseJob(m) => UNCHANGED qvars
    BY DEF CloseRun, CloseJob
  <2>10. ASSUME NEW w \in Workers, Acknowledge(w, m) PROVE QueueStep
    BY <2>10 DEF Acknowledge, QueueStep
  <2> QED
    BY <1>0, <1>1, <2>1, <2>2, <2>3, <2>4, <2>5, <2>6, <2>7, <2>8, <2>9, <2>10 DEF Proceed
<1>2. ASSUME NEW m \in Triggers,
             \/ LeaseFails(m) \/ TicketsFail(m) \/ Redeliver(m)
             \/ \E w \in Workers : Start(w, m) \/ HandlerFails(w, m)
      PROVE  QueueStep
  <2>1. CASE LeaseFails(m)
    <3>1. UNCHANGED qvars
      BY <2>1 DEF LeaseFails
    <3> QED
      BY <1>0, <3>1
  <2>5. TicketsFail(m) => UNCHANGED qvars
    BY DEF TicketsFail
  <2>2. Redeliver(m) => QueueStep
    BY DEF Redeliver, QueueStep
  <2>3. \A w \in Workers : Start(w, m) => QueueStep
    BY DEF Start, QueueStep
  <2>4. \A w \in Workers : HandlerFails(w, m) => QueueStep
    BY DEF HandlerFails, Reraises, QueueStep
  <2> QED
    BY <1>0, <1>2, <2>1, <2>2, <2>3, <2>4, <2>5
<1>3. ASSUME \/ \E l \in Leases : LeaseMoves(l)
             \/ \E m \in Manual : CreateJob(m)
             \/ DryRun
             \/ \E w \in Workers : CronCheck(w) \/ CronPublishFails(w)
      PROVE  QueueStep
  BY <1>0, <1>3 DEF LeaseMoves, CreateJob, DryRun, CronCheck, CronPublishFails
<1>4. ASSUME \/ \E m \in Manual : PublishJob(m)
             \/ \E w \in Workers : CronPublish(w) \/ WorkerDies(w)
      PROVE  QueueStep
  BY <1>4 DEF PublishJob, CronPublish, WorkerDies, Triggers, QueueStep
<1> QED
  BY <1>1, <1>2, <1>3, <1>4 DEF Next

(* Run records are only added, and once ended stay ended.                  *)
LEMMA RecordsStay ==
  ASSUME Inv, Next, NEW n \in Triggers, Recorded(n)
  PROVE  Recorded(n)'
<1>0. runs \in Seq(RunDoc)
  BY DEF Inv, TypeOK, StoreType
<1>1. PICK i \in DOMAIN runs : runs[i].by = n /\ runs[i].status # "running"
  BY DEF Recorded
<1>2. CASE UNCHANGED runs
  BY <1>1, <1>2 DEF Recorded
<1>3. ASSUME NEW d \in RunDoc, runs' = Append(runs, d) PROVE Recorded(n)'
  <2>1. i \in DOMAIN runs' /\ runs'[i] = runs[i]
    BY <1>0, <1>1, <1>3
  <2> QED
    BY <1>1, <2>1 DEF Recorded
<1>4. ASSUME NEW j, NEW s \in RunStatus \ {"running"}, runs' = [runs EXCEPT ![j].status = s]
      PROVE  Recorded(n)'
  <2>1. i \in DOMAIN runs' /\ runs'[i].by = n /\ runs'[i].status # "running"
    BY <1>0, <1>1, <1>4 DEF RunDoc
  <2> QED
    BY <2>1 DEF Recorded
<1>5. ASSUME NEW j, NEW ls, runs' = [runs EXCEPT ![j].leases = ls] PROVE Recorded(n)'
  <2>1. i \in DOMAIN runs' /\ runs'[i].by = n /\ runs'[i].status # "running"
    BY <1>0, <1>1, <1>5 DEF RunDoc
  <2> QED
    BY <2>1 DEF Recorded
<1>6. ASSUME NEW m \in Triggers, Proceed(m)
      PROVE  \/ UNCHANGED runs
             \/ \E d \in RunDoc : runs' = Append(runs, d)
             \/ \E j : \E s \in RunStatus \ {"running"} : runs' = [runs EXCEPT ![j].status = s]
             \/ \E j, ls : runs' = [runs EXCEPT ![j].leases = ls]
  <2>1. CASE OpenRun(m)
    <3>1. [by |-> m, status |-> "running", leases |-> {}] \in RunDoc
      BY DEF RunDoc, RunStatus
    <3> QED
      BY <2>1, <3>1 DEF OpenRun
  <2>2. CASE Snapshot(m)
    BY <2>2 DEF Snapshot
  <2>3. CASE CloseRun(m)
    BY <2>3 DEF CloseRun, FinalStatus, RunStatus
  <2>4. MarkJob(m) \/ Number(m) \/ Insert(m) \/ Collect(m) \/ CloseJob(m) => UNCHANGED runs
    <3>1. MarkJob(m) \/ CloseJob(m) => UNCHANGED runs
      BY DEF MarkJob, CloseJob
    <3>2. Number(m) => UNCHANGED runs
      BY DEF Number
    <3>3. Insert(m) => UNCHANGED runs
      BY DEF Insert
    <3>4. Collect(m) => UNCHANGED runs
      BY DEF Collect
    <3> QED
      BY <3>1, <3>2, <3>3, <3>4
  <2>5. \A l \in Leases : Visit(m, l) => UNCHANGED runs
    BY DEF Visit
  <2>6. \A p \in Properties : Ticket(m, p) => UNCHANGED runs
    BY DEF Ticket
  <2>7. \A w \in Workers : Acknowledge(w, m) => UNCHANGED runs
    BY DEF Acknowledge
  <2> QED
    BY <1>6, <2>1, <2>2, <2>3, <2>4, <2>5, <2>6, <2>7 DEF Proceed
<1>7. ASSUME DryRun PROVE \E d \in RunDoc : runs' = Append(runs, d)
  BY <1>7 DEF DryRun, RunDoc, RunStatus
<1>8. \/ UNCHANGED runs \/ DryRun \/ \E m \in Triggers : Proceed(m)
  <2>1. \A l \in Leases : LeaseMoves(l) => UNCHANGED runs
    BY DEF LeaseMoves
  <2>2. \A m \in Manual : CreateJob(m) \/ PublishJob(m) => UNCHANGED runs
    BY DEF CreateJob, PublishJob
  <2>3. \A w \in Workers : CronCheck(w) \/ CronPublish(w) \/ CronPublishFails(w) => UNCHANGED runs
    BY DEF CronCheck, CronPublish, CronPublishFails
  <2>4. ASSUME NEW m \in Triggers, LeaseFails(m) PROVE UNCHANGED runs
    BY <2>4 DEF LeaseFails
  <2>5. \A m \in Triggers : TicketsFail(m) \/ Redeliver(m) => UNCHANGED runs
    BY DEF TicketsFail, Redeliver
  <2>6. \A m \in Triggers, w \in Workers : Start(w, m) \/ HandlerFails(w, m) => UNCHANGED runs
    BY DEF Start, HandlerFails
  <2>7. \A w \in Workers : WorkerDies(w) => UNCHANGED runs
    BY DEF WorkerDies
  <2> QED
    BY <2>1, <2>2, <2>3, <2>4, <2>5, <2>6, <2>7 DEF Next
<1> QED
  BY <1>2, <1>3, <1>4, <1>5, <1>6, <1>7, <1>8

(* Only CloseRun brings a coroutine to its end, all other moves keep it    *)
(* from there.                                                             *)
LEMMA StaysOpen ==
  ASSUME HandlerType, NEW m \in Triggers, NEW s, Goto(m, s), Closed(s) => Closed(h[m]),
         NEW n \in Triggers, Closed(h'[n])
  PROVE  Closed(h[n])
BY DEF HandlerType, Goto

(* A coroutine closes its run record before it is at its end.              *)
LEMMA ClosesItsRun ==
  ASSUME Inv, Next, NEW n \in Triggers, Closed(h'[n])
  PROVE  Closed(h[n]) \/ Recorded(n)'
<1>0. /\ HandlerType /\ runs \in Seq(RunDoc)
      /\ \A m \in Triggers : h[m] \in Handler /\ OwnRun(m, h[m]) /\ Working(h[m])
  BY DEF Inv, TypeOK, StoreType, HandlerType
<1>1. \A m \in Triggers : \A s : Goto(m, s) /\ (Closed(s) => Closed(h[m])) => Closed(h[n])
  BY <1>0, StaysOpen
<1>2. ASSUME NEW m \in Triggers, NEW p \in Points \ {"closejob", "ack"},
             NEW s, s.at = p, Goto(m, s)
      PROVE  Closed(h[n])
  BY <1>1, <1>2 DEF Closed
<1>3. ASSUME NEW m \in Triggers, Proceed(m) PROVE Closed(h[n]) \/ Recorded(n)'
  <2>1. CASE MarkJob(m)
    <3>1. Goto(m, [h[m] EXCEPT !.at = "run"]) /\ [h[m] EXCEPT !.at = "run"].at = "run"
      BY <1>0, <2>1 DEF MarkJob, Handler
    <3> QED
      BY <3>1, <1>2 DEF Points
  <2>2. CASE OpenRun(m)
    <3> DEFINE s == [h[m] EXCEPT !.at = "snapshot", !.run = Len(runs')]
    <3>1. Goto(m, s) /\ s.at = "snapshot"
      BY <1>0, <2>2 DEF OpenRun, Handler
    <3> HIDE DEF s
    <3> QED
      BY <3>1, <1>2 DEF Points
  <2>3. CASE Snapshot(m)
    <3> DEFINE s == [h[m] EXCEPT !.at = "leases", !.todo = {l \in Leases : lease[l] = "active"}]
    <3>1. Goto(m, s) /\ s.at = "leases"
      BY <1>0, <2>3 DEF Snapshot, Handler
    <3> HIDE DEF s
    <3> QED
      BY <3>1, <1>2 DEF Points
  <2>4. ASSUME NEW l \in Leases, Visit(m, l) PROVE Closed(h[n])
    <3>1. PICK s \in {[h[m] EXCEPT !.todo = @ \ {l}, !.skipped = @ \cup {l}],
                      [h[m] EXCEPT !.todo = @ \ {l}, !.failed = @ \cup {l}],
                      [h[m] EXCEPT !.todo = @ \ {l}, !.at = "number", !.on = {l}]} :
            Goto(m, s)
      BY <2>4 DEF Visit
    <3>2. s.at \in {"leases", "number"}
      BY <1>0, <2>4 DEF Visit, At, Handler
    <3> QED
      BY <3>1, <3>2, <1>2 DEF Points
  <2>5. CASE Number(m)
    <3> DEFINE s == [h[m] EXCEPT !.at = "insert", !.ref = NextNumber]
    <3>1. Goto(m, s) /\ s.at = "insert"
      BY <1>0, <2>5 DEF Number, Handler
    <3> HIDE DEF s
    <3> QED
      BY <3>1, <1>2 DEF Points
  <2>6. CASE Insert(m)
    <3>1. PICK l \in Leases : h[m].on = {l}
      BY <1>0, <2>6 DEF Insert, Working, At
    <3>2. CASE UniqueKey(l)
      <4> DEFINE s == [h[m] EXCEPT !.at = "collect", !.made = @ \cup {l}]
      <4>1. Goto(m, s) /\ s.at = "collect"
        BY <1>0, <2>6, <3>1, <3>2 DEF Insert, Handler
      <4> HIDE DEF s
      <4> QED
        BY <4>1, <1>2 DEF Points
    <3>3. CASE ~UniqueKey(l)
      <4> DEFINE s == [h[m] EXCEPT !.at = "leases", !.on = {}, !.failed = @ \cup {l}]
      <4>1. Goto(m, s) /\ s.at = "leases"
        BY <1>0, <2>6, <3>1, <3>3 DEF Insert, Handler
      <4> HIDE DEF s
      <4> QED
        BY <4>1, <1>2 DEF Points
    <3> QED
      BY <3>2, <3>3
  <2>7. CASE Collect(m)
    <3> DEFINE s == [h[m] EXCEPT !.at = "leases", !.on = {},
                                 !.tasks = @ \cup (h[m].on \cap Metered)]
    <3>1. Goto(m, s) /\ s.at = "leases"
      BY <1>0, <2>7 DEF Collect, Handler
    <3> HIDE DEF s
    <3> QED
      BY <3>1, <1>2 DEF Points
  <2>8. ASSUME NEW p \in Properties, Ticket(m, p) PROVE Closed(h[n])
    <3> DEFINE s == [h[m] EXCEPT !.tasks = @ \ {l \in h[m].tasks : PropertyOf[l] = p}]
    <3>1. Goto(m, s) /\ At(m, "leases")
      BY <2>8 DEF Ticket
    <3>2. s.at = "leases"
      BY <1>0, <3>1 DEF Handler, At
    <3> HIDE DEF s
    <3> QED
      BY <3>1, <3>2, <1>2 DEF Points
  <2>9. CASE CloseRun(m)
    <3>1. CASE m = n
      <4>1. h[n].run \in DOMAIN runs /\ runs[h[n].run].by = n
        BY <1>0, <2>9, <3>1 DEF CloseRun, AllVisited, OwnRun, InLoop, At
      <4>2. runs' = [runs EXCEPT ![h[n].run].status = FinalStatus(n)]
        BY <2>9, <3>1 DEF CloseRun
      <4>3. FinalStatus(n) # "running"
        BY DEF FinalStatus
      <4>4. runs[h[n].run] \in RunDoc
        BY <1>0, <4>1
      <4> DEFINE f == FinalStatus(n)
                 k == h[n].run
      <4> HIDE DEF f, k
      <4>5. k \in DOMAIN runs' /\ runs'[k].by = n /\ runs'[k].status = f
        BY <1>0, <4>1, <4>2, <4>4 DEF RunDoc, f, k
      <4> QED
        BY <4>3, <4>5 DEF Recorded, f
    <3>2. CASE m # n
      BY <1>0, <2>9, <3>2 DEF CloseRun, Goto, HandlerType
    <3> QED
      BY <3>1, <3>2
  <2>10. CASE CloseJob(m)
    <3>1. Goto(m, [h[m] EXCEPT !.at = "ack"]) /\ Closed(h[m])
      BY <2>10 DEF CloseJob, At, Closed
    <3> QED
      BY <3>1, <1>1
  <2>11. ASSUME NEW w \in Workers, Acknowledge(w, m) PROVE Closed(h[n])
    <3>1. Goto(m, Idle) /\ Idle.at = "idle"
      BY <2>11 DEF Acknowledge, Goto, Idle
    <3> QED
      BY <3>1, <1>2 DEF Points
  <2> QED
    BY <1>3, <2>1, <2>2, <2>3, <2>4, <2>5, <2>6, <2>7, <2>8, <2>9, <2>10, <2>11 DEF Proceed
<1>4. ASSUME NEW m \in Triggers, LeaseFails(m) PROVE Closed(h[n])
  <2>1. ASSUME NEW l \in h[m].todo, At(m, "leases"),
               Goto(m, [h[m] EXCEPT !.todo = @ \ {l}, !.failed = @ \cup {l}])
        PROVE  Closed(h[n])
    <3>1. [h[m] EXCEPT !.todo = @ \ {l}, !.failed = @ \cup {l}].at = "leases"
      BY <1>0, <2>1 DEF Handler, At
    <3> QED
      BY <2>1, <3>1, <1>2 DEF Points
  <2>2. ASSUME Goto(m, [h[m] EXCEPT !.at = "leases", !.on = {}, !.failed = @ \cup h[m].on])
        PROVE  Closed(h[n])
    <3>1. [h[m] EXCEPT !.at = "leases", !.on = {}, !.failed = @ \cup h[m].on].at = "leases"
      BY <1>0 DEF Handler
    <3> QED
      BY <2>2, <3>1, <1>2 DEF Points
  <2> QED
    BY <1>4, <2>1, <2>2 DEF LeaseFails
<1>5. ASSUME NEW m \in Triggers, TicketsFail(m) PROVE Closed(h[n])
  <2>1. Goto(m, [h[m] EXCEPT !.tasks = {}]) /\ At(m, "leases")
    BY <1>5 DEF TicketsFail
  <2>2. [h[m] EXCEPT !.tasks = {}].at = "leases"
    BY <1>0, <2>1 DEF Handler, At
  <2> QED
    BY <2>1, <2>2, <1>2 DEF Points
<1>6. ASSUME NEW m \in Triggers, NEW w \in Workers, Start(w, m) \/ HandlerFails(w, m)
      PROVE  Closed(h[n])
  <2>1. Goto(m, [h[m] EXCEPT !.at = "job"]) \/ Goto(m, Idle)
    BY <1>6 DEF Start, HandlerFails, Goto
  <2>2. [h[m] EXCEPT !.at = "job"].at = "job" /\ Idle.at = "idle"
    BY <1>0 DEF Handler, Idle
  <2> QED
    BY <2>1, <2>2, <1>2 DEF Points
<1>7. ASSUME NEW w \in Workers, WorkerDies(w) PROVE Closed(h[n])
  <2>1. h'[n] = Idle \/ h'[n] = h[n]
    BY <1>7 DEF WorkerDies
  <2> QED
    BY <2>1 DEF Idle, Closed
<1>8. ASSUME UNCHANGED h PROVE Closed(h[n])
  BY <1>8
<1>9. \/ UNCHANGED h
      \/ \E m \in Triggers :
           \/ Proceed(m) \/ LeaseFails(m) \/ TicketsFail(m)
           \/ \E w \in Workers : Start(w, m) \/ HandlerFails(w, m)
      \/ \E w \in Workers : WorkerDies(w)
  BY DEF Next, LeaseMoves, CreateJob, PublishJob, DryRun, CronCheck, CronPublish,
    CronPublishFails, Redeliver
<1> QED
  BY <1>3, <1>4, <1>5, <1>6, <1>7, <1>8, <1>9

(* Deliveries, settlements and crashes move message and hand together.     *)
LEMMA HandsStep ==
  ASSUME TypeOK, Hands, QueueStep
  PROVE  Hands'
<1>0. loc \in [Triggers -> Queue!Places] /\ held \in [Workers -> SUBSET Triggers]
  BY DEF TypeOK, Queue!QTypeOK
<1> USE <1>0 DEF Hands, Queue!Move
<1>1. CASE UNCHANGED <<loc, held>>
  BY <1>1
<1>2. ASSUME NEW m \in Triggers, Queue!Publish(m) \/ Queue!RetryExpires(m) PROVE Hands'
  <2>1. loc[m] # "unacked" /\ loc' = [loc EXCEPT ![m] = "main"] /\ UNCHANGED held
    BY <1>2 DEF Queue!Publish, Queue!RetryExpires
  <2> QED
    BY <2>1
<1>3. ASSUME NEW m \in Triggers, NEW w \in Workers, Queue!Deliver(w, m) PROVE Hands'
  <2>1. /\ loc[m] = "main" /\ loc' = [loc EXCEPT ![m] = "unacked"]
        /\ held' = [held EXCEPT ![w] = @ \cup {m}]
    BY <1>3 DEF Queue!Deliver
  <2>2. \A v \in Workers : m \notin held[v]
    BY <2>1
  <2> QED
    BY <2>1, <2>2
<1>4. ASSUME NEW m \in Triggers, NEW w \in Workers, Queue!Reject(w, m) \/ Queue!Ack(w, m)
      PROVE  Hands'
  <2>1. PICK place : /\ m \in held[w] /\ loc' = [loc EXCEPT ![m] = place]
                     /\ held' = [held EXCEPT ![w] = @ \ {m}]
    BY <1>4 DEF Queue!Reject, Queue!Ack
  <2>2. \A v \in Workers : m \notin held'[v]
    BY <2>1
  <2> QED
    BY <2>1, <2>2
<1>5. ASSUME NEW w \in Workers, Queue!ConsumerDies(w) PROVE Hands'
  <2>1. /\ loc' = [m \in Triggers |-> IF m \in held[w] THEN "main" ELSE loc[m]]
        /\ held' = [held EXCEPT ![w] = {}]
    BY <1>5 DEF Queue!ConsumerDies
  <2> QED
    BY <2>1
<1> QED
  BY <1>1, <1>2, <1>3, <1>4, <1>5 DEF QueueStep

(* A message is acknowledged by a coroutine past its closing, and what was *)
(* recorded stays so.                                                      *)
LEMMA EndedStep ==
  ASSUME KeptInv, Next
  PROVE  Ended'
<1>1. ASSUME NEW n \in Triggers, Closed(h'[n]) PROVE Recorded(n)'
  BY <1>1, ClosesItsRun, RecordsStay DEF KeptInv, Ended
<1>2. ASSUME NEW n \in Triggers, loc'[n] = "acked" PROVE loc[n] = "acked" \/ At(n, "ack")
  <2>0. loc \in [Triggers -> Queue!Places]
    BY DEF KeptInv, Inv, TypeOK, Queue!QTypeOK
  <2>1. QueueStep
    BY StepsUseQueue
  <2>2. CASE UNCHANGED <<loc, held>>
    BY <1>2, <2>2
  <2>3. ASSUME NEW m \in Triggers, Queue!Publish(m) \/ Queue!RetryExpires(m)
        PROVE  loc[n] = "acked"
    BY <1>2, <2>0, <2>3 DEF Queue!Publish, Queue!RetryExpires, Queue!Move
  <2>4. ASSUME NEW m \in Triggers, NEW w \in Workers, Queue!Deliver(w, m) \/ Queue!Reject(w, m)
        PROVE  loc[n] = "acked"
    BY <1>2, <2>0, <2>4 DEF Queue!Deliver, Queue!Reject, Queue!Move, Queue!AfterFailure
  <2>5. ASSUME NEW m \in Triggers, NEW w \in Workers, Queue!Ack(w, m), At(m, "ack")
        PROVE  loc[n] = "acked" \/ At(n, "ack")
    BY <1>2, <2>0, <2>5 DEF Queue!Ack, Queue!Move
  <2>6. ASSUME NEW w \in Workers, Queue!ConsumerDies(w) PROVE loc[n] = "acked"
    BY <1>2, <2>0, <2>6 DEF Queue!ConsumerDies
  <2> QED
    BY <2>1, <2>2, <2>3, <2>4, <2>5, <2>6 DEF QueueStep
<1>3. ASSUME NEW n \in Triggers, loc'[n] = "acked" PROVE Recorded(n)'
  BY <1>2, <1>3, RecordsStay DEF KeptInv, Ended, Closed, At
<1> QED
  BY <1>1, <1>3 DEF Ended, Closed

LEMMA KeptStep == KeptInv /\ [Next]_vars => KeptInv'
<1> SUFFICES ASSUME KeptInv, [Next]_vars PROVE KeptInv'
  OBVIOUS
<1>1. Inv'
  BY StepInv DEF KeptInv
<1>2. CASE Next
  BY <1>1, <1>2, StepsUseQueue, HandsStep, EndedStep DEF KeptInv, Inv
<1>3. CASE UNCHANGED vars
  BY <1>1, <1>3 DEF KeptInv, Hands, Ended, Closed, Recorded, vars
<1> QED
  BY <1>2, <1>3

LEMMA KeptInit == Init => KeptInv
BY InitInv DEF Init, KeptInv, Hands, Ended, Closed, Idle, Queue!QInit

(* A step accepts a request, finishes one whose run is on record, or shows *)
(* nothing of what the request asked for.                                  *)
LEMMA RequestStep ==
  ASSUME KeptInv, Next
  PROVE  Request!Next \/ UNCHANGED <<Waiting, Answered>>
<1>0. /\ loc \in [Triggers -> Queue!Places] /\ held \in [Workers -> SUBSET Triggers]
      /\ Hands /\ Ended /\ Manual \subseteq Triggers
  BY DEF KeptInv, Inv, TypeOK, Queue!QTypeOK, Triggers
<1>1. QueueStep /\ \A n \in Triggers : Recorded(n) => Recorded(n)'
  BY StepsUseQueue, RecordsStay DEF KeptInv
<1>2. \A n \in Triggers : loc[n] = "acked" => Recorded(n) /\ Recorded(n)'
  BY <1>0, <1>1 DEF Ended
<1> DEFINE open == {"main", "unacked", "retry", "dlq"}
(* A message that moves between places where it waits, or does not move.   *)
<1>3. ASSUME \A n \in Manual : \/ loc'[n] = loc[n]
                               \/ loc[n] \in open /\ loc'[n] \in open
      PROVE  UNCHANGED <<Waiting, Answered>>
  <2>1. Waiting' = Waiting
    BY <1>3 DEF Waiting
  <2>2. \A n \in Manual : loc'[n] = "acked" /\ Recorded(n)' <=> loc[n] = "acked" /\ Recorded(n)
    BY <1>0, <1>2, <1>3
  <2>3. Answered' = Answered
    BY <2>2 DEF Answered
  <2> QED
    BY <2>1, <2>3
<1>4. ASSUME NEW m \in Triggers, Queue!Publish(m)
      PROVE  Request!Next \/ UNCHANGED <<Waiting, Answered>>
  <2>1. loc[m] = "unpublished" /\ loc' = [loc EXCEPT ![m] = "main"]
    BY <1>4 DEF Queue!Publish, Queue!Move
  <2>2. CASE m \notin Manual
    BY <1>0, <1>3, <2>1, <2>2
  <2>3. CASE m \in Manual
    <3>1. m \notin Waiting \cup Answered
      BY <2>1 DEF Waiting, Answered
    <3>2. Waiting' = Waiting \cup {m}
      BY <1>0, <2>1, <2>3 DEF Waiting
    <3>3. \A n \in Manual : loc'[n] = "acked" /\ Recorded(n)' <=> loc[n] = "acked" /\ Recorded(n)
      BY <1>0, <1>2, <2>1
    <3>4. Answered' = Answered
      BY <3>3 DEF Answered
    <3> QED
      BY <2>3, <3>1, <3>2, <3>4 DEF Request!Next, Request!Accept
  <2> QED
    BY <2>2, <2>3
<1>5. ASSUME NEW m \in Triggers, Queue!RetryExpires(m) PROVE UNCHANGED <<Waiting, Answered>>
  BY <1>0, <1>3, <1>5 DEF Queue!RetryExpires, Queue!Move
<1>6. ASSUME NEW m \in Triggers, NEW w \in Workers, Queue!Deliver(w, m) \/ Queue!Reject(w, m)
      PROVE  UNCHANGED <<Waiting, Answered>>
  BY <1>0, <1>3, <1>6 DEF Queue!Deliver, Queue!Reject, Queue!Move, Queue!AfterFailure, Hands
<1>7. ASSUME NEW m \in Triggers, NEW w \in Workers, Queue!Ack(w, m), At(m, "ack")
      PROVE  Request!Next \/ UNCHANGED <<Waiting, Answered>>
  <2>1. loc[m] = "unacked" /\ loc' = [loc EXCEPT ![m] = "acked"]
    BY <1>0, <1>7 DEF Queue!Ack, Queue!Move, Hands
  <2>2. CASE m \notin Manual
    BY <1>0, <1>3, <2>1, <2>2
  <2>3. CASE m \in Manual
    <3>1. Recorded(m)'
      BY <1>0, <1>1, <1>7 DEF Ended, Closed, At
    <3>2. m \in Waiting /\ Waiting' = Waiting \ {m}
      BY <1>0, <2>1, <2>3 DEF Waiting
    <3>3. \A n \in Manual : loc'[n] = "acked" /\ Recorded(n)' <=>
                              n = m \/ (loc[n] = "acked" /\ Recorded(n))
      BY <1>0, <1>2, <2>1, <3>1
    <3>4. Answered' = Answered \cup {m}
      BY <2>3, <3>3 DEF Answered
    <3> QED
      BY <2>3, <3>2, <3>4 DEF Request!Next, Request!Finish
  <2> QED
    BY <2>2, <2>3
<1>8. ASSUME NEW w \in Workers, Queue!ConsumerDies(w) PROVE UNCHANGED <<Waiting, Answered>>
  BY <1>0, <1>3, <1>8 DEF Queue!ConsumerDies, Hands
<1>9. CASE UNCHANGED <<loc, held>>
  BY <1>3, <1>9
<1> QED
  BY <1>1, <1>4, <1>5, <1>6, <1>7, <1>8, <1>9 DEF QueueStep

(* The billing run implements AtLeastOnce: a request of POST               *)
(* /invoices/generate waits through failing handlers, redeliveries and     *)
(* dying workers until a run of it is recorded as completed, partial or    *)
(* failed, and only then leaves the queue.                                 *)
THEOREM RequestsAreKept == Spec => RequestsKept
<1>1. Init => Request!Init
  BY DEF Init, Queue!QInit, Request!Init, Waiting, Answered, Triggers
<1>2. KeptInv /\ [Next]_vars => [Request!Next]_(Request!queueVars)
  <2>1. KeptInv /\ Next => Request!Next \/ UNCHANGED Request!queueVars
    BY RequestStep DEF Request!queueVars
  <2>2. UNCHANGED vars => UNCHANGED Request!queueVars
    BY DEF vars, Request!queueVars, Waiting, Answered, Recorded
  <2> QED
    BY <2>1, <2>2
<1> QED
  BY <1>1, <1>2, KeptInit, KeptStep, PTL DEF Spec, RequestsKept, Request!Spec
=============================================================================
