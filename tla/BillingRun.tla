------------------------------ MODULE BillingRun -----------------------------
(***************************************************************************)
(* A month's invoice run of one organisation: POST /invoices/generate and  *)
(* the worker's scheduler put a message in billing.runs, and the billing   *)
(* consumer (tasks/billing.py) turns each delivery into a                  *)
(* billing_cycle_runs record, one invoice per active lease and a meter     *)
(* reading ticket per property.  The queue is RetryQueue's: handlers of    *)
(* two messages overlap, a failed one is tried again, and a worker that    *)
(* dies has its messages redelivered from the start.                       *)
(***************************************************************************)
EXTENDS Naturals, Sequences, FiniteSets

CONSTANTS Manual,      \* messages of POST /invoices/generate, each with a JobRun
          Workers,     \* worker processes; each also runs the scheduler
          Leases,
          Properties,
          PropertyOf,  \* [Leases -> Properties], lease.property_id
          Metered,     \* leases with a metered utility
          Orphans,     \* leases whose property is deleted
          Prefetch,    \* channel.set_qos(prefetch_count)
          MaxFaults,   \* bound on worker crashes
          MaxErrors,   \* bound on failing database calls
          MaxDryRuns   \* bound on dry runs asked for through the API

(* A scheduler's message is named after its worker.                        *)
Triggers == Manual \cup Workers

ASSUME BillingAssumption ==
  /\ Manual \cap Workers = {}
  /\ PropertyOf \in [Leases -> Properties]
  /\ Metered \subseteq Leases /\ Orphans \subseteq Leases
  /\ Prefetch \in Nat \ {0} /\ MaxFaults \in Nat
  /\ MaxErrors \in Nat /\ MaxDryRuns \in Nat
  /\ "dry" \notin Triggers

VARIABLES loc, held, faults,   \* the queue billing.runs (RetryQueue)
          lease,     \* [Leases -> LeaseStatus], leases.status
          invoices,  \* the month's invoices: records [lease, ref, ticket]
          counter,   \* orgs.invoice_counter
          runs,      \* billing_cycle_runs, in order of insertion
          job,       \* [Manual -> JobStatus], job_runs.status
          cron,      \* [Workers -> CronState], the scheduler on preparation_day
          h,         \* [Triggers -> handler state], the coroutine of a delivery
          errors     \* failed database calls so far
qvars == <<loc, held, faults>>
vars == <<loc, held, faults, lease, invoices, counter, runs, job, cron, h, errors>>

Queue == INSTANCE RetryQueue WITH
           Messages <- Triggers, Consumers <- Workers,
           Poison <- {}, Transient <- Workers

LeaseStatus == {"pending", "active", "over"}
JobStatus == {"none", "queued", "in_progress", "completed", "failed"}
RunStatus == {"running", "completed", "partial", "failed"}
CronState == {"waiting", "due", "published", "skipped", "failed"}

(* The local variables of handle() and _run_billing(): the run it inserted,*)
(* the snapshot's leases still to visit, the one being billed and its      *)
(* reference number, the outcome sets behind the three counters, and the   *)
(* invoices that need a ticket (property_metered_tasks).                   *)
Idle == [at |-> "idle", run |-> 0, todo |-> {}, on |-> {}, ref |-> 0,
         made |-> {}, skipped |-> {}, failed |-> {}, tasks |-> {}]

Points == {"idle", "job", "run", "snapshot", "leases", "number", "insert",
           "collect", "closejob", "ack"}
Handler == [at: Points, run: Nat, todo: SUBSET Leases, on: SUBSET Leases, ref: Nat,
            made: SUBSET Leases, skipped: SUBSET Leases, failed: SUBSET Leases,
            tasks: SUBSET Leases]
InvoiceDoc == [lease: Leases, ref: Nat, ticket: BOOLEAN]
RunDoc == [by: Triggers \cup {"dry"}, status: RunStatus, leases: SUBSET Leases]

StoreType ==
  /\ lease \in [Leases -> LeaseStatus]
  /\ invoices \subseteq InvoiceDoc
  /\ counter \in Nat
  /\ runs \in Seq(RunDoc)
  /\ job \in [Manual -> JobStatus]
  /\ cron \in [Workers -> CronState]
  /\ errors \in 0..MaxErrors
HandlerType == h \in [Triggers -> Handler]
TypeOK ==
  /\ Queue!QTypeOK /\ StoreType /\ HandlerType
  /\ \A i \in invoices : i.ref \in 1..counter
  /\ \A m \in Triggers : /\ h[m].at = "idle" <=> loc[m] # "unacked"
                         /\ h[m].tasks \subseteq h[m].made \cap Metered

Init ==
  /\ Queue!QInit
  /\ lease \in [Leases -> {"pending", "active"}]
  /\ invoices = {} /\ counter = 0 /\ runs = <<>>
  /\ job = [m \in Manual |-> "none"]
  /\ cron = [w \in Workers |-> "waiting"]
  /\ h = [m \in Triggers |-> Idle]
  /\ errors = 0

-----------------------------------------------------------------------------
(* The lease module activates and ends leases while runs are under way.    *)
LeaseMoves(l) ==
  /\ \/ lease[l] = "pending" /\ lease' = [lease EXCEPT ![l] = "active"]
     \/ lease[l] = "active" /\ lease' = [lease EXCEPT ![l] = "over"]
  /\ UNCHANGED <<qvars, invoices, counter, runs, job, cron, h, errors>>

(* POST /invoices/generate: the JobRun first, then the message; the        *)
(* process may die or the publish raise in between.                        *)
CreateJob(m) ==
  /\ job[m] = "none"
  /\ job' = [job EXCEPT ![m] = "queued"]
  /\ UNCHANGED <<qvars, lease, invoices, counter, runs, cron, h, errors>>

PublishJob(m) ==
  /\ job[m] = "queued"
  /\ Queue!Publish(m)
  /\ UNCHANGED <<lease, invoices, counter, runs, job, cron, h, errors>>

(* dry_run=True runs inline and saves only its own record of the run.      *)
DryRun ==
  /\ Cardinality({i \in DOMAIN runs : runs[i].by = "dry"}) < MaxDryRuns
  /\ runs' = Append(runs, [by |-> "dry", status |-> "completed", leases |-> {}])
  /\ UNCHANGED <<qvars, lease, invoices, counter, job, cron, h, errors>>

(* _daily_billing_check on the preparation day: nothing to do when a run   *)
(* of the month is recorded as completed, whatever its run_type.           *)
RunDone == \E i \in DOMAIN runs : runs[i].status = "completed"

CronCheck(w) ==
  /\ cron[w] = "waiting"
  /\ cron' = [cron EXCEPT ![w] = IF RunDone THEN "skipped" ELSE "due"]
  /\ UNCHANGED <<qvars, lease, invoices, counter, runs, job, h, errors>>

CronPublish(w) ==
  /\ cron[w] = "due"
  /\ Queue!Publish(w)
  /\ cron' = [cron EXCEPT ![w] = "published"]
  /\ UNCHANGED <<lease, invoices, counter, runs, job, h, errors>>

CronPublishFails(w) ==
  /\ cron[w] = "due" /\ errors < MaxErrors
  /\ errors' = errors + 1
  /\ cron' = [cron EXCEPT ![w] = "failed"]
  /\ UNCHANGED <<qvars, lease, invoices, counter, runs, job, h>>

-----------------------------------------------------------------------------
(* The handler of a delivered message, one action per database call.       *)
At(m, point) == h[m].at = point
Goto(m, state) == h' = [h EXCEPT ![m] = state]

Start(w, m) ==
  /\ Queue!Deliver(w, m)
  /\ Goto(m, [h[m] EXCEPT !.at = "job"])
  /\ UNCHANGED <<lease, invoices, counter, runs, job, cron, errors>>

(* job_runs is updated by _id.  The event_id a scheduler makes up is no    *)
(* job's _id: its update matches nothing.                                  *)
SetJob(m, status) ==
  job' = IF m \in Manual THEN [job EXCEPT ![m] = status] ELSE job

MarkJob(m) ==
  /\ At(m, "job")
  /\ SetJob(m, "in_progress")
  /\ Goto(m, [h[m] EXCEPT !.at = "run"])
  /\ UNCHANGED <<qvars, lease, invoices, counter, runs, cron, errors>>

OpenRun(m) ==
  /\ At(m, "run")
  /\ runs' = Append(runs, [by |-> m, status |-> "running", leases |-> {}])
  /\ Goto(m, [h[m] EXCEPT !.at = "snapshot", !.run = Len(runs')])
  /\ UNCHANGED <<qvars, lease, invoices, counter, job, cron, errors>>

(* find({status: active}).to_list(): the leases this run will visit.  The  *)
(* run record keeps them for the properties only.                          *)
Snapshot(m) ==
  /\ At(m, "snapshot")
  /\ LET found == {l \in Leases : lease[l] = "active"} IN
       /\ runs' = [runs EXCEPT ![h[m].run].leases = found]
       /\ Goto(m, [h[m] EXCEPT !.at = "leases", !.todo = found])
  /\ UNCHANGED <<qvars, lease, invoices, counter, job, cron, errors>>

Billed(l) == \E i \in invoices : i.lease = l

(* One turn of the loop: look the invoice up by its idempotency key, then  *)
(* the property; an invoice is skipped, a missing property is a failure.   *)
Visit(m, l) ==
  /\ At(m, "leases") /\ l \in h[m].todo
  /\ LET rest == h[m].todo \ {l} IN
       \/ /\ Billed(l)
          /\ Goto(m, [h[m] EXCEPT !.todo = rest, !.skipped = @ \cup {l}])
       \/ /\ ~Billed(l) /\ l \in Orphans
          /\ Goto(m, [h[m] EXCEPT !.todo = rest, !.failed = @ \cup {l}])
       \/ /\ ~Billed(l) /\ l \notin Orphans
          /\ Goto(m, [h[m] EXCEPT !.todo = rest, !.at = "number", !.on = {l}])
  /\ UNCHANGED <<qvars, lease, invoices, counter, runs, job, cron, errors>>

(* find_one_and_update({$inc: {invoice_counter: 1}}).                      *)
CountsInvoices == Cardinality(invoices) + 1
NumberBefore == counter
NextNumber == counter + 1

Number(m) ==
  /\ At(m, "number")
  /\ counter' = NextNumber
  /\ Goto(m, [h[m] EXCEPT !.at = "insert", !.ref = NextNumber])
  /\ UNCHANGED <<qvars, lease, invoices, runs, job, cron, errors>>

(* insert_one: the unique index on idempotency_key refuses a second        *)
(* invoice of the lease and month, and the exception counts as a failure.  *)
AcceptsAny(l) == TRUE
UniqueKey(l) == ~Billed(l)

Insert(m) ==
  /\ At(m, "insert")
  /\ \E l \in h[m].on :
       \/ /\ UniqueKey(l)
          /\ invoices' = invoices \cup {[lease |-> l, ref |-> h[m].ref, ticket |-> FALSE]}
          /\ Goto(m, [h[m] EXCEPT !.at = "collect", !.made = @ \cup {l}])
       \/ /\ ~UniqueKey(l)
          /\ Goto(m, [h[m] EXCEPT !.at = "leases", !.on = {}, !.failed = @ \cup {l}])
          /\ UNCHANGED invoices
  /\ UNCHANGED <<qvars, lease, counter, runs, job, cron, errors>>

(* The tenant and the last readings are fetched, the metered line items    *)
(* join property_metered_tasks.                                            *)
Collect(m) ==
  /\ At(m, "collect")
  /\ Goto(m, [h[m] EXCEPT !.at = "leases", !.on = {},
                          !.tasks = @ \cup (h[m].on \cap Metered)])
  /\ UNCHANGED <<qvars, lease, invoices, counter, runs, job, cron, errors>>

(* A database call of the loop's try block raises: the lease is counted    *)
(* as failed and the loop goes on.                                         *)
LeaseFails(m) ==
  /\ errors < MaxErrors
  /\ errors' = errors + 1
  /\ \/ \E l \in h[m].todo :
          /\ At(m, "leases")
          /\ Goto(m, [h[m] EXCEPT !.todo = @ \ {l}, !.failed = @ \cup {l}])
     \/ /\ h[m].at \in {"number", "insert", "collect"}
        /\ Goto(m, [h[m] EXCEPT !.at = "leases", !.on = {}, !.failed = @ \cup h[m].on])
  /\ UNCHANGED <<qvars, lease, invoices, counter, runs, job, cron>>

(* _create_property_meter_tickets: a ticket for each property with metered *)
(* line items, stamped on the invoices made by this delivery.              *)
Ticket(m, p) ==
  /\ At(m, "leases") /\ h[m].todo = {}
  /\ LET mine == {l \in h[m].tasks : PropertyOf[l] = p} IN
       /\ mine # {}
       /\ invoices' = {[i EXCEPT !.ticket = @ \/ i.lease \in mine] : i \in invoices}
       /\ Goto(m, [h[m] EXCEPT !.tasks = @ \ mine])
  /\ UNCHANGED <<qvars, lease, counter, runs, job, cron, errors>>

(* An exception there is logged, the other properties get no ticket.       *)
TicketsFail(m) ==
  /\ At(m, "leases") /\ h[m].todo = {} /\ h[m].tasks # {}
  /\ errors < MaxErrors
  /\ errors' = errors + 1
  /\ Goto(m, [h[m] EXCEPT !.tasks = {}])
  /\ UNCHANGED <<qvars, lease, invoices, counter, runs, job, cron>>

MadeSome(m) == IF h[m].failed # {} /\ h[m].made = {} THEN "failed" ELSE "completed"
FinalStatus(m) ==
  CASE h[m].failed = {} -> "completed"
    [] h[m].failed # {} /\ h[m].made = {} /\ h[m].skipped = {} -> "failed"
    [] OTHER -> "partial"

AllVisited(m) == At(m, "leases") /\ h[m].todo = {} /\ h[m].tasks = {}

CloseRun(m) ==
  /\ AllVisited(m)
  /\ runs' = [runs EXCEPT ![h[m].run].status = FinalStatus(m)]
  /\ Goto(m, [h[m] EXCEPT !.at = "closejob"])
  /\ UNCHANGED <<qvars, lease, invoices, counter, job, cron, errors>>

CloseJob(m) ==
  /\ At(m, "closejob")
  /\ SetJob(m, "completed")
  /\ Goto(m, [h[m] EXCEPT !.at = "ack"])
  /\ UNCHANGED <<qvars, lease, invoices, counter, runs, cron, errors>>

Acknowledge(w, m) ==
  /\ At(m, "ack")
  /\ Queue!Ack(w, m)
  /\ h' = [h EXCEPT ![m] = Idle]
  /\ UNCHANGED <<lease, invoices, counter, runs, job, cron, errors>>

(* A database call outside the loop raises: the job is marked failed and   *)
(* the exception leaves message.process, which rejects the message.  The   *)
(* run record stays as it is.                                              *)
Swallows(w, m) == Queue!Ack(w, m)
Reraises(w, m) == Queue!Reject(w, m)

HandlerFails(w, m) ==
  /\ h[m].at \in {"job", "run", "snapshot", "closejob"} \/ AllVisited(m)
  /\ errors < MaxErrors
  /\ errors' = errors + 1
  /\ Reraises(w, m)
  /\ SetJob(m, "failed")
  /\ h' = [h EXCEPT ![m] = Idle]
  /\ UNCHANGED <<lease, invoices, counter, runs, cron>>

Redeliver(m) ==
  /\ Queue!RetryExpires(m)
  /\ UNCHANGED <<lease, invoices, counter, runs, job, cron, h, errors>>

WorkerDies(w) ==
  /\ held[w] # {}
  /\ Queue!ConsumerDies(w)
  /\ h' = [m \in Triggers |-> IF m \in held[w] THEN Idle ELSE h[m]]
  /\ UNCHANGED <<lease, invoices, counter, runs, job, cron, errors>>

-----------------------------------------------------------------------------
(* The handler of m goes on without an error.                              *)
Proceed(m) ==
  \/ MarkJob(m) \/ OpenRun(m) \/ Snapshot(m)
  \/ \E l \in Leases : Visit(m, l)
  \/ Number(m) \/ Insert(m) \/ Collect(m)
  \/ \E p \in Properties : Ticket(m, p)
  \/ CloseRun(m) \/ CloseJob(m)
  \/ \E w \in Workers : Acknowledge(w, m)

Next ==
  \/ \E l \in Leases : LeaseMoves(l)
  \/ \E m \in Manual : CreateJob(m) \/ PublishJob(m)
  \/ DryRun
  \/ \E w \in Workers : CronCheck(w) \/ CronPublish(w) \/ CronPublishFails(w)
  \/ \E m \in Triggers :
       \/ Proceed(m) \/ LeaseFails(m) \/ TicketsFail(m) \/ Redeliver(m)
       \/ \E w \in Workers : Start(w, m) \/ HandlerFails(w, m)
  \/ \E w \in Workers : WorkerDies(w)

Spec == Init /\ [][Next]_vars

(* The workers run: a queued message is taken (Prefetch leaves room), a    *)
(* handler under way goes on, the retry queue's TTL elapses.  Nothing is   *)
(* assumed of clients, schedulers or leases.                               *)
Fairness ==
  \A m \in Triggers :
    /\ SF_vars(\E w \in Workers : Start(w, m))
    /\ WF_vars(Proceed(m))
    /\ WF_vars(Redeliver(m))

FairSpec == Spec /\ Fairness

-----------------------------------------------------------------------------
(* However the runs overlap, are retried or die, a lease gets one invoice  *)
(* for the month ...                                                       *)
OneInvoicePerLease ==
  \A i, j \in invoices : i.lease = j.lease => i = j

(* ... and no two invoices share a reference number (gaps are possible).   *)
DistinctReferences ==
  \A i, j \in invoices : i.ref = j.ref => i = j

(* A run recorded as completed has left no lease of its snapshot without   *)
(* an invoice: FinalStatus hides no failure, of its own or of a run it     *)
(* raced with.                                                             *)
CompletedRunBilledAll ==
  \A i \in DOMAIN runs :
    runs[i].by # "dry" /\ runs[i].status = "completed" => \A l \in runs[i].leases : Billed(l)

(* A run asked for through the API is a message of AtLeastOnce: it waits,  *)
(* through failing handlers and dying workers, until a run of it is on     *)
(* record as ended, and only then leaves the queue, for good.              *)
Recorded(m) == \E i \in DOMAIN runs : runs[i].by = m /\ runs[i].status # "running"
Waiting == {m \in Manual : loc[m] \in {"main", "unacked", "retry", "dlq"}}
Answered == {m \in Manual : loc[m] = "acked" /\ Recorded(m)}
Request == INSTANCE AtLeastOnce WITH
             Messages <- Manual, Healthy <- {}, pending <- Waiting, done <- Answered

RequestsKept == Request!Spec

(* The scheduler leaves the month alone only when a run has really billed  *)
(* it (scheduler.py: "Check if a successful run already exists").          *)
SkipsOnlyBilledMonths ==
  (\E w \in Workers : cron[w] = "skipped")
    => \E i \in DOMAIN runs :
         /\ runs[i].by # "dry" /\ runs[i].status = "completed"
         /\ \A l \in runs[i].leases : Billed(l)

(* billing.py: "Create one meter reading ticket per property": when a run  *)
(* is completed and no handler is at work, every metered invoice of its    *)
(* snapshot is on a ticket.                                                *)
MeteredInvoicesHaveTickets ==
  (\A m \in Triggers : At(m, "idle")) =>
    \A i \in DOMAIN runs : runs[i].status = "completed" =>
      \A inv \in invoices : inv.lease \in runs[i].leases \cap Metered => inv.ticket

(* A lease that is active when a trigger is queued is billed in the end,   *)
(* or ends first, or a run of that trigger is on record as not complete:   *)
(* no crash, retry or swallowed exception makes the request vanish.        *)
BilledOrReported ==
  \A m \in Manual, l \in Leases :
    (loc[m] = "main" /\ lease[l] = "active")
      ~> \/ Billed(l) \/ lease[l] = "over"
         \/ \E i \in DOMAIN runs : runs[i].by = m /\ runs[i].status \in {"partial", "failed"}
=============================================================================
