------------------------------ MODULE EditorRun ------------------------------
(***************************************************************************)
(* Running a trainer from the editor of the ML platform: the page asks for *)
(* a run; the server holds money in the wallet of the user, runs the       *)
(* trainer in a background task of its own process and streams what it     *)
(* prints from a bounded queue; the task returns the hold.  The wallet is  *)
(* one document that every writer reads, changes and saves whole, and each *)
(* save is followed by a transaction that records it, a write of its own;  *)
(* a top-up of the user is one more writer.  Any write may fail.  The text *)
(* that is run and saved is left out.                                      *)
(***************************************************************************)
EXTENDS Naturals, FiniteSets

CONSTANTS Calls,        \* requests of the page that may be pending at once
          Jobs,         \* bound on the runs
          Notices,      \* ways a paid top-up is reported: webhook, verify
          None,
          Funds, Hold, TopUp,  \* first balance, the reservation, a top-up
          Costs,        \* what a run may cost
          MaxLines,     \* bound on the lines a run prints
          MaxQueue,     \* maxsize of the queue of a run
          MaxFaults     \* bound on crashes, failed writes, lost calls, dropped streams

Document == [balance : Nat, reserved : Nat, topups : Nat]

ASSUME RunAssumption ==
  /\ None \notin Jobs \cup Document /\ Jobs \cap Notices = {}
  /\ Funds \in Nat /\ Hold \in Nat \ {0} /\ TopUp \in Nat /\ Costs \subseteq Nat
  /\ MaxLines \in Nat \ {0} /\ MaxQueue \in Nat \ {0} /\ MaxFaults \in Nat
  /\ IsFiniteSet(Jobs)

VARIABLES running,   \* of the page: a run is shown
          calls,     \* requests pending, by what they ask
          streams,   \* EventSource per job
          job,       \* per job: where its request or task is
          wallet,    \* the document; topups is a ghost: top-ups it contains
          copies,    \* what each writer of the wallet has read
          charged,   \* sum of the debit transactions
          credit,    \* how far each notice of the top-up is
          credited,  \* credit transactions of that payment
          faults,
          overlapped \* history: a wallet save wrote over one it had not read
page == <<running, calls, streams>>
money == <<wallet, copies, charged, credit, credited, overlapped>>
vars == <<page, job, money, faults>>

NoCall == [asks |-> "none", at |-> "none", job |-> None]
NoJob == [st |-> "none", held |-> FALSE, failed |-> FALSE, owed |-> 0, left |-> 0, q |-> 0]
Writers == Jobs \cup Notices
Call == [asks : {"none", "save", "run"},
         at : {"none", "asked", "busy", "ok", "failed"}, job : Jobs \cup {None}]
States == {"none", "reserving", "reserved", "free", "refused", "running", "ending",
           "charging", "released", "over", "gone"}

(* held: the wallet holds money for the run; failed: a call about its      *)
(* money has failed; owed: taken from the wallet, and not recorded (yet).  *)
Run == [st : States, held : BOOLEAN, failed : BOOLEAN, owed : Nat,
        left : 0..MaxLines, q : 0..MaxQueue]

TypeOK ==
  /\ running \in BOOLEAN
  /\ calls \in [Calls -> Call] /\ job \in [Jobs -> Run]
  /\ streams \in [Jobs -> {"none", "opening", "reading", "closed"}]
  /\ wallet \in Document /\ copies \in [Writers -> {None} \cup Document]
  /\ charged \in Nat /\ credited \in Nat /\ faults \in 0..MaxFaults
  /\ credit \in [Notices -> {"todo", "read", "saved", "done"}] /\ overlapped \in BOOLEAN

Init ==
  /\ running = FALSE
  /\ calls = [c \in Calls |-> NoCall] /\ streams = [j \in Jobs |-> "none"]
  /\ job = [j \in Jobs |-> NoJob]
  /\ wallet = [balance |-> Funds, reserved |-> 0, topups |-> 0]
  /\ copies = [w \in Writers |-> None] /\ charged = 0
  /\ credit = [n \in Notices |-> "todo"] /\ credited = 0
  /\ faults = 0 /\ overlapped = FALSE

-----------------------------------------------------------------------------
(* The page.  Calls are interchangeable: a new one takes any that is idle. *)
Pending == {c \in Calls : calls[c].asks # "none"}
Idle == CHOOSE c \in Calls \ Pending : TRUE
Asked(what) == [asks |-> what, at |-> "asked", job |-> None]

Unused == {j \in Jobs : job[j].st = "none"}
Ask(what) == Pending # Calls /\ calls' = [calls EXCEPT ![Idle] = Asked(what)]
Answered(c) == calls' = [calls EXCEPT ![c] = NoCall]

(* handleRun: a dirty text is saved first, and the run is shown only after *)
(* that.  The button is disabled while a run is shown, but the timers of   *)
(* the pending cards and of the upload dialog call handleRun all the same. *)
HandleRun ==
  /\ Unused # {}
  /\ \/ Ask("save") /\ UNCHANGED running
     \/ Ask("run") /\ running' = TRUE
  /\ UNCHANGED <<streams, job, money, faults>>

(* The run follows its save whatever came of it: handleSave reports a      *)
(* failure to the user and returns.                                        *)
SaveAnswered(c) ==
  /\ calls[c].asks = "save" /\ calls[c].at \in {"ok", "failed"}
  /\ calls' = [calls EXCEPT ![c] = Asked("run")]
  /\ running' = TRUE
  /\ UNCHANGED <<streams, job, money, faults>>

RunAnswered(c) ==
  /\ calls[c].asks = "run" /\ calls[c].at \in {"ok", "failed"} /\ Answered(c)
  /\ IF calls[c].at = "ok"
     THEN streams' = [streams EXCEPT ![calls[c].job] = "opening"] /\ UNCHANGED running
     ELSE running' = FALSE /\ UNCHANGED streams
  /\ UNCHANGED <<job, money, faults>>

-----------------------------------------------------------------------------
(* The server.  A text that does not compile is refused, by the save, the  *)
(* validation or the run.                                                  *)
Reply(c, at) == calls' = [calls EXCEPT ![c].at = at]

SaveFile(c) ==
  /\ calls[c].asks = "save" /\ calls[c].at = "asked"
  /\ Reply(c, "ok") \/ Reply(c, "failed")
  /\ UNCHANGED <<running, streams, job, money, faults>>

(* run_trainer, up to the first write: the wallet is read and the funds    *)
(* are checked on what was read; a run whose billing fails is free.        *)
Fault == faults < MaxFaults /\ faults' = faults + 1
Failing(run, st) == [run EXCEPT !.st = st, !.failed = TRUE]
Admits(c) == wallet.balance >= Hold
RunTrainer(c) ==
  /\ calls[c].asks = "run" /\ calls[c].at = "asked"
  /\ \/ /\ Unused # {}
        /\ LET j == CHOOSE k \in Unused : TRUE IN
             /\ \/ /\ Admits(c) /\ UNCHANGED faults
                   /\ copies' = [copies EXCEPT ![j] = wallet]
                   /\ job' = [job EXCEPT ![j].st = "reserving"]
                \/ /\ Fault /\ UNCHANGED copies
                   /\ job' = [job EXCEPT ![j] = Failing(@, "free")]
             /\ calls' = [calls EXCEPT ![c] = [@ EXCEPT !.at = "busy", !.job = j]]
     \/ Reply(c, "failed") /\ UNCHANGED <<copies, job, faults>>
  /\ UNCHANGED <<running, streams, wallet, charged, credit, credited, overlapped>>

(* wallet.save(): the whole document, made from the copy.                  *)
Saves(w, document) ==
  /\ wallet' = document
  /\ copies' = [copies EXCEPT ![w] = None]
  /\ overlapped' = (overlapped \/ copies[w] # wallet)

Reserve(j) ==
  /\ job[j].st = "reserving"
  /\ Saves(j, [copies[j] EXCEPT !.balance = @ - Hold, !.reserved = @ + Hold])
  /\ job' = [job EXCEPT ![j] = [@ EXCEPT !.st = "reserved", !.held = TRUE]]
  /\ UNCHANGED <<page, charged, credit, credited, faults>>

(* The rest of run_trainer: the reserve transaction, the file, the queue,  *)
(* the task, the answer; or the path is not allowed, or the file cannot be *)
(* written.                                                                *)
Replies(j, at) ==
  calls' = [c \in Calls |-> IF calls[c].job = j /\ calls[c].at = "busy"
                            THEN [calls[c] EXCEPT !.at = at] ELSE calls[c]]
Start(j) ==
  /\ job[j].st \in {"reserved", "free"} /\ Replies(j, "ok")
  /\ \E n \in 1..MaxLines : job' = [job EXCEPT ![j] = [@ EXCEPT !.st = "running", !.left = n]]
  /\ UNCHANGED <<running, streams, money, faults>>
Refuse(j) ==
  /\ job[j].st \in {"reserved", "free"} /\ Replies(j, "failed")
  /\ job' = [job EXCEPT ![j].st = "refused"]
  /\ UNCHANGED <<running, streams, money, faults>>

(* _execute_trainer: a line is put into the queue, waiting for room.       *)
RoomForOneMore(j) == job[j].q <= MaxQueue
Room(j) == job[j].q < MaxQueue
Printed(run) == [run EXCEPT !.left = @ - 1, !.q = @ + 1]
Emit(j) ==
  /\ job[j].st = "running" /\ job[j].left > 0 /\ Room(j)
  /\ job' = [job EXCEPT ![j] = Printed(@)]
  /\ UNCHANGED <<page, money, faults>>

(* The trainer has ended, the wallet is read; a free run is not billed.    *)
End(j) ==
  /\ job[j].st = "running" /\ job[j].left = 0
  /\ IF job[j].failed
     THEN job' = [job EXCEPT ![j].st = "released"] /\ UNCHANGED copies
     ELSE job' = [job EXCEPT ![j].st = "ending"] /\ copies' = [copies EXCEPT ![j] = wallet]
  /\ UNCHANGED <<page, wallet, charged, credit, credited, overlapped, faults>>

(* release_and_charge: never more than the hold is charged, never more     *)
(* than the document still holds is deducted.                              *)
Least(a, b) == IF a <= b THEN a ELSE b
Excess(a, b) == IF a <= b THEN 0 ELSE a - b
ChargesInFull(cost) == cost
Actual(cost) == Least(cost, Hold)

KeepsTheRest(document, cost) ==
  [document EXCEPT !.reserved = @ - Least(Hold, document.reserved)]
Released(document, cost) ==
  LET deductible == Least(Hold, document.reserved) IN
    [document EXCEPT !.reserved = @ - deductible,
                     !.balance = @ + Excess(deductible, Actual(cost))]

Taking(run, cost) == [run EXCEPT !.st = "charging", !.held = FALSE, !.owed = Actual(cost)]
ReportsFirst(j) ==
  /\ job[j].st = "ending" /\ Room(j)
  /\ \E cost \in Costs :
       /\ Saves(j, Released(copies[j], cost))
       /\ job' = [job EXCEPT ![j] = [Taking(@, cost) EXCEPT !.q = @ + 1]]
  /\ UNCHANGED <<page, charged, credit, credited, faults>>

Release(j) ==
  /\ job[j].st = "ending"
  /\ \E cost \in Costs :
       /\ Saves(j, Released(copies[j], cost))
       /\ job' = [job EXCEPT ![j] = Taking(@, cost)]
  /\ UNCHANGED <<page, charged, credit, credited, faults>>

(* The debit transaction, and the release transaction.                     *)
RecordCharge(j) ==
  /\ job[j].st = "charging"
  /\ charged' = charged + job[j].owed
  /\ job' = [job EXCEPT ![j] = [@ EXCEPT !.st = "released", !.owed = 0]]
  /\ UNCHANGED <<page, wallet, copies, credit, credited, overlapped, faults>>

(* A write fails, or the read before it: run_trainer goes on with a free   *)
(* run, and _execute_trainer only reports it in the log.                   *)
WriteFails(j) ==
  /\ Fault
  /\ \/ /\ job[j].st \in {"reserving", "reserved"}
        /\ job' = [job EXCEPT ![j] = Failing(@, "free")]
     \/ /\ job[j].st \in {"ending", "charging"}
        /\ job' = [job EXCEPT ![j] = Failing(@, "released")]
  /\ copies' = [copies EXCEPT ![j] = None]
  /\ UNCHANGED <<page, wallet, charged, credit, credited, overlapped>>

(* The done event, once there is room for it.                              *)
Finished(run) == [run EXCEPT !.st = "over", !.q = @ + 1]
Done(j) ==
  /\ job[j].st = "released" /\ Room(j)
  /\ job' = [job EXCEPT ![j] = Finished(@)]
  /\ UNCHANGED <<page, money, faults>>

(* stream_run_logs: the generator finds the queue of the job and takes     *)
(* items from it until done, which ends the run on the page.               *)
Attach(j) ==
  /\ streams[j] = "opening" /\ job[j].st # "gone"
  /\ streams' = [streams EXCEPT ![j] = "reading"]
  /\ UNCHANGED <<running, calls, job, money, faults>>

Closes(j) == streams' = [streams EXCEPT ![j] = "closed"]
Taken(run) == [run EXCEPT !.q = @ - 1]
Take(j) ==
  /\ streams[j] = "reading" /\ job[j].q > 0
  /\ job' = [job EXCEPT ![j] = Taken(@)]
  /\ IF job[j].st = "over" /\ job[j].q = 1
     THEN Closes(j) /\ running' = FALSE
     ELSE UNCHANGED <<streams, running>>
  /\ UNCHANGED <<calls, money, faults>>

(* The error event: no queue, or the connection is lost.  The page closes  *)
(* the stream, and nobody takes from the queue any more.                   *)
KeepsRunning(j) == running
AfterError(j) == FALSE
StreamError(j) ==
  /\ streams[j] \in {"opening", "reading"} /\ Closes(j)
  /\ IF job[j].st = "gone" THEN UNCHANGED faults
     ELSE Fault
  /\ running' = AfterError(j)
  /\ UNCHANGED <<calls, job, money>>

-----------------------------------------------------------------------------
(* The top-up: a notice that finds no credit transaction of the payment    *)
(* reads the wallet, and later saves it.                                   *)
CheckPayment(n) ==
  /\ credit[n] = "todo"
  /\ IF credited > 0 THEN credit' = [credit EXCEPT ![n] = "done"] /\ UNCHANGED copies
     ELSE credit' = [credit EXCEPT ![n] = "read"] /\ copies' = [copies EXCEPT ![n] = wallet]
  /\ UNCHANGED <<page, job, wallet, charged, credited, overlapped, faults>>

Credit(n) ==
  /\ credit[n] = "read"
  /\ Saves(n, [copies[n] EXCEPT !.balance = @ + TopUp, !.topups = @ + 1])
  /\ credit' = [credit EXCEPT ![n] = "saved"]
  /\ UNCHANGED <<page, job, charged, credited, faults>>

(* The credit transaction, the one that the other notice looks for.        *)
RecordCredit(n) ==
  /\ credit[n] = "saved"
  /\ credit' = [credit EXCEPT ![n] = "done"] /\ credited' = credited + 1
  /\ UNCHANGED <<page, job, wallet, copies, charged, overlapped, faults>>

(* A write of the notice fails: Paystack is told that all is well, while   *)
(* the user may verify once more.                                          *)
CreditFails(n) ==
  /\ credit[n] \in {"read", "saved"} /\ Fault
  /\ \E at \in {"todo", "done"} : credit' = [credit EXCEPT ![n] = at]
  /\ copies' = [copies EXCEPT ![n] = None]
  /\ UNCHANGED <<page, job, wallet, charged, credited, overlapped>>

-----------------------------------------------------------------------------
(* A request or its answer is lost, or the page has waited too long; the   *)
(* handler of a run goes on.                                               *)
Lose(c) ==
  /\ calls[c].at \in {"asked", "busy", "ok"} /\ Fault /\ Reply(c, "failed")
  /\ UNCHANGED <<running, streams, job, money>>

(* The server restarts: the tasks and their queues are gone; a notice it   *)
(* had not finished is sent again.                                         *)
Live == {j \in Jobs : job[j].st \notin {"none", "refused", "gone"}}
Crash ==
  /\ Live # {} /\ Fault
  /\ job' = [j \in Jobs |-> IF j \in Live
                            THEN [job[j] EXCEPT !.st = "gone", !.left = 0, !.q = 0] ELSE job[j]]
  /\ copies' = [w \in Writers |-> None]
  /\ credit' = [n \in Notices |-> IF credit[n] = "done" THEN "done" ELSE "todo"]
  /\ calls' = [c \in Calls |-> IF calls[c].at = "busy"
                               THEN [calls[c] EXCEPT !.at = "failed"] ELSE calls[c]]
  /\ UNCHANGED <<running, streams, wallet, charged, credited, overlapped>>

Handler(c) == SaveAnswered(c) \/ RunAnswered(c)
Serve(c) == SaveFile(c) \/ RunTrainer(c)
ReleaseAndCharge(j) == Release(j) \/ RecordCharge(j)
Task(j) == \/ Reserve(j) \/ Start(j) \/ Refuse(j) \/ Emit(j)
           \/ End(j) \/ ReleaseAndCharge(j) \/ Done(j)
NoQueue(j) == job[j].st = "gone" /\ StreamError(j)
Notice(n) == CheckPayment(n) \/ Credit(n) \/ RecordCredit(n) \/ CreditFails(n)

Next ==
  \/ HandleRun \/ Crash
  \/ \E c \in Calls : Handler(c) \/ Serve(c) \/ Lose(c)
  \/ \E j \in Jobs : Task(j) \/ WriteFails(j) \/ Attach(j) \/ Take(j) \/ StreamError(j)
  \/ \E n \in Notices : Notice(n)

Spec == Init /\ [][Next]_vars

(* Requests reach the server and answers the page, or are lost; a trainer  *)
(* ends; the tasks of the event loop all get their turn.                   *)
Fairness ==
  /\ \A c \in Calls : WF_vars(Handler(c) \/ Serve(c))
  /\ \A j \in Jobs : WF_vars(Task(j)) /\ WF_vars(Attach(j) \/ Take(j) \/ NoQueue(j))
FairSpec == Spec /\ Fairness

-----------------------------------------------------------------------------
(* What was taken and is not recorded, unit by unit: of the jobs between   *)
(* the save of the wallet and the debit transaction, and of those for whom *)
(* that transaction was never written.                                     *)
Unrecorded == {u \in Jobs \X (1..Hold) : u[2] <= job[u[1]].owed}

(* However the saves of the wallet overlap, the user never loses more than *)
(* what is recorded as charged, or about to be, or would be but for the    *)
(* failure of that write; apart from the top-ups the document has lost.    *)
Kept(document) == document.balance + document.reserved + charged
Due(document) == Funds + TopUp * document.topups
NeverOvercharged == Kept(wallet) + Cardinality(Unrecorded) >= Due(wallet)

(* Without an overlap every amount adds up, whatever fails, and what is    *)
(* reserved is the hold of the jobs that have not returned it.             *)
Holding == {j \in Jobs : job[j].held}
AmountsAddUp ==
  ~overlapped =>
    /\ Kept(wallet) + Cardinality(Unrecorded) = Due(wallet)
    /\ wallet.reserved = Hold * Cardinality(Holding)

(* A hold is returned, unless a call about it fails, the path or the file  *)
(* of the run is refused after it was made, the server dies, or the task   *)
(* waits for room in a queue that nobody reads.                            *)
Unread(j) == streams[j] = "closed" \/ (streams[j] = "none" /\ \A c \in Calls : calls[c].job # j)
Stuck(j) == job[j].st = "running" /\ job[j].left > 0 /\ ~Room(j) /\ Unread(j)
Stranded(j) == job[j].failed \/ job[j].st \in {"refused", "gone"} \/ Stuck(j)
HoldReturned == \A j \in Jobs : job[j].held ~> (~job[j].held \/ Stranded(j))

(* The page does not show a run for ever, whatever breaks.                 *)
RunEnds == running ~> ~running
=============================================================================
