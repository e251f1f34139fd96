--------------------------- MODULE EditorRunProofs ---------------------------
(***************************************************************************)
(* For any number of calls, runs and top-up notices, any amounts and any   *)
(* number of crashes and failed writes: what a user loses is recorded, or  *)
(* belongs to a run whose record is not written, however the saves of the  *)
(* wallet overlap.                                                         *)
(***************************************************************************)
EXTENDS EditorRun, FiniteSetTheorems, TLAPS

(* Who is about to save has read the wallet, and who is about to reserve   *)
(* has read one that affords the hold.                                     *)
Reads ==
  /\ \A j \in Jobs : job[j].st = "reserving" =>
       copies[j] \in Document /\ copies[j].balance >= Hold
  /\ \A j \in Jobs : job[j].st = "ending" => copies[j] \in Document
  /\ \A n \in Notices : credit[n] = "read" => copies[n] \in Document

(* How far a run has come with its money: it holds something from the      *)
(* reservation to the release unless a call has failed, and owes nothing   *)
(* before the release.                                                     *)
Stage(run) ==
  /\ run.st \in {"none", "reserving"} => ~run.held /\ ~run.failed
  /\ run.st = "reserved" => run.held /\ ~run.failed
  /\ run.st = "free" => run.failed
  /\ run.st = "running" /\ ~run.failed => run.held
  /\ run.st = "ending" => run.held
  /\ run.st \notin {"charging", "released", "over", "gone"} => run.owed = 0
  /\ run.owed <= Hold
Stages == \A j \in Jobs : Stage(job[j])
Sound == Reads /\ Stages

SameMoney(a, b) == a.held = b.held /\ a.failed = b.failed /\ a.owed = b.owed

(* The changes the actions make to the records keep them well typed.       *)
LEMMA CallAt ==
  ASSUME NEW q \in Call, NEW a \in {"none", "asked", "busy", "ok", "failed"}
  PROVE  [q EXCEPT !.at = a] \in Call
BY DEF Call

LEMMA CallMade ==
  /\ NoCall \in Call
  /\ \A what \in {"save", "run"} : Asked(what) \in Call
BY DEF Call, NoCall, Asked

LEMMA CallBusy ==
  ASSUME NEW q \in Call, NEW j \in Jobs
  PROVE  [q EXCEPT !.at = "busy", !.job = j] \in Call
BY DEF Call

LEMMA RunFields ==
  ASSUME NEW r \in Run
  PROVE  /\ r.st \in States /\ r.left \in 0..MaxLines /\ r.q \in 0..MaxQueue
         /\ r.held \in BOOLEAN /\ r.failed \in BOOLEAN /\ r.owed \in Nat
BY DEF Run

LEMMA RunState ==
  ASSUME NEW r \in Run, NEW s \in States
  PROVE  LET x == [r EXCEPT !.st = s] IN x \in Run /\ x.st = s /\ SameMoney(x, r)
BY DEF Run, SameMoney

LEMMA RunFails ==
  ASSUME NEW r \in Run, NEW s \in States
  PROVE  LET x == Failing(r, s) IN
           x \in Run /\ x.st = s /\ x.failed /\ x.held = r.held /\ x.owed = r.owed
BY DEF Run, Failing

LEMMA RunReserves ==
  ASSUME NEW r \in Run
  PROVE  LET x == [r EXCEPT !.st = "reserved", !.held = TRUE] IN
           x \in Run /\ x.st = "reserved" /\ x.held /\ x.failed = r.failed /\ x.owed = r.owed
BY DEF Run, States

LEMMA RunStarts ==
  ASSUME NEW r \in Run, NEW n \in 1..MaxLines
  PROVE  LET x == [r EXCEPT !.st = "running", !.left = n] IN
           x \in Run /\ x.st = "running" /\ SameMoney(x, r)
<1>1. n \in 0..MaxLines
  BY RunAssumption DEF RunAssumption
<1> QED
  BY <1>1 DEF Run, States, SameMoney

LEMMA RunTakes ==
  ASSUME NEW r \in Run, NEW cost \in Costs
  PROVE  /\ Taking(r, cost) \in Run /\ Taking(r, cost).st = "charging"
         /\ ~Taking(r, cost).held /\ Taking(r, cost).owed = Actual(cost)
<1>1. PICK a \in Nat : a = Actual(cost)
  BY RunAssumption DEF Actual, Least, RunAssumption
<1>2. Taking(r, cost) = [r EXCEPT !.st = "charging", !.held = FALSE, !.owed = a]
  BY <1>1 DEF Taking
<1> QED
  BY <1>1, <1>2 DEF Run, States

LEMMA RunRecords ==
  ASSUME NEW r \in Run
  PROVE  LET x == [r EXCEPT !.st = "released", !.owed = 0] IN
           x \in Run /\ x.st = "released" /\ x.held = r.held /\ x.owed = 0
BY DEF Run, States

LEMMA RunLines ==
  ASSUME NEW r \in Run, NEW l \in 0..MaxLines, NEW m \in 0..MaxQueue
  PROVE  LET x == [r EXCEPT !.left = l, !.q = m] IN
           x \in Run /\ x.st = r.st /\ SameMoney(x, r)
BY DEF Run, SameMoney

LEMMA RunQueue ==
  ASSUME NEW r \in Run, NEW m \in 0..MaxQueue
  PROVE  LET x == [r EXCEPT !.q = m] IN x \in Run /\ x.st = r.st /\ SameMoney(x, r)
BY DEF Run, SameMoney

LEMMA RunOver ==
  ASSUME NEW r \in Run, NEW m \in 0..MaxQueue
  PROVE  LET x == [r EXCEPT !.st = "over", !.q = m] IN
           x \in Run /\ x.st = "over" /\ SameMoney(x, r)
BY DEF Run, States, SameMoney

LEMMA RunEmits ==
  ASSUME NEW r \in Run, r.left > 0, r.q < MaxQueue
  PROVE  Printed(r) \in Run /\ Printed(r).st = r.st /\ SameMoney(Printed(r), r)
<1>1. r.left - 1 \in 0..MaxLines /\ r.q + 1 \in 0..MaxQueue
  BY RunFields, RunAssumption DEF RunAssumption
<1>2. PICK l \in 0..MaxLines, m \in 0..MaxQueue : l = r.left - 1 /\ m = r.q + 1
  BY <1>1
<1>3. Printed(r) = [r EXCEPT !.left = l, !.q = m]
  BY <1>2 DEF Printed
<1> DEFINE x == [r EXCEPT !.left = l, !.q = m]
<1>4. x \in Run /\ x.st = r.st /\ SameMoney(x, r)
  BY RunLines
<1> HIDE DEF x
<1>5. Printed(r) = x
  BY <1>3 DEF x
<1> QED
  BY <1>4, <1>5, Zenon

LEMMA RunDone ==
  ASSUME NEW r \in Run, r.q < MaxQueue
  PROVE  Finished(r) \in Run /\ Finished(r).st = "over" /\ SameMoney(Finished(r), r)
<1>1. r.q + 1 \in 0..MaxQueue
  BY RunFields, RunAssumption DEF RunAssumption
<1>2. PICK m \in 0..MaxQueue : m = r.q + 1
  BY <1>1
<1>3. Finished(r) = [r EXCEPT !.st = "over", !.q = m]
  BY <1>2 DEF Finished
<1> DEFINE x == [r EXCEPT !.st = "over", !.q = m]
<1>4. x \in Run /\ x.st = "over" /\ SameMoney(x, r)
  BY RunOver
<1> HIDE DEF x
<1>5. Finished(r) = x
  BY <1>3 DEF x
<1> QED
  BY <1>4, <1>5, Zenon

LEMMA RunTaken ==
  ASSUME NEW r \in Run, r.q > 0
  PROVE  Taken(r) \in Run /\ Taken(r).st = r.st /\ SameMoney(Taken(r), r)
<1>1. r.q - 1 \in 0..MaxQueue
  BY RunFields, RunAssumption DEF RunAssumption
<1>2. PICK m \in 0..MaxQueue : m = r.q - 1
  BY <1>1
<1>3. Taken(r) = [r EXCEPT !.q = m]
  BY <1>2 DEF Taken
<1> QED
  BY <1>3, RunQueue, Zenon

LEMMA RunGone ==
  ASSUME NEW r \in Run
  PROVE  LET x == [r EXCEPT !.st = "gone", !.left = 0, !.q = 0] IN
           x \in Run /\ x.st = "gone" /\ SameMoney(x, r)
<1>1. 0 \in 0..MaxLines /\ 0 \in 0..MaxQueue /\ "gone" \in States
  BY RunAssumption DEF RunAssumption, States
<1> QED
  BY <1>1 DEF Run, SameMoney

LEMMA OneMoreFault ==
  ASSUME NEW f \in 0..MaxFaults, f < MaxFaults PROVE f + 1 \in 0..MaxFaults
BY RunAssumption DEF RunAssumption

LEMMA IdleCall == Pending # Calls => Idle \in Calls
BY DEF Idle, Pending

-----------------------------------------------------------------------------
(* What the three savers make of a document: what it holds and what it     *)
(* owes move together, but for what is charged.                            *)
Held(document) == document.balance + document.reserved

LEMMA DocumentFields ==
  ASSUME NEW d \in Document
  PROVE  d.balance \in Nat /\ d.reserved \in Nat /\ d.topups \in Nat
BY DEF Document

LEMMA Reserved ==
  ASSUME NEW d \in Document, d.balance >= Hold
  PROVE  LET e == [d EXCEPT !.balance = @ - Hold, !.reserved = @ + Hold]
         IN  e \in Document /\ Held(e) = Held(d) /\ e.topups = d.topups
<1> DEFINE e == [d EXCEPT !.balance = @ - Hold, !.reserved = @ + Hold]
<1>1. d.balance - Hold \in Nat /\ d.reserved + Hold \in Nat
  BY DocumentFields, RunAssumption DEF RunAssumption
<1>2. d.balance - Hold + (d.reserved + Hold) = d.balance + d.reserved
  BY DocumentFields, RunAssumption DEF RunAssumption
<1>3. PICK a \in Nat, b \in Nat : a = d.balance - Hold /\ b = d.reserved + Hold
  BY <1>1
<1>4. e = [d EXCEPT !.balance = a, !.reserved = b]
  BY <1>3
<1>5. a + b = d.balance + d.reserved
  BY <1>2, <1>3
<1> HIDE DEF e
<1>6. e \in Document /\ e.balance = a /\ e.reserved = b /\ e.topups = d.topups
  BY <1>4 DEF Document
<1> QED
  BY <1>5, <1>6 DEF Held, e

LEMMA Charged == ASSUME NEW cost \in Costs PROVE Actual(cost) \in Nat /\ Actual(cost) <= Hold
BY RunAssumption DEF Actual, Least, RunAssumption

LEMMA Returned ==
  ASSUME NEW d \in Document, NEW cost \in Costs
  PROVE  /\ Released(d, cost) \in Document
         /\ Held(Released(d, cost)) + Actual(cost) >= Held(d)
         /\ Released(d, cost).topups = d.topups
<1> DEFINE ded == Least(Hold, d.reserved)
           back == Excess(ded, Actual(cost))
<1>1. /\ ded \in Nat /\ ded <= d.reserved
  BY DocumentFields, RunAssumption DEF Least, RunAssumption
<1>2. /\ back \in Nat /\ back + Actual(cost) >= ded
  BY <1>1, Charged DEF Excess
<1> HIDE DEF ded, back
<1>3. /\ d.reserved - ded \in Nat /\ d.balance + back \in Nat
      /\ d.balance + back + (d.reserved - ded) + Actual(cost) >= d.balance + d.reserved
  BY <1>1, <1>2, DocumentFields, Charged
<1>4. Released(d, cost) = [d EXCEPT !.reserved = d.reserved - ded, !.balance = d.balance + back]
  BY DEF Released, ded, back
<1>5. PICK a \in Nat, b \in Nat : a = d.balance + back /\ b = d.reserved - ded
  BY <1>3
<1>6. Released(d, cost) = [d EXCEPT !.balance = a, !.reserved = b]
  BY <1>4, <1>5 DEF Document
<1>7. a + b + Actual(cost) >= d.balance + d.reserved
  BY <1>3, <1>5
<1>8. /\ Released(d, cost) \in Document /\ Released(d, cost).topups = d.topups
      /\ Released(d, cost).balance = a /\ Released(d, cost).reserved = b
  BY <1>6 DEF Document
<1> QED
  BY <1>7, <1>8 DEF Held

LEMMA ToppedUp ==
  ASSUME NEW d \in Document
  PROVE  LET e == [d EXCEPT !.balance = @ + TopUp, !.topups = @ + 1]
         IN  /\ e \in Document /\ Held(e) = Held(d) + TopUp
             /\ Due(e) = Due(d) + TopUp
<1> DEFINE e == [d EXCEPT !.balance = @ + TopUp, !.topups = @ + 1]
<1>0. d.balance + TopUp \in Nat /\ d.topups + 1 \in Nat
  BY DocumentFields, RunAssumption DEF RunAssumption
<1>1. /\ e \in Document /\ Held(e) = Held(d) + TopUp /\ e.topups = d.topups + 1
      /\ d.topups \in Nat
  <2>1. /\ e \in Document /\ e.balance = d.balance + TopUp /\ e.reserved = d.reserved
        /\ e.topups = d.topups + 1
    <3>1. PICK a \in Nat, b \in Nat : a = d.balance + TopUp /\ b = d.topups + 1
      BY <1>0
    <3>2. e = [d EXCEPT !.balance = a, !.topups = b]
      BY <3>1
    <3> HIDE DEF e
    <3>3. /\ e \in Document /\ e.balance = a /\ e.reserved = d.reserved /\ e.topups = b
      BY <3>2 DEF Document
    <3> QED
      BY <3>1, <3>3
  <2> QED
    BY <2>1, DocumentFields, RunAssumption DEF Held, RunAssumption
<1>2. TopUp * (d.topups + 1) = TopUp * d.topups + TopUp
  BY <1>1, RunAssumption, SMT DEF RunAssumption
<1>3. TopUp * d.topups \in Nat
  BY <1>1, RunAssumption, SMT DEF RunAssumption
<1> HIDE DEF e
<1>4. Due(e) = Due(d) + TopUp
  BY <1>1, <1>2, <1>3, RunAssumption DEF Due, RunAssumption
<1> QED
  BY <1>1, <1>4 DEF e

-----------------------------------------------------------------------------
LEMMA TypeInit == Init => TypeOK /\ Sound
<1> SUFFICES ASSUME Init PROVE TypeOK /\ Sound
  OBVIOUS
<1>1. /\ NoJob \in Run /\ NoJob.st = "none" /\ Stage(NoJob)
      /\ [balance |-> Funds, reserved |-> 0, topups |-> 0] \in Document
  BY RunAssumption DEF NoJob, Run, States, Document, RunAssumption, Stage
<1>2. calls \in [Calls -> Call]
  BY CallMade DEF Init
<1>3. job \in [Jobs -> Run] /\ \A j \in Jobs : job[j].st = "none" /\ Stage(job[j])
  BY <1>1 DEF Init
<1>4. wallet \in Document /\ copies \in [Writers -> {None} \cup Document]
  BY <1>1 DEF Init
<1>5. faults \in 0..MaxFaults
  BY RunAssumption DEF Init, RunAssumption
<1>6. /\ credit \in [Notices -> {"todo", "read", "saved", "done"}]
      /\ \A n \in Notices : credit[n] = "todo"
  BY DEF Init
<1> QED
  BY <1>2, <1>3, <1>4, <1>5, <1>6 DEF Init, TypeOK, Sound, Stages, Reads

(* Every step but a crash and the answers of the server changes at most    *)
(* one job, and a job that it does not change keeps its copy.              *)
LEMMA TypeStep == TypeOK /\ Sound /\ [Next]_vars => TypeOK'
<1> SUFFICES ASSUME TypeOK, Sound, [Next]_vars PROVE TypeOK'
  OBVIOUS
<1> USE DEF TypeOK
<1>0. Fault => faults' \in 0..MaxFaults
  BY OneMoreFault DEF Fault
<1>1. ASSUME HandleRun PROVE TypeOK'
  <2>1. calls' \in [Calls -> Call]
    BY <1>1, IdleCall, CallMade DEF HandleRun, Ask
  <2> QED
    BY <1>1, <2>1 DEF HandleRun, money
<1>2. ASSUME Crash PROVE TypeOK'
  <2>1. calls' \in [Calls -> Call]
    BY <1>2, CallAt DEF Crash
  <2>2. job' \in [Jobs -> Run]
    BY <1>2, RunGone DEF Crash
  <2>3. faults' \in 0..MaxFaults
    BY <1>0, <1>2 DEF Crash
  <2>4. /\ copies' \in [Writers -> {None} \cup Document]
        /\ credit' \in [Notices -> {"todo", "read", "saved", "done"}]
    BY <1>2 DEF Crash
  <2> QED
    BY <1>2, <2>1, <2>2, <2>3, <2>4 DEF Crash
<1>3. ASSUME NEW c \in Calls, SaveAnswered(c) PROVE TypeOK'
  <2>1. calls' \in [Calls -> Call]
    BY <1>3, CallMade DEF SaveAnswered
  <2> QED
    BY <1>3, <2>1 DEF SaveAnswered, money
<1>4. ASSUME NEW c \in Calls, RunAnswered(c) PROVE TypeOK'
  <2>1. calls' \in [Calls -> Call]
    BY <1>4, CallMade DEF RunAnswered, Answered
  <2>2. streams' \in [Jobs -> {"none", "opening", "reading", "closed"}] /\ running' \in BOOLEAN
    BY <1>4 DEF RunAnswered
  <2> QED
    BY <1>4, <2>1, <2>2 DEF RunAnswered, money
<1>5. ASSUME NEW c \in Calls, SaveFile(c) PROVE TypeOK'
  <2>1. calls' \in [Calls -> Call]
    <3>1. CASE Reply(c, "ok")
      BY <3>1, CallAt DEF Reply
    <3>2. CASE Reply(c, "failed")
      BY <3>2, CallAt DEF Reply
    <3> QED
      BY <1>5, <3>1, <3>2 DEF SaveFile
  <2> QED
    BY <1>5, <2>1 DEF SaveFile, money
<1>6. ASSUME NEW c \in Calls, RunTrainer(c) PROVE TypeOK'
  <2>1. CASE Reply(c, "failed") /\ UNCHANGED <<copies, job, faults>>
    <3>1. calls' \in [Calls -> Call]
      BY <2>1, CallAt DEF Reply
    <3> QED
      BY <1>6, <2>1, <3>1 DEF RunTrainer
  <2>2. ASSUME NEW j \in Jobs,
               \/ /\ copies' = [copies EXCEPT ![j] = wallet] /\ UNCHANGED faults
                  /\ job' = [job EXCEPT ![j].st = "reserving"]
               \/ /\ Fault /\ UNCHANGED copies
                  /\ job' = [job EXCEPT ![j] = Failing(@, "free")],
               calls' = [calls EXCEPT ![c] = [@ EXCEPT !.at = "busy", !.job = j]]
        PROVE  TypeOK'
    <3>1. calls' \in [Calls -> Call]
      BY <2>2, CallBusy
    <3>2. job' \in [Jobs -> Run]
      <4>1. [job[j] EXCEPT !.st = "reserving"] \in Run /\ Failing(job[j], "free") \in Run
        BY RunState, RunFails DEF States
      <4> QED
        BY <2>2, <4>1
    <3>3. copies' \in [Writers -> {None} \cup Document] /\ faults' \in 0..MaxFaults
      BY <1>0, <2>2
    <3> QED
      BY <1>6, <3>1, <3>2, <3>3 DEF RunTrainer
  <2>3. Unused # {} => (CHOOSE k \in Unused : TRUE) \in Jobs
    BY DEF Unused
  <2> QED
    BY <1>6, <2>1, <2>2, <2>3 DEF RunTrainer
<1>7. ASSUME NEW c \in Calls, Lose(c) PROVE TypeOK'
  <2>1. calls' \in [Calls -> Call]
    BY <1>7, CallAt DEF Lose, Reply
  <2> QED
    BY <1>0, <1>7, <2>1 DEF Lose, money
<1>8. ASSUME NEW w \in Writers, NEW d \in Document, Saves(w, d)
      PROVE  /\ wallet' \in Document /\ copies' \in [Writers -> {None} \cup Document]
             /\ overlapped' \in BOOLEAN
  BY <1>8 DEF Saves
<1>9. ASSUME NEW j \in Jobs, Reserve(j) PROVE TypeOK'
  <2>1. [copies[j] EXCEPT !.balance = @ - Hold, !.reserved = @ + Hold] \in Document
    BY <1>9, Reserved DEF Reserve, Sound, Reads
  <2>2. job' \in [Jobs -> Run]
    BY <1>9, RunReserves DEF Reserve
  <2> QED
    BY <1>8, <1>9, <2>1, <2>2 DEF Reserve, page, Writers
<1>10. ASSUME NEW j \in Jobs, Start(j) PROVE TypeOK'
  <2>1. calls' \in [Calls -> Call]
    BY <1>10, CallAt DEF Start, Replies
  <2>2. job' \in [Jobs -> Run]
    <3>1. PICK n \in 1..MaxLines :
            job' = [job EXCEPT ![j] = [@ EXCEPT !.st = "running", !.left = n]]
      BY <1>10 DEF Start
    <3> QED
      BY <3>1, RunStarts
  <2> QED
    BY <1>10, <2>1, <2>2 DEF Start, money
<1>11. ASSUME NEW j \in Jobs, Emit(j) PROVE TypeOK'
  <2>1. Printed(job[j]) \in Run
    BY <1>11, RunEmits DEF Emit, Room
  <2>2. job' \in [Jobs -> Run]
    BY <1>11, <2>1 DEF Emit
  <2> QED
    BY <1>11, <2>2 DEF Emit, page, money
<1>21. ASSUME NEW j \in Jobs, Refuse(j) PROVE TypeOK'
  <2>1. calls' \in [Calls -> Call]
    BY <1>21, CallAt DEF Refuse, Replies
  <2>2. job' \in [Jobs -> Run]
    BY <1>21, RunState DEF Refuse, States
  <2> QED
    BY <1>21, <2>1, <2>2 DEF Refuse, money
<1>12. ASSUME NEW j \in Jobs, End(j) PROVE TypeOK'
  <2>1. job' \in [Jobs -> Run]
    <3>1. /\ [job[j] EXCEPT !.st = "released"] \in Run
          /\ [job[j] EXCEPT !.st = "ending"] \in Run
      BY RunState DEF States
    <3> QED
      BY <1>12, <3>1 DEF End
  <2>2. copies' \in [Writers -> {None} \cup Document]
    BY <1>12 DEF End
  <2> QED
    BY <1>12, <2>1, <2>2 DEF End, page
<1>13. ASSUME NEW j \in Jobs, Release(j) PROVE TypeOK'
  <2>1. PICK cost \in Costs : /\ Saves(j, Released(copies[j], cost))
                              /\ job' = [job EXCEPT ![j] = Taking(@, cost)]
    BY <1>13 DEF Release
  <2>2. Released(copies[j], cost) \in Document
    BY <1>13, Returned DEF Release, Sound, Reads
  <2>3. job' \in [Jobs -> Run]
    BY <2>1, RunTakes
  <2> QED
    BY <1>8, <1>13, <2>1, <2>2, <2>3 DEF Release, page, Writers
<1>22. ASSUME NEW j \in Jobs, RecordCharge(j) PROVE TypeOK'
  <2>1. charged' \in Nat
    BY <1>22, RunFields DEF RecordCharge
  <2>2. job' \in [Jobs -> Run]
    BY <1>22, RunRecords DEF RecordCharge
  <2> QED
    BY <1>22, <2>1, <2>2 DEF RecordCharge, page
<1>23. ASSUME NEW j \in Jobs, WriteFails(j) PROVE TypeOK'
  <2>1. Failing(job[j], "free") \in Run /\ Failing(job[j], "released") \in Run
    BY RunFails DEF States
  <2>2. job' \in [Jobs -> Run]
    BY <1>23, <2>1 DEF WriteFails
  <2>3. copies' \in [Writers -> {None} \cup Document]
    BY <1>23 DEF WriteFails
  <2> QED
    BY <1>0, <1>23, <2>2, <2>3 DEF WriteFails, page
<1>14. ASSUME NEW j \in Jobs, Done(j) PROVE TypeOK'
  <2>1. Finished(job[j]) \in Run
    BY <1>14, RunDone DEF Done, Room
  <2>2. job' \in [Jobs -> Run]
    BY <1>14, <2>1 DEF Done
  <2> QED
    BY <1>14, <2>2 DEF Done, page, money
<1>15. ASSUME NEW j \in Jobs, Attach(j) PROVE TypeOK'
  BY <1>15 DEF Attach, money
<1>16. ASSUME NEW j \in Jobs, Take(j) PROVE TypeOK'
  <2>1. Taken(job[j]) \in Run
    BY <1>16, RunTaken DEF Take
  <2>2. job' \in [Jobs -> Run]
    BY <1>16, <2>1 DEF Take
  <2>3. streams' \in [Jobs -> {"none", "opening", "reading", "closed"}] /\ running' \in BOOLEAN
    BY <1>16 DEF Take, Closes
  <2> QED
    BY <1>16, <2>2, <2>3 DEF Take, money
<1>17. ASSUME NEW j \in Jobs, StreamError(j) PROVE TypeOK'
  <2>1. streams' \in [Jobs -> {"none", "opening", "reading", "closed"}] /\ running' \in BOOLEAN
    BY <1>17 DEF StreamError, Closes, AfterError
  <2>2. faults' \in 0..MaxFaults
    BY <1>0, <1>17 DEF StreamError
  <2> QED
    BY <1>17, <2>1, <2>2 DEF StreamError, money
<1>18. ASSUME NEW n \in Notices, CheckPayment(n) PROVE TypeOK'
  <2>1. /\ copies' \in [Writers -> {None} \cup Document]
        /\ credit' \in [Notices -> {"todo", "read", "saved", "done"}]
    BY <1>18 DEF CheckPayment
  <2> QED
    BY <1>18, <2>1 DEF CheckPayment, page
<1>19. ASSUME NEW n \in Notices, Credit(n) PROVE TypeOK'
  <2>1. [copies[n] EXCEPT !.balance = @ + TopUp, !.topups = @ + 1] \in Document
    BY <1>19, ToppedUp DEF Credit, Sound, Reads
  <2>2. credit' \in [Notices -> {"todo", "read", "saved", "done"}]
    BY <1>19 DEF Credit
  <2> QED
    BY <1>8, <1>19, <2>1, <2>2 DEF Credit, page, Writers
<1>24. ASSUME NEW n \in Notices, RecordCredit(n) PROVE TypeOK'
  <2>1. credit' \in [Notices -> {"todo", "read", "saved", "done"}] /\ credited' \in Nat
    BY <1>24 DEF RecordCredit
  <2> QED
    BY <1>24, <2>1 DEF RecordCredit, page
<1>25. ASSUME NEW n \in Notices, CreditFails(n) PROVE TypeOK'
  <2>1. /\ credit' \in [Notices -> {"todo", "read", "saved", "done"}]
        /\ copies' \in [Writers -> {None} \cup Document]
    BY <1>25 DEF CreditFails
  <2> QED
    BY <1>0, <1>25, <2>1 DEF CreditFails, page
<1>20. CASE UNCHANGED vars
  BY <1>20 DEF vars, page, money
<1> QED
  BY <1>1, <1>2, <1>3, <1>4, <1>5, <1>6, <1>7, <1>9, <1>10, <1>11, <1>12, <1>13,
     <1>14, <1>15, <1>16, <1>17, <1>18, <1>19, <1>20, <1>21, <1>22, <1>23, <1>24, <1>25
     DEF Next, Handler, Serve, Task, ReleaseAndCharge, Notice

(* A step changes the money of at most one run, and leaves every run at a  *)
(* proper stage; every step that moves a writer on leaves the copies of    *)
(* the others.                                                             *)
LEMMA StageKept ==
  ASSUME NEW r \in Run, NEW x \in Run, Stage(r), SameMoney(x, r),
         \/ x.st = r.st
         \/ x.st = "gone"
         \/ r.st = "none" /\ x.st = "reserving"
         \/ x.st = "refused" /\ r.st \in {"reserved", "free"}
         \/ x.st = "running" /\ r.st \in {"reserved", "free"}
         \/ x.st \in {"released", "ending"} /\ r.st = "running" /\ (x.st = "ending" => ~r.failed)
         \/ x.st = "over"
  PROVE  Stage(x)
BY RunFields DEF Stage, SameMoney

LEMMA SoundStep == TypeOK /\ Sound /\ [Next]_vars => Sound'
<1> SUFFICES ASSUME TypeOK, Sound, [Next]_vars PROVE Sound'
  OBVIOUS
<1> USE DEF TypeOK
<1>0. /\ Jobs \cap Notices = {} /\ Jobs \subseteq Writers /\ Notices \subseteq Writers
      /\ \A k \in Jobs : job[k] \in Run /\ Stage(job[k])
  BY RunAssumption DEF RunAssumption, Writers, Sound, Stages
<1>1. ASSUME UNCHANGED <<job, copies, credit>> PROVE Sound'
  BY <1>1 DEF Sound, Reads, Stages
<1>2. ASSUME NEW j \in Jobs, UNCHANGED credit, Stage(job'[j]),
             \A w \in Writers \ {j} : copies'[w] = copies[w],
             \/ job'[j].st \notin {"reserving", "ending"}
             \/ copies'[j] = copies[j] /\ job'[j].st = job[j].st
             \/ copies'[j] = wallet /\ (job'[j].st = "reserving" => wallet.balance >= Hold),
             \A k \in Jobs \ {j} : job'[k] = job[k]
      PROVE  Sound'
  <2>1. Stages'
    BY <1>0, <1>2 DEF Stages
  <2>2. \A n \in Notices : copies'[n] = copies[n]
    BY <1>0, <1>2
  <2>3. Reads'
    BY <1>0, <1>2, <2>2 DEF Sound, Reads
  <2> QED
    BY <2>1, <2>3 DEF Sound
<1>3. ASSUME NEW j \in Jobs, Emit(j) PROVE Sound'
  <2>1. /\ Printed(job[j]) \in Run /\ Printed(job[j]).st = job[j].st
        /\ SameMoney(Printed(job[j]), job[j])
    BY <1>3, RunEmits DEF Emit, Room
  <2>2. /\ job'[j] = Printed(job[j]) /\ \A k \in Jobs \ {j} : job'[k] = job[k]
        /\ UNCHANGED <<copies, credit>>
    BY <1>3 DEF Emit, money
  <2>3. Stage(Printed(job[j]))
    BY <1>0, <2>1, StageKept
  <2> QED
    BY <1>2, <2>1, <2>2, <2>3
<1>4. ASSUME NEW j \in Jobs, Take(j) PROVE Sound'
  <2>1. /\ Taken(job[j]) \in Run /\ Taken(job[j]).st = job[j].st
        /\ SameMoney(Taken(job[j]), job[j])
    BY <1>4, RunTaken DEF Take
  <2>2. /\ job'[j] = Taken(job[j]) /\ \A k \in Jobs \ {j} : job'[k] = job[k]
        /\ UNCHANGED <<copies, credit>>
    BY <1>4 DEF Take, money
  <2>3. Stage(Taken(job[j]))
    BY <1>0, <2>1, StageKept
  <2> QED
    BY <1>2, <2>1, <2>2, <2>3
<1>5. ASSUME NEW j \in Jobs, Done(j) PROVE Sound'
  <2>1. /\ Finished(job[j]) \in Run /\ Finished(job[j]).st = "over"
        /\ SameMoney(Finished(job[j]), job[j])
    BY <1>5, RunDone DEF Done, Room
  <2>2. /\ job'[j] = Finished(job[j]) /\ \A k \in Jobs \ {j} : job'[k] = job[k]
        /\ UNCHANGED <<copies, credit>>
    BY <1>5 DEF Done, money
  <2>3. Stage(Finished(job[j]))
    BY <1>0, <2>1, StageKept
  <2> QED
    BY <1>2, <2>1, <2>2, <2>3
<1>6. ASSUME NEW j \in Jobs, Start(j) PROVE Sound'
  <2>1. PICK n \in 1..MaxLines :
          job' = [job EXCEPT ![j] = [@ EXCEPT !.st = "running", !.left = n]]
    BY <1>6 DEF Start
  <2>2. /\ job'[j] \in Run /\ job'[j].st = "running" /\ SameMoney(job'[j], job[j])
        /\ \A k \in Jobs \ {j} : job'[k] = job[k]
    BY <1>0, <2>1, RunStarts
  <2>3. Stage(job'[j])
    BY <1>0, <1>6, <2>2, StageKept DEF Start
  <2> QED
    BY <1>2, <1>6, <2>2, <2>3 DEF Start, money
<1>7. ASSUME NEW j \in Jobs, Refuse(j) PROVE Sound'
  <2>1. /\ job'[j] \in Run /\ job'[j].st = "refused" /\ SameMoney(job'[j], job[j])
        /\ \A k \in Jobs \ {j} : job'[k] = job[k]
    BY <1>0, <1>7, RunState DEF Refuse, States
  <2>2. Stage(job'[j])
    BY <1>0, <1>7, <2>1, StageKept DEF Refuse
  <2> QED
    BY <1>2, <1>7, <2>1, <2>2 DEF Refuse, money
<1>8. ASSUME NEW j \in Jobs, End(j) PROVE Sound'
  <2>1. /\ job'[j] \in Run /\ SameMoney(job'[j], job[j])
        /\ job'[j].st = IF job[j].failed THEN "released" ELSE "ending"
        /\ \A k \in Jobs \ {j} : job'[k] = job[k]
    <3> DEFINE x == [job[j] EXCEPT !.st = "released"]
               y == [job[j] EXCEPT !.st = "ending"]
    <3>1. /\ x \in Run /\ x.st = "released" /\ SameMoney(x, job[j])
          /\ y \in Run /\ y.st = "ending" /\ SameMoney(y, job[j])
      BY <1>0, RunState DEF States
    <3>2. /\ job'[j] = IF job[j].failed THEN x ELSE y
          /\ \A k \in Jobs \ {j} : job'[k] = job[k]
      BY <1>8 DEF End
    <3> HIDE DEF x, y
    <3> QED
      BY <3>1, <3>2
  <2>2. Stage(job'[j])
    BY <1>0, <1>8, <2>1, StageKept, RunFields DEF End
  <2>3. /\ \A w \in Writers \ {j} : copies'[w] = copies[w]
        /\ ~job[j].failed => copies'[j] = wallet
    BY <1>0, <1>8 DEF End
  <2> QED
    BY <1>2, <1>8, <2>1, <2>2, <2>3 DEF End
<1>9. ASSUME NEW j \in Jobs, Reserve(j) PROVE Sound'
  <2>1. /\ job'[j] \in Run /\ job'[j].st = "reserved" /\ job'[j].held
        /\ job'[j].failed = job[j].failed /\ job'[j].owed = job[j].owed
        /\ \A k \in Jobs \ {j} : job'[k] = job[k]
    BY <1>0, <1>9, RunReserves DEF Reserve
  <2>2. Stage(job'[j])
    BY <1>0, <1>9, <2>1 DEF Reserve, Stage
  <2>3. \A w \in Writers \ {j} : copies'[w] = copies[w]
    BY <1>9 DEF Reserve, Saves
  <2> QED
    BY <1>2, <1>9, <2>1, <2>2, <2>3 DEF Reserve
<1>10. ASSUME NEW j \in Jobs, Release(j) PROVE Sound'
  <2>1. PICK cost \in Costs : /\ Saves(j, Released(copies[j], cost))
                              /\ job' = [job EXCEPT ![j] = Taking(@, cost)]
    BY <1>10 DEF Release
  <2>2. /\ job'[j].st = "charging" /\ ~job'[j].held /\ job'[j].owed = Actual(cost)
        /\ \A k \in Jobs \ {j} : job'[k] = job[k]
    BY <1>0, <2>1, RunTakes
  <2>3. Stage(job'[j])
    BY <2>2, Charged DEF Stage
  <2>4. \A w \in Writers \ {j} : copies'[w] = copies[w]
    BY <2>1 DEF Saves
  <2> QED
    BY <1>2, <1>10, <2>2, <2>3, <2>4 DEF Release
<1>11. ASSUME NEW j \in Jobs, RecordCharge(j) PROVE Sound'
  <2>1. /\ job'[j].st = "released" /\ job'[j].owed = 0
        /\ \A k \in Jobs \ {j} : job'[k] = job[k]
    BY <1>0, <1>11, RunRecords DEF RecordCharge
  <2>2. Stage(job'[j])
    BY <2>1, RunAssumption DEF Stage, RunAssumption
  <2> QED
    BY <1>2, <1>11, <2>1, <2>2 DEF RecordCharge
<1>12. ASSUME NEW j \in Jobs, WriteFails(j) PROVE Sound'
  <2>1. PICK x \in {"free", "released"} :
          /\ job' = [job EXCEPT ![j] = Failing(@, x)]
          /\ x = "free" => job[j].st \in {"reserving", "reserved"}
    BY <1>12 DEF WriteFails
  <2> DEFINE y == Failing(job[j], x)
  <2>a. y \in Run /\ y.st = x /\ y.failed /\ y.owed = job[j].owed
    BY <1>0, RunFails DEF States
  <2>b. job'[j] = y /\ \A k \in Jobs \ {j} : job'[k] = job[k]
    BY <2>1
  <2> HIDE DEF y
  <2>2. /\ job'[j].st = x /\ job'[j].failed /\ job'[j].owed = job[j].owed
        /\ \A k \in Jobs \ {j} : job'[k] = job[k]
    BY <2>a, <2>b
  <2>3. Stage(job'[j])
    BY <1>0, <2>1, <2>2 DEF Stage
  <2>4. \A w \in Writers \ {j} : copies'[w] = copies[w]
    BY <1>12 DEF WriteFails
  <2> QED
    BY <1>2, <1>12, <2>1, <2>2, <2>3, <2>4 DEF WriteFails
<1>13. ASSUME NEW c \in Calls, RunTrainer(c) PROVE Sound'
  <2>1. ASSUME NEW j \in Unused, wallet.balance >= Hold, UNCHANGED credit,
               copies' = [copies EXCEPT ![j] = wallet],
               job' = [job EXCEPT ![j].st = "reserving"]
        PROVE  Sound'
    <3>0. j \in Jobs /\ job[j].st = "none"
      BY DEF Unused
    <3>1. /\ job'[j] \in Run /\ job'[j].st = "reserving" /\ SameMoney(job'[j], job[j])
          /\ \A k \in Jobs \ {j} : job'[k] = job[k]
      BY <1>0, <2>1, <3>0, RunState DEF States
    <3>2. Stage(job'[j])
      BY <1>0, <3>0, <3>1, StageKept
    <3>3. copies'[j] = wallet /\ \A w \in Writers \ {j} : copies'[w] = copies[w]
      BY <1>0, <2>1, <3>0
    <3> QED
      BY <1>2, <2>1, <3>0, <3>1, <3>2, <3>3
  <2>2. ASSUME NEW j \in Unused, UNCHANGED <<credit, copies>>,
               job' = [job EXCEPT ![j] = Failing(@, "free")]
        PROVE  Sound'
    <3>0. j \in Jobs /\ job[j].st = "none"
      BY DEF Unused
    <3> DEFINE y == Failing(job[j], "free")
    <3>a. y \in Run /\ y.st = "free" /\ y.failed /\ y.owed = job[j].owed
      BY <1>0, <3>0, RunFails DEF States
    <3>b. job'[j] = y /\ \A k \in Jobs \ {j} : job'[k] = job[k]
      BY <2>2, <3>0
    <3> HIDE DEF y
    <3>1. /\ job'[j].st = "free" /\ job'[j].failed /\ job'[j].owed = job[j].owed
          /\ \A k \in Jobs \ {j} : job'[k] = job[k]
      BY <3>a, <3>b
    <3>2. Stage(job'[j])
      BY <1>0, <3>0, <3>1 DEF Stage
    <3> QED
      BY <1>2, <2>2, <3>0, <3>1, <3>2
  <2>3. Unused # {} => (CHOOSE k \in Unused : TRUE) \in Unused
    OBVIOUS
  <2>4. CASE UNCHANGED <<copies, job>>
    BY <1>1, <1>13, <2>4 DEF RunTrainer
  <2> QED
    BY <1>13, <2>1, <2>2, <2>3, <2>4 DEF RunTrainer, Admits
<1>14. ASSUME NEW n \in Notices, Notice(n) PROVE Sound'
  <2>1. /\ \A m \in Notices \ {n} : credit'[m] = credit[m]
        /\ credit'[n] = "read" => copies'[n] \in Document
    BY <1>0, <1>14 DEF Notice, CheckPayment, Credit, RecordCredit, CreditFails
  <2>2. \A w \in Writers \ {n} : copies'[w] = copies[w]
    BY <1>14 DEF Notice, CheckPayment, Credit, Saves, RecordCredit, CreditFails
  <2>3. job' = job
    BY <1>14 DEF Notice, CheckPayment, Credit, RecordCredit, CreditFails
  <2>4. \A k \in Jobs : copies'[k] = copies[k]
    BY <1>0, <2>2
  <2>5. \A m \in Notices : credit'[m] = "read" => copies'[m] \in Document
    BY <1>0, <2>1, <2>2 DEF Sound, Reads
  <2> QED
    BY <2>3, <2>4, <2>5 DEF Sound, Reads, Stages
<1>15. CASE Crash
  <2>1. ASSUME NEW k \in Jobs
        PROVE  job'[k].st \notin {"reserving", "ending"} /\ Stage(job'[k])
    <3>1. CASE k \in Live
      <4> DEFINE x == [job[k] EXCEPT !.st = "gone", !.left = 0, !.q = 0]
      <4>1. job'[k] = x
        BY <1>15, <3>1 DEF Crash
      <4>2. x \in Run /\ x.st = "gone" /\ SameMoney(x, job[k])
        BY <1>0, RunGone
      <4> HIDE DEF x
      <4> QED
        BY <1>0, <4>1, <4>2, StageKept
    <3>2. CASE k \notin Live
      BY <1>0, <1>15, <3>2 DEF Crash, Live
    <3> QED
      BY <3>1, <3>2
  <2>2. \A n \in Notices : credit'[n] # "read"
    BY <1>15 DEF Crash
  <2> QED
    BY <2>1, <2>2 DEF Sound, Reads, Stages
<1>16. ASSUME NEW c \in Calls, SaveAnswered(c) \/ RunAnswered(c) \/ SaveFile(c) \/ Lose(c)
       PROVE  UNCHANGED <<job, copies, credit>>
  BY <1>16 DEF SaveAnswered, RunAnswered, SaveFile, Lose, money
<1>17. ASSUME NEW j \in Jobs, Attach(j) \/ StreamError(j)
       PROVE  UNCHANGED <<job, copies, credit>>
  BY <1>17 DEF Attach, StreamError, money
<1>18. HandleRun \/ UNCHANGED vars => UNCHANGED <<job, copies, credit>>
  BY DEF HandleRun, vars, money
<1> QED
  BY <1>1, <1>3, <1>4, <1>5, <1>6, <1>7, <1>8, <1>9, <1>10, <1>11, <1>12, <1>13, <1>14, <1>15,
     <1>16, <1>17, <1>18
     DEF Next, Handler, Serve, Task, ReleaseAndCharge

(* Type correctness of the run and the wallet, for every instance.         *)
THEOREM TypeCorrect == Spec => []TypeOK
BY TypeInit, TypeStep, SoundStep, PTL DEF Spec

-----------------------------------------------------------------------------
(* What is taken and not recorded is a sum, counted unit by unit: the      *)
(* units of one run are apart from those of the others.                    *)
Debts(f) == {u \in Jobs \X (1..Hold) : u[2] <= f[u[1]]}
Owing == [j \in Jobs |-> job[j].owed]

LEMMA DebtsFinite ==
  ASSUME NEW f PROVE IsFiniteSet(Debts(f)) /\ Cardinality(Debts(f)) \in Nat
<1>1. IsFiniteSet(Jobs) /\ IsFiniteSet(1..Hold)
  BY RunAssumption, FS_Interval DEF RunAssumption
<1>2. IsFiniteSet(Jobs \X (1..Hold))
  BY <1>1, FS_Product
<1>3. Debts(f) \subseteq Jobs \X (1..Hold)
  BY DEF Debts
<1> QED
  BY <1>2, <1>3, FS_Subset, FS_CardinalityType

LEMMA DebtsOfOne ==
  ASSUME NEW j \in Jobs, NEW f, f[j] \in Nat, f[j] <= Hold
  PROVE  LET rest == {u \in Debts(f) : u[1] # j} IN
           Cardinality(Debts(f)) = Cardinality(rest) + f[j] /\ Cardinality(rest) \in Nat
<1> DEFINE rest == {u \in Debts(f) : u[1] # j}
           own == {j} \X (1..f[j])
<1>1. Debts(f) = rest \cup own
  BY RunAssumption DEF Debts, RunAssumption
<1>2. rest \cap own = {}
  OBVIOUS
<1>3. IsFiniteSet(rest) /\ Cardinality(rest) \in Nat
  <2>1. rest \subseteq Debts(f)
    OBVIOUS
  <2> QED
    BY <2>1, DebtsFinite, FS_Subset, FS_CardinalityType
<1>4. IsFiniteSet(own) /\ Cardinality(own) = f[j]
  <2>1. IsFiniteSet({j}) /\ Cardinality({j}) = 1
    BY FS_Singleton
  <2>2. IsFiniteSet(1..f[j]) /\ Cardinality(1..f[j]) = f[j]
    BY FS_Interval
  <2>3. IsFiniteSet(own) /\ Cardinality(own) = Cardinality({j}) * Cardinality(1..f[j])
    BY <2>1, <2>2, FS_Product
  <2> QED
    BY <2>1, <2>2, <2>3
<1> HIDE DEF rest, own
<1>5. Cardinality(Debts(f)) = Cardinality(rest) + Cardinality(own) - Cardinality(rest \cap own)
  BY <1>1, <1>3, <1>4, FS_Union
<1>6. Cardinality(rest \cap own) = 0
  BY <1>2, FS_EmptySet
<1> QED
  BY <1>3, <1>4, <1>5, <1>6 DEF rest

LEMMA DebtsMove ==
  ASSUME NEW j \in Jobs, NEW f, NEW g,
         f[j] \in Nat, f[j] <= Hold, g[j] \in Nat, g[j] <= Hold,
         \A k \in Jobs \ {j} : g[k] = f[k]
  PROVE  Cardinality(Debts(g)) + f[j] = Cardinality(Debts(f)) + g[j]
<1> DEFINE fest == {u \in Debts(f) : u[1] # j}
           gest == {u \in Debts(g) : u[1] # j}
<1>1. fest = gest
  BY DEF Debts
<1>2. Cardinality(Debts(f)) = Cardinality(fest) + f[j] /\ Cardinality(fest) \in Nat
  BY DebtsOfOne
<1>3. Cardinality(Debts(g)) = Cardinality(gest) + g[j]
  BY DebtsOfOne
<1> HIDE DEF fest, gest
<1> QED
  BY <1>1, <1>2, <1>3

(* All that the releases have taken: what is recorded, and what is not.    *)
Withdrawn == charged + Cardinality(Unrecorded)

LEMMA UnrecordedIsDebts == Unrecorded = Debts(Owing)
<1>1. \A u \in Jobs \X (1..Hold) : Owing[u[1]] = job[u[1]].owed
  BY DEF Owing
<1> QED
  BY <1>1 DEF Unrecorded, Debts

LEMMA WithdrawnNat == TypeOK => Withdrawn \in Nat /\ Cardinality(Unrecorded) \in Nat
BY UnrecordedIsDebts, DebtsFinite DEF TypeOK, Withdrawn

LEMMA WithdrawnKept ==
  ASSUME UNCHANGED charged, \A k \in Jobs : job'[k].owed = job[k].owed
  PROVE  Withdrawn' = Withdrawn
BY DEF Withdrawn, Unrecorded

LEMMA WithdrawnMoves ==
  ASSUME TypeOK, NEW j \in Jobs, \A k \in Jobs \ {j} : job'[k] = job[k],
         job[j].owed \in Nat, job[j].owed <= Hold, job'[j].owed \in Nat, job'[j].owed <= Hold
  PROVE  /\ Cardinality(Unrecorded)' + job[j].owed = Cardinality(Unrecorded) + job'[j].owed
         /\ Cardinality(Unrecorded) \in Nat /\ Cardinality(Unrecorded)' \in Nat
<1>1. Owing[j] = job[j].owed /\ (Owing')[j] = job'[j].owed
  BY DEF Owing
<1>2. \A k \in Jobs \ {j} : (Owing')[k] = Owing[k]
  BY DEF Owing
<1>3. Cardinality(Debts(Owing')) + Owing[j] = Cardinality(Debts(Owing)) + (Owing')[j]
  BY <1>1, <1>2, DebtsMove
<1>4. Unrecorded = Debts(Owing) /\ Unrecorded' = Debts(Owing')
  <2>1. \A u \in Jobs \X (1..Hold) : (Owing')[u[1]] = job'[u[1]].owed
    BY DEF Owing
  <2> QED
    BY <2>1, UnrecordedIsDebts DEF Unrecorded, Debts
<1> QED
  BY <1>1, <1>3, <1>4, DebtsFinite

(* The steps that do not touch what is taken or recorded.                  *)
LEMMA OwedStays ==
  ASSUME TypeOK, Sound,
         NEW j \in Jobs, \/ Start(j) \/ Refuse(j) \/ Emit(j) \/ End(j)
                         \/ Done(j) \/ WriteFails(j) \/ Take(j)
  PROVE  /\ UNCHANGED charged
         /\ \A k \in Jobs : job'[k].owed = job[k].owed /\ job'[k].held = job[k].held
<1> USE DEF TypeOK
<1>0. job[j] \in Run
  OBVIOUS
<1>1. UNCHANGED charged /\ \A k \in Jobs \ {j} : job'[k] = job[k]
  BY DEF Start, Refuse, Emit, End, Done, WriteFails, Take, money
<1>2. ASSUME NEW x \in Run, job'[j] = x, SameMoney(x, job[j])
      PROVE  job'[j].owed = job[j].owed /\ job'[j].held = job[j].held
  BY <1>2 DEF SameMoney
<1>4. CASE Start(j)
  <2>1. PICK n \in 1..MaxLines :
          job' = [job EXCEPT ![j] = [@ EXCEPT !.st = "running", !.left = n]]
    BY <1>4 DEF Start
  <2> DEFINE x == [job[j] EXCEPT !.st = "running", !.left = n]
  <2>2. x \in Run /\ SameMoney(x, job[j])
    BY <1>0, RunStarts
  <2>3. job'[j] = x
    BY <2>1
  <2> HIDE DEF x
  <2> QED
    BY <1>1, <1>2, <2>2, <2>3
<1>5. ASSUME NEW s \in States, job' = [job EXCEPT ![j].st = s]
      PROVE  job'[j].owed = job[j].owed /\ job'[j].held = job[j].held
  <2> DEFINE x == [job[j] EXCEPT !.st = s]
  <2>1. x \in Run /\ SameMoney(x, job[j])
    BY <1>0, RunState
  <2>2. job'[j] = x
    BY <1>5
  <2> HIDE DEF x
  <2> QED
    BY <1>2, <2>1, <2>2
<1>6. CASE Refuse(j) \/ End(j)
  <2>1. \/ job' = [job EXCEPT ![j].st = "refused"]
        \/ job' = [job EXCEPT ![j].st = "released"]
        \/ job' = [job EXCEPT ![j].st = "ending"]
    BY <1>6 DEF Refuse, End
  <2>2. job'[j].owed = job[j].owed /\ job'[j].held = job[j].held
    BY <1>5, <2>1 DEF States
  <2> QED
    BY <1>1, <2>2
<1>7. CASE Emit(j)
  <2>1. Printed(job[j]) \in Run /\ SameMoney(Printed(job[j]), job[j])
    BY <1>0, <1>7, RunEmits DEF Emit, Room
  <2>2. job'[j] = Printed(job[j])
    BY <1>7 DEF Emit
  <2> QED
    BY <1>1, <1>2, <2>1, <2>2
<1>8. CASE Done(j)
  <2>1. Finished(job[j]) \in Run /\ SameMoney(Finished(job[j]), job[j])
    BY <1>0, <1>8, RunDone DEF Done, Room
  <2>2. job'[j] = Finished(job[j])
    BY <1>8 DEF Done
  <2> QED
    BY <1>1, <1>2, <2>1, <2>2
<1>9. CASE Take(j)
  <2>1. Taken(job[j]) \in Run /\ SameMoney(Taken(job[j]), job[j])
    BY <1>0, <1>9, RunTaken DEF Take
  <2>2. job'[j] = Taken(job[j])
    BY <1>9 DEF Take
  <2> QED
    BY <1>1, <1>2, <2>1, <2>2
<1>10. CASE WriteFails(j)
  <2>1. /\ Failing(job[j], "free").owed = job[j].owed
        /\ Failing(job[j], "free").held = job[j].held
        /\ Failing(job[j], "released").owed = job[j].owed
        /\ Failing(job[j], "released").held = job[j].held
    BY <1>0, RunFails DEF States
  <2>2. job'[j] \in {Failing(job[j], "free"), Failing(job[j], "released")}
    BY <1>10 DEF WriteFails
  <2> QED
    BY <1>1, <2>1, <2>2
<1> QED
  BY <1>4, <1>6, <1>7, <1>8, <1>9, <1>10

LEMMA ReserveOwes ==
  ASSUME TypeOK, NEW j \in Jobs, Reserve(j)
  PROVE  UNCHANGED charged /\ \A k \in Jobs : job'[k].owed = job[k].owed
<1> DEFINE x == [job[j] EXCEPT !.st = "reserved", !.held = TRUE]
<1>1. x.owed = job[j].owed
  BY RunReserves DEF TypeOK
<1>2. job'[j] = x /\ \A k \in Jobs \ {j} : job'[k] = job[k]
  BY DEF Reserve, TypeOK
<1> HIDE DEF x
<1> QED
  BY <1>1, <1>2 DEF Reserve

(* A release takes what it charges, and the debit records just that.       *)
LEMMA ReleaseTakes ==
  ASSUME TypeOK, Sound, NEW j \in Jobs, Release(j)
  PROVE  \E cost \in Costs :
           /\ Saves(j, Released(copies[j], cost)) /\ copies[j] \in Document
           /\ UNCHANGED charged /\ Withdrawn' = Withdrawn + Actual(cost)
           /\ job[j].held /\ ~job'[j].held /\ \A k \in Jobs \ {j} : job'[k] = job[k]
<1>1. PICK cost \in Costs : /\ Saves(j, Released(copies[j], cost))
                            /\ job' = [job EXCEPT ![j] = Taking(@, cost)]
  BY DEF Release
<1>2. job[j] \in Run /\ job[j].held /\ job[j].owed = 0 /\ copies[j] \in Document
  BY DEF TypeOK, Release, Sound, Reads, Stages, Stage
<1>3. /\ ~job'[j].held /\ job'[j].owed = Actual(cost)
      /\ \A k \in Jobs \ {j} : job'[k] = job[k]
  BY <1>1, <1>2, RunTakes DEF TypeOK
<1>4. /\ Cardinality(Unrecorded)' + 0 = Cardinality(Unrecorded) + Actual(cost)
      /\ Cardinality(Unrecorded) \in Nat /\ Cardinality(Unrecorded)' \in Nat
  BY <1>2, <1>3, WithdrawnMoves, Charged, RunAssumption DEF RunAssumption
<1>5. UNCHANGED charged /\ charged \in Nat
  BY DEF Release, TypeOK
<1>6. Withdrawn' = Withdrawn + Actual(cost)
  BY <1>4, <1>5, Charged DEF Withdrawn
<1> QED
  BY <1>1, <1>2, <1>3, <1>5, <1>6

LEMMA RecordMoves ==
  ASSUME TypeOK, Sound, NEW j \in Jobs, RecordCharge(j)
  PROVE  /\ Withdrawn' = Withdrawn /\ job'[j].held = job[j].held
         /\ \A k \in Jobs \ {j} : job'[k] = job[k]
<1>1. job[j] \in Run /\ job[j].owed \in Nat /\ job[j].owed <= Hold
  BY RunFields DEF TypeOK, Sound, Stages, Stage
<1> DEFINE x == [job[j] EXCEPT !.st = "released", !.owed = 0]
<1>2. x.held = job[j].held /\ x.owed = 0
  BY <1>1, RunRecords
<1>3. job'[j] = x /\ \A k \in Jobs \ {j} : job'[k] = job[k]
  BY DEF RecordCharge, TypeOK
<1> HIDE DEF x
<1>4. /\ Cardinality(Unrecorded)' + job[j].owed = Cardinality(Unrecorded) + 0
      /\ Cardinality(Unrecorded) \in Nat /\ Cardinality(Unrecorded)' \in Nat
  BY <1>1, <1>2, <1>3, WithdrawnMoves, RunAssumption DEF RunAssumption
<1>5. charged' = charged + job[j].owed /\ charged \in Nat
  BY DEF RecordCharge, TypeOK
<1>6. Withdrawn' = Withdrawn
  BY <1>1, <1>4, <1>5 DEF Withdrawn
<1> QED
  BY <1>2, <1>3, <1>6

(* The same of the steps of the server that are about several runs.        *)
LEMMA RunTrainerOwes ==
  ASSUME TypeOK, NEW c \in Calls, RunTrainer(c)
  PROVE  \A k \in Jobs : job'[k].owed = job[k].owed /\ job'[k].held = job[k].held
<1> USE DEF TypeOK
<1>1. ASSUME NEW j \in Jobs,
             \/ job' = [job EXCEPT ![j].st = "reserving"]
             \/ job' = [job EXCEPT ![j] = Failing(@, "free")]
      PROVE  \A k \in Jobs : job'[k].owed = job[k].owed /\ job'[k].held = job[k].held
  <2> DEFINE x == [job[j] EXCEPT !.st = "reserving"]
             y == Failing(job[j], "free")
  <2>0. job[j] \in Run /\ "reserving" \in States /\ "free" \in States
    BY DEF States
  <2>a. x.owed = job[j].owed /\ x.held = job[j].held
    BY <2>0, RunState DEF SameMoney
  <2>b. y.owed = job[j].owed /\ y.held = job[j].held
    BY <2>0, RunFails
  <2>1. /\ x.owed = job[j].owed /\ x.held = job[j].held
        /\ y.owed = job[j].owed /\ y.held = job[j].held
    BY <2>a, <2>b
  <2>2. job'[j] \in {x, y} /\ \A k \in Jobs \ {j} : job'[k] = job[k]
    BY <1>1
  <2> HIDE DEF x, y
  <2> QED
    BY <2>1, <2>2
<1>2. Unused # {} => (CHOOSE k \in Unused : TRUE) \in Jobs
  BY DEF Unused
<1> QED
  BY <1>1, <1>2 DEF RunTrainer

LEMMA CrashKeeps ==
  ASSUME TypeOK, Crash
  PROVE  \A k \in Jobs : job'[k].owed = job[k].owed /\ job'[k].held = job[k].held
<1> SUFFICES ASSUME NEW k \in Jobs
             PROVE  job'[k].owed = job[k].owed /\ job'[k].held = job[k].held
  OBVIOUS
<1> DEFINE x == [job[k] EXCEPT !.st = "gone", !.left = 0, !.q = 0]
<1>1. x.owed = job[k].owed /\ x.held = job[k].held
  BY RunGone DEF TypeOK, SameMoney
<1>2. job'[k] \in {x, job[k]}
  BY DEF Crash
<1> HIDE DEF x
<1> QED
  BY <1>1, <1>2

-----------------------------------------------------------------------------
(* Nobody is overcharged because no document is short, neither the stored  *)
(* one nor one that a writer has read: a save replaces the first by what a *)
(* writer makes of the second, so the saves it overwrites do not matter.   *)
Short(document) == ~(Held(document) + Withdrawn >= Due(document))
Covered ==
  /\ ~Short(wallet)
  /\ \A w \in Writers : copies[w] \in Document => ~Short(copies[w])

LEMMA DueNat == ASSUME NEW d \in Document PROVE Due(d) \in Nat
<1>1. d.topups \in Nat
  BY DocumentFields
<1>2. TopUp * d.topups \in Nat
  BY <1>1, RunAssumption, SMT DEF RunAssumption
<1> QED
  BY <1>2, RunAssumption DEF Due, RunAssumption

LEMMA SumsNat == ASSUME NEW d \in Document PROVE Held(d) \in Nat
BY DocumentFields DEF Held

(* What more is taken never makes a document short.                        *)
LEMMA StaysCovered ==
  ASSUME Withdrawn \in Nat, Withdrawn' \in Nat, Withdrawn' >= Withdrawn,
         NEW d \in Document, ~Short(d)
  PROVE  Held(d) + Withdrawn' >= Due(d)
<1>1. Held(d) + Withdrawn >= Due(d)
  BY DEF Short
<1> QED
  BY <1>1, SumsNat, DueNat

LEMMA CoveredMeans == TypeOK => (~Short(wallet) <=> NeverOvercharged)
<1> SUFFICES ASSUME TypeOK PROVE ~Short(wallet) <=> NeverOvercharged
  OBVIOUS
<1>1. Held(wallet) + Withdrawn = Kept(wallet) + Cardinality(Unrecorded)
  BY WithdrawnNat, DocumentFields DEF TypeOK, Held, Withdrawn, Kept
<1> QED
  BY <1>1 DEF Short, NeverOvercharged

LEMMA NothingTaken ==
  Init => Withdrawn = 0 /\ Held(wallet) = Funds /\ Due(wallet) = Funds
<1> SUFFICES ASSUME Init PROVE Withdrawn = 0 /\ Held(wallet) = Funds /\ Due(wallet) = Funds
  OBVIOUS
<1>1. wallet.balance = Funds /\ wallet.reserved = 0 /\ wallet.topups = 0 /\ charged = 0
  BY DEF Init
<1>2. Unrecorded = {}
  BY RunAssumption DEF Init, Unrecorded, NoJob, RunAssumption
<1>3. TopUp * 0 = 0
  BY RunAssumption, SMT DEF RunAssumption
<1>4. Cardinality(Unrecorded) = 0
  BY <1>2, FS_EmptySet
<1> QED
  BY <1>1, <1>3, <1>4, RunAssumption DEF Withdrawn, Held, Due, RunAssumption

LEMMA CoveredInit == Init => Covered
<1> SUFFICES ASSUME Init PROVE Covered
  OBVIOUS
<1>1. \A w \in Writers : copies[w] \notin Document
  BY RunAssumption DEF Init, RunAssumption
<1>2. ~Short(wallet)
  BY NothingTaken, RunAssumption DEF Short, RunAssumption
<1> QED
  BY <1>1, <1>2 DEF Covered

(* The three kinds of step: nothing about money moves, a writer reads, or  *)
(* a writer saves a document that is not short for what is taken then.     *)
LEMMA CoveredStep == TypeOK /\ Sound /\ Covered /\ [Next]_vars => Covered'
<1> SUFFICES ASSUME TypeOK, Sound, Covered, [Next]_vars PROVE Covered'
  OBVIOUS
<1>0. /\ Jobs \subseteq Writers /\ Notices \subseteq Writers /\ None \notin Document
      /\ wallet \in Document /\ copies \in [Writers -> {None} \cup Document]
      /\ Withdrawn \in Nat
  BY RunAssumption, WithdrawnNat DEF RunAssumption, Writers, TypeOK
<1>2. ASSUME UNCHANGED wallet, Withdrawn' = Withdrawn,
             \A w \in Writers : copies'[w] \in {copies[w], wallet, None}
      PROVE  Covered'
  <2>1. ASSUME NEW w \in Writers, copies'[w] \in Document
        PROVE  copies'[w] \in Document /\ ~Short(copies'[w])
    BY <1>0, <1>2, <2>1 DEF Covered
  <2> QED
    BY <1>2, <2>1 DEF Covered, Short, Held, Due
<1>3. ASSUME NEW v \in Writers, NEW d \in Document, Saves(v, d),
             Withdrawn' \in Nat, Withdrawn' >= Withdrawn, Held(d) + Withdrawn' >= Due(d)
      PROVE  Covered'
  <2>1. wallet' = d
    BY <1>3 DEF Saves
  <2>2. ASSUME NEW w \in Writers, copies'[w] \in Document
        PROVE  Held(copies'[w]) + Withdrawn' >= Due(copies'[w])
    <3>1. copies'[w] = copies[w]
      BY <1>0, <1>3, <2>2 DEF Saves
    <3> QED
      BY <1>0, <1>3, <2>2, <3>1, StaysCovered DEF Covered
  <2> QED
    BY <1>3, <2>1, <2>2 DEF Covered, Short, Due, Held
<1>4. ASSUME NEW j \in Jobs, Reserve(j) PROVE Covered'
  <2> DEFINE e == [copies[j] EXCEPT !.balance = @ - Hold, !.reserved = @ + Hold]
  <2>1. /\ copies[j] \in Document /\ Saves(j, e)
        /\ e \in Document /\ Held(e) = Held(copies[j]) /\ e.topups = copies[j].topups
    BY <1>4, Reserved DEF Reserve, Sound, Reads
  <2>2. Withdrawn' = Withdrawn
    BY <1>4, ReserveOwes, WithdrawnKept
  <2> HIDE DEF e
  <2>3. Held(copies[j]) + Withdrawn >= Due(copies[j])
    BY <1>0, <2>1 DEF Covered, Short
  <2>4. Held(e) + Withdrawn' >= Due(e)
    BY <2>1, <2>2, <2>3 DEF Due
  <2> QED
    BY <1>0, <1>3, <2>1, <2>2, <2>4
<1>5. ASSUME NEW j \in Jobs, Release(j) PROVE Covered'
  <2>1. PICK cost \in Costs :
          /\ Saves(j, Released(copies[j], cost)) /\ copies[j] \in Document
          /\ Withdrawn' = Withdrawn + Actual(cost)
    BY <1>5, ReleaseTakes
  <2> DEFINE d == copies[j]
             e == Released(copies[j], cost)
  <2>3. /\ e \in Document /\ Held(e) + Actual(cost) >= Held(d) /\ e.topups = d.topups
        /\ Actual(cost) \in Nat
    BY <2>1, Returned, Charged
  <2>4. Held(d) + Withdrawn >= Due(d)
    BY <1>0, <2>1 DEF Covered, Short
  <2>5. Due(e) = Due(d) /\ d \in Document
    BY <2>1, <2>3 DEF Due
  <2> HIDE DEF d, e
  <2>6. Held(e) + Withdrawn' >= Due(e)
    BY <1>0, <2>1, <2>3, <2>4, <2>5, SumsNat, DueNat
  <2>7. Withdrawn' \in Nat /\ Withdrawn' >= Withdrawn
    BY <1>0, <2>1, <2>3
  <2> QED
    BY <1>0, <1>3, <2>1, <2>3, <2>6, <2>7 DEF e
<1>6. ASSUME NEW n \in Notices, Credit(n) PROVE Covered'
  <2> DEFINE e == [copies[n] EXCEPT !.balance = @ + TopUp, !.topups = @ + 1]
  <2>1. copies[n] \in Document /\ Saves(n, e) /\ UNCHANGED <<charged, job>>
    BY <1>6 DEF Credit, Sound, Reads
  <2>2. /\ e \in Document /\ Held(e) = Held(copies[n]) + TopUp
        /\ Due(e) = Due(copies[n]) + TopUp
    BY <2>1, ToppedUp
  <2>5. Withdrawn' = Withdrawn
    BY <2>1, WithdrawnKept
  <2> HIDE DEF e
  <2>3. Held(copies[n]) + Withdrawn >= Due(copies[n])
    BY <1>0, <2>1 DEF Covered, Short
  <2>4. Held(e) + Withdrawn' >= Due(e)
    BY <1>0, <2>1, <2>2, <2>3, <2>5, SumsNat, DueNat, RunAssumption DEF RunAssumption
  <2> QED
    BY <1>0, <1>3, <2>1, <2>2, <2>4, <2>5
<1>7. ASSUME UNCHANGED <<wallet, copies, charged, job>> PROVE Covered'
  BY <1>0, <1>2, <1>7, WithdrawnKept
<1>8. ASSUME NEW j \in Jobs, \/ Start(j) \/ Refuse(j) \/ Emit(j) \/ End(j)
                             \/ Done(j) \/ WriteFails(j) \/ Take(j)
      PROVE  Covered'
  <2>1. Withdrawn' = Withdrawn
    BY <1>8, OwedStays, WithdrawnKept
  <2>2. UNCHANGED wallet
    BY <1>8 DEF Start, Refuse, Emit, End, Done, WriteFails, Take, money
  <2>3. \A w \in Writers : copies'[w] \in {copies[w], wallet, None}
    BY <1>0, <1>8 DEF Start, Refuse, Emit, End, Done, WriteFails, Take, money
  <2> QED
    BY <1>2, <2>1, <2>2, <2>3
<1>9. ASSUME NEW j \in Jobs, RecordCharge(j) PROVE Covered'
  <2>1. Withdrawn' = Withdrawn
    BY <1>9, RecordMoves
  <2> QED
    BY <1>0, <1>2, <1>9, <2>1 DEF RecordCharge
<1>10. ASSUME NEW c \in Calls, RunTrainer(c) PROVE Covered'
  <2>1. UNCHANGED <<wallet, charged>> /\ \A w \in Writers : copies'[w] \in {copies[w], wallet}
    BY <1>0, <1>10 DEF RunTrainer
  <2>2. \A k \in Jobs : job'[k].owed = job[k].owed
    BY <1>10, RunTrainerOwes
  <2>3. Withdrawn' = Withdrawn
    BY <2>1, <2>2, WithdrawnKept
  <2> QED
    BY <1>2, <2>1, <2>3
<1>11. ASSUME NEW n \in Notices, CheckPayment(n) \/ RecordCredit(n) \/ CreditFails(n)
       PROVE  Covered'
  <2>1. UNCHANGED <<wallet, charged, job>>
    BY <1>11 DEF CheckPayment, RecordCredit, CreditFails
  <2>2. \A w \in Writers : copies'[w] \in {copies[w], wallet, None}
    BY <1>0, <1>11 DEF CheckPayment, RecordCredit, CreditFails
  <2> QED
    BY <1>2, <2>1, <2>2, WithdrawnKept
<1>12. CASE Crash
  <2>1. UNCHANGED <<wallet, charged>> /\ \A w \in Writers : copies'[w] = None
    BY <1>12 DEF Crash
  <2>2. \A k \in Jobs : job'[k].owed = job[k].owed
    BY <1>12, CrashKeeps
  <2>3. Withdrawn' = Withdrawn
    BY <2>1, <2>2, WithdrawnKept
  <2> QED
    BY <1>2, <2>1, <2>3
<1>13. ASSUME NEW c \in Calls, SaveAnswered(c) \/ RunAnswered(c) \/ SaveFile(c) \/ Lose(c)
       PROVE  Covered'
  BY <1>7, <1>13 DEF SaveAnswered, RunAnswered, SaveFile, Lose, money
<1>14. ASSUME NEW j \in Jobs, Attach(j) \/ StreamError(j) PROVE Covered'
  BY <1>7, <1>14 DEF Attach, StreamError, money
<1>15. HandleRun \/ UNCHANGED vars => Covered'
  BY <1>7 DEF HandleRun, vars, money
<1> QED
  BY <1>4, <1>5, <1>6, <1>8, <1>9, <1>10, <1>11, <1>12, <1>13, <1>14, <1>15
     DEF Next, Handler, Serve, Task, ReleaseAndCharge, Notice

(* However the saves of the wallet overlap, whatever crashes or fails:     *)
(* what the user has lost is recorded as charged, or belongs to a run that *)
(* has not (yet) written its debit, or it is a top-up that the document no *)
(* longer contains.                                                        *)
THEOREM NobodyOvercharged == Spec => []NeverOvercharged
<1>1. TypeOK /\ Covered => NeverOvercharged
  BY CoveredMeans DEF Covered
<1> QED
  BY <1>1, TypeInit, TypeStep, SoundStep, CoveredInit, CoveredStep, PTL DEF Spec

-----------------------------------------------------------------------------
(* Without an overlap nothing is lost, and what is reserved is the hold of *)
(* every job that has not returned it: so a job that returns its hold      *)
(* finds it in the document it has read.                                   *)
Balanced ==
  ~overlapped =>
    /\ Held(wallet) + Withdrawn = Due(wallet)
    /\ wallet.reserved = Hold * Cardinality(Holding)

LEMMA HoldTimes ==
  ASSUME NEW n \in Nat
  PROVE  Hold * n \in Nat /\ Hold * (n + 1) = Hold * n + Hold
BY RunAssumption, SMT DEF RunAssumption

LEMMA HoldingFinite == IsFiniteSet(Holding) /\ Cardinality(Holding) \in Nat
<1>1. IsFiniteSet(Jobs) /\ Holding \subseteq Jobs
  BY RunAssumption DEF RunAssumption, Holding
<1> QED
  BY <1>1, FS_Subset, FS_CardinalityType

LEMMA BalancedInit == Init => Balanced
<1> SUFFICES ASSUME Init PROVE Balanced
  OBVIOUS
<1>1. wallet.reserved = 0 /\ Holding = {}
  BY DEF Init, Holding, NoJob
<1>2. Cardinality(Holding) = 0 /\ Hold * 0 = 0
  BY <1>1, FS_EmptySet, RunAssumption, SMT DEF RunAssumption
<1> QED
  BY <1>1, <1>2, NothingTaken, RunAssumption DEF Balanced, RunAssumption

(* Nothing about money moves, and the same jobs hold.                      *)
LEMMA BalancedKept ==
  ASSUME Balanced, UNCHANGED <<wallet, overlapped>>, Withdrawn' = Withdrawn,
         \A k \in Jobs : job'[k].held = job[k].held
  PROVE  Balanced'
<1>1. Holding' = Holding
  BY DEF Holding
<1> QED
  BY <1>1 DEF Balanced, Held, Due

LEMMA BalancedStep == TypeOK /\ Sound /\ Balanced /\ [Next]_vars => Balanced'
<1> SUFFICES ASSUME TypeOK, Sound, Balanced, [Next]_vars PROVE Balanced'
  OBVIOUS
<1>0. /\ Jobs \subseteq Writers /\ Notices \subseteq Writers
      /\ wallet \in Document /\ wallet.reserved \in Nat /\ Withdrawn \in Nat
      /\ Held(wallet) \in Nat /\ Due(wallet) \in Nat
      /\ Hold \in Nat /\ TopUp \in Nat
  BY RunAssumption, WithdrawnNat, DocumentFields, SumsNat, DueNat DEF RunAssumption, Writers, TypeOK
<1>1. ASSUME UNCHANGED <<wallet, charged, overlapped>>,
             \A k \in Jobs : job'[k].held = job[k].held /\ job'[k].owed = job[k].owed
      PROVE  Balanced'
  BY <1>1, BalancedKept, WithdrawnKept
<1>2. ASSUME NEW j \in Jobs, \/ Start(j) \/ Refuse(j) \/ Emit(j) \/ End(j)
                             \/ Done(j) \/ WriteFails(j) \/ Take(j)
      PROVE  Balanced'
  <2>1. UNCHANGED <<wallet, overlapped>>
    BY <1>2 DEF Start, Refuse, Emit, End, Done, WriteFails, Take, money
  <2>2. /\ UNCHANGED charged
        /\ \A k \in Jobs : job'[k].held = job[k].held /\ job'[k].owed = job[k].owed
    BY <1>2, OwedStays
  <2> QED
    BY <1>1, <2>1, <2>2
<1>3. ASSUME NEW j \in Jobs, RecordCharge(j) PROVE Balanced'
  <2>1. UNCHANGED <<wallet, overlapped>>
    BY <1>3 DEF RecordCharge
  <2>2. Withdrawn' = Withdrawn /\ \A k \in Jobs : job'[k].held = job[k].held
    BY <1>3, RecordMoves
  <2> QED
    BY <2>1, <2>2, BalancedKept
<1>4. ASSUME NEW c \in Calls, RunTrainer(c) PROVE Balanced'
  <2>1. UNCHANGED <<wallet, charged, overlapped>>
    BY <1>4 DEF RunTrainer
  <2> QED
    BY <1>1, <1>4, <2>1, RunTrainerOwes
<1>5. CASE Crash
  <2>1. UNCHANGED <<wallet, charged, overlapped>>
    BY <1>5 DEF Crash
  <2> QED
    BY <1>1, <1>5, <2>1, CrashKeeps
<1>8. ASSUME NEW j \in Jobs, Reserve(j), ~overlapped' PROVE Balanced'
  <2> DEFINE e == [wallet EXCEPT !.balance = @ - Hold, !.reserved = @ + Hold]
             x == [job[j] EXCEPT !.st = "reserved", !.held = TRUE]
  <2>1. /\ copies[j] = wallet /\ wallet' = e /\ ~overlapped
        /\ job[j].st = "reserving" /\ wallet.balance >= Hold
    BY <1>8 DEF Reserve, Saves, Sound, Reads
  <2>2. e \in Document /\ Held(e) = Held(wallet) /\ e.topups = wallet.topups
    BY <1>0, <2>1, Reserved
  <2>3. e.reserved = wallet.reserved + Hold
    BY <1>0 DEF Document
  <2>4. ~job[j].held /\ job[j] \in Run
    BY <2>1 DEF TypeOK, Sound, Stages, Stage
  <2>5. x.held /\ job'[j] = x /\ \A k \in Jobs \ {j} : job'[k] = job[k]
    BY <1>8, <2>4, RunReserves DEF Reserve, TypeOK
  <2> HIDE DEF x
  <2>6. Holding' = Holding \cup {j} /\ j \notin Holding
    BY <2>4, <2>5 DEF Holding
  <2>7. Cardinality(Holding') = Cardinality(Holding) + 1 /\ Cardinality(Holding) \in Nat
    BY <2>6, HoldingFinite, FS_AddElement
  <2>8. Hold * Cardinality(Holding') = Hold * Cardinality(Holding) + Hold
    BY <2>7, HoldTimes
  <2>9. Withdrawn' = Withdrawn
    BY <1>8, ReserveOwes, WithdrawnKept
  <2> HIDE DEF e
  <2>10. Held(wallet') = Held(wallet) /\ Due(wallet') = Due(wallet)
    BY <2>1, <2>2 DEF Due
  <2> QED
    BY <2>1, <2>3, <2>8, <2>9, <2>10 DEF Balanced, Held, Due
<1>9. ASSUME NEW j \in Jobs, Release(j), ~overlapped' PROVE Balanced'
  <2>1. PICK cost \in Costs :
          /\ Saves(j, Released(copies[j], cost)) /\ Withdrawn' = Withdrawn + Actual(cost)
          /\ job[j].held /\ ~job'[j].held /\ \A k \in Jobs \ {j} : job'[k] = job[k]
    BY <1>9, ReleaseTakes
  <2> DEFINE e == Released(wallet, cost)
  <2>2. wallet' = e /\ ~overlapped
    BY <1>9, <2>1 DEF Saves
  <2>4. Holding' = Holding \ {j} /\ j \in Holding
    BY <2>1 DEF Holding
  <2>5. /\ Cardinality(Holding') \in Nat /\ Cardinality(Holding') + 1 = Cardinality(Holding)
    <3>1. Cardinality(Holding') = Cardinality(Holding) - 1 /\ Cardinality(Holding) \in Nat
      BY <2>4, HoldingFinite, FS_RemoveElement
    <3>2. Cardinality(Holding) # 0
      BY <2>4, HoldingFinite, FS_EmptySet
    <3> QED
      BY <3>1, <3>2
  <2>6. /\ Hold * Cardinality(Holding') \in Nat
        /\ Hold * Cardinality(Holding) = Hold * Cardinality(Holding') + Hold
    BY <2>5, HoldTimes
  <2>7. wallet.reserved = Hold * Cardinality(Holding)
    BY <2>2 DEF Balanced
  <2>8. wallet.reserved >= Hold
    BY <1>0, <2>6, <2>7
  <2>9. Least(Hold, wallet.reserved) = Hold
    BY <1>0, <2>8 DEF Least
  <2>10. Actual(cost) \in Nat /\ Actual(cost) <= Hold
    BY Charged
  <2>11. Excess(Hold, Actual(cost)) = Hold - Actual(cost)
    BY <1>0, <2>10 DEF Excess
  <2>12. e = [wallet EXCEPT !.reserved = wallet.reserved - Hold,
                            !.balance = wallet.balance + (Hold - Actual(cost))]
    BY <2>9, <2>11 DEF Released
  <2>13. /\ e.reserved = wallet.reserved - Hold /\ e.topups = wallet.topups
         /\ e.balance = wallet.balance + (Hold - Actual(cost))
    BY <1>0, <2>12 DEF Document
  <2> HIDE DEF e
  <2>14. Held(wallet') + Actual(cost) = Held(wallet)
    BY <1>0, <2>2, <2>8, <2>10, <2>13, DocumentFields DEF Held
  <2>15. Due(wallet') = Due(wallet)
    BY <2>2, <2>13 DEF Due
  <2>16. Held(wallet') \in Int
    BY <1>0, <2>2, <2>8, <2>10, <2>13, DocumentFields DEF Held
  <2>17. Held(wallet') + Withdrawn' = Due(wallet')
    BY <1>0, <2>1, <2>2, <2>10, <2>14, <2>15, <2>16 DEF Balanced
  <2>18. wallet'.reserved = Hold * Cardinality(Holding')
    BY <1>0, <2>2, <2>6, <2>7, <2>13
  <2> QED
    BY <2>17, <2>18 DEF Balanced, Held, Due
<1>10. ASSUME NEW n \in Notices, Credit(n), ~overlapped' PROVE Balanced'
  <2> DEFINE e == [wallet EXCEPT !.balance = @ + TopUp, !.topups = @ + 1]
  <2>1. wallet' = e /\ UNCHANGED <<charged, job>> /\ ~overlapped
    BY <1>10 DEF Credit, Saves
  <2>2. Held(e) = Held(wallet) + TopUp /\ Due(e) = Due(wallet) + TopUp
    BY <1>0, ToppedUp
  <2>3. e.reserved = wallet.reserved
    BY <1>0 DEF Document
  <2>4. Withdrawn' = Withdrawn /\ Holding' = Holding
    BY <2>1, WithdrawnKept DEF Holding
  <2> HIDE DEF e
  <2>5. Held(wallet') + Withdrawn' = Due(wallet')
    BY <1>0, <2>1, <2>2, <2>4 DEF Balanced
  <2> QED
    BY <2>1, <2>3, <2>4, <2>5 DEF Balanced, Held, Due
<1>11. ASSUME UNCHANGED <<wallet, charged, overlapped, job>> PROVE Balanced'
  BY <1>1, <1>11
<1>12. ASSUME NEW c \in Calls, SaveAnswered(c) \/ RunAnswered(c) \/ SaveFile(c) \/ Lose(c)
       PROVE  Balanced'
  BY <1>11, <1>12 DEF SaveAnswered, RunAnswered, SaveFile, Lose, money
<1>13. ASSUME NEW j \in Jobs, Attach(j) \/ StreamError(j) PROVE Balanced'
  BY <1>11, <1>13 DEF Attach, StreamError, money
<1>14. ASSUME NEW n \in Notices, CheckPayment(n) \/ RecordCredit(n) \/ CreditFails(n)
       PROVE  Balanced'
  BY <1>11, <1>14 DEF CheckPayment, RecordCredit, CreditFails
<1>15. HandleRun \/ UNCHANGED vars => Balanced'
  BY <1>11 DEF HandleRun, vars, money
<1>16. overlapped' => Balanced'
  BY DEF Balanced
<1> QED
  BY <1>2, <1>3, <1>4, <1>5, <1>8, <1>9, <1>10, <1>12, <1>13, <1>14, <1>15, <1>16
     DEF Next, Handler, Serve, Task, ReleaseAndCharge, Notice

(* As long as no save of the wallet has overwritten one that its writer    *)
(* had not read, the amounts add up, whatever crashes or fails, and what   *)
(* is reserved is the hold of the jobs that have not returned it.          *)
THEOREM WalletAddsUp == Spec => []AmountsAddUp
<1>1. TypeOK /\ Balanced => AmountsAddUp
  <2> SUFFICES ASSUME TypeOK, Balanced PROVE AmountsAddUp
    OBVIOUS
  <2>1. Held(wallet) + Withdrawn = Kept(wallet) + Cardinality(Unrecorded)
    BY WithdrawnNat, DocumentFields DEF TypeOK, Held, Withdrawn, Kept
  <2> QED
    BY <2>1 DEF Balanced, AmountsAddUp
<1> QED
  BY <1>1, TypeInit, TypeStep, SoundStep, BalancedInit, BalancedStep, PTL DEF Spec
=============================================================================
