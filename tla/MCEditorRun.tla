---- MODULE MCEditorRun ----
(***************************************************************************)
(* Instances of EditorRun for TLC, with properties for observation.        *)
(***************************************************************************)
EXTENDS EditorRun

(* A payment is credited once, however often it is reported.               *)
CreditedOnce == credited <= 1

(* HoldReturned without its last exception: a task that waits for room in  *)
(* a queue that nobody reads breaks it.                                    *)
AlwaysReturned ==
  \A j \in Jobs :
    job[j].held ~> (~job[j].held \/ job[j].failed \/ job[j].st \in {"refused", "gone"})

(* What is taken is recorded, once no run is between the two writes.       *)
AlwaysRecorded == (\A j \in Jobs : job[j].st # "charging") => Kept(wallet) >= Due(wallet)
====
