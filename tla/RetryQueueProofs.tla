-------------------------- MODULE RetryQueueProofs ---------------------------
(***************************************************************************)
(* Proofs about RetryQueue for any messages, consumers and prefetch.       *)
(***************************************************************************)
EXTENDS RetryQueue, TLAPS

QInv == QTypeOK /\ DeliveredOnceAtATime

LEMMA QInit_Inv == QInit => QInv
BY QueueAssumption DEF QInit, QInv, QTypeOK, DeliveredOnceAtATime, Places

LEMMA QStep_Inv == QInv /\ [Next]_qvars => QInv'
<1> SUFFICES ASSUME QInv, [Next]_qvars PROVE QInv'
  OBVIOUS
<1> USE QueueAssumption DEF QInv, QTypeOK, DeliveredOnceAtATime, Places, Move
<1>1. ASSUME NEW m \in Messages, Publish(m) PROVE QInv'
  BY <1>1 DEF Publish
<1>2. ASSUME NEW c \in Consumers, NEW m \in Messages, Deliver(c, m) PROVE QInv'
  BY <1>2 DEF Deliver
<1>3. ASSUME NEW c \in Consumers, NEW m \in Messages, Handle(c, m) PROVE QInv'
  <2>1. PICK place \in {"acked", "retry"} :
          /\ m \in held[c]
          /\ loc' = [loc EXCEPT ![m] = place]
          /\ held' = [held EXCEPT ![c] = @ \ {m}]
          /\ UNCHANGED faults
    BY <1>3 DEF Handle, Ack, Reject, AfterFailure
  <2> QED
    BY <2>1
<1>4. ASSUME NEW c \in Consumers, ConsumerDies(c) PROVE QInv'
  BY <1>4 DEF ConsumerDies
<1>5. ASSUME NEW m \in Messages, RetryExpires(m) PROVE QInv'
  BY <1>5 DEF RetryExpires
<1>6. CASE BrokerRestarts
  BY <1>6 DEF BrokerRestarts
<1>7. CASE UNCHANGED qvars
  BY <1>7 DEF qvars
<1> QED
  BY <1>1, <1>2, <1>3, <1>4, <1>5, <1>6, <1>7 DEF Next, Broker

(* A message is in one place, and the window of unacknowledged messages of *)
(* a consumer holds messages, whatever crashes.                            *)
THEOREM QueueTypeCorrect == Spec => []QTypeOK
<1>1. QInv => QTypeOK
  BY DEF QInv
<1> QED
  BY QInit_Inv, QStep_Inv, <1>1, PTL DEF Spec

(* A message in hand is in one pair of hands, and only there: crashes,     *)
(* restarts and retries leave none that nobody will deliver.               *)
THEOREM OneDeliveryAtATime == Spec => []DeliveredOnceAtATime
<1>1. QInv => DeliveredOnceAtATime
  BY DEF QInv
<1> QED
  BY QInit_Inv, QStep_Inv, <1>1, PTL DEF Spec

-----------------------------------------------------------------------------
(* The queue's safety refinement: every step accepts a message, finishes   *)
(* one, or is invisible to the promise.                                    *)
THEOREM QueueImplementsPromise == Spec => Promise!Spec
<1>1. QInit => Promise!Init
  BY DEF QInit, Promise!Init, Accepted, Settled, Durable
<1>2. QInv /\ [Next]_qvars => [Promise!Next]_(Promise!queueVars)
  <2> SUFFICES ASSUME QInv, [Next]_qvars
               PROVE  Promise!Next \/ (Accepted' = Accepted /\ Settled' = Settled)
    BY DEF Promise!queueVars
  <2> USE DEF QInv, QTypeOK, DeliveredOnceAtATime, Places, Move, Accepted, Settled, Durable
  <2>1. ASSUME NEW m \in Messages, Publish(m)
        PROVE  Promise!Next \/ (Accepted' = Accepted /\ Settled' = Settled)
    <3>1. CASE m \in Transient
      BY <2>1, <3>1 DEF Publish
    <3>2. CASE m \notin Transient
      BY <2>1, <3>2 DEF Publish, Promise!Next, Promise!Accept
    <3> QED
      BY <3>1, <3>2
  <2>2. ASSUME NEW c \in Consumers, NEW m \in Messages, Deliver(c, m)
        PROVE  Accepted' = Accepted /\ Settled' = Settled
    BY <2>2 DEF Deliver
  <2>3. ASSUME NEW c \in Consumers, NEW m \in Messages, Ack(c, m)
        PROVE  Promise!Next \/ (Accepted' = Accepted /\ Settled' = Settled)
    <3>1. CASE m \in Transient
      BY <2>3, <3>1 DEF Ack
    <3>2. CASE m \notin Transient
      BY <2>3, <3>2 DEF Ack, Promise!Next, Promise!Finish
    <3> QED
      BY <3>1, <3>2
  <2>4. ASSUME NEW c \in Consumers, NEW m \in Messages, Reject(c, m)
        PROVE  Accepted' = Accepted /\ Settled' = Settled
    BY <2>4 DEF Reject, AfterFailure
  <2>5. ASSUME NEW c \in Consumers, ConsumerDies(c)
        PROVE  Accepted' = Accepted /\ Settled' = Settled
    BY <2>5 DEF ConsumerDies
  <2>6. ASSUME NEW m \in Messages, RetryExpires(m)
        PROVE  Accepted' = Accepted /\ Settled' = Settled
    BY <2>6 DEF RetryExpires
  <2>7. CASE BrokerRestarts
    BY <2>7 DEF BrokerRestarts
  <2>8. CASE UNCHANGED qvars
    BY <2>8 DEF qvars
  <2> QED
    BY <2>1, <2>2, <2>3, <2>4, <2>5, <2>6, <2>7, <2>8 DEF Next, Broker, Handle
<1> QED
  BY QInit_Inv, QStep_Inv, <1>1, <1>2, PTL DEF Spec, Promise!Spec
=============================================================================
