----------------------------- MODULE RetryQueue ------------------------------
(***************************************************************************)
(* One of the worker's queues with its retry queue, as rabbitmq.py         *)
(* declares them and the consumers in tasks/*.py use them.  A rejected     *)
(* message is dead-lettered to <queue>.retry, waits there for the TTL and  *)
(* is dead-lettered back to <queue>; <queue>.dlq is declared and bound to  *)
(* nothing.  Each consumer holds at most Prefetch unacknowledged messages, *)
(* each of them in a coroutine of its own; when the consumer's connection  *)
(* is gone the broker requeues what it held.                               *)
(***************************************************************************)
EXTENDS Naturals, FiniteSets

CONSTANTS Messages,    \* message ids
          Consumers,   \* worker processes that consume the queue
          Prefetch,    \* channel.set_qos(prefetch_count)
          Poison,      \* messages whose handler raises every time
          Transient,   \* published without DeliveryMode.PERSISTENT
          MaxFaults    \* bound on crashes and broker restarts

ASSUME QueueAssumption ==
  /\ Prefetch \in Nat \ {0}
  /\ MaxFaults \in Nat
  /\ Poison \subseteq Messages
  /\ Transient \subseteq Messages

Places == {"unpublished", "main", "unacked", "retry", "dlq", "acked", "lost"}

VARIABLES loc,     \* [Messages -> Places], where the broker has the message
          held,    \* [Consumers -> SUBSET Messages], deliveries not yet settled
          faults   \* crashes and restarts so far
qvars == <<loc, held, faults>>

QTypeOK ==
  /\ loc \in [Messages -> Places]
  /\ held \in [Consumers -> SUBSET Messages]
  /\ faults \in 0..MaxFaults

QInit ==
  /\ loc = [m \in Messages |-> "unpublished"]
  /\ held = [c \in Consumers |-> {}]
  /\ faults = 0

Move(m, place) == loc' = [loc EXCEPT ![m] = place]

(* default_exchange.publish: the message is in the main queue.             *)
Publish(m) ==
  /\ loc[m] = "unpublished"
  /\ Move(m, "main")
  /\ UNCHANGED <<held, faults>>

(* A consumer with a free prefetch slot starts the handler of m.           *)
Deliver(c, m) ==
  /\ loc[m] = "main"
  /\ Cardinality(held[c]) < Prefetch
  /\ Move(m, "unacked")
  /\ held' = [held EXCEPT ![c] = @ \cup {m}]
  /\ UNCHANGED faults

(* message.process(requeue=False): the handler returned, the message is    *)
(* acknowledged ...                                                        *)
Ack(c, m) ==
  /\ m \in held[c]
  /\ Move(m, "acked")
  /\ held' = [held EXCEPT ![c] = @ \ {m}]
  /\ UNCHANGED faults

(* ... or it raised, and the message is rejected: dead-lettered to the     *)
(* retry queue, whatever the number of attempts already made.              *)
DropsAfterFailure == "lost"
UnboundAfterFailure == "exchange"
AfterFailure == "retry"

Reject(c, m) ==
  /\ m \in held[c]
  /\ Move(m, AfterFailure)
  /\ held' = [held EXCEPT ![c] = @ \ {m}]
  /\ UNCHANGED faults

(* x-message-ttl has elapsed: back to the main queue.                      *)
RetryExpires(m) ==
  /\ loc[m] = "retry"
  /\ Move(m, "main")
  /\ UNCHANGED <<held, faults>>

(* The worker dies; the broker requeues everything it had delivered to it. *)
ForgetsDeliveries(c) ==
  /\ faults < MaxFaults
  /\ faults' = faults + 1
  /\ held' = [held EXCEPT ![c] = {}]
  /\ UNCHANGED loc

ConsumerDies(c) ==
  /\ faults < MaxFaults
  /\ faults' = faults + 1
  /\ loc' = [m \in Messages |-> IF m \in held[c] THEN "main" ELSE loc[m]]
  /\ held' = [held EXCEPT ![c] = {}]

(* The broker restarts: the queues are durable, their transient messages   *)
(* are not.                                                                *)
BrokerRestarts ==
  /\ faults < MaxFaults
  /\ faults' = faults + 1
  /\ held' = [c \in Consumers |-> {}]
  /\ loc' = [m \in Messages |->
       CASE m \in Transient /\ loc[m] \in {"main", "unacked", "retry"} -> "lost"
         [] m \notin Transient /\ loc[m] = "unacked" -> "main"
         [] OTHER -> loc[m]]

(* A handler ends: it may fail at any time, and succeeds unless the        *)
(* message is poison.                                                      *)
Handle(c, m) == (m \notin Poison /\ Ack(c, m)) \/ Reject(c, m)

Broker == (\E m \in Messages : RetryExpires(m)) \/ BrokerRestarts

Next ==
  \/ \E m \in Messages : Publish(m)
  \/ \E c \in Consumers, m \in Messages : Deliver(c, m) \/ Handle(c, m)
  \/ \E c \in Consumers : ConsumerDies(c)
  \/ Broker

Spec == QInit /\ [][Next]_qvars

(* Consumers take what is in the queue (RabbitMQ is FIFO, so a message is  *)
(* reached although the prefetch window is full now and again), the TTL    *)
(* elapses, and a healthy handler that is tried again and again succeeds   *)
(* in the end.                                                             *)
QFairness ==
  \A m \in Messages :
    /\ SF_qvars(\E c \in Consumers : Deliver(c, m))
    /\ WF_qvars(RetryExpires(m))
    /\ WF_qvars(\E c \in Consumers : Handle(c, m))
    /\ SF_qvars(\E c \in Consumers : m \notin Poison /\ Ack(c, m))

FairSpec == Spec /\ QFairness

-----------------------------------------------------------------------------
(* A message in a handler's hands is in exactly one handler's hands, and   *)
(* the broker and the consumers agree on which messages those are: no      *)
(* crash, restart or retry leaves a message that nobody will deliver.      *)
DeliveredOnceAtATime ==
  /\ \A m \in Messages : loc[m] = "unacked" <=> \E c \in Consumers : m \in held[c]
  /\ \A b, c \in Consumers : b # c => held[b] \cap held[c] = {}

(* The queue implements AtLeastOnce for the messages published as          *)
(* persistent.                                                             *)
Durable == Messages \ Transient
Accepted == {m \in Durable : loc[m] \in {"main", "unacked", "retry", "dlq"}}
Settled == {m \in Durable : loc[m] = "acked"}
Promise == INSTANCE AtLeastOnce WITH
             Messages <- Durable, Healthy <- Durable \ Poison,
             pending <- Accepted, done <- Settled

(* A persistent message is never lost, is never handled after it was       *)
(* acknowledged, and is handled in the end if its handler can succeed,     *)
(* through failures, crashes and restarts.                                 *)
KeepsPromise == Promise!FairSpec

(* The same end for every message, however it was published (README.md:    *)
(* "durable + retry + DLQ").                                               *)
EveryMessageHandled ==
  \A m \in Messages \ Poison : loc[m] = "main" ~> loc[m] = "acked"

(* rabbitmq.py: "DLQ - messages exhausting retries land here".             *)
PoisonIsParked ==
  \A m \in Poison : loc[m] = "main" ~> loc[m] \in {"dlq", "lost"}
=============================================================================
