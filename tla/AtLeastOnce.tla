----------------------------- MODULE AtLeastOnce -----------------------------
(***************************************************************************)
(* What the work queues promise: a message that was accepted stays pending *)
(* until its handler has finished it, and then stays finished.  How often  *)
(* the handler was started is nobody's business, so handlers must be       *)
(* idempotent.                                                             *)
(***************************************************************************)
CONSTANTS Messages,  \* all messages
          Healthy    \* those whose handler can succeed

VARIABLES pending,   \* accepted and not finished
          done       \* finished
queueVars == <<pending, done>>

Init == pending = {} /\ done = {}

Accept(m) ==
  /\ m \notin pending \cup done
  /\ pending' = pending \cup {m}
  /\ UNCHANGED done

Finish(m) ==
  /\ m \in pending
  /\ pending' = pending \ {m}
  /\ done' = done \cup {m}

Next == \E m \in Messages : Accept(m) \/ Finish(m)

Spec == Init /\ [][Next]_queueVars

FairSpec == Spec /\ \A m \in Healthy : WF_queueVars(Finish(m))
=============================================================================
