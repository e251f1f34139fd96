---------------------------- MODULE SessionProofs ----------------------------
(***************************************************************************)
(* For any number of tabs, axios clients, requests and sign-ins: each      *)
(* client refreshes at most once at a time, no request is left in a        *)
(* failedQueue that nobody will process, and a session that the server     *)
(* honours is ended by a sign-out only.                                    *)
(***************************************************************************)
EXTENDS Session, TLAPS

(* Whoever refreshes asked with a refresh token.                           *)
Asked == \A r \in Requests : req[r].pc = "refreshing" => req[r].rt \in Sessions

LEMMA TypeInit == Init => TypeOK /\ Asked
BY SessionAssumption
   DEF Init, TypeOK, Asked, SessionAssumption, Phases, Request

(* The changes the actions make to a request keep it well typed.           *)
LEMMA RequestFields ==
  ASSUME NEW q \in Request
  PROVE  /\ q.pc \in Phases /\ q.tok \in Token \cup {None} /\ q.retry \in BOOLEAN
         /\ q.rt \in Sessions \cup {None} /\ q.grant \in Token \cup {None, Refused}
BY DEF Request

LEMMA RequestPhase ==
  ASSUME NEW q \in Request, NEW p \in Phases
  PROVE  [q EXCEPT !.pc = p] \in Request
BY DEF Request

LEMMA RequestSent ==
  ASSUME NEW q \in Request, NEW tok \in Token \cup {None}
  PROVE  [q EXCEPT !.pc = "sent", !.tok = tok] \in Request
BY DEF Request, Phases

LEMMA RequestGrant ==
  ASSUME NEW q \in Request, NEW g \in Token \cup {None, Refused}
  PROVE  [q EXCEPT !.grant = g] \in Request
BY DEF Request

LEMMA RequestRefreshing ==
  ASSUME NEW q \in Request, NEW rt \in Sessions
  PROVE  [q EXCEPT !.pc = "refreshing", !.retry = TRUE, !.rt = rt, !.grant = None]
           \in Request
BY DEF Request, Phases

LEMMA PhaseSet ==
  ASSUME NEW q \in Request, NEW p \in Phases
  PROVE  [q EXCEPT !.pc = p].pc = p /\ [q EXCEPT !.pc = p].rt = q.rt
BY DEF Request

LEMMA SentSet ==
  ASSUME NEW q \in Request, NEW tok \in Token \cup {None}
  PROVE  [q EXCEPT !.pc = "sent", !.tok = tok].pc = "sent"
BY DEF Request

LEMMA GrantSet ==
  ASSUME NEW q \in Request, NEW g \in Token \cup {None, Refused}
  PROVE  [q EXCEPT !.grant = g].pc = q.pc /\ [q EXCEPT !.grant = g].rt = q.rt
BY DEF Request

LEMMA RefreshingSet ==
  ASSUME NEW q \in Request, NEW rt
  PROVE  LET x == [q EXCEPT !.pc = "refreshing", !.retry = TRUE, !.rt = rt,
                            !.grant = None]
         IN  x.pc = "refreshing" /\ x.rt = rt
BY DEF Request

(* What a step does to the phases of the requests.                         *)
Waits(r) == req[r].pc \in {"queued", "refreshing"}

Untouched(r) ==
  \A q \in Requests \ {r} : req'[q] = req[q]

LEMMA StepSend ==
  ASSUME TypeOK, NEW r \in Requests, Send(r)
  PROVE  Untouched(r) /\ req[r].pc = "idle" /\ req'[r].pc = "sent"
<1>1. Header(token, fallback[ClientOf[r]]) \in Token \cup {None}
  BY SessionAssumption DEF Header, TypeOK, SessionAssumption
<1> QED
  BY <1>1, SentSet DEF Send, TypeOK, Untouched

LEMMA StepServer ==
  ASSUME TypeOK, NEW r \in Requests, Answer(r) \/ OtherError(r)
  PROVE  Untouched(r) /\ req[r].pc = "sent" /\ req'[r].pc \in {"ok", "denied", "failed"}
<1>1. \E p \in {"ok", "denied", "failed"} : req' = [req EXCEPT ![r].pc = p]
  BY DEF Answer, OtherError
<1>2. PICK p \in {"ok", "denied", "failed"} : req' = [req EXCEPT ![r].pc = p]
  BY <1>1
<1>3. req'[r].pc = p
  BY <1>2, PhaseSet DEF TypeOK, Phases
<1>4. Untouched(r)
  BY <1>2 DEF TypeOK, Untouched
<1> QED
  BY <1>3, <1>4 DEF Answer, OtherError

LEMMA StepGrant ==
  ASSUME TypeOK, Asked, NEW r \in Requests, Grant(r) \/ RefreshLost(r)
  PROVE  Untouched(r) /\ req'[r].pc = req[r].pc /\ req'[r].rt = req[r].rt
<1>1. req[r].pc = "refreshing"
  BY DEF Grant, RefreshLost
<1>2. [s |-> req[r].rt, n |-> epoch] \in Token
  BY <1>1 DEF TypeOK, Asked, Token
<1>3. \E g \in Token \cup {None, Refused} : req' = [req EXCEPT ![r].grant = g]
  BY <1>2 DEF Grant, RefreshLost
<1>4. PICK g \in Token \cup {None, Refused} : req' = [req EXCEPT ![r].grant = g]
  BY <1>3
<1>5. req'[r].pc = req[r].pc /\ req'[r].rt = req[r].rt
  BY <1>4, GrantSet DEF TypeOK
<1> QED
  BY <1>4, <1>5 DEF TypeOK, Untouched

LEMMA StepSettle ==
  ASSUME TypeOK, NEW r \in Requests, NEW p \in Phases, Settle(r, p)
  PROVE  Untouched(r) /\ req'[r].pc = p
<1>1. req'[r].pc = p
  BY PhaseSet DEF Settle, TypeOK
<1> QED
  BY <1>1 DEF Settle, TypeOK, Untouched

LEMMA StepReload ==
  ASSUME TypeOK, NEW t \in Tabs, Reload(t), NEW q \in Requests
  PROVE  IF Tab(q) = t /\ req[q].pc \notin {"idle", "ok", "failed"}
         THEN req'[q].pc = "gone" ELSE req'[q] = req[q]
<1>1. req'[q] = IF Tab(q) = t /\ req[q].pc \notin {"idle", "ok", "failed"}
                THEN [req[q] EXCEPT !.pc = "gone"] ELSE req[q]
  BY DEF Reload
<1>2. [req[q] EXCEPT !.pc = "gone"].pc = "gone"
  BY PhaseSet DEF TypeOK, Phases
<1> QED
  BY <1>1, <1>2

LEMMA StepStart ==
  ASSUME TypeOK, NEW r \in Requests, StartRefresh(r)
  PROVE  Untouched(r) /\ req'[r].pc = "refreshing" /\ req'[r].rt = refresh
<1>1. req'[r].pc = "refreshing" /\ req'[r].rt = refresh
  BY RefreshingSet DEF StartRefresh, Marked, TypeOK
<1> QED
  BY <1>1 DEF StartRefresh, TypeOK, Untouched

LEMMA StepRefreshed ==
  ASSUME TypeOK, NEW r \in Requests, Refreshed(r), NEW q \in Requests
  PROVE  IF q \in {r} \cup failedQueue[ClientOf[r]]
         THEN req'[q].pc = "sent" ELSE req'[q] = req[q]
<1>1. token' \in Token
  BY RequestFields DEF Refreshed, TypeOK
<1>2. [req[q] EXCEPT !.pc = "sent", !.tok = token'].pc = "sent"
  BY <1>1, SentSet DEF TypeOK
<1>3. req'[q] = IF q \in {r} \cup failedQueue[ClientOf[r]]
                THEN [req[q] EXCEPT !.pc = "sent", !.tok = token'] ELSE req[q]
  BY DEF Refreshed, Released
<1> QED
  BY <1>2, <1>3

LEMMA StepFailed ==
  ASSUME TypeOK, NEW r \in Requests, RefreshFailed(r), NEW q \in Requests
  PROVE  IF q \in {r} \cup failedQueue[ClientOf[r]]
         THEN req'[q].pc = "failed" ELSE req'[q] = req[q]
BY PhaseSet DEF RefreshFailed, Released, TypeOK, Phases

LEMMA TypeStep == TypeOK /\ Asked /\ [Next]_vars => TypeOK'
<1> SUFFICES ASSUME TypeOK, Asked, [Next]_vars PROVE TypeOK'
  OBVIOUS
<1> USE SessionAssumption DEF SessionAssumption, TypeOK
<1>1. ASSUME NEW t \in Tabs, NEW s \in Sessions, Login(t, s) PROVE TypeOK'
  <2>1. token' \in Token
    BY <1>1 DEF Login, Token
  <2>2. /\ user' \in Sessions /\ refresh' \in Sessions \cup {None}
        /\ shown' \in [Tabs -> Sessions \cup {None}]
    BY <1>1 DEF Login
  <2> QED
    BY <1>1, <2>1, <2>2 DEF Login, client, server
<1>2. ASSUME NEW t \in Tabs, Logout(t) PROVE TypeOK'
  BY <1>2 DEF Logout, client, server
<1>3. ASSUME NEW t \in Tabs, Reload(t) PROVE TypeOK'
  <2>1. req' \in [Requests -> Request]
    BY <1>3, RequestPhase DEF Reload, Phases
  <2>2. /\ isRefreshing' \in [Clients -> BOOLEAN]
        /\ failedQueue' \in [Clients -> SUBSET Requests]
        /\ fallback' \in [Clients -> Token \cup {None}]
    BY <1>3 DEF Reload
  <2> QED
    BY <1>3, <2>1, <2>2 DEF Reload, store, server
<1>4. ASSUME NEW r \in Requests, Send(r) PROVE TypeOK'
  <2>1. Header(token, fallback[ClientOf[r]]) \in Token \cup {None}
    BY DEF Header
  <2>2. req' \in [Requests -> Request]
    BY <1>4, <2>1, RequestSent DEF Send
  <2> QED
    BY <1>4, <2>2 DEF Send, store, client, server
<1>5. ASSUME NEW r \in Requests, Answer(r) PROVE TypeOK'
  <2>1. req' \in [Requests -> Request]
    BY <1>5, RequestPhase DEF Answer, Phases
  <2> QED
    BY <1>5, <2>1 DEF Answer, store, client, server
<1>6. ASSUME NEW r \in Requests, OtherError(r) PROVE TypeOK'
  <2>1. req' \in [Requests -> Request]
    BY <1>6, RequestPhase DEF OtherError, Phases
  <2> QED
    BY <1>6, <2>1 DEF OtherError, store, client, server
<1>7. ASSUME NEW r \in Requests, Grant(r) PROVE TypeOK'
  <2>1. [s |-> req[r].rt, n |-> epoch] \in Token
    BY <1>7 DEF Grant, Asked, Token
  <2>2. req' \in [Requests -> Request]
    BY <1>7, <2>1, RequestGrant DEF Grant
  <2> QED
    BY <1>7, <2>2 DEF Grant, store, client, server
<1>8. ASSUME NEW r \in Requests, RefreshLost(r) PROVE TypeOK'
  <2>1. req' \in [Requests -> Request]
    BY <1>8, RequestGrant DEF RefreshLost
  <2> QED
    BY <1>8, <2>1 DEF RefreshLost, store, client
<1>9. ASSUME NEW r \in Requests, OnUnauthorized(r) PROVE TypeOK'
  <2>1. ASSUME NEW p \in Phases, Settle(r, p) PROVE req' \in [Requests -> Request]
    BY <2>1, RequestPhase DEF Settle
  <2>2. CASE Rejected(r)
    BY <2>1, <2>2 DEF Rejected, store, client, server, Phases
  <2>3. CASE NoSession(r)
    BY <2>1, <2>3 DEF NoSession, ClearAuth, Leave, client, server, Phases
  <2>4. CASE Enqueue(r)
    BY <2>1, <2>4 DEF Enqueue, store, server, Phases
  <2>5. CASE StartRefresh(r)
    <3>1. req' \in [Requests -> Request]
      BY <2>5, RequestRefreshing DEF StartRefresh, MayRefresh, Marked
    <3> QED
      BY <2>5, <3>1 DEF StartRefresh, store, server
  <2> QED
    BY <1>9, <2>2, <2>3, <2>4, <2>5 DEF OnUnauthorized
<1>10. ASSUME NEW r \in Requests, OnRefresh(r) PROVE TypeOK'
  <2>1. CASE Refreshed(r)
    <3>1. token' \in Token
      BY <2>1, RequestFields DEF Refreshed
    <3>2. req' \in [Requests -> Request]
      BY <2>1, <3>1, RequestSent DEF Refreshed
    <3>3. /\ fallback' \in [Clients -> Token \cup {None}]
          /\ failedQueue' \in [Clients -> SUBSET Requests]
          /\ isRefreshing' \in [Clients -> BOOLEAN]
      BY <2>1, <3>1 DEF Refreshed
    <3> QED
      BY <2>1, <3>1, <3>2, <3>3 DEF Refreshed, server
  <2>2. CASE RefreshFailed(r)
    <3>1. req' \in [Requests -> Request]
      BY <2>2, RequestPhase DEF RefreshFailed, Phases
    <3> QED
      BY <2>2, <3>1 DEF RefreshFailed, ClearAuth, Leave, server
  <2> QED
    BY <1>10, <2>1, <2>2 DEF OnRefresh
<1>11. CASE Expire
  BY <1>11 DEF Expire, store, client
<1>12. ASSUME NEW s \in Sessions, Withdraw(s) PROVE TypeOK'
  BY <1>12 DEF Withdraw, store, client
<1>13. CASE UNCHANGED vars
  BY <1>13 DEF vars, store, client, server
<1> QED
  BY <1>1, <1>2, <1>3, <1>4, <1>5, <1>6, <1>7, <1>8, <1>9, <1>10, <1>11,
     <1>12, <1>13 DEF Next

LEMMA AskedStep == TypeOK /\ Asked /\ [Next]_vars => Asked'
<1> SUFFICES ASSUME TypeOK, Asked, [Next]_vars,
                    NEW q \in Requests, req'[q].pc = "refreshing"
             PROVE  req'[q].rt \in Sessions
  BY DEF Asked
<1>1. CASE req'[q] = req[q]
  BY <1>1 DEF Asked
<1>2. ASSUME NEW r \in Requests, StartRefresh(r) PROVE req'[q].rt \in Sessions
  <2>1. refresh \in Sessions
    BY <1>2 DEF StartRefresh, MayRefresh, TypeOK
  <2> QED
    BY <1>1, <1>2, <2>1, StepStart DEF Untouched
<1>3. ASSUME NEW r \in Requests, Send(r) \/ Answer(r) \/ OtherError(r)
      PROVE  req'[q].rt \in Sessions
  BY <1>1, <1>3, StepSend, StepServer DEF Untouched
<1>4. ASSUME NEW r \in Requests, Grant(r) \/ RefreshLost(r)
      PROVE  req'[q].rt \in Sessions
  BY <1>1, <1>4, StepGrant DEF Untouched, Asked
<1>5. ASSUME NEW r \in Requests, Rejected(r) \/ NoSession(r) \/ Enqueue(r)
      PROVE  req'[q].rt \in Sessions
  BY <1>1, <1>5, StepSettle DEF Untouched, Rejected, NoSession, Enqueue, Phases
<1>6. ASSUME NEW t \in Tabs, Reload(t) PROVE req'[q].rt \in Sessions
  BY <1>1, <1>6, StepReload
<1>7. ASSUME NEW r \in Requests, OnRefresh(r) PROVE req'[q].rt \in Sessions
  BY <1>1, <1>7, StepRefreshed, StepFailed DEF OnRefresh
<1>8. CASE UNCHANGED req
  BY <1>1, <1>8
<1> QED
  BY <1>2, <1>3, <1>4, <1>5, <1>6, <1>7, <1>8
     DEF Next, OnUnauthorized, Login, Logout, Expire, Withdraw, vars

(* Type correctness of the session, for every instance.                    *)
THEOREM TypeCorrect == Spec => []TypeOK
BY TypeInit, TypeStep, AskedStep, PTL DEF Spec

-----------------------------------------------------------------------------
(* One refresh per client and nobody stranded: the two are inductive       *)
(* together, a request moves in or out of "queued" and "refreshing" only   *)
(* when its client's queue and flag move with it.                          *)
Single == OneRefresh /\ NobodyStranded

LEMMA SingleInit == Init => Single
BY SessionAssumption
   DEF Init, Single, OneRefresh, NobodyStranded, Refreshers, SessionAssumption

(* A step that changes no flag and no queue, and moves no request in or    *)
(* out of the two phases.                                                  *)
LEMMA SingleFrame ==
  ASSUME Single, TypeOK, UNCHANGED <<isRefreshing, failedQueue>>,
         \A r \in Requests : req'[r].pc = req[r].pc \/ (~Waits(r) /\ ~Waits(r)')
  PROVE  Single'
BY DEF Single, OneRefresh, NobodyStranded, Refreshers, Waits

LEMMA SingleStep == TypeOK /\ Asked /\ Single /\ [Next]_vars => Single'
<1> SUFFICES ASSUME TypeOK, Asked, Single, [Next]_vars PROVE Single'
  OBVIOUS
<1> USE SessionAssumption DEF SessionAssumption
<1>1. CASE UNCHANGED <<req, isRefreshing, failedQueue>>
  BY <1>1, SingleFrame
<1>2. ASSUME NEW r \in Requests, Send(r) \/ Answer(r) \/ OtherError(r)
      PROVE  Single'
  <2>1. UNCHANGED <<isRefreshing, failedQueue>>
    BY <1>2 DEF Send, Answer, OtherError, client
  <2>2. Untouched(r) /\ ~Waits(r) /\ ~Waits(r)'
    BY <1>2, StepSend, StepServer DEF Waits
  <2> QED
    BY <2>1, <2>2, SingleFrame DEF Untouched
<1>3. ASSUME NEW r \in Requests, Grant(r) \/ RefreshLost(r) PROVE Single'
  <2>1. UNCHANGED <<isRefreshing, failedQueue>>
    BY <1>3 DEF Grant, RefreshLost, client
  <2>2. Untouched(r) /\ req'[r].pc = req[r].pc
    BY <1>3, StepGrant
  <2> QED
    BY <2>1, <2>2, SingleFrame DEF Untouched
<1>4. ASSUME NEW r \in Requests, Rejected(r) \/ NoSession(r) PROVE Single'
  <2>1. UNCHANGED <<isRefreshing, failedQueue>> /\ req[r].pc = "denied" /\ Settle(r, "failed")
    BY <1>4 DEF Rejected, NoSession, client
  <2>2. Untouched(r) /\ req'[r].pc = "failed"
    BY <2>1, StepSettle DEF Phases
  <2> QED
    BY <2>1, <2>2, SingleFrame DEF Untouched, Waits
<1>5. ASSUME NEW t \in Tabs, Reload(t) PROVE Single'
  <2>1. ASSUME NEW c \in Clients, TabOf[c] = t
        PROVE  /\ ~isRefreshing'[c] /\ failedQueue'[c] = {}
               /\ \A q \in Requests : ClientOf[q] = c
                    => req'[q].pc \notin {"queued", "refreshing"}
    BY <1>5, <2>1, StepReload DEF Reload, Tab
  <2>2. ASSUME NEW c \in Clients, TabOf[c] # t
        PROVE  /\ isRefreshing'[c] = isRefreshing[c] /\ failedQueue'[c] = failedQueue[c]
               /\ \A q \in Requests : ClientOf[q] = c => req'[q] = req[q]
    BY <1>5, <2>2, StepReload DEF Reload, Tab, TypeOK
  <2>3. OneRefresh'
    BY <2>1, <2>2 DEF Single, OneRefresh, Refreshers
  <2>4. NobodyStranded'
    BY <2>1, <2>2 DEF Single, NobodyStranded
  <2> QED
    BY <2>3, <2>4 DEF Single
<1>6. ASSUME NEW r \in Requests, Enqueue(r) PROVE Single'
  <2>1. Untouched(r) /\ req[r].pc = "denied" /\ req'[r].pc = "queued"
    BY <1>6, StepSettle DEF Enqueue, Phases
  <2>2. /\ isRefreshing' = isRefreshing /\ isRefreshing[ClientOf[r]]
        /\ failedQueue' = [failedQueue EXCEPT ![ClientOf[r]] = @ \cup {r}]
    BY <1>6 DEF Enqueue
  <2>3. OneRefresh'
    BY <2>1, <2>2 DEF Single, OneRefresh, Refreshers, Untouched
  <2>4. NobodyStranded'
    BY <2>1, <2>2 DEF Single, NobodyStranded, Untouched, TypeOK
  <2> QED
    BY <2>3, <2>4 DEF Single
<1>7. ASSUME NEW r \in Requests, StartRefresh(r) PROVE Single'
  <2>1. Untouched(r) /\ req[r].pc = "denied" /\ req'[r].pc = "refreshing"
    BY <1>7, StepStart DEF StartRefresh
  <2>2. /\ isRefreshing' = [isRefreshing EXCEPT ![ClientOf[r]] = TRUE]
        /\ ~isRefreshing[ClientOf[r]] /\ failedQueue' = failedQueue
    BY <1>7 DEF StartRefresh, MayRefresh
  <2>3. OneRefresh'
    BY <2>1, <2>2 DEF Single, OneRefresh, Refreshers, Untouched, TypeOK
  <2>4. NobodyStranded'
    BY <2>1, <2>2 DEF Single, NobodyStranded, Untouched, TypeOK
  <2> QED
    BY <2>3, <2>4 DEF Single
<1>8. ASSUME NEW r \in Requests, OnRefresh(r) PROVE Single'
  <2> DEFINE c == ClientOf[r]
  <2>1. /\ isRefreshing' = [isRefreshing EXCEPT ![c] = FALSE]
        /\ failedQueue' = [failedQueue EXCEPT ![c] = {}]
        /\ req[r].pc = "refreshing"
    BY <1>8 DEF OnRefresh, Refreshed, RefreshFailed
  <2>2. ASSUME NEW q \in Requests
        PROVE  IF q = r \/ q \in failedQueue[c]
               THEN req'[q].pc \in {"sent", "failed"} ELSE req'[q] = req[q]
    BY <1>8, StepRefreshed, StepFailed DEF OnRefresh
  <2>3. ASSUME NEW q \in Requests
        PROVE  IF ClientOf[q] = c THEN req'[q].pc \notin {"queued", "refreshing"}
                                  ELSE req'[q] = req[q]
    <3>1. CASE ClientOf[q] = c
      BY <2>1, <2>2, <3>1 DEF Single, OneRefresh, NobodyStranded, Refreshers
    <3>2. CASE ClientOf[q] # c
      BY <2>2, <3>2 DEF Single, NobodyStranded
    <3> QED
      BY <3>1, <3>2
  <2>4. OneRefresh'
    BY <2>1, <2>3 DEF Single, OneRefresh, Refreshers, TypeOK
  <2>5. NobodyStranded'
    BY <2>1, <2>3 DEF Single, NobodyStranded, TypeOK
  <2> QED
    BY <2>4, <2>5 DEF Single
<1> QED
  BY <1>1, <1>2, <1>3, <1>4, <1>5, <1>6, <1>7, <1>8
     DEF Next, OnUnauthorized, Login, Logout, Expire, Withdraw, vars, client

(* At most one refresh of a client is under way, and its isRefreshing flag *)
(* says so, in every reachable state.                                      *)
THEOREM OneRefreshAtATime == Spec => []OneRefresh
<1>1. Single => OneRefresh
  BY DEF Single
<1> QED
  BY <1>1, TypeInit, TypeStep, AskedStep, SingleInit, SingleStep, PTL DEF Spec

(* A request in failedQueue always has a refresh that will process it.     *)
THEOREM NoRequestStranded == Spec => []NobodyStranded
<1>1. Single => NobodyStranded
  BY DEF Single
<1> QED
  BY <1>1, TypeInit, TypeStep, AskedStep, SingleInit, SingleStep, PTL DEF Spec

-----------------------------------------------------------------------------
(* As long as nothing failed, the server has refused no refresh.           *)
Unharmed == faults = 0 => dead = {} /\ \A r \in Requests : req[r].grant # Refused

LEMMA UnharmedInit == Init => Unharmed
BY SessionAssumption DEF Init, Unharmed, SessionAssumption

(* The changes the actions make to a request, and the answer it holds.     *)
LEMMA GrantsKept ==
  ASSUME NEW q \in Request, NEW p \in Phases, NEW tok \in Token \cup {None},
         NEW g \in Token \cup {None, Refused}, NEW rt
  PROVE  /\ [q EXCEPT !.pc = p].grant = q.grant
         /\ [q EXCEPT !.pc = "sent", !.tok = tok].grant = q.grant
         /\ [q EXCEPT !.grant = g].grant = g
         /\ [q EXCEPT !.pc = "refreshing", !.retry = TRUE, !.rt = rt,
                      !.grant = None].grant = None
BY DEF Request

LEMMA UnharmedStep == TypeOK /\ Asked /\ Unharmed /\ [Next]_vars => Unharmed'
<1> SUFFICES ASSUME TypeOK, Asked, Unharmed, [Next]_vars, faults' = 0
             PROVE  dead' = {} /\ \A q \in Requests : req'[q].grant # Refused
  BY DEF Unharmed
<1>0. None # Refused /\ Refused \notin Token
  BY SessionAssumption DEF SessionAssumption, Token
<1>1. ASSUME faults' = faults, dead' = dead,
             \A q \in Requests : req'[q].grant \in Token \cup {req[q].grant, None}
      PROVE  dead' = {} /\ \A q \in Requests : req'[q].grant # Refused
  BY <1>0, <1>1 DEF Unharmed
<1>2. CASE UNCHANGED <<req, server>>
  BY <1>1, <1>2 DEF server
<1>3. ASSUME NEW r \in Requests, NEW p \in Phases, Settle(r, p)
      PROVE  \A q \in Requests : req'[q].grant = req[q].grant
  BY <1>3, GrantsKept DEF Settle, TypeOK
<1>4. ASSUME NEW r \in Requests, Send(r)
      PROVE  dead' = {} /\ \A q \in Requests : req'[q].grant # Refused
  <2>1. Header(token, fallback[ClientOf[r]]) \in Token \cup {None}
    BY SessionAssumption DEF Header, TypeOK, SessionAssumption
  <2>2. \A q \in Requests : req'[q].grant = req[q].grant
    BY <1>4, <2>1, GrantsKept DEF Send, TypeOK, Phases
  <2> QED
    BY <1>1, <1>4, <2>2 DEF Send, server
<1>5. ASSUME NEW r \in Requests, Answer(r)
      PROVE  dead' = {} /\ \A q \in Requests : req'[q].grant # Refused
  <2>1. \E p \in Phases : Settle(r, p)
    BY <1>5 DEF Answer, Settle, Phases
  <2> QED
    BY <1>1, <1>3, <1>5, <2>1 DEF Answer, server
<1>6. ASSUME NEW r \in Requests, Grant(r)
      PROVE  dead' = {} /\ \A q \in Requests : req'[q].grant # Refused
  <2>1. faults' = faults /\ dead' = dead
    BY <1>6 DEF Grant, server
  <2>2. dead = {} /\ [s |-> req[r].rt, n |-> epoch] \in Token
    BY <1>6, <2>1 DEF Grant, Unharmed, Asked, TypeOK, Token
  <2>3. req' = [req EXCEPT ![r].grant = [s |-> req[r].rt, n |-> epoch]]
    BY <1>6, <2>2 DEF Grant
  <2>4. \A q \in Requests : req'[q].grant \in Token \cup {req[q].grant}
    BY <2>2, <2>3, GrantsKept DEF TypeOK
  <2> QED
    BY <1>1, <2>1, <2>4
<1>7. ASSUME NEW r \in Requests, OtherError(r) \/ RefreshLost(r)
      PROVE  FALSE
  BY <1>7 DEF OtherError, RefreshLost, TypeOK
<1>8. ASSUME NEW r \in Requests, Rejected(r) \/ NoSession(r) \/ Enqueue(r)
      PROVE  dead' = {} /\ \A q \in Requests : req'[q].grant # Refused
  <2>1. \E p \in Phases : Settle(r, p)
    BY <1>8 DEF Rejected, NoSession, Enqueue, Phases
  <2> QED
    BY <1>1, <1>3, <1>8, <2>1 DEF Rejected, NoSession, Enqueue, server
<1>9. ASSUME NEW r \in Requests, StartRefresh(r)
      PROVE  dead' = {} /\ \A q \in Requests : req'[q].grant # Refused
  <2>1. \A q \in Requests : req'[q].grant \in {req[q].grant, None}
    <3>1. req' = [req EXCEPT ![r] =
             [@ EXCEPT !.pc = "refreshing", !.retry = TRUE, !.rt = refresh, !.grant = None]]
      BY <1>9 DEF StartRefresh, Marked
    <3>2. [req[r] EXCEPT !.pc = "refreshing", !.retry = TRUE, !.rt = refresh,
                         !.grant = None].grant = None
      BY DEF TypeOK, Request
    <3> QED
      BY <3>1, <3>2 DEF TypeOK
  <2> QED
    BY <1>1, <1>9, <2>1 DEF StartRefresh, server
<1>10. ASSUME NEW r \in Requests, Refreshed(r)
       PROVE  dead' = {} /\ \A q \in Requests : req'[q].grant # Refused
  <2>1. token' \in Token
    BY <1>10, RequestFields DEF Refreshed, TypeOK
  <2>2. \A q \in Requests : req'[q].grant = req[q].grant
    <3>1. \A q \in Requests :
            req'[q] \in {req[q], [req[q] EXCEPT !.pc = "sent", !.tok = token']}
      BY <1>10 DEF Refreshed
    <3>2. \A q \in Requests : [req[q] EXCEPT !.pc = "sent", !.tok = token'].grant = req[q].grant
      BY DEF TypeOK, Request
    <3> QED
      BY <3>1, <3>2
  <2> QED
    BY <1>1, <1>10, <2>2 DEF Refreshed, server
<1>11. ASSUME NEW r \in Requests, RefreshFailed(r)
       PROVE  dead' = {} /\ \A q \in Requests : req'[q].grant # Refused
  <2>1. \A q \in Requests : req'[q].grant = req[q].grant
    BY <1>11, GrantsKept DEF RefreshFailed, TypeOK, Phases
  <2> QED
    BY <1>1, <1>11, <2>1 DEF RefreshFailed, server
<1>12. ASSUME NEW t \in Tabs, Reload(t)
       PROVE  dead' = {} /\ \A q \in Requests : req'[q].grant # Refused
  <2>1. \A q \in Requests : req'[q].grant = req[q].grant
    BY <1>12, GrantsKept DEF Reload, TypeOK, Phases
  <2> QED
    BY <1>1, <1>12, <2>1 DEF Reload, server
<1>13. CASE Expire
  BY <1>1, <1>13 DEF Expire
<1>14. ASSUME NEW s \in Sessions, Withdraw(s)
       PROVE  FALSE
  BY <1>14 DEF Withdraw, TypeOK
<1> QED
  BY <1>2, <1>4, <1>5, <1>6, <1>7, <1>8, <1>9, <1>10, <1>11, <1>12, <1>13, <1>14
     DEF Next, OnUnauthorized, OnRefresh, Login, Logout, vars

(* The refresh token goes with a sign-out, or with a refused refresh.      *)
LEMMA KeptStep ==
  ASSUME TypeOK, Unharmed, [Next]_vars, refresh # None, refresh' = None, faults = 0
  PROVE  \E t \in Tabs : shown[t] # None /\ shown'[t] = None /\ ~leaving[t]
<1>1. ASSUME NEW t \in Tabs, Logout(t)
      PROVE  shown[t] # None /\ shown'[t] = None /\ ~leaving[t]
  BY <1>1 DEF Logout, TypeOK
<1>2. ASSUME NEW t \in Tabs, NEW s \in Sessions, Login(t, s)
      PROVE  refresh' # None
  BY <1>2, SessionAssumption DEF Login, SessionAssumption
<1>3. ASSUME NEW r \in Requests
      PROVE  ~RefreshFailed(r) /\ ~NoSession(r)
  BY DEF RefreshFailed, NoSession, Unharmed
<1>4. refresh' # refresh
  OBVIOUS
<1>5. ASSUME NEW r \in Requests
      PROVE  ~(\/ Send(r) \/ Answer(r) \/ OtherError(r) \/ Grant(r) \/ RefreshLost(r)
               \/ OnUnauthorized(r) \/ OnRefresh(r))
  BY <1>3, <1>4 DEF Send, Answer, OtherError, Grant, RefreshLost, OnUnauthorized, Rejected,
     Enqueue, StartRefresh, OnRefresh, Refreshed, store
<1> QED
  BY <1>1, <1>2, <1>4, <1>5 DEF Next, Reload, Expire, Withdraw, vars, store

(* However the 401 answers, expiries, refreshes, queues and reloads of any *)
(* number of tabs interleave, AuthContext's session is lost by a sign-out  *)
(* only, as long as no call fails and the server withdraws nothing.        *)
THEOREM HonouredSessionsLast == Spec => KeptWhileHonoured
<1>1. TypeOK /\ Unharmed /\ [Next]_vars =>
        [refresh # None /\ refresh' = None /\ faults = 0
           => \E t \in Tabs : shown[t] # None /\ shown'[t] = None /\ ~leaving[t]]_vars
  BY KeptStep
<1> QED
  BY <1>1, TypeInit, TypeStep, AskedStep, UnharmedInit, UnharmedStep, PTL
     DEF Spec, KeptWhileHonoured
==============================================================================
