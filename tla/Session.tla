------------------------------- MODULE Session -------------------------------
(***************************************************************************)
(* The signed-in session of the web application: the axios interceptors    *)
(* that attach the access token and answer a 401 with one token refresh    *)
(* per client, and the AuthContext that signs in and out.  A browser tab   *)
(* holds several axios clients (api/client.ts, and its twin in api/iot.ts),*)
(* each with an isRefreshing flag and a failedQueue of its own; all tabs   *)
(* share localStorage.  A JavaScript handler runs to its next await        *)
(* without interference, so it is one action; an exchange with the server  *)
(* is two: the server decides, and its answer is handled.                  *)
(***************************************************************************)
EXTENDS Naturals, FiniteSets

CONSTANTS Tabs, Clients, TabOf,   \* axios clients and the tab each lives in
          Requests, ClientOf,     \* requests and the client each goes through
          Wrong,        \* requests answered 401 whatever token they carry
          Sessions,     \* sign-ins, each with a refresh token of its own
          NoRefresh,    \* sign-ins that come without a refresh token
          None, Refused,   \* no value; the answer of a refresh that failed
          MaxEpoch,     \* bound on how often the access tokens expire
          MaxFaults     \* bound on network errors and withdrawn sessions

ASSUME SessionAssumption ==
  /\ TabOf \in [Clients -> Tabs] /\ ClientOf \in [Requests -> Clients]
  /\ Wrong \subseteq Requests /\ NoRefresh \subseteq Sessions
  /\ None \notin Sessions /\ Refused \notin Sessions
  /\ Refused \notin {None} \cup [s : Sessions, n : 0..MaxEpoch]
  /\ MaxEpoch \in Nat /\ MaxFaults \in Nat

VARIABLES token, refresh, user,  \* the three localStorage keys
          shown,          \* the user AuthContext holds in each tab
          leaving,        \* tabs that were sent to /login and will reload
          isRefreshing, failedQueue,  \* the module state of each client
          fallback,       \* defaults.headers.common.Authorization
          req,            \* the requests
          epoch, dead, faults   \* expiry, withdrawn sessions, faults so far
store == <<token, refresh, user>>
client == <<isRefreshing, failedQueue, fallback>>
server == <<epoch, dead, faults>>
vars == <<store, shown, leaving, client, req, server>>

Token == [s : Sessions, n : 0..MaxEpoch]
Phases == {"idle", "sent", "denied", "queued", "refreshing", "ok", "failed", "gone"}
Request == [pc : Phases, tok : Token \cup {None}, retry : BOOLEAN,
            rt : Sessions \cup {None}, grant : Token \cup {None, Refused}]

TypeOK ==
  /\ token \in Token \cup {None} /\ refresh \in Sessions \cup {None}
  /\ user \in Sessions \cup {None}
  /\ shown \in [Tabs -> Sessions \cup {None}] /\ leaving \in [Tabs -> BOOLEAN]
  /\ isRefreshing \in [Clients -> BOOLEAN]
  /\ failedQueue \in [Clients -> SUBSET Requests]
  /\ fallback \in [Clients -> Token \cup {None}]
  /\ req \in [Requests -> Request]
  /\ epoch \in 0..MaxEpoch /\ dead \subseteq Sessions /\ faults \in 0..MaxFaults

Init ==
  /\ token = None /\ refresh = None /\ user = None
  /\ shown = [t \in Tabs |-> None] /\ leaving = [t \in Tabs |-> FALSE]
  /\ isRefreshing = [c \in Clients |-> FALSE]
  /\ failedQueue = [c \in Clients |-> {}]
  /\ fallback = [c \in Clients |-> None]
  /\ req = [r \in Requests |-> [pc |-> "idle", tok |-> None, retry |-> FALSE,
                                rt |-> None, grant |-> None]]
  /\ epoch = 0 /\ dead = {} /\ faults = 0

Tab(r) == TabOf[ClientOf[r]]
Used == {user, refresh} \cup {req[r].rt : r \in Requests} \cup dead
          \cup {shown[t] : t \in Tabs}
          \cup (IF token = None THEN {} ELSE {token.s})

(* AuthContext.login: a sign-in without a refresh token leaves the stored  *)
(* one as it is.                                                           *)
Login(t, s) ==
  /\ shown[t] = None /\ ~leaving[t] /\ s \notin Used
  /\ token' = [s |-> s, n |-> epoch]
  /\ user' = s
  /\ refresh' = IF s \in NoRefresh THEN refresh ELSE s
  /\ shown' = [shown EXCEPT ![t] = s]
  /\ UNCHANGED <<leaving, client, req, server>>

(* AuthContext.logout.                                                     *)
Logout(t) ==
  /\ shown[t] # None /\ ~leaving[t]
  /\ token' = None /\ refresh' = None /\ user' = None
  /\ shown' = [shown EXCEPT ![t] = None]
  /\ UNCHANGED <<leaving, client, req, server>>

(* clearAuth, then window.location.href = '/login' in the tab of r.        *)
ClearAuth == token' = None /\ refresh' = None /\ user' = None
Leave(r) == leaving' = [leaving EXCEPT ![Tab(r)] = TRUE]

(* The navigation happens: the page and all its module state start anew.   *)
Reload(t) ==
  /\ leaving[t]
  /\ leaving' = [leaving EXCEPT ![t] = FALSE]
  /\ shown' = [shown EXCEPT ![t] = user]
  /\ LET mine == {c \in Clients : TabOf[c] = t} IN
       /\ isRefreshing' = [c \in Clients |-> c \notin mine /\ isRefreshing[c]]
       /\ failedQueue' = [c \in Clients |-> IF c \in mine THEN {} ELSE failedQueue[c]]
       /\ fallback' = [c \in Clients |-> IF c \in mine THEN None ELSE fallback[c]]
  /\ req' = [r \in Requests |->
       IF Tab(r) = t /\ req[r].pc \notin {"idle", "ok", "failed"}
       THEN [req[r] EXCEPT !.pc = "gone"] ELSE req[r]]
  /\ UNCHANGED <<store, server>>

(* The request interceptor: the stored token, or else the default header.  *)
BearerNull(stored, default) == IF stored # None THEN stored ELSE Refused
Header(stored, default) == IF stored # None THEN stored ELSE default

Send(r) ==
  /\ req[r].pc = "idle" /\ ~leaving[Tab(r)]
  /\ req' = [req EXCEPT ![r] =
       [@ EXCEPT !.pc = "sent", !.tok = Header(token, fallback[ClientOf[r]])]]
  /\ UNCHANGED <<store, shown, leaving, client, server>>

-----------------------------------------------------------------------------
(* The server.                                                             *)
Valid(tok) == tok # None /\ tok.n >= epoch

Answer(r) ==
  /\ req[r].pc = "sent"
  /\ req' = [req EXCEPT ![r].pc = IF Valid(req[r].tok) /\ r \notin Wrong
                                  THEN "ok" ELSE "denied"]
  /\ UNCHANGED <<store, shown, leaving, client, server>>

(* Any other error, or none at all: rejected to the caller.                *)
OtherError(r) ==
  /\ req[r].pc = "sent" /\ faults < MaxFaults
  /\ faults' = faults + 1
  /\ req' = [req EXCEPT ![r].pc = "failed"]
  /\ UNCHANGED <<store, shown, leaving, client, epoch, dead>>

(* POST /auth/refresh grants a new access token while the session lives.   *)
Grant(r) ==
  /\ req[r].pc = "refreshing" /\ req[r].grant = None
  /\ req' = [req EXCEPT ![r].grant =
       IF req[r].rt \in dead THEN Refused ELSE [s |-> req[r].rt, n |-> epoch]]
  /\ UNCHANGED <<store, shown, leaving, client, server>>

RefreshLost(r) ==
  /\ req[r].pc = "refreshing" /\ req[r].grant = None /\ faults < MaxFaults
  /\ faults' = faults + 1
  /\ req' = [req EXCEPT ![r].grant = Refused]
  /\ UNCHANGED <<store, shown, leaving, client, epoch, dead>>

Expire ==
  /\ epoch < MaxEpoch
  /\ epoch' = epoch + 1
  /\ UNCHANGED <<store, shown, leaving, client, req, dead, faults>>

Withdraw(s) ==
  /\ s \notin dead /\ refresh = s /\ faults < MaxFaults
  /\ dead' = dead \cup {s}
  /\ faults' = faults + 1
  /\ UNCHANGED <<store, shown, leaving, client, req, epoch>>

-----------------------------------------------------------------------------
(* The response interceptor on a 401.                                      *)
Settle(r, how) == req' = [req EXCEPT ![r].pc = how]

RejectedAndSignedOut(r) ==
  /\ req[r].pc = "denied" /\ req[r].retry
  /\ ClearAuth /\ Leave(r)
  /\ Settle(r, "failed")
  /\ UNCHANGED <<shown, client, server>>

Rejected(r) ==
  /\ req[r].pc = "denied" /\ req[r].retry
  /\ Settle(r, "failed")
  /\ UNCHANGED <<store, shown, leaving, client, server>>

NoSession(r) ==
  /\ req[r].pc = "denied" /\ ~req[r].retry /\ refresh = None
  /\ ClearAuth /\ Leave(r)
  /\ Settle(r, "failed")
  /\ UNCHANGED <<shown, client, server>>

Enqueue(r) ==
  LET c == ClientOf[r] IN
  /\ req[r].pc = "denied" /\ ~req[r].retry /\ refresh # None /\ isRefreshing[c]
  /\ failedQueue' = [failedQueue EXCEPT ![c] = @ \cup {r}]
  /\ Settle(r, "queued")
  /\ UNCHANGED <<store, shown, leaving, isRefreshing, fallback, server>>

(* The first 401 of the client starts the refresh and waits for it.        *)
NeverMarked(r) == req[r].retry
Marked(r) == TRUE

RaceToRefresh(r) == refresh # None
MayRefresh(r) == refresh # None /\ ~isRefreshing[ClientOf[r]]

StartRefresh(r) ==
  /\ req[r].pc = "denied" /\ ~req[r].retry /\ MayRefresh(r)
  /\ isRefreshing' = [isRefreshing EXCEPT ![ClientOf[r]] = TRUE]
  /\ req' = [req EXCEPT ![r] =
       [@ EXCEPT !.pc = "refreshing", !.retry = Marked(r), !.rt = refresh,
                 !.grant = None]]
  /\ UNCHANGED <<store, shown, leaving, failedQueue, fallback, server>>

(* The refresh answered: the token is stored, the queue is released, and   *)
(* the first request and the released ones are sent again, through the     *)
(* request interceptor; finally isRefreshing is reset.                     *)
LeavesTheQueue(c) == {}
Released(c) == failedQueue[c]

Refreshed(r) ==
  LET c == ClientOf[r]
      again == {r} \cup Released(c)
  IN /\ req[r].pc = "refreshing" /\ req[r].grant \notin {None, Refused}
     /\ token' = req[r].grant
     /\ fallback' = [fallback EXCEPT ![c] = req[r].grant]
     /\ req' = [q \in Requests |->
          IF q \in again THEN [req[q] EXCEPT !.pc = "sent", !.tok = token']
                         ELSE req[q]]
     /\ failedQueue' = [failedQueue EXCEPT ![c] = {}]
     /\ isRefreshing' = [isRefreshing EXCEPT ![c] = FALSE]
     /\ UNCHANGED <<refresh, user, shown, leaving, server>>

(* The refresh failed: everybody who waited fails with it.                 *)
RefreshFailed(r) ==
  LET c == ClientOf[r] IN
  /\ req[r].pc = "refreshing" /\ req[r].grant = Refused
  /\ ClearAuth /\ Leave(r)
  /\ req' = [q \in Requests |->
       IF q \in {r} \cup Released(c) THEN [req[q] EXCEPT !.pc = "failed"] ELSE req[q]]
  /\ failedQueue' = [failedQueue EXCEPT ![c] = {}]
  /\ isRefreshing' = [isRefreshing EXCEPT ![c] = FALSE]
  /\ UNCHANGED <<shown, fallback, server>>

OnUnauthorized(r) == Rejected(r) \/ NoSession(r) \/ Enqueue(r) \/ StartRefresh(r)
OnRefresh(r) == Refreshed(r) \/ RefreshFailed(r)

Next ==
  \/ \E t \in Tabs, s \in Sessions : Login(t, s)
  \/ \E t \in Tabs : Logout(t) \/ Reload(t)
  \/ \E r \in Requests :
       \/ Send(r) \/ Answer(r) \/ OtherError(r) \/ Grant(r) \/ RefreshLost(r)
       \/ OnUnauthorized(r) \/ OnRefresh(r)
  \/ Expire
  \/ \E s \in Sessions : Withdraw(s)

Spec == Init /\ [][Next]_vars

(* The server answers what it is asked, and the browser runs the handler   *)
(* of an answer and the navigation it was told to make.                    *)
Fairness ==
  /\ \A r \in Requests : WF_vars(Answer(r)) /\ WF_vars(Grant(r))
                         /\ WF_vars(OnUnauthorized(r)) /\ WF_vars(OnRefresh(r))
  /\ \A t \in Tabs : WF_vars(Reload(t))

FairSpec == Spec /\ Fairness

-----------------------------------------------------------------------------
(* A client refreshes at most once at a time, isRefreshing says whether it *)
(* does, and whoever waits in failedQueue waits for a refresh that is      *)
(* under way: no answer, failure or reload leaves a request behind that    *)
(* nobody will settle.                                                     *)
Refreshers(c) == {r \in Requests : ClientOf[r] = c /\ req[r].pc = "refreshing"}

OneRefresh ==
  \A c \in Clients :
    /\ \A q, r \in Refreshers(c) : q = r
    /\ isRefreshing[c] <=> Refreshers(c) # {}

NobodyStranded ==
  \A c \in Clients :
    /\ failedQueue[c] = {r \in Requests : ClientOf[r] = c /\ req[r].pc = "queued"}
    /\ failedQueue[c] # {} => isRefreshing[c]

(* Every request is settled in the end, those that are answered 401 again  *)
(* after the refresh included: the retries stop.                           *)
EveryRequestSettles ==
  \A r \in Requests : req[r].pc = "sent" ~> req[r].pc \in {"ok", "failed", "gone"}

(* A sign-in whose refresh token the server honours is ended by a sign-out *)
(* only: expired access tokens and 401 answers never end it.               *)
KeptWhileHonoured ==
  [][refresh # None /\ refresh' = None /\ faults = 0
       => \E t \in Tabs : shown[t] # None /\ shown'[t] = None /\ ~leaving[t]]_vars

(* What localStorage holds after a sign-out stays cleared: a token is only *)
(* stored for the user who is signed in.                                   *)
TokenIsTheUsers == token # None => user # None /\ token.s = user
==============================================================================
