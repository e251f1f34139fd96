------------------------- MODULE NotificationSocket --------------------------
(***************************************************************************)
(* The notification channel of the web application: WebSocketProvider      *)
(* keeps a socket to /api/v1/ws open with reconnects, the server forwards  *)
(* what is published to the organisation's Redis channel, and the provider *)
(* lists it and hands it to the subscribers, of which IncomingCallModal is *)
(* modelled.  The back-off delays are abstracted to the order of events;   *)
(* one page is modelled, with the token it shares with the other tabs.     *)
(***************************************************************************)
EXTENDS Naturals, Sequences, FiniteSets, SequencesExt

CONSTANTS Sockets,           \* identities of WebSocket objects, reused
          Calls, None,
          OtherTabs,         \* another tab may remove and restore the token
          MaxNotifications,  \* MAX_NOTIFICATIONS
          MaxRetry,          \* BACKOFF_DELAYS.length
          MaxFaults          \* bound on dropped connections and lost tokens

ASSUME SocketAssumption ==
  /\ None \notin Sockets \cup Calls
  /\ OtherTabs \in BOOLEAN
  /\ MaxNotifications \in Nat \ {0} /\ MaxRetry \in Nat \ {0} /\ MaxFaults \in Nat
  /\ IsFiniteSet(Sockets)
  /\ Cardinality(Sockets) >= 4   \* a new WebSocket always has an identity

Kinds == {"incoming_call", "call_updated", "call_ended"}
Notices == [type : Kinds, call : Calls]

VARIABLES strict,     \* main.tsx: a development build, whose effects run,
                      \* are undone and run again (StrictMode)
          org,        \* the user's tokens carry an org_id, as the server asks
          token,      \* of the store: "good", "stale" (expired) or "none"
          mounted,    \* a user is signed in: the provider is on the page
          sock,       \* per socket: its state and the token it was opened with
          chan,       \* notifications on their way to each open socket
          sub,        \* sockets the server has subscribed to Redis
          wsRef, timers, timerRef, retry,   \* the refs of the provider
          connected, notifications, unread, \* its state
          panel,      \* IncomingCallModal: whose ring and whose data it shows
          published, faults,
          ended,      \* history: calls whose end was delivered to the page
          lost        \* history: a retry of this page met an empty store
build == <<strict, org, lost>>
refs == <<wsRef, timers, timerRef, retry>>
page == <<connected, notifications, unread, panel, ended>>
vars == <<strict, org, token, mounted, sock, chan, sub, refs, page, published, faults, lost>>

Free == [st |-> "none", tok |-> "none"]
Connections == {s \in Sockets : sock[s].st \in {"connecting", "open"}}

TypeOK ==
  /\ token \in {"good", "stale", "none"} /\ mounted \in BOOLEAN
  /\ sock \in [Sockets -> [st : {"none", "connecting", "open", "closing", "dropped"},
                           tok : {"good", "stale", "none"}]]
  /\ chan \in [Sockets -> Seq(Notices)] /\ sub \subseteq Sockets
  /\ wsRef \in Sockets \cup {None} /\ timers \subseteq Sockets
  /\ timerRef \in Sockets \cup {None} /\ retry \in 0..MaxRetry
  /\ connected \in BOOLEAN /\ unread \in Nat
  /\ notifications \in Seq(Notices) /\ Len(notifications) <= MaxNotifications
  /\ panel \in [ring : Calls \cup {None}, data : Calls \cup {None}]
  /\ published \subseteq Notices /\ ended \subseteq Calls /\ faults \in 0..MaxFaults
  /\ strict \in BOOLEAN /\ org \in BOOLEAN /\ lost \in BOOLEAN

NoPanel == [ring |-> None, data |-> None]

Init ==
  /\ token = "good" /\ mounted = FALSE
  /\ sock = [s \in Sockets |-> Free] /\ chan = [s \in Sockets |-> <<>>] /\ sub = {}
  /\ wsRef = None /\ timers = {} /\ timerRef = None /\ retry = 0
  /\ connected = FALSE /\ notifications = <<>> /\ unread = 0 /\ panel = NoPanel
  /\ published = {} /\ ended = {} /\ faults = 0
  /\ strict \in BOOLEAN /\ org \in BOOLEAN /\ lost = FALSE

(* Identities are interchangeable, so a new socket takes any unused one.   *)
Unused == {s \in Sockets : sock[s].st = "none" /\ s \notin timers /\ wsRef # s}
Fresh == CHOOSE s \in Unused : TRUE
Opened(s, tok) == [sock EXCEPT ![s] = [st |-> "connecting", tok |-> tok]]

(* connect: nothing happens without a token.                               *)
GivesUp == token = "none"

Connect ==
  IF GivesUp THEN UNCHANGED <<sock, wsRef>>
  ELSE sock' = Opened(Fresh, token) /\ wsRef' = Fresh

(* The provider appears with the signed-in user.  In a strict build its     *)
(* effect runs, is cleaned up and runs again: the first socket is closing  *)
(* and its close event is still to come.                                   *)
Mount ==
  /\ ~mounted /\ token # "none"
  /\ mounted' = TRUE
  /\ IF strict
     THEN LET z == CHOOSE y \in Unused \ {Fresh} : TRUE IN
            /\ wsRef' = Fresh
            /\ sock' = [Opened(Fresh, token) EXCEPT
                          ![z] = [st |-> "closing", tok |-> token]]
     ELSE Connect
  /\ UNCHANGED <<build, token, chan, sub, timers, timerRef, retry, page, published, faults>>

(* The user signs out: the cleanup closes the socket and stops the timer,  *)
(* unmountedRef makes the handlers that are still to come return at once.  *)
Unmount ==
  /\ mounted
  /\ mounted' = FALSE /\ token' = "none"
  /\ sock' = [s \in Sockets |-> Free] /\ chan' = [s \in Sockets |-> <<>>] /\ sub' = {}
  /\ wsRef' = None /\ timers' = {} /\ timerRef' = None /\ retry' = 0
  /\ connected' = FALSE /\ notifications' = <<>> /\ unread' = 0 /\ panel' = NoPanel
  /\ ended' = {} /\ lost' = FALSE
  /\ UNCHANGED <<strict, org, published, faults>>

(* The server accepts a token that has not expired and names an            *)
(* organisation; ws.onopen follows.                                        *)
Accepts(tok) == tok = "good" /\ org

OnOpen(s) ==
  /\ sock[s].st = "connecting" /\ Accepts(sock[s].tok)
  /\ sock' = [sock EXCEPT ![s].st = "open"]
  /\ connected' = TRUE /\ retry' = 0
  /\ UNCHANGED <<build, token, mounted, chan, sub, wsRef, timers, timerRef, notifications,
                 unread, panel, ended, published, faults>>

(* It closes any other connection (4401).                                  *)
Refuse(s) ==
  /\ sock[s].st = "connecting" /\ ~Accepts(sock[s].tok)
  /\ sock' = [sock EXCEPT ![s].st = "dropped"]
  /\ UNCHANGED <<build, token, mounted, chan, sub, refs, page, published, faults>>

(* ws.onclose: not connected, and a timer to connect again.  onerror only  *)
(* closes the socket, whose close event follows.                           *)
ForgetsToReschedule(s) == timers
Reschedule(s) == timers \cup {s}

Backoff(n) == IF n < MaxRetry THEN n + 1 ELSE n

ConnectsAtOnceToo(s) ==
  /\ sock[s].st \in {"closing", "dropped"}
  /\ IF ~strict /\ timers = {} /\ Connections = {}
     THEN sock' = [Opened(Fresh, token) EXCEPT ![s] = Free] /\ wsRef' = Fresh
     ELSE sock' = [sock EXCEPT ![s] = Free] /\ UNCHANGED wsRef
  /\ connected' = FALSE
  /\ timers' = Reschedule(s) /\ timerRef' = s /\ retry' = Backoff(retry)
  /\ UNCHANGED <<build, token, mounted, chan, sub, notifications, unread, panel,
                 ended, published, faults>>

OnClose(s) ==
  /\ sock[s].st \in {"closing", "dropped"}
  /\ sock' = [sock EXCEPT ![s] = Free]
  /\ connected' = FALSE
  /\ timers' = Reschedule(s) /\ timerRef' = s /\ retry' = Backoff(retry)
  /\ UNCHANGED <<build, token, mounted, chan, sub, wsRef, notifications, unread, panel,
                 ended, published, faults>>

(* The back-off has passed.                                                *)
Retry(s) ==
  /\ s \in timers
  /\ timers' = timers \ {s}
  /\ Connect
  /\ lost' = (lost \/ GivesUp)
  /\ UNCHANGED <<strict, org, token, mounted, chan, sub, timerRef, retry, page, published,
                 faults>>

-----------------------------------------------------------------------------
(* The IncomingCallModal is subscribed: a ring replaces the panel, an      *)
(* update is merged into whatever panel there is, an end closes it.        *)
MergesIntoNothing(p, n) ==
  CASE n.type = "incoming_call" -> [ring |-> n.call, data |-> n.call]
    [] n.type = "call_updated"  -> [ring |-> IF p.ring = None THEN n.call ELSE p.ring,
                                    data |-> n.call]
    [] n.type = "call_ended"    -> NoPanel

Panel(p, n) ==
  CASE n.type = "incoming_call" -> [ring |-> n.call, data |-> n.call]
    [] n.type = "call_updated"  -> IF p = NoPanel THEN p ELSE [p EXCEPT !.data = n.call]
    [] n.type = "call_ended"    -> NoPanel

(* [notification, ...prev].slice(0, MAX_NOTIFICATIONS)                     *)
Unsliced(list, n) == <<n>> \o list
Listed(list, n) == SubSeq(<<n>> \o list, 1, Min({MaxNotifications, Len(list) + 1}))

(* ws.onmessage.                                                           *)
OnMessage(s) ==
  /\ sock[s].st = "open" /\ chan[s] # <<>>
  /\ LET n == Head(chan[s]) IN
       /\ notifications' = Listed(notifications, n)
       /\ unread' = unread + 1
       /\ panel' = Panel(panel, n)
       /\ ended' = IF n.type = "call_ended" THEN ended \cup {n.call} ELSE ended
  /\ chan' = [chan EXCEPT ![s] = Tail(@)]
  /\ UNCHANGED <<build, token, mounted, sock, sub, refs, connected, published, faults>>

MarkAllRead ==
  /\ unread > 0
  /\ unread' = 0
  /\ UNCHANGED <<build, token, mounted, sock, chan, sub, refs, connected, notifications,
                 panel, ended, published, faults>>

Dismiss ==
  /\ panel # NoPanel
  /\ panel' = NoPanel
  /\ UNCHANGED <<build, token, mounted, sock, chan, sub, refs, connected, notifications,
                 unread, ended, published, faults>>

-----------------------------------------------------------------------------
(* The server: it accepts a socket first and subscribes it afterwards; what*)
(* is published in between is not forwarded to it.                         *)
Subscribe(s) ==
  /\ sock[s].st = "open" /\ s \notin sub
  /\ sub' = sub \cup {s}
  /\ UNCHANGED <<build, token, mounted, sock, chan, refs, page, published, faults>>

(* A call is announced once, may be updated while it goes on and is ended  *)
(* once; an update that was under way can still follow the end.            *)
Publish(n) ==
  /\ n \notin published
  /\ n.type # "incoming_call" => [n EXCEPT !.type = "incoming_call"] \in published
  /\ published' = published \cup {n}
  /\ chan' = [s \in Sockets |-> IF s \in sub THEN Append(chan[s], n) ELSE chan[s]]
  /\ UNCHANGED <<build, token, mounted, sock, sub, refs, page, faults>>

(* The connection is lost, with what was on its way.                       *)
Drop(s) ==
  /\ s \in Connections /\ faults < MaxFaults
  /\ sock' = [sock EXCEPT ![s].st = "dropped"]
  /\ chan' = [chan EXCEPT ![s] = <<>>]
  /\ sub' = sub \ {s}
  /\ faults' = faults + 1
  /\ UNCHANGED <<build, token, mounted, refs, page, published>>

(* The access token expires, and the next refresh replaces it.             *)
Expire ==
  /\ token = "good" /\ faults < MaxFaults
  /\ token' = "stale" /\ faults' = faults + 1
  /\ UNCHANGED <<build, mounted, sock, chan, sub, refs, page, published>>

Renew ==
  /\ token = "stale"
  /\ token' = "good"
  /\ UNCHANGED <<build, mounted, sock, chan, sub, refs, page, published, faults>>

(* Another tab is sent to /login and signs in again: this page keeps its   *)
(* user, AuthContext does not watch localStorage.                          *)
OtherTabClears ==
  /\ OtherTabs /\ mounted /\ token # "none" /\ faults < MaxFaults
  /\ token' = "none" /\ faults' = faults + 1
  /\ UNCHANGED <<build, mounted, sock, chan, sub, refs, page, published>>

SignIn ==
  /\ token = "none"
  /\ token' = "good"
  /\ UNCHANGED <<build, mounted, sock, chan, sub, refs, page, published, faults>>

Provider(s) == OnOpen(s) \/ OnClose(s) \/ Retry(s) \/ OnMessage(s)

Next ==
  \/ Mount \/ Unmount \/ MarkAllRead \/ Dismiss
  \/ \E s \in Sockets : Provider(s) \/ Refuse(s) \/ Subscribe(s) \/ Drop(s)
  \/ \E n \in Notices : Publish(n)
  \/ Expire \/ Renew \/ OtherTabClears \/ SignIn

Spec == Init /\ [][Next]_vars

(* The browser runs timers and event handlers, the server answers and      *)
(* forwards.  Nothing makes the page renew a token or the user sign in:    *)
(* connect only reads the store again.                                     *)
Fairness ==
  \A s \in Sockets : WF_vars(Provider(s)) /\ WF_vars(Refuse(s)) /\ WF_vars(Subscribe(s))

FairSpec == Spec /\ Fairness

-----------------------------------------------------------------------------
(* The provider has one socket at a time, or one timer that will open it:  *)
(* reconnecting never multiplies the connections.  In a strict build the   *)
(* socket of the first effect comes back as a second one, but that is all. *)
Attempts == Cardinality({s \in Sockets : sock[s].st # "none"}) + Cardinality(timers)

OneConnection == Attempts <= IF strict THEN 2 ELSE 1

(* A notification is delivered to a page of the production build once.     *)
ShownOnce == strict \/ IsInjective(notifications)

(* The panel of a call that a production page was told is over does not    *)
(* come back.                                                              *)
EndedStaysClosed == strict \/ panel.ring \notin ended

(* A user of an organisation whose token does not stay expired: some       *)
(* request of the page, which the provider never makes, renewed it.        *)
Admitted == org /\ <>[](token # "stale")

(* Whatever connections are dropped and tokens expire, the signed-in page  *)
(* of an admitted user is connected again, unless a retry came while       *)
(* another tab had removed the token: connect then returns and nothing     *)
(* calls it again.                                                         *)
Reconnects == Admitted => (mounted ~> connected \/ ~mounted \/ lost)

(* What the file's header promises, for such a user: the page always       *)
(* connects again.                                                         *)
AlwaysReconnects == Admitted => (mounted ~> connected \/ ~mounted)

(* Data merged into the call panel is the data of that call.               *)
PanelIsOneCall == panel.data = panel.ring
==============================================================================
