----------------------- MODULE NotificationSocketProofs -----------------------
(***************************************************************************)
(* For any calls, list length, faults and enough socket identities: the    *)
(* provider never multiplies its connections, a production page is shown   *)
(* each notification once, and the panel of an ended call stays closed.    *)
(***************************************************************************)
EXTENDS NotificationSocket, FiniteSetTheorems, TLAPS

-----------------------------------------------------------------------------
(* The sockets that are in some state, and what the provider keeps alive.  *)
Held(k) == {s \in Sockets : k[s].st # "none"}
Limit == IF strict THEN 2 ELSE 1

(* Without a signed-in user there is no socket, timer or message.          *)
Absent ==
  ~mounted => /\ sock = [s \in Sockets |-> Free] /\ chan = [s \in Sockets |-> <<>>]
              /\ sub = {} /\ timers = {} /\ wsRef = None

Sound == TypeOK /\ Absent /\ OneConnection

LEMMA Finite ==
  ASSUME NEW S \in SUBSET Sockets
  PROVE  IsFiniteSet(S) /\ Cardinality(S) \in Nat
BY SocketAssumption, FS_Subset, FS_CardinalityType DEF SocketAssumption

LEMMA AttemptsHeld == Attempts = Cardinality(Held(sock)) + Cardinality(timers)
BY DEF Attempts, Held

(* At most two attempts and wsRef are excluded, so one of four is free.    *)
LEMMA FreshIsUnused ==
  ASSUME Sound
  PROVE  Fresh \in Unused
<1> DEFINE B == Held(sock)
<1>1. B \in SUBSET Sockets /\ timers \in SUBSET Sockets /\ B \cup timers \in SUBSET Sockets
  BY DEF Held, Sound, TypeOK
<1>2. /\ IsFiniteSet(B) /\ Cardinality(B) \in Nat
      /\ IsFiniteSet(timers) /\ Cardinality(timers) \in Nat
  BY <1>1, Finite
<1>3. /\ IsFiniteSet(B \cup timers)
      /\ Cardinality(B \cup timers) <= Cardinality(B) + Cardinality(timers)
  <2>1. Cardinality(B \cup timers)
          = Cardinality(B) + Cardinality(timers) - Cardinality(B \cap timers)
    BY <1>2, FS_Union
  <2>2. Cardinality(B \cap timers) \in Nat /\ IsFiniteSet(B \cup timers)
    BY <1>1, Finite
  <2> HIDE DEF B
  <2> QED
    BY <1>2, <2>1, <2>2
<1>4. Cardinality(B \cup timers) <= 2
  <2>1. Cardinality(B) + Cardinality(timers) <= 2
    BY AttemptsHeld DEF Sound, OneConnection
  <2>2. Cardinality(B \cup timers) \in Nat
    BY <1>3, FS_CardinalityType
  <2> HIDE DEF B
  <2> QED
    BY <1>2, <1>3, <2>1, <2>2
<1>5. /\ IsFiniteSet((B \cup timers) \cup {wsRef})
      /\ Cardinality((B \cup timers) \cup {wsRef}) <= 3
  <2>1. Cardinality(B \cup timers) \in Nat
    BY <1>3, FS_CardinalityType
  <2> HIDE DEF B
  <2> QED
    BY <1>3, <1>4, <2>1, FS_AddElement
<1>6. Unused # {}
  <2> SUFFICES ASSUME Unused = {}
               PROVE  FALSE
    OBVIOUS
  <2>1. Sockets \in SUBSET ((B \cup timers) \cup {wsRef})
    BY DEF Unused, Held
  <2>2. Cardinality(Sockets) <= Cardinality((B \cup timers) \cup {wsRef})
    BY <1>5, <2>1, FS_Subset
  <2>3. Cardinality((B \cup timers) \cup {wsRef}) \in Nat
    BY <1>5, FS_CardinalityType
  <2>4. Cardinality(Sockets) \in Nat /\ Cardinality(Sockets) >= 4
    BY SocketAssumption, FS_CardinalityType DEF SocketAssumption
  <2> HIDE DEF B
  <2> QED
    BY <1>5, <2>2, <2>3, <2>4
<1> QED
  BY <1>6 DEF Fresh

(* A first mount finds every identity unused, so there is a second one.    *)
LEMMA AnotherIsUnused ==
  ASSUME Sound, ~mounted
  PROVE  (CHOOSE y \in Unused \ {Fresh} : TRUE) \in Unused \ {Fresh}
<1>1. Unused = Sockets
  BY SocketAssumption DEF Unused, Sound, Absent, Free, SocketAssumption
<1>2. Sockets # {Fresh}
  <2> SUFFICES ASSUME Sockets = {Fresh}
               PROVE  FALSE
    OBVIOUS
  <2>1. Cardinality(Sockets) = 1
    BY FS_Singleton
  <2> QED
    BY <2>1, SocketAssumption DEF SocketAssumption
<1>3. Fresh \in Sockets
  BY <1>1, FreshIsUnused
<1> QED
  BY <1>1, <1>2, <1>3

(* What opening, closing and dropping do to the sockets held.              *)
LEMMA OpensOne ==
  ASSUME TypeOK, NEW s \in Sockets, NEW tok \in {"good", "stale", "none"},
         sock' = Opened(s, tok)
  PROVE  /\ sock' \in [Sockets -> [st : {"none", "connecting", "open", "closing", "dropped"},
                                   tok : {"good", "stale", "none"}]]
         /\ Held(sock)' = Held(sock) \cup {s}
         /\ sock'[s].st = "connecting" /\ \A x \in Sockets \ {s} : sock'[x] = sock[x]
<1>1. \A x \in Sockets : sock'[x] = IF x = s THEN [st |-> "connecting", tok |-> tok] ELSE sock[x]
  BY DEF Opened, TypeOK
<1>2. sock' \in [Sockets -> [st : {"none", "connecting", "open", "closing", "dropped"},
                             tok : {"good", "stale", "none"}]]
  BY DEF Opened, TypeOK
<1> QED
  BY <1>1, <1>2 DEF Held

LEMMA FreesOne ==
  ASSUME TypeOK, NEW s \in Sockets, sock' = [sock EXCEPT ![s] = Free]
  PROVE  /\ sock' \in [Sockets -> [st : {"none", "connecting", "open", "closing", "dropped"},
                                   tok : {"good", "stale", "none"}]]
         /\ Held(sock)' = Held(sock) \ {s}
         /\ \A x \in Sockets \ {s} : sock'[x] = sock[x]
BY DEF TypeOK, Held, Free

LEMMA TurnsOne ==
  ASSUME TypeOK, NEW s \in Sockets, NEW p \in {"open", "dropped"},
         sock[s].st # "none", sock' = [sock EXCEPT ![s].st = p]
  PROVE  /\ sock' \in [Sockets -> [st : {"none", "connecting", "open", "closing", "dropped"},
                                   tok : {"good", "stale", "none"}]]
         /\ Held(sock)' = Held(sock)
         /\ sock'[s].st = p /\ \A x \in Sockets \ {s} : sock'[x] = sock[x]
<1>1. \A x \in Sockets : sock'[x] = IF x = s THEN [sock[s] EXCEPT !.st = p] ELSE sock[x]
  BY DEF TypeOK
<1>2. [sock[s] EXCEPT !.st = p] \in [st : {"none", "connecting", "open", "closing", "dropped"},
                                     tok : {"good", "stale", "none"}]
  BY DEF TypeOK
<1>3. [sock[s] EXCEPT !.st = p].st = p
  BY DEF TypeOK
<1>4. sock' \in [Sockets -> [st : {"none", "connecting", "open", "closing", "dropped"},
                             tok : {"good", "stale", "none"}]]
  BY <1>1, <1>2 DEF TypeOK
<1> QED
  BY <1>1, <1>3, <1>4 DEF Held

(* The notifications the page lists are notices, and no more than allowed. *)
LEMMA ListedIs ==
  ASSUME NEW list \in Seq(Notices), Len(list) <= MaxNotifications, NEW n \in Notices
  PROVE  /\ Listed(list, n) \in Seq(Notices)
         /\ Len(Listed(list, n)) <= MaxNotifications
         /\ Len(Listed(list, n)) <= Len(list) + 1
         /\ \A i \in 1..Len(Listed(list, n)) :
              Listed(list, n)[i] = IF i = 1 THEN n ELSE list[i - 1]
<1> DEFINE m == Min({MaxNotifications, Len(list) + 1})
           whole == <<n>> \o list
<1>1. Len(list) \in Nat /\ MaxNotifications \in Nat \ {0}
  BY SocketAssumption DEF SocketAssumption
<1>2. m \in {MaxNotifications, Len(list) + 1} /\ m <= MaxNotifications /\ m <= Len(list) + 1
  <2>1. \E x \in {MaxNotifications, Len(list) + 1} :
          \A y \in {MaxNotifications, Len(list) + 1} : x <= y
    <3>1. CASE MaxNotifications <= Len(list) + 1
      BY <1>1, <3>1
    <3>2. CASE Len(list) + 1 <= MaxNotifications
      BY <1>1, <3>2
    <3> QED
      BY <1>1, <3>1, <3>2
  <2> QED
    BY <2>1 DEF Min
<1>3. m \in Nat \ {0}
  BY <1>1, <1>2
<1>4. /\ whole \in Seq(Notices) /\ Len(whole) = Len(list) + 1
      /\ \A i \in 1..Len(whole) : whole[i] = IF i = 1 THEN n ELSE list[i - 1]
  BY <1>1
<1>5. Listed(list, n) = SubSeq(whole, 1, m)
  BY DEF Listed
<1> HIDE DEF m, whole
<1>6. /\ SubSeq(whole, 1, m) \in Seq(Notices) /\ Len(SubSeq(whole, 1, m)) = m
      /\ \A i \in 1..m : SubSeq(whole, 1, m)[i] = whole[i]
  BY <1>1, <1>2, <1>3, <1>4
<1>7. \A i \in 1..m : i \in 1..Len(whole)
  BY <1>1, <1>2, <1>3, <1>4
<1> QED
  BY <1>2, <1>4, <1>5, <1>6, <1>7

-----------------------------------------------------------------------------
(* Every variable keeps its type.                                          *)
LEMMA TypeStep ==
  ASSUME Sound, [Next]_vars
  PROVE  TypeOK'
<1> USE DEF Sound
<1>1. TypeOK
  OBVIOUS
<1>2. Fresh \in Sockets
  BY FreshIsUnused DEF Unused
<1>3. ASSUME Connect
      PROVE  /\ sock' \in [Sockets -> [st : {"none", "connecting", "open", "closing", "dropped"},
                                       tok : {"good", "stale", "none"}]]
             /\ wsRef' \in Sockets \cup {None}
  <2>1. CASE GivesUp
    BY <1>1, <1>3, <2>1 DEF Connect, TypeOK
  <2>2. CASE ~GivesUp
    BY <1>1, <1>2, <1>3, <2>2, OpensOne DEF Connect, TypeOK
  <2> QED
    BY <2>1, <2>2
<1>4. CASE Mount
  <2>1. CASE strict
    <3> DEFINE z == CHOOSE y \in Unused \ {Fresh} : TRUE
    <3>1. z \in Sockets \ {Fresh}
      BY <1>4, AnotherIsUnused DEF Unused, Mount
    <3>2. /\ wsRef' = Fresh
          /\ sock' = [Opened(Fresh, token) EXCEPT ![z] = [st |-> "closing", tok |-> token]]
      BY <1>4, <2>1 DEF Mount
    <3> HIDE DEF z
    <3>3. sock' \in [Sockets -> [st : {"none", "connecting", "open", "closing", "dropped"},
                                 tok : {"good", "stale", "none"}]]
      BY <1>1, <1>2, <3>1, <3>2 DEF TypeOK, Opened
    <3> QED
      BY <1>1, <1>2, <1>4, <3>2, <3>3 DEF TypeOK, Mount, build, page
  <2>2. CASE ~strict
    <3>1. Connect
      BY <1>4, <2>2 DEF Mount
    <3> QED
      BY <1>1, <1>3, <1>4, <3>1 DEF TypeOK, Mount, build, page
  <2> QED
    BY <2>1, <2>2
<1>5. CASE Unmount
  <2>1. Free \in [st : {"none", "connecting", "open", "closing", "dropped"},
                  tok : {"good", "stale", "none"}]
    BY DEF Free
  <2>2. sock' \in [Sockets -> [st : {"none", "connecting", "open", "closing", "dropped"},
                               tok : {"good", "stale", "none"}]]
    BY <1>5, <2>1 DEF Unmount
  <2>3. chan' \in [Sockets -> Seq(Notices)]
    BY <1>5 DEF Unmount
  <2>4. /\ NoPanel \in [ring : Calls \cup {None}, data : Calls \cup {None}]
        /\ 0 \in 0..MaxRetry /\ <<>> \in Seq(Notices) /\ Len(<<>>) <= MaxNotifications
    BY SocketAssumption DEF NoPanel, SocketAssumption
  <2> QED
    BY <1>1, <1>5, <2>2, <2>3, <2>4 DEF TypeOK, Unmount
<1>6. CASE MarkAllRead \/ Dismiss
  BY <1>1, <1>6 DEF TypeOK, MarkAllRead, Dismiss, build, refs, NoPanel
<1>7. ASSUME NEW s \in Sockets, OnOpen(s)
      PROVE  TypeOK'
  <2>1. sock' \in [Sockets -> [st : {"none", "connecting", "open", "closing", "dropped"},
                               tok : {"good", "stale", "none"}]]
    <3>1. sock[s].st # "none" /\ sock' = [sock EXCEPT ![s].st = "open"]
      BY <1>7 DEF OnOpen
    <3> QED
      BY <1>1, <3>1, TurnsOne
  <2>2. 0 \in 0..MaxRetry
    BY SocketAssumption DEF SocketAssumption
  <2> QED
    BY <1>1, <1>7, <2>1, <2>2 DEF TypeOK, OnOpen, build
<1>8. ASSUME NEW s \in Sockets, OnClose(s)
      PROVE  TypeOK'
  <2>1. sock' \in [Sockets -> [st : {"none", "connecting", "open", "closing", "dropped"},
                               tok : {"good", "stale", "none"}]]
    BY <1>1, <1>8, FreesOne DEF OnClose
  <2>2. retry' \in 0..MaxRetry
    BY <1>1, <1>8, SocketAssumption DEF OnClose, Backoff, TypeOK, SocketAssumption
  <2> QED
    BY <1>1, <1>8, <2>1, <2>2 DEF TypeOK, OnClose, Reschedule, build
<1>9. ASSUME NEW s \in Sockets, Retry(s)
      PROVE  TypeOK'
  <2>1. Connect
    BY <1>9 DEF Retry
  <2> QED
    BY <1>1, <1>3, <1>9, <2>1 DEF TypeOK, Retry, page, GivesUp
<1>10. ASSUME NEW s \in Sockets, OnMessage(s)
       PROVE  TypeOK'
  <2> DEFINE n == Head(chan[s])
  <2>1. chan[s] \in Seq(Notices) /\ chan[s] # <<>>
    BY <1>1, <1>10 DEF TypeOK, OnMessage
  <2>2. n \in Notices /\ Tail(chan[s]) \in Seq(Notices)
    BY <2>1
  <2>3. n.type \in Kinds /\ n.call \in Calls
    BY <2>2 DEF Notices
  <2>4. /\ notifications' = Listed(notifications, n) /\ panel' = Panel(panel, n)
        /\ ended' = (IF n.type = "call_ended" THEN ended \cup {n.call} ELSE ended)
        /\ unread' = unread + 1 /\ chan' = [chan EXCEPT ![s] = Tail(@)]
    BY <1>10 DEF OnMessage
  <2> HIDE DEF n
  <2>5. notifications' \in Seq(Notices) /\ Len(notifications') <= MaxNotifications
    BY <1>1, <2>2, <2>4, ListedIs DEF TypeOK
  <2>6. panel' \in [ring : Calls \cup {None}, data : Calls \cup {None}]
    <3>1. CASE n.type = "incoming_call"
      BY <2>3, <2>4, <3>1 DEF Panel
    <3>2. CASE n.type = "call_updated"
      BY <1>1, <2>3, <2>4, <3>2 DEF Panel, TypeOK
    <3>3. CASE n.type = "call_ended"
      BY <2>4, <3>3 DEF Panel, NoPanel
    <3> QED
      BY <2>3, <3>1, <3>2, <3>3 DEF Kinds
  <2>7. chan' \in [Sockets -> Seq(Notices)]
    BY <1>1, <2>2, <2>4 DEF TypeOK
  <2>8. ended' \subseteq Calls /\ unread' \in Nat
    BY <1>1, <2>3, <2>4 DEF TypeOK
  <2> QED
    BY <1>1, <1>10, <2>5, <2>6, <2>7, <2>8 DEF TypeOK, OnMessage, build, refs
<1>11. ASSUME NEW s \in Sockets, Refuse(s)
       PROVE  TypeOK'
  <2>1. sock' \in [Sockets -> [st : {"none", "connecting", "open", "closing", "dropped"},
                               tok : {"good", "stale", "none"}]]
    <3>1. sock[s].st # "none" /\ sock' = [sock EXCEPT ![s].st = "dropped"]
      BY <1>11 DEF Refuse
    <3> QED
      BY <1>1, <3>1, TurnsOne
  <2> QED
    BY <1>1, <1>11, <2>1 DEF TypeOK, Refuse, build, refs, page
<1>12. ASSUME NEW s \in Sockets, Subscribe(s)
       PROVE  TypeOK'
  BY <1>1, <1>12 DEF TypeOK, Subscribe, build, refs, page
<1>13. ASSUME NEW s \in Sockets, Drop(s)
       PROVE  TypeOK'
  <2>1. sock[s].st # "none" /\ sock' = [sock EXCEPT ![s].st = "dropped"]
    BY <1>13 DEF Drop, Connections
  <2>2. sock' \in [Sockets -> [st : {"none", "connecting", "open", "closing", "dropped"},
                               tok : {"good", "stale", "none"}]]
    BY <1>1, <2>1, TurnsOne
  <2>3. chan' \in [Sockets -> Seq(Notices)]
    BY <1>1, <1>13 DEF TypeOK, Drop
  <2>4. faults' \in 0..MaxFaults
    BY <1>1, <1>13, SocketAssumption DEF TypeOK, Drop, SocketAssumption
  <2> QED
    BY <1>1, <1>13, <2>2, <2>3, <2>4 DEF TypeOK, Drop, build, refs, page
<1>14. ASSUME NEW n \in Notices, Publish(n)
       PROVE  TypeOK'
  <2>1. chan' \in [Sockets -> Seq(Notices)]
    BY <1>1, <1>14 DEF TypeOK, Publish
  <2> QED
    BY <1>1, <1>14, <2>1 DEF TypeOK, Publish, build, refs, page
<1>15. CASE Expire \/ OtherTabClears
  <2>1. faults' \in 0..MaxFaults
    BY <1>1, <1>15, SocketAssumption DEF TypeOK, Expire, OtherTabClears, SocketAssumption
  <2> QED
    BY <1>1, <1>15, <2>1 DEF TypeOK, Expire, OtherTabClears, build, refs, page
<1>16. CASE Renew \/ SignIn
  BY <1>1, <1>16 DEF TypeOK, Renew, SignIn, build, refs, page
<1>17. CASE UNCHANGED vars
  BY <1>1, <1>17 DEF TypeOK, vars, refs, page, build
<1> QED
  BY <1>4, <1>5, <1>6, <1>7, <1>8, <1>9, <1>10, <1>11, <1>12, <1>13, <1>14, <1>15, <1>16,
     <1>17 DEF Next, Provider

-----------------------------------------------------------------------------
(* What a step does to the sockets held and to the timers.                 *)
LEMMA AbsentStep ==
  ASSUME Sound, [Next]_vars
  PROVE  Absent'
<1>1. TypeOK /\ Absent
  BY DEF Sound
<1>2. CASE mounted' /\ ~mounted
  BY <1>2 DEF Absent
<1>3. CASE Unmount
  BY <1>3 DEF Unmount, Absent
<1>4. CASE mounted'
  BY <1>4 DEF Absent
<1>5. CASE ~mounted' /\ ~Unmount
  <2>1. ~mounted
    BY <1>5 DEF Next, vars, Mount, MarkAllRead, Dismiss, Provider, OnOpen, OnClose, Retry,
       OnMessage, Refuse, Subscribe, Drop, Publish, Expire, Renew, OtherTabClears, SignIn
  <2>2. /\ sock = [s \in Sockets |-> Free] /\ chan = [s \in Sockets |-> <<>>]
        /\ sub = {} /\ timers = {} /\ wsRef = None
    BY <1>1, <2>1 DEF Absent
  <2>3. \A s \in Sockets : sock[s].st = "none" /\ s \notin timers /\ chan[s] = <<>>
    BY <2>2 DEF Free
  <2>4. ASSUME NEW s \in Sockets
        PROVE  ~(Provider(s) \/ Refuse(s) \/ Subscribe(s) \/ Drop(s))
    <3>1. ~OnOpen(s) /\ ~Refuse(s)
      BY <2>3 DEF OnOpen, Refuse
    <3>2. ~OnClose(s) /\ ~Retry(s) /\ ~OnMessage(s) /\ ~Subscribe(s) /\ ~Drop(s)
      BY <2>3 DEF OnClose, Retry, OnMessage, Subscribe, Drop, Connections
    <3> QED
      BY <3>1, <3>2 DEF Provider
  <2>5. UNCHANGED <<sock, sub, timers, wsRef>>
    BY <1>5, <2>1, <2>4 DEF Next, vars, refs, Mount, MarkAllRead, Dismiss, Publish, Expire,
       Renew, OtherTabClears, SignIn
  <2>6. chan' = chan
    <3>1. ASSUME NEW n \in Notices, Publish(n)
          PROVE  chan' = chan
      BY <2>2, <3>1 DEF Publish
    <3> QED
      BY <1>5, <2>1, <2>4, <3>1 DEF Next, vars, Mount, MarkAllRead, Dismiss, Expire,
         Renew, OtherTabClears, SignIn
  <2> QED
    BY <2>2, <2>5, <2>6 DEF Absent
<1> QED
  BY <1>3, <1>4, <1>5

(* The provider never multiplies its attempts.                             *)
LEMMA CountStep ==
  ASSUME Sound, [Next]_vars
  PROVE  OneConnection'
<1>1. TypeOK /\ Absent
  BY DEF Sound
<1>2. /\ Held(sock) \in SUBSET Sockets /\ timers \in SUBSET Sockets
      /\ IsFiniteSet(Held(sock)) /\ Cardinality(Held(sock)) \in Nat
      /\ IsFiniteSet(timers) /\ Cardinality(timers) \in Nat
  <2>1. Held(sock) \in SUBSET Sockets /\ timers \in SUBSET Sockets
    BY <1>1 DEF Held, TypeOK
  <2> QED
    BY <2>1, Finite
<1>3. Cardinality(Held(sock)) + Cardinality(timers) <= Limit
  BY AttemptsHeld DEF Sound, OneConnection, Limit
<1>4. OneConnection' <=> Cardinality(Held(sock)') + Cardinality(timers') <= Limit'
  BY DEF OneConnection, Attempts, Held, Limit
<1>5. Fresh \in Unused /\ Unused \in SUBSET Sockets
  BY FreshIsUnused DEF Unused
<1>6. Limit \in Nat
  BY DEF Limit
<1>7. strict' = strict
  BY DEF Next, vars, build, Mount, Unmount, MarkAllRead, Dismiss, Provider, OnOpen, OnClose,
     Retry, OnMessage, Refuse, Subscribe, Drop, Publish, Expire, Renew, OtherTabClears,
     SignIn
<1> SUFFICES Cardinality(Held(sock)') + Cardinality(timers') <= Limit
  BY <1>4, <1>7 DEF Limit
<1>8. CASE Held(sock)' = Held(sock) /\ timers' = timers
  BY <1>3, <1>8
<1>9. CASE Mount
  <2>1. Held(sock) = {} /\ timers = {} /\ timers' = timers
    BY <1>1, <1>9 DEF Mount, Absent, Held, Free
  <2>2. CASE strict
    <3> DEFINE z == CHOOSE y \in Unused \ {Fresh} : TRUE
    <3>1. z \in Sockets \ {Fresh}
      BY <1>5, <1>9, AnotherIsUnused DEF Mount
    <3>2. sock' = [Opened(Fresh, token) EXCEPT ![z] = [st |-> "closing", tok |-> token]]
      BY <1>9, <2>2 DEF Mount
    <3> HIDE DEF z
    <3>3. \A x \in Sockets \ {z, Fresh} : sock'[x] = sock[x]
      BY <1>1, <1>5, <3>1, <3>2 DEF Opened, TypeOK
    <3>4. Held(sock)' \in SUBSET ({z} \cup {Fresh})
      BY <2>1, <3>3 DEF Held
    <3>5. IsFiniteSet({z}) /\ Cardinality({z}) = 1
      BY FS_Singleton
    <3>6. IsFiniteSet({z} \cup {Fresh}) /\ Cardinality({z} \cup {Fresh}) = 2
      BY <3>1, <3>5, FS_AddElement
    <3>7. Cardinality(Held(sock)') <= 2 /\ Cardinality(Held(sock)') \in Nat
      BY <3>4, <3>6, FS_Subset, FS_CardinalityType
    <3>8. Cardinality({}) = 0
      BY FS_EmptySet
    <3>9. Limit = 2
      BY <2>2 DEF Limit
    <3> QED
      BY <2>1, <3>7, <3>8, <3>9
  <2>3. CASE ~strict
    <3>1. Connect /\ ~GivesUp
      BY <1>9, <2>3 DEF Mount, GivesUp
    <3>2. Held(sock)' = Held(sock) \cup {Fresh}
      BY <1>1, <1>5, <3>1, OpensOne DEF Connect, TypeOK
    <3>3. Held(sock)' = {Fresh}
      BY <2>1, <3>2
    <3>4. Cardinality(Held(sock)') = 1
      BY <3>3, FS_Singleton
    <3>5. Cardinality({}) = 0
      BY FS_EmptySet
    <3>6. Limit = 1
      BY <2>3 DEF Limit
    <3> QED
      BY <2>1, <3>4, <3>5, <3>6
  <2> QED
    BY <2>2, <2>3
<1>10. CASE Unmount
  <2>1. Held(sock)' = {} /\ timers' = {}
    BY <1>10 DEF Unmount, Held, Free
  <2>2. Cardinality({}) = 0
    BY FS_EmptySet
  <2>3. Limit >= 0
    BY <1>6
  <2> QED
    BY <2>1, <2>2, <2>3
<1>11. ASSUME NEW s \in Sockets, OnClose(s)
       PROVE  Cardinality(Held(sock)') + Cardinality(timers') <= Limit
  <2>1. Held(sock)' = Held(sock) \ {s} /\ s \in Held(sock) /\ timers' = timers \cup {s}
    BY <1>1, <1>11, FreesOne DEF OnClose, Reschedule, Held
  <2>2. Cardinality(Held(sock)') = Cardinality(Held(sock)) - 1
    BY <1>2, <2>1, FS_RemoveElement
  <2>3. Cardinality(timers') \in {Cardinality(timers), Cardinality(timers) + 1}
    BY <1>2, <2>1, FS_AddElement
  <2> QED
    BY <1>2, <1>3, <1>6, <2>2, <2>3
<1>12. ASSUME NEW s \in Sockets, Retry(s)
       PROVE  Cardinality(Held(sock)') + Cardinality(timers') <= Limit
  <2>1. s \in timers /\ timers' = timers \ {s} /\ Connect
    BY <1>12 DEF Retry
  <2>2. Cardinality(timers') = Cardinality(timers) - 1
    BY <1>2, <2>1, FS_RemoveElement
  <2>3. Held(sock)' = Held(sock) \/ Held(sock)' = Held(sock) \cup {Fresh}
    <3>1. CASE GivesUp
      BY <2>1, <3>1 DEF Connect, Held
    <3>2. CASE ~GivesUp
      BY <1>1, <1>5, <2>1, <3>2, OpensOne DEF Connect, TypeOK
    <3> QED
      BY <3>1, <3>2
  <2>4. Cardinality(Held(sock)') \in {Cardinality(Held(sock)), Cardinality(Held(sock)) + 1}
    BY <1>2, <2>3, FS_AddElement
  <2> QED
    BY <1>2, <1>3, <1>6, <2>2, <2>4
<1>13. ASSUME NEW s \in Sockets, OnOpen(s) \/ Refuse(s) \/ Drop(s)
       PROVE  Held(sock)' = Held(sock) /\ timers' = timers
  <2>1. sock[s].st # "none" /\ \E p \in {"open", "dropped"} : sock' = [sock EXCEPT ![s].st = p]
    BY <1>13 DEF OnOpen, Refuse, Drop, Connections
  <2> QED
    BY <1>1, <1>13, <2>1, TurnsOne DEF OnOpen, Refuse, Drop, refs
<1>14. CASE UNCHANGED <<sock, timers>>
  BY <1>8, <1>14 DEF Held
<1>15. ASSUME NEW s \in Sockets, OnMessage(s) \/ Subscribe(s)
       PROVE  UNCHANGED <<sock, timers>>
  BY <1>15 DEF OnMessage, Subscribe, refs
<1>16. ASSUME NEW n \in Notices, Publish(n)
       PROVE  UNCHANGED <<sock, timers>>
  BY <1>16 DEF Publish, refs
<1>17. CASE MarkAllRead \/ Dismiss \/ Expire \/ Renew \/ OtherTabClears \/ SignIn
            \/ UNCHANGED vars
  BY <1>14, <1>17 DEF MarkAllRead, Dismiss, Expire, Renew, OtherTabClears, SignIn, vars, refs
<1> QED
  BY <1>8, <1>9, <1>10, <1>11, <1>12, <1>13, <1>14, <1>15, <1>16, <1>17 DEF Next, Provider

LEMMA SoundInit == Init => Sound
<1> SUFFICES ASSUME Init
             PROVE  Sound
  OBVIOUS
<1>1. /\ Free \in [st : {"none", "connecting", "open", "closing", "dropped"},
                   tok : {"good", "stale", "none"}]
      /\ NoPanel \in [ring : Calls \cup {None}, data : Calls \cup {None}]
      /\ 0 \in 0..MaxRetry /\ 0 \in 0..MaxFaults
      /\ <<>> \in Seq(Notices) /\ Len(<<>>) <= MaxNotifications
  BY SocketAssumption DEF Free, NoPanel, SocketAssumption
<1>2. TypeOK
  BY <1>1 DEF Init, TypeOK
<1>3. Absent
  BY DEF Init, Absent
<1>4. OneConnection
  <2>1. Held(sock) = {} /\ timers = {}
    BY DEF Init, Held, Free
  <2>2. Attempts = 0
    BY <2>1, AttemptsHeld, FS_EmptySet
  <2> QED
    BY <2>2 DEF OneConnection
<1> QED
  BY <1>2, <1>3, <1>4 DEF Sound

LEMMA SoundStep == Sound /\ [Next]_vars => Sound'
BY TypeStep, AbsentStep, CountStep DEF Sound

(* Every reachable state is well typed: in particular a WebSocket always   *)
(* gets an identity of its own and the list never exceeds MAX_NOTIFICATIONS *)
THEOREM TypesHold == Spec => []TypeOK
<1>1. Sound => TypeOK
  BY DEF Sound
<1> QED
  BY <1>1, SoundInit, SoundStep, PTL DEF Spec

(* WebSocketProvider has one socket or one timer at a time; a strict build  *)
(* has at most the two of its doubled first effect.                         *)
THEOREM NeverMultiplies == Spec => []OneConnection
<1>1. Sound => OneConnection
  BY DEF Sound
<1> QED
  BY <1>1, SoundInit, SoundStep, PTL DEF Spec

-----------------------------------------------------------------------------
(* What is on its way was published, goes to an open socket only, and a     *)
(* notice about a call follows its announcement.                           *)
Ring(n) == [n EXCEPT !.type = "incoming_call"]
Forwarded ==
  \A s \in Sockets : s \in sub \/ chan[s] # <<>> => sock[s].st = "open"
Announced ==
  /\ \A s \in Sockets : \A i \in 1..Len(chan[s]) : chan[s][i] \in published
  /\ \A i \in 1..Len(notifications) : notifications[i] \in published
  /\ \A n \in published : n.type # "incoming_call" => Ring(n) \in published
  /\ \A c \in ended : [type |-> "call_ended", call |-> c] \in published

(* A production page lists nothing twice, nothing that is still to come,   *)
(* and no ring follows the end of its call.                                *)
Orderly ==
  /\ IsInjective(notifications)
  /\ \A s \in Sockets : \A i, j \in 1..Len(chan[s]) : chan[s][i] = chan[s][j] => i = j
  /\ \A s \in Sockets : \A i \in 1..Len(chan[s]) : \A j \in 1..Len(notifications) :
       chan[s][i] # notifications[j]
  /\ \A s \in Sockets : \A i, j \in 1..Len(chan[s]) :
       i < j /\ chan[s][j].type = "incoming_call" =>
         ~(chan[s][i].type = "call_ended" /\ chan[s][i].call = chan[s][j].call)
  /\ \A s \in Sockets : \A i \in 1..Len(chan[s]) :
       chan[s][i].type = "incoming_call" => chan[s][i].call \notin ended
  /\ panel.ring \notin ended

Channels == Forwarded /\ Announced /\ (strict \/ Orderly)

LEMMA OnlyOne ==
  ASSUME Sound, ~strict, NEW s \in Sockets, NEW t \in Sockets,
         sock[s].st # "none", sock[t].st # "none"
  PROVE  s = t
<1> SUFFICES ASSUME s # t
             PROVE  FALSE
  OBVIOUS
<1>1. IsFiniteSet(Held(sock)) /\ Cardinality(Held(sock)) \in Nat
      /\ IsFiniteSet(timers) /\ Cardinality(timers) \in Nat
  BY Finite DEF Held, Sound, TypeOK
<1>2. {s} \cup {t} \in SUBSET Held(sock)
  BY DEF Held
<1>3. IsFiniteSet({s}) /\ Cardinality({s}) = 1
  BY FS_Singleton
<1>4. Cardinality({s} \cup {t}) = 2
  <2>1. t \notin {s}
    OBVIOUS
  <2>2. Cardinality({s} \cup {t}) = Cardinality({s}) + 1
    BY <1>3, <2>1, FS_AddElement
  <2> QED
    BY <1>3, <2>2
<1>5. Cardinality({s} \cup {t}) <= Cardinality(Held(sock))
  BY <1>1, <1>2, FS_Subset
<1>6. Cardinality(Held(sock)) + Cardinality(timers) <= 1
  BY AttemptsHeld DEF Sound, OneConnection
<1> DEFINE pair == Cardinality({s} \cup {t})
           all == Cardinality(Held(sock))
           armed == Cardinality(timers)
<1>7. pair = 2 /\ pair <= all /\ all + armed <= 1 /\ all \in Nat /\ armed \in Nat
  BY <1>1, <1>4, <1>5, <1>6
<1> HIDE DEF pair, all, armed
<1> QED
  BY <1>7

LEMMA ForwardedStep ==
  ASSUME Sound, Forwarded, [Next]_vars
  PROVE  Forwarded'
<1>1. TypeOK /\ Absent
  BY DEF Sound
<1>2. Fresh \in Sockets /\ sock[Fresh].st = "none"
  BY FreshIsUnused DEF Unused
<1>3. ASSUME UNCHANGED <<chan, sub>>,
             \A x \in Sockets : sock[x].st = "open" => sock'[x].st = "open"
      PROVE  Forwarded'
  BY <1>3 DEF Forwarded
<1>4. CASE Mount
  <2>1. chan' = [s \in Sockets |-> <<>>] /\ sub' = {}
    BY <1>1, <1>4 DEF Mount, Absent
  <2> QED
    BY <2>1 DEF Forwarded
<1>5. CASE Unmount
  BY <1>5 DEF Unmount, Forwarded
<1>6. CASE UNCHANGED <<chan, sub, sock>>
  BY <1>6 DEF Forwarded
<1>7. CASE MarkAllRead \/ Dismiss \/ Expire \/ Renew \/ OtherTabClears \/ SignIn
           \/ UNCHANGED vars
  BY <1>6, <1>7 DEF MarkAllRead, Dismiss, Expire, Renew, OtherTabClears, SignIn, vars
<1>8. ASSUME NEW s \in Sockets, OnOpen(s) \/ Refuse(s)
      PROVE  Forwarded'
  <2>1. /\ sock[s].st = "connecting" /\ UNCHANGED <<chan, sub>>
        /\ \E p \in {"open", "dropped"} : sock' = [sock EXCEPT ![s].st = p]
    BY <1>8 DEF OnOpen, Refuse
  <2>2. \A x \in Sockets \ {s} : sock'[x] = sock[x]
    BY <1>1, <2>1 DEF TypeOK
  <2> QED
    BY <1>3, <2>1, <2>2
<1>9. ASSUME NEW s \in Sockets, OnClose(s)
      PROVE  Forwarded'
  <2>1. \A x \in Sockets \ {s} : sock'[x] = sock[x]
    BY <1>1, <1>9, FreesOne DEF OnClose
  <2> QED
    BY <1>3, <1>9, <2>1 DEF OnClose
<1>10. ASSUME NEW s \in Sockets, Retry(s)
       PROVE  Forwarded'
  <2>1. Connect /\ UNCHANGED <<chan, sub>>
    BY <1>10 DEF Retry
  <2>2. \A x \in Sockets \ {Fresh} : sock'[x] = sock[x]
    <3>1. CASE GivesUp
      BY <2>1, <3>1 DEF Connect
    <3>2. CASE ~GivesUp
      BY <1>1, <1>2, <2>1, <3>2, OpensOne DEF Connect, TypeOK
    <3> QED
      BY <3>1, <3>2
  <2> QED
    BY <1>2, <1>3, <2>1, <2>2
<1>11. ASSUME NEW s \in Sockets, OnMessage(s)
       PROVE  Forwarded'
  <2>1. \A x \in Sockets \ {s} : chan'[x] = chan[x]
    BY <1>1, <1>11 DEF OnMessage, TypeOK
  <2> QED
    BY <1>11, <2>1 DEF OnMessage, Forwarded
<1>12. ASSUME NEW s \in Sockets, Subscribe(s)
       PROVE  Forwarded'
  BY <1>12 DEF Subscribe, Forwarded
<1>13. ASSUME NEW s \in Sockets, Drop(s)
       PROVE  Forwarded'
  <2>1. \A x \in Sockets \ {s} : sock'[x] = sock[x] /\ chan'[x] = chan[x]
    BY <1>1, <1>13 DEF Drop, TypeOK
  <2>2. chan'[s] = <<>> /\ sub' = sub \ {s}
    BY <1>1, <1>13 DEF Drop, TypeOK
  <2> QED
    BY <2>1, <2>2 DEF Forwarded
<1>14. ASSUME NEW n \in Notices, Publish(n)
       PROVE  Forwarded'
  <2>1. \A x \in Sockets : x \notin sub => chan'[x] = chan[x]
    BY <1>14 DEF Publish
  <2>2. UNCHANGED <<sock, sub>>
    BY <1>14 DEF Publish
  <2> QED
    BY <2>1, <2>2 DEF Forwarded
<1> QED
  BY <1>4, <1>5, <1>7, <1>8, <1>9, <1>10, <1>11, <1>12, <1>13, <1>14 DEF Next, Provider

(* The actions that touch neither the channels nor what the page shows.    *)
Silent == UNCHANGED <<chan, notifications, published, ended, panel>>

LEMMA OthersAreSilent ==
  ASSUME Next,
         ~Unmount, ~Dismiss,
         \A s \in Sockets : ~OnMessage(s) /\ ~Drop(s),
         \A n \in Notices : ~Publish(n)
  PROVE  Silent
BY DEF Next, Provider, Mount, MarkAllRead, OnOpen, OnClose, Retry, Refuse, Subscribe, Expire,
   Renew, OtherTabClears, SignIn, Silent, page

(* One more at the end of a sequence, one less at its head.                *)
LEMMA Longer ==
  ASSUME NEW q \in Seq(Notices), NEW n \in Notices
  PROVE  /\ Len(Append(q, n)) = Len(q) + 1
         /\ \A i \in 1..Len(q) : i \in 1..Len(Append(q, n)) /\ Append(q, n)[i] = q[i]
         /\ Append(q, n)[Len(q) + 1] = n
         /\ \A i \in 1..Len(Append(q, n)) :
              i \notin 1..Len(q) => i = Len(q) + 1 /\ Append(q, n)[i] = n
OBVIOUS

LEMMA Shorter ==
  ASSUME NEW q \in Seq(Notices), q # <<>>
  PROVE  /\ Head(q) = q[1] /\ 1 \in 1..Len(q) /\ Head(q) \in Notices
         /\ Tail(q) \in Seq(Notices)
         /\ \A i \in 1..Len(Tail(q)) :
              i \in Nat /\ i + 1 \in 1..Len(q) /\ Tail(q)[i] = q[i + 1] /\ i + 1 # 1
OBVIOUS

LEMMA Rings ==
  ASSUME NEW n \in Notices
  PROVE  /\ Ring(n) \in Notices /\ Ring(n).type = "incoming_call" /\ Ring(n).call = n.call
         /\ n.type = "incoming_call" => Ring(n) = n
BY DEF Ring, Notices, Kinds

LEMMA AnnouncedStep ==
  ASSUME Sound, Announced, [Next]_vars
  PROVE  Announced'
<1>1. TypeOK
  BY DEF Sound
<1>2. CASE Silent
  BY <1>2 DEF Silent, Announced
<1>3. CASE UNCHANGED vars
  BY <1>2, <1>3 DEF vars, page, Silent
<1>4. CASE Unmount
  BY <1>4 DEF Unmount, Announced
<1>5. CASE Dismiss
  BY <1>5 DEF Dismiss, Announced
<1>6. ASSUME NEW s \in Sockets, Drop(s)
      PROVE  Announced'
  <2>1. \A x \in Sockets : chan'[x] = IF x = s THEN <<>> ELSE chan[x]
    BY <1>1, <1>6 DEF Drop, TypeOK
  <2>2. UNCHANGED <<notifications, published, ended>>
    BY <1>6 DEF Drop, page
  <2>3. \A x \in Sockets : \A i \in 1..Len(chan'[x]) : chan'[x][i] \in published
    BY <2>1 DEF Announced
  <2> QED
    BY <2>2, <2>3 DEF Announced
<1>7. ASSUME NEW s \in Sockets, OnMessage(s)
      PROVE  Announced'
  <2> DEFINE n == Head(chan[s])
  <2>1. chan[s] \in Seq(Notices) /\ chan[s] # <<>>
    BY <1>1, <1>7 DEF TypeOK, OnMessage
  <2>2. /\ \A x \in Sockets : chan'[x] = IF x = s THEN Tail(chan[s]) ELSE chan[x]
        /\ notifications' = Listed(notifications, n) /\ published' = published
        /\ ended' = IF n.type = "call_ended" THEN ended \cup {n.call} ELSE ended
    BY <1>1, <1>7 DEF OnMessage, TypeOK
  <2>3. n \in Notices /\ n \in published
    BY <2>1, Shorter DEF Announced
  <2> HIDE DEF n
  <2>4. \A x \in Sockets : \A i \in 1..Len(chan'[x]) : chan'[x][i] \in published
    <3> SUFFICES ASSUME NEW x \in Sockets, NEW i \in 1..Len(chan'[x])
                 PROVE  chan'[x][i] \in published
      OBVIOUS
    <3>1. CASE x = s
      <4>1. chan'[x] = Tail(chan[s]) /\ i \in 1..Len(Tail(chan[s]))
        BY <2>2, <3>1
      <4>2. chan'[x][i] = chan[s][i + 1] /\ i + 1 \in 1..Len(chan[s])
        BY <2>1, <4>1, Shorter
      <4> QED
        BY <4>2 DEF Announced
    <3>2. CASE x # s
      <4>1. chan'[x] = chan[x]
        BY <2>2, <3>2
      <4> QED
        BY <4>1 DEF Announced
    <3> QED
      BY <3>1, <3>2
  <2>5. \A i \in 1..Len(notifications') : notifications'[i] \in published
    <3> SUFFICES ASSUME NEW i \in 1..Len(notifications')
                 PROVE  notifications'[i] \in published
      OBVIOUS
    <3>1. /\ notifications'[i] = (IF i = 1 THEN n ELSE notifications[i - 1])
          /\ Len(notifications') <= Len(notifications) + 1
      BY <1>1, <2>2, <2>3, ListedIs DEF TypeOK
    <3>2. i # 1 => i - 1 \in 1..Len(notifications)
      <4>1. notifications \in Seq(Notices) /\ Len(notifications) <= MaxNotifications
        BY <1>1 DEF TypeOK
      <4>2. notifications' \in Seq(Notices)
        BY <2>2, <2>3, <4>1, ListedIs
      <4>3. Len(notifications) \in Nat /\ Len(notifications') \in Nat
        BY <4>1, <4>2
      <4> QED
        BY <3>1, <4>3
    <3> QED
      BY <2>3, <3>1, <3>2 DEF Announced
  <2>6. \A c \in ended' : [type |-> "call_ended", call |-> c] \in published
    <3>1. n.type = "call_ended" => n = [type |-> "call_ended", call |-> n.call]
      BY <2>3 DEF Notices
    <3> QED
      BY <2>2, <2>3, <3>1 DEF Announced
  <2> QED
    BY <2>2, <2>4, <2>5, <2>6 DEF Announced
<1>8. ASSUME NEW n \in Notices, Publish(n)
      PROVE  Announced'
  <2>1. /\ published' = published \cup {n} /\ UNCHANGED <<notifications, ended>>
        /\ n.type # "incoming_call" => Ring(n) \in published
    BY <1>8 DEF Publish, page, Ring
  <2>2. \A x \in Sockets : chan'[x] = IF x \in sub THEN Append(chan[x], n) ELSE chan[x]
    BY <1>8 DEF Publish
  <2>3. \A x \in Sockets : \A i \in 1..Len(chan'[x]) : chan'[x][i] \in published'
    <3> SUFFICES ASSUME NEW x \in Sockets, NEW i \in 1..Len(chan'[x])
                 PROVE  chan'[x][i] \in published'
      OBVIOUS
    <3>1. chan[x] \in Seq(Notices)
      BY <1>1 DEF TypeOK
    <3>2. CASE x \in sub
      <4>1. chan'[x] = Append(chan[x], n) /\ i \in 1..Len(Append(chan[x], n))
        BY <2>2, <3>2
      <4>2. CASE i \in 1..Len(chan[x])
        <5>1. chan'[x][i] = chan[x][i]
          BY <3>1, <4>1, <4>2, Longer
        <5> QED
          BY <2>1, <4>2, <5>1 DEF Announced
      <4>3. CASE i \notin 1..Len(chan[x])
        BY <2>1, <3>1, <4>1, <4>3, Longer
      <4> QED
        BY <4>2, <4>3
    <3>3. CASE x \notin sub
      BY <2>1, <2>2, <3>3 DEF Announced
    <3> QED
      BY <3>2, <3>3
  <2> QED
    BY <2>1, <2>3 DEF Announced
<1> QED
  BY <1>2, <1>3, <1>4, <1>5, <1>6, <1>7, <1>8, OthersAreSilent

(* A notice that is published is new to every channel and to the page.     *)
LEMMA OrderlyPublish ==
  ASSUME Sound, Announced, Orderly, NEW n \in Notices, Publish(n)
  PROVE  Orderly'
<1>1. TypeOK
  BY DEF Sound
<1>2. /\ n \notin published /\ UNCHANGED <<notifications, ended, panel>>
      /\ n.type # "incoming_call" => Ring(n) \in published
  BY DEF Publish, page, Ring
<1>3. \A x \in Sockets : chan'[x] = IF x \in sub THEN Append(chan[x], n) ELSE chan[x]
  BY DEF Publish
<1>4. ASSUME NEW x \in Sockets, NEW i \in 1..Len(chan'[x])
      PROVE  \/ i \in 1..Len(chan[x]) /\ chan'[x][i] = chan[x][i]
             \/ i = Len(chan[x]) + 1 /\ chan'[x][i] = n /\ i \notin 1..Len(chan[x])
  <2>1. chan[x] \in Seq(Notices)
    BY <1>1 DEF TypeOK
  <2>2. CASE x \in sub
    <3>1. chan'[x] = Append(chan[x], n) /\ i \in 1..Len(Append(chan[x], n))
      BY <1>3, <1>4, <2>2
    <3> QED
      BY <2>1, <3>1, Longer
  <2>3. CASE x \notin sub
    BY <1>3, <1>4, <2>3
  <2> QED
    BY <2>2, <2>3
<1>5. \A x \in Sockets : Len(chan[x]) \in Nat /\ n \notin {chan[x][i] : i \in 1..Len(chan[x])}
  BY <1>1, <1>2 DEF TypeOK, Announced
<1>6. \A x \in Sockets : \A i, j \in 1..Len(chan'[x]) : chan'[x][i] = chan'[x][j] => i = j
  <2> SUFFICES ASSUME NEW x \in Sockets, NEW i \in 1..Len(chan'[x]), NEW j \in 1..Len(chan'[x]),
                      chan'[x][i] = chan'[x][j]
               PROVE  i = j
    OBVIOUS
  <2> QED
    BY <1>4, <1>5 DEF Orderly
<1>7. \A x \in Sockets : \A i \in 1..Len(chan'[x]) : \A j \in 1..Len(notifications) :
        chan'[x][i] # notifications[j]
  BY <1>2, <1>4 DEF Orderly, Announced
<1>8. ASSUME NEW x \in Sockets, NEW i \in 1..Len(chan'[x]), NEW j \in 1..Len(chan'[x]),
             i < j, chan'[x][j].type = "incoming_call",
             chan'[x][i].type = "call_ended", chan'[x][i].call = chan'[x][j].call
      PROVE  FALSE
  <2>1. i \in 1..Len(chan[x]) /\ chan'[x][i] = chan[x][i]
    BY <1>4, <1>5, <1>8
  <2>2. CASE j \in 1..Len(chan[x]) /\ chan'[x][j] = chan[x][j]
    BY <1>8, <2>1, <2>2 DEF Orderly
  <2>3. CASE chan'[x][j] = n
    <3>1. chan[x][i] \in published /\ chan[x][i] \in Notices
      BY <1>1, <2>1 DEF Announced, TypeOK
    <3>2. Ring(chan[x][i]) \in published
      BY <1>8, <2>1, <3>1 DEF Announced
    <3>3. Ring(chan[x][i]) = n
      BY <1>8, <2>1, <2>3, <3>1 DEF Ring, Notices
    <3> QED
      BY <1>2, <3>2, <3>3
  <2> QED
    BY <1>4, <1>8, <2>2, <2>3
<1>9. ASSUME NEW x \in Sockets, NEW i \in 1..Len(chan'[x]),
             chan'[x][i].type = "incoming_call", chan'[x][i].call \in ended
      PROVE  FALSE
  <2>1. CASE i \in 1..Len(chan[x]) /\ chan'[x][i] = chan[x][i]
    BY <1>9, <2>1 DEF Orderly
  <2>2. CASE chan'[x][i] = n
    <3> DEFINE e == [type |-> "call_ended", call |-> n.call]
    <3>1. e \in published /\ e \in Notices /\ e.type = "call_ended" /\ e.call = n.call
      BY <1>1, <1>9, <2>2 DEF Announced, TypeOK, Notices, Kinds
    <3> HIDE DEF e
    <3>2. Ring(e) \in published
      BY <3>1 DEF Announced
    <3>3. Ring(e) = n
      BY <1>9, <2>2, <3>1 DEF Ring, Notices
    <3> QED
      BY <1>2, <3>2, <3>3
  <2> QED
    BY <1>4, <1>9, <2>1, <2>2
<1>10. IsInjective(notifications') /\ panel'.ring \notin ended'
  BY <1>2 DEF Orderly
<1> QED
  BY <1>2, <1>6, <1>7, <1>8, <1>9, <1>10 DEF Orderly

(* The one open socket hands over the head of its channel.                 *)
LEMMA OrderlyMessage ==
  ASSUME Sound, Forwarded, Orderly, ~strict, NEW s \in Sockets, OnMessage(s)
  PROVE  Orderly'
<1> DEFINE n == Head(chan[s])
           q == chan[s]
<1>1. TypeOK
  BY DEF Sound
<1>2. q \in Seq(Notices) /\ q # <<>> /\ sock[s].st = "open"
  BY <1>1 DEF TypeOK, OnMessage
<1>3. /\ \A x \in Sockets : chan'[x] = IF x = s THEN Tail(q) ELSE chan[x]
      /\ notifications' = Listed(notifications, n) /\ panel' = Panel(panel, n)
      /\ ended' = IF n.type = "call_ended" THEN ended \cup {n.call} ELSE ended
  BY <1>1 DEF OnMessage, TypeOK
<1>4. \A x \in Sockets \ {s} : chan[x] = <<>>
  BY <1>2, OnlyOne DEF Forwarded
<1>5. n = q[1] /\ 1 \in 1..Len(q) /\ n \in Notices
  BY <1>2, Shorter
<1>6. ASSUME NEW x \in Sockets, NEW i \in 1..Len(chan'[x])
      PROVE  /\ x = s /\ i \in Nat /\ i + 1 \in 1..Len(q)
             /\ chan'[x][i] = q[i + 1] /\ 1 < i + 1
  <2>1. x = s
    <3>1. Len(<<>>) = 0 /\ 1..0 = {}
      OBVIOUS
    <3> QED
      BY <1>3, <1>4, <1>6, <3>1
  <2>2. chan'[x] = Tail(q) /\ i \in 1..Len(Tail(q))
    BY <1>3, <1>6, <2>1
  <2> HIDE DEF q
  <2>3. i \in Nat /\ i + 1 \in 1..Len(q) /\ Tail(q)[i] = q[i + 1] /\ i + 1 # 1
    BY <1>2, <2>2, Shorter
  <2> QED
    BY <2>1, <2>2, <2>3
<1>7. /\ \A i, j \in 1..Len(q) : q[i] = q[j] => i = j
      /\ \A i \in 1..Len(q) : \A j \in 1..Len(notifications) : q[i] # notifications[j]
      /\ \A i, j \in 1..Len(q) :
           i < j /\ q[j].type = "incoming_call" =>
             ~(q[i].type = "call_ended" /\ q[i].call = q[j].call)
      /\ \A i \in 1..Len(q) : q[i].type = "incoming_call" => q[i].call \notin ended
  BY DEF Orderly
<1>8. /\ Listed(notifications, n) \in Seq(Notices)
      /\ Len(Listed(notifications, n)) \in Nat /\ Len(notifications) \in Nat
      /\ \A i \in 1..Len(Listed(notifications, n)) :
           /\ Listed(notifications, n)[i] = IF i = 1 THEN n ELSE notifications[i - 1]
           /\ i # 1 => i - 1 \in 1..Len(notifications)
  <2>1. notifications \in Seq(Notices) /\ Len(notifications) <= MaxNotifications
    BY <1>1 DEF TypeOK
  <2> HIDE DEF n
  <2>2. /\ Listed(notifications, n) \in Seq(Notices)
        /\ Len(Listed(notifications, n)) <= Len(notifications) + 1
        /\ \A i \in 1..Len(Listed(notifications, n)) :
             Listed(notifications, n)[i] = IF i = 1 THEN n ELSE notifications[i - 1]
    BY <1>5, <2>1, ListedIs
  <2>3. Len(Listed(notifications, n)) \in Nat /\ Len(notifications) \in Nat
    BY <2>1, <2>2
  <2> QED
    BY <2>2, <2>3
<1> HIDE DEF n, q
<1>9. IsInjective(notifications')
  <2>1. DOMAIN notifications' = 1..Len(notifications') /\ DOMAIN notifications = 1..Len(notifications)
    BY <1>1, <1>3, <1>8 DEF TypeOK
  <2>2. \A i, j \in 1..Len(notifications) : notifications[i] = notifications[j] => i = j
    BY <2>1 DEF Orderly, IsInjective
  <2> SUFFICES ASSUME NEW i \in 1..Len(notifications'), NEW j \in 1..Len(notifications'),
                      notifications'[i] = notifications'[j]
               PROVE  i = j
    BY <2>1 DEF IsInjective
  <2>3. /\ notifications'[i] = (IF i = 1 THEN n ELSE notifications[i - 1])
        /\ notifications'[j] = (IF j = 1 THEN n ELSE notifications[j - 1])
        /\ i # 1 => i - 1 \in 1..Len(notifications)
        /\ j # 1 => j - 1 \in 1..Len(notifications)
    BY <1>3, <1>8
  <2>4. CASE i = 1 \/ j = 1
    BY <1>5, <1>7, <2>3, <2>4
  <2>5. CASE i # 1 /\ j # 1
    <3>1. i - 1 = j - 1
      BY <2>2, <2>3, <2>5
    <3>2. i \in Nat /\ j \in Nat
      BY <1>3, <1>8
    <3> QED
      BY <3>1, <3>2
  <2> QED
    BY <2>4, <2>5
<1>10. \A x \in Sockets : \A i, j \in 1..Len(chan'[x]) : chan'[x][i] = chan'[x][j] => i = j
  <2> SUFFICES ASSUME NEW x \in Sockets, NEW i \in 1..Len(chan'[x]), NEW j \in 1..Len(chan'[x]),
                      chan'[x][i] = chan'[x][j]
               PROVE  i = j
    OBVIOUS
  <2>1. i + 1 = j + 1 /\ i \in Nat /\ j \in Nat
    BY <1>6, <1>7
  <2> QED
    BY <2>1
<1>11. ASSUME NEW x \in Sockets, NEW i \in 1..Len(chan'[x]), NEW j \in 1..Len(notifications'),
              chan'[x][i] = notifications'[j]
       PROVE  FALSE
  <2>1. /\ notifications'[j] = (IF j = 1 THEN n ELSE notifications[j - 1])
        /\ j # 1 => j - 1 \in 1..Len(notifications)
    BY <1>3, <1>8
  <2>2. i + 1 \in 1..Len(q) /\ chan'[x][i] = q[i + 1] /\ i + 1 # 1
    BY <1>6
  <2>3. CASE j = 1
    BY <1>5, <1>7, <1>11, <2>1, <2>2, <2>3
  <2>4. CASE j # 1
    BY <1>7, <1>11, <2>1, <2>2, <2>4
  <2> QED
    BY <2>3, <2>4
<1>12. ASSUME NEW x \in Sockets, NEW i \in 1..Len(chan'[x]), NEW j \in 1..Len(chan'[x]),
              i < j, chan'[x][j].type = "incoming_call",
              chan'[x][i].type = "call_ended", chan'[x][i].call = chan'[x][j].call
       PROVE  FALSE
  <2>1. /\ i + 1 \in 1..Len(q) /\ chan'[x][i] = q[i + 1] /\ i \in Nat
        /\ j + 1 \in 1..Len(q) /\ chan'[x][j] = q[j + 1] /\ j \in Nat
    BY <1>6
  <2>2. i + 1 < j + 1
    BY <1>12, <2>1
  <2> QED
    BY <1>7, <1>12, <2>1, <2>2
<1>13. ASSUME NEW x \in Sockets, NEW i \in 1..Len(chan'[x]),
              chan'[x][i].type = "incoming_call", chan'[x][i].call \in ended'
       PROVE  FALSE
  <2>1. i + 1 \in 1..Len(q) /\ chan'[x][i] = q[i + 1] /\ 1 < i + 1
    BY <1>6
  <2>2. q[i + 1].call \notin ended
    BY <1>7, <1>13, <2>1
  <2>3. n.type = "call_ended" /\ n.call = q[i + 1].call
    BY <1>3, <1>13, <2>1, <2>2
  <2> QED
    BY <1>5, <1>7, <1>13, <2>1, <2>3
<1>14. panel'.ring \notin ended'
  <2>0. /\ None \notin ended /\ None \notin Calls /\ panel.ring \notin ended
        /\ panel \in [ring : Calls \cup {None}, data : Calls \cup {None}]
    BY <1>1, SocketAssumption DEF TypeOK, SocketAssumption, Orderly
  <2>1. n.call \in Calls /\ n.type \in Kinds
    BY <1>5 DEF Notices
  <2>2. CASE n.type = "incoming_call"
    <3>1. panel'.ring = n.call /\ ended' = ended
      BY <1>3, <2>2 DEF Panel
    <3> QED
      BY <1>5, <1>7, <2>2, <3>1
  <2>3. CASE n.type = "call_updated"
    <3>1. panel'.ring = panel.ring /\ ended' = ended
      BY <1>3, <2>0, <2>3 DEF Panel
    <3> QED
      BY <2>0, <3>1
  <2>4. CASE n.type = "call_ended"
    <3>1. panel'.ring = None /\ ended' = ended \cup {n.call}
      BY <1>3, <2>4 DEF Panel, NoPanel
    <3> QED
      BY <2>0, <2>1, <3>1
  <2> QED
    BY <2>1, <2>2, <2>3, <2>4 DEF Kinds
<1> QED
  BY <1>9, <1>10, <1>11, <1>12, <1>13, <1>14 DEF Orderly

LEMMA OrderlyStep ==
  ASSUME Sound, Forwarded, Announced, Orderly, ~strict, [Next]_vars
  PROVE  Orderly'
<1>1. TypeOK
  BY DEF Sound
<1>2. CASE Silent
  BY <1>2 DEF Silent, Orderly
<1>3. CASE UNCHANGED vars
  BY <1>2, <1>3 DEF vars, page, Silent
<1>4. CASE Unmount
  BY <1>4 DEF Unmount, Orderly, IsInjective
<1>5. CASE Dismiss
  <2>1. NoPanel.ring \notin ended
    BY <1>1, SocketAssumption DEF NoPanel, TypeOK, SocketAssumption
  <2> QED
    BY <1>5, <2>1 DEF Dismiss, Orderly
<1>6. ASSUME NEW s \in Sockets, Drop(s)
      PROVE  Orderly'
  <2>1. \A x \in Sockets : chan'[x] = IF x = s THEN <<>> ELSE chan[x]
    BY <1>1, <1>6 DEF Drop, TypeOK
  <2>2. UNCHANGED <<notifications, ended, panel>>
    BY <1>6 DEF Drop, page
  <2>3. Len(<<>>) = 0 /\ 1..0 = {}
    OBVIOUS
  <2>4. \A x \in Sockets : chan'[x] = chan[x] \/ 1..Len(chan'[x]) = {}
    BY <2>1, <2>3
  <2>5. /\ \A x \in Sockets : \A i, j \in 1..Len(chan'[x]) : chan'[x][i] = chan'[x][j] => i = j
        /\ \A x \in Sockets : \A i \in 1..Len(chan'[x]) : \A j \in 1..Len(notifications) :
             chan'[x][i] # notifications[j]
    BY <2>4 DEF Orderly
  <2>6. \A x \in Sockets : \A i, j \in 1..Len(chan'[x]) :
          i < j /\ chan'[x][j].type = "incoming_call" =>
            ~(chan'[x][i].type = "call_ended" /\ chan'[x][i].call = chan'[x][j].call)
    BY <2>4 DEF Orderly
  <2>7. \A x \in Sockets : \A i \in 1..Len(chan'[x]) :
          chan'[x][i].type = "incoming_call" => chan'[x][i].call \notin ended
    BY <2>4 DEF Orderly
  <2> QED
    BY <2>2, <2>5, <2>6, <2>7 DEF Orderly
<1> QED
  BY <1>2, <1>3, <1>4, <1>5, <1>6, OrderlyMessage, OrderlyPublish, OthersAreSilent

LEMMA ChannelsInit == Init => Channels
<1> SUFFICES ASSUME Init
             PROVE  Channels
  OBVIOUS
<1>1. Len(<<>>) = 0 /\ 1..0 = {}
  OBVIOUS
<1>2. /\ \A s \in Sockets : chan[s] = <<>> /\ s \notin sub
      /\ notifications = <<>> /\ ended = {} /\ published = {}
  BY DEF Init
<1>3. Forwarded /\ Announced
  BY <1>1, <1>2 DEF Forwarded, Announced
<1>4. Orderly
  BY <1>1, <1>2 DEF Orderly, IsInjective
<1> QED
  BY <1>3, <1>4 DEF Channels

LEMMA ChannelsStep == Sound /\ Channels /\ [Next]_vars => Channels'
<1> SUFFICES ASSUME Sound, Channels, [Next]_vars
             PROVE  Channels'
  OBVIOUS
<1>1. strict' = strict
  BY DEF Next, vars, build, Mount, Unmount, MarkAllRead, Dismiss, Provider, OnOpen, OnClose,
     Retry, OnMessage, Refuse, Subscribe, Drop, Publish, Expire, Renew, OtherTabClears,
     SignIn
<1> QED
  BY <1>1, ForwardedStep, AnnouncedStep, OrderlyStep DEF Channels

(* However often the page reconnects, WebSocketContext lists and counts a   *)
(* notification of a production build once.                                 *)
THEOREM NothingShownTwice == Spec => []ShownOnce
<1>1. Channels => ShownOnce
  BY DEF Channels, Orderly, ShownOnce
<1> QED
  BY <1>1, SoundInit, SoundStep, ChannelsInit, ChannelsStep, PTL DEF Spec

(* IncomingCallModal does not ring again for a call it was told is over:    *)
(* what is published after the end of a call is not its announcement, and   *)
(* the one open channel keeps the order.                                    *)
THEOREM EndedCallsStayClosed == Spec => []EndedStaysClosed
<1>1. Channels => EndedStaysClosed
  BY DEF Channels, Orderly, EndedStaysClosed
<1> QED
  BY <1>1, SoundInit, SoundStep, ChannelsInit, ChannelsStep, PTL DEF Spec
=============================================================================
