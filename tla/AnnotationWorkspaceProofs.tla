---------------------- MODULE AnnotationWorkspaceProofs ----------------------
(***************************************************************************)
(* For any images, shapes, requests in flight and history: a shape stays   *)
(* on its image, what was drawn is not lost and what was deleted does not  *)
(* return, apart from the races that AnnotationWorkspace names.            *)
(***************************************************************************)
EXTENDS AnnotationWorkspace, FiniteSetTheorems, TLAPS

-----------------------------------------------------------------------------
(* Documents, and the changes the handlers make to their copies.           *)
LEMMA DocumentIs ==
  ASSUME NEW d
  PROVE  d \in Documents <=> DOMAIN d \in SUBSET Images /\ d \in [DOMAIN d -> Data]
<1>1. ASSUME d \in Documents
      PROVE  DOMAIN d \in SUBSET Images /\ d \in [DOMAIN d -> Data]
  BY <1>1 DEF Documents
<1>2. ASSUME DOMAIN d \in SUBSET Images, d \in [DOMAIN d -> Data]
      PROVE  d \in Documents
  BY <1>2 DEF Documents
<1> QED
  BY <1>1, <1>2

LEMMA NoCopy == <<>> \in Documents /\ DOMAIN <<>> = {}
<1>1. DOMAIN <<>> = {} /\ <<>> \in [{} -> Data]
  OBVIOUS
<1> QED
  BY <1>1, DocumentIs

LEMMA DataFields ==
  ASSUME NEW d \in Documents, NEW i \in DOMAIN d
  PROVE  i \in Images /\ d[i] \in Data /\ d[i].anns \in Annotations /\ d[i].status \in Statuses
BY DocumentIs DEF Data

HasPut(p, d, i, a) ==
  /\ p \in Documents /\ DOMAIN p = DOMAIN d \cup {i} /\ p[i].anns = a
  /\ \A x \in DOMAIN d \ {i} : p[x] = d[x]

LEMMA PutIs ==
  ASSUME NEW d \in Documents, NEW i \in Images, NEW a \in Annotations, NEW t \in Statuses
  PROVE  HasPut(Put(d, i, a, t), d, i, a)
<1> DEFINE p == Put(d, i, a, t)
<1>1. /\ DOMAIN p = DOMAIN d \cup {i} /\ p \in [DOMAIN p -> Data]
      /\ p[i] = [anns |-> a, status |-> t]
      /\ \A x \in DOMAIN d \ {i} : p[x] = d[x]
  BY DocumentIs DEF Put, Data
<1>2. DOMAIN p \in SUBSET Images
  BY <1>1, DocumentIs
<1> HIDE DEF p
<1>3. p \in Documents
  BY <1>1, <1>2, DocumentIs
<1>4. HasPut(p, d, i, a)
  BY <1>1, <1>3 DEF HasPut
<1> QED
  BY <1>4 DEF p

LEMMA ApprovedIs ==
  ASSUME NEW a \in Annotations
  PROVE  Approved(a) \in Annotations /\ Approved(a) \cap Shapes = a \cap Shapes
BY AnnotationAssumption DEF Approved, Annotations, AnnotationAssumption

LEMMA DeletedIs ==
  ASSUME NEW d \in Documents, NEW i
  PROVE  LET p == [x \in DOMAIN d \ {i} |-> d[x]] IN
         p \in Documents /\ DOMAIN p = DOMAIN d \ {i} /\ \A x \in DOMAIN p : p[x] = d[x]
<1> DEFINE p == [x \in DOMAIN d \ {i} |-> d[x]]
<1>1. /\ DOMAIN p = DOMAIN d \ {i} /\ p \in [DOMAIN p -> Data]
      /\ \A x \in DOMAIN p : p[x] = d[x] /\ DOMAIN p \in SUBSET Images
  BY DocumentIs
<1> HIDE DEF p
<1>2. p \in Documents
  BY <1>1, DocumentIs
<1> QED
  BY <1>1, <1>2 DEF p

(* A prediction leaves the images of the user alone.                       *)
LEMMA PredictedIs ==
  ASSUME NEW d \in Documents, NEW p \in Predicted(d)
  PROVE  /\ p \in Documents /\ DOMAIN p = DOMAIN d
         /\ \A x \in DOMAIN d : p[x].anns \cap Shapes = d[x].anns \cap Shapes
<1>1. PICK found \in SUBSET DOMAIN d, unread \in SUBSET DOMAIN d :
        p = [x \in DOMAIN d |->
              IF x \in ByHand(d) \cup unread THEN d[x]
              ELSE IF x \in found THEN [anns |-> {Guess}, status |-> "predicted"]
              ELSE [anns |-> {}, status |-> "unannotated"]]
  BY DEF Predicted
<1>2. /\ [anns |-> {Guess}, status |-> "predicted"] \in Data
      /\ [anns |-> {}, status |-> "unannotated"] \in Data
      /\ Guess \notin Shapes
  BY AnnotationAssumption DEF Data, Annotations, Statuses, AnnotationAssumption
<1>3. DOMAIN p = DOMAIN d /\ p \in [DOMAIN p -> Data]
  BY <1>1, <1>2, DocumentIs
<1>4. p \in Documents
  BY <1>3, DocumentIs
<1>5. ASSUME NEW x \in DOMAIN d
      PROVE  p[x].anns \cap Shapes = d[x].anns \cap Shapes
  <2>1. CASE x \in ByHand(d) \cup unread
    BY <1>1, <2>1
  <2>2. CASE x \notin ByHand(d) \cup unread
    <3>1. d[x].anns \cap Shapes = {}
      BY <2>2 DEF ByHand
    <3>2. p[x].anns \in {{Guess}, {}}
      BY <1>1, <2>2
    <3> QED
      BY <1>2, <3>1, <3>2
  <2> QED
    BY <2>1, <2>2
<1> QED
  BY <1>3, <1>4, <1>5

-----------------------------------------------------------------------------
(* The page's list: in the order of a document, or without one image.      *)
LEMMA OrderIs ==
  ASSUME NEW d \in Documents
  PROVE  /\ Cardinality(DOMAIN d) \in Nat
         /\ SetToSeq(DOMAIN d) \in [1..Cardinality(DOMAIN d) -> DOMAIN d]
<1>1. IsFiniteSet(DOMAIN d)
  BY DocumentIs, FS_Subset, AnnotationAssumption DEF AnnotationAssumption
<1>2. Cardinality(DOMAIN d) \in Nat /\ ExistsBijection(1..Cardinality(DOMAIN d), DOMAIN d)
  BY <1>1, FS_CardinalityType
<1>3. \E f \in [1..Cardinality(DOMAIN d) -> DOMAIN d] : IsInjective(f)
  BY <1>2 DEF ExistsBijection, Bijection, Injection, IsInjective
<1> QED
  BY <1>2, <1>3 DEF SetToSeq

LEMMA ListIs ==
  ASSUME NEW d \in Documents
  PROVE  /\ List(d) \in Seq(Row) /\ Len(List(d)) = Cardinality(DOMAIN d)
         /\ \A k \in 1..Len(List(d)) :
              /\ List(d)[k].id \in DOMAIN d
              /\ List(d)[k].anns = d[List(d)[k].id].anns
<1> DEFINE n == Cardinality(DOMAIN d)
           order == SetToSeq(DOMAIN d)
           Entry(k) == [id |-> order[k], anns |-> d[order[k]].anns,
                        status |-> d[order[k]].status]
<1>1. n \in Nat /\ order \in [1..n -> DOMAIN d]
  BY OrderIs
<1>2. /\ List(d) = [k \in 1..n |-> List(d)[k]]
      /\ \A k \in 1..n : List(d)[k] = Entry(k)
  BY ONLY DEF List
<1> HIDE DEF n, order
<1>3. \A k \in 1..n : /\ order[k] \in DOMAIN d /\ Entry(k) \in Row
                       /\ Entry(k).id = order[k] /\ Entry(k).anns = d[order[k]].anns
  BY <1>1, DataFields DEF Row
<1> HIDE DEF Entry
<1>4. /\ \A k \in 1..n : List(d)[k] \in Row
      /\ \A k \in 1..n : List(d)[k].id \in DOMAIN d /\ List(d)[k].anns = d[List(d)[k].id].anns
  BY <1>2, <1>3
<1>5. List(d) \in [1..n -> Row]
  BY <1>2, <1>4
<1>6. List(d) \in Seq(Row) /\ Len(List(d)) = n
  BY <1>1, <1>5
<1> QED
  BY <1>4, <1>6 DEF n

LEMMA WithoutIs ==
  ASSUME NEW list \in Seq(Row), NEW i
  PROVE  /\ Without(list, i) \in Seq(Row)
         /\ \A k \in 1..Len(Without(list, i)) :
              \E j \in 1..Len(list) : Without(list, i)[k] = list[j]
<1>1. CASE \E p \in DOMAIN list : list[p].id = i
  <2> DEFINE p == CHOOSE q \in DOMAIN list : list[q].id = i
  <2>1. p \in DOMAIN list
    BY <1>1
  <2>2. Without(list, i) = SubSeq(list, 1, p - 1) \o SubSeq(list, p + 1, Len(list))
    BY <1>1 DEF Without, RemoveAt
  <2> HIDE DEF p
  <2>3. p \in 1..Len(list) /\ Len(list) \in Nat
    BY <2>1
  <2>4. /\ SubSeq(list, 1, p - 1) \in Seq(Row) /\ Len(SubSeq(list, 1, p - 1)) = p - 1
        /\ \A k \in 1..(p - 1) : SubSeq(list, 1, p - 1)[k] = list[k] /\ k \in 1..Len(list)
    BY <2>3
  <2>5. /\ SubSeq(list, p + 1, Len(list)) \in Seq(Row)
        /\ Len(SubSeq(list, p + 1, Len(list))) = Len(list) - p
        /\ \A k \in 1..(Len(list) - p) :
             SubSeq(list, p + 1, Len(list))[k] = list[p + k] /\ p + k \in 1..Len(list)
    BY <2>3
  <2> DEFINE u == SubSeq(list, 1, p - 1)
             v == SubSeq(list, p + 1, Len(list))
  <2>6. u \in Seq(Row) /\ v \in Seq(Row) /\ Len(u) = p - 1 /\ Len(v) = Len(list) - p
    BY <2>4, <2>5
  <2>7. /\ \A k \in 1..Len(u) : \E j \in 1..Len(list) : u[k] = list[j]
        /\ \A k \in 1..Len(v) : \E j \in 1..Len(list) : v[k] = list[j]
    BY <2>4, <2>5
  <2>8. Without(list, i) = u \o v
    BY <2>2
  <2> HIDE DEF u, v
  <2>9. u \o v \in Seq(Row)
    BY <2>6
  <2>10. ASSUME NEW k \in 1..Len(u \o v)
         PROVE  \E j \in 1..Len(list) : (u \o v)[k] = list[j]
    <3>1. CASE k \in 1..Len(u)
      <4>1. (u \o v)[k] = u[k]
        BY <2>6, <3>1
      <4> QED
        BY <2>7, <3>1, <4>1
    <3>2. CASE k \notin 1..Len(u)
      <4>1. (u \o v)[k] = v[k - Len(u)] /\ k - Len(u) \in 1..Len(v)
        BY <2>6, <3>2
      <4> QED
        BY <2>7, <4>1
    <3> QED
      BY <3>1, <3>2
  <2> QED
    BY <2>8, <2>9, <2>10
<1>2. CASE ~\E p \in DOMAIN list : list[p].id = i
  BY <1>2 DEF Without
<1> QED
  BY <1>1, <1>2

LEMMA RowFields ==
  ASSUME NEW list \in Seq(Row), NEW k \in 1..Len(list)
  PROVE  /\ list[k] \in Row /\ list[k].id \in Images /\ list[k].anns \in Annotations
         /\ list[k].id # None
<1>1. list[k] \in Row
  OBVIOUS
<1>2. list[k].id \in Images /\ list[k].anns \in Annotations
  BY <1>1 DEF Row
<1> QED
  BY <1>1, <1>2, AnnotationAssumption DEF AnnotationAssumption

LEMMA AtIs ==
  ASSUME NEW list \in Seq(Row), NEW i \in Nat
  PROVE  /\ At(list, i) \in Images \cup {None}
         /\ At(list, i) # None => i + 1 \in 1..Len(list) /\ At(list, i) = list[i + 1].id
         /\ i < Len(list) => At(list, i) # None
<1>1. CASE i < Len(list)
  <2>1. i + 1 \in 1..Len(list)
    BY <1>1
  <2> QED
    BY <1>1, <2>1, RowFields DEF At
<1>2. CASE ~(i < Len(list))
  BY <1>2 DEF At
<1> QED
  BY <1>1, <1>2

(* The canvas that is shown is the one there was, none, or a new one.      *)
LEMMA ShownIs ==
  ASSUME NEW list \in Seq(Row), NEW i \in Nat, canvas \in Inhabited
  PROVE  /\ Shown(list, i) \in Inhabited /\ Shown(list, i).id = At(list, i)
         /\ \/ Shown(list, i) = canvas
            \/ Shown(list, i) = Empty /\ At(list, i) = None
            \/ /\ i + 1 \in 1..Len(list) /\ At(list, i) = list[i + 1].id
               /\ Shown(list, i) = Opened(list[i + 1])
<1>1. CASE At(list, i) = canvas.id
  BY <1>1 DEF Shown
<1>2. CASE At(list, i) # canvas.id /\ At(list, i) = None
  BY <1>2 DEF Shown, Empty, Inhabited, Annotations
<1>3. CASE At(list, i) # canvas.id /\ At(list, i) # None
  <2>1. i + 1 \in 1..Len(list) /\ At(list, i) = list[i + 1].id
    BY <1>3, AtIs
  <2>2. list[i + 1].id \in Images /\ list[i + 1].anns \in Annotations
    BY <2>1, RowFields
  <2>3. Opened(list[i + 1]) \in Inhabited /\ Opened(list[i + 1]).id = list[i + 1].id
    BY <2>2 DEF Opened, Inhabited
  <2>4. Shown(list, i) = Opened(list[i + 1])
    BY <1>3 DEF Shown
  <2> QED
    BY <2>1, <2>3, <2>4
<1> QED
  BY <1>1, <1>2, <1>3

LEMMA OpenedFields ==
  ASSUME NEW row
  PROVE  /\ Opened(row).id = row.id /\ Opened(row).anns = row.anns
         /\ Opened(row).hist = <<row.anns>> /\ Opened(row).at = 1
BY DEF Opened

LEMMA EmptyFields ==
  Empty.id = None /\ Empty.anns = {} /\ Empty.hist = <<>> /\ Empty.at = 0
BY DEF Empty

-----------------------------------------------------------------------------
(* The requests.  What the handlers rely on: a save, an approval and a     *)
(* deletion name an image, and the first two hold a copy that has it.      *)
Formed(q) ==
  /\ q.kind \in {"save", "approve", "delete"} => q.img \in Images
  /\ q.kind = "predict" => q.st # "read"
  /\ q.kind \in {"save", "approve"} /\ q.st = "read" => q.img \in DOMAIN q.copy

ServerTyped ==
  /\ doc \in Documents /\ calls \in [Slots -> Call \cup {Free}]
  /\ \A c \in Slots : calls[c].kind # "none" => Formed(calls[c])

(* A copy that nobody has overtaken is the document.                       *)
Kept ==
  \A c \in Slots :
    calls[c].kind # "none" /\ calls[c].st = "read" /\ calls[c].fresh => calls[c].copy = doc

LEMMA CallIs ==
  ASSUME ServerTyped, NEW c \in Slots, calls[c].kind # "none"
  PROVE  calls[c] \in Call /\ Formed(calls[c])
BY DEF ServerTyped, Free

LEMMA FreeIs == Free.kind = "none" /\ Free \notin Call
BY DEF Free, Call, Kinds

LEMMA CallFields ==
  ASSUME NEW q \in Call
  PROVE  /\ q.kind \in Kinds /\ q.kind # "none" /\ q.img \in Images \cup {None}
         /\ q.anns \in Annotations /\ q.status \in Statuses /\ q.copy \in Documents
         /\ q.st \in {"sent", "read", "answered", "failed"}
         /\ q.count \in Nat /\ q.known \in Nat
BY DEF Call, Kinds

Alike(q, r) == r \in Call /\ r.kind = q.kind /\ r.img = q.img

LEMMA CallFails ==
  ASSUME NEW q \in Call
  PROVE  LET r == [q EXCEPT !.st = "failed"] IN
         Alike(q, r) /\ r.st = "failed" /\ r.anns = q.anns
BY DEF Call, Alike

LEMMA CallReads ==
  ASSUME NEW q \in Call, NEW d \in Documents
  PROVE  LET r == [q EXCEPT !.st = "read", !.copy = d] IN
         Alike(q, r) /\ r.st = "read" /\ r.anns = q.anns /\ r.copy = d
BY DEF Call, Alike

LEMMA CallAnswers ==
  ASSUME NEW q \in Call
  PROVE  LET r == [q EXCEPT !.st = "answered", !.copy = <<>>] IN
         Alike(q, r) /\ r.st = "answered" /\ r.anns = q.anns
BY NoCopy DEF Call, Alike

LEMMA CallAnswersWith ==
  ASSUME NEW q \in Call, NEW a \in Annotations, NEW t \in Statuses
  PROVE  LET r == [q EXCEPT !.st = "answered", !.copy = <<>>, !.anns = a, !.status = t] IN
         Alike(q, r) /\ r.st = "answered" /\ r.anns = a
BY NoCopy DEF Call, Alike

LEMMA CallOvertaken ==
  ASSUME NEW q \in Call
  PROVE  LET r == [q EXCEPT !.fresh = FALSE] IN
         /\ Alike(q, r) /\ r.st = q.st /\ r.anns = q.anns /\ r.copy = q.copy
         /\ r.fresh = FALSE
BY DEF Call, Alike

LEMMA CallCounts ==
  ASSUME NEW q \in Call, NEW n \in Nat
  PROVE  LET r == [q EXCEPT !.st = "answered", !.count = n] IN
         Alike(q, r) /\ r.st = "answered" /\ r.anns = q.anns
BY DEF Call, Alike

LEMMA CountedIs ==
  ASSUME NEW list \in Seq(Row)
  PROVE  Counted(list) \in Nat
<1> DEFINE D == {i \in DOMAIN list : list[i].status \in {"predicted", "approved"}}
<1>1. D \in SUBSET (1..Len(list)) /\ Len(list) \in Nat
  OBVIOUS
<1>2. IsFiniteSet(1..Len(list))
  BY <1>1, FS_Interval
<1>3. Cardinality(D) \in Nat
  BY <1>1, <1>2, FS_Subset, FS_CardinalityType
<1> QED
  BY <1>3 DEF Counted

(* The steps of the server's side, each by what it does to the requests.   *)
Others(X) == \A x \in Slots \ X : calls'[x] = calls[x]

PollTyped == predictPoll \in BOOLEAN /\ predictTotal \in Nat /\ predictStart \in Nat

LEMMA NewCallIs ==
  ASSUME images \in Seq(Row), PollTyped, NEW k \in Kinds, NEW i \in Images \cup {None},
         NEW a \in Annotations
  PROVE  LET r == NewCall(k, i, a) IN
           r \in Call /\ r.kind = k /\ r.st = "sent" /\ r.img = i /\ r.anns = a
BY CountedIs, NoCopy DEF NewCall, Call, Statuses, PollTyped

HasSent(k, i, a) ==
  \E n \in Slots :
    /\ calls[n] = Free /\ Others({n})
    /\ calls'[n] \in Call /\ calls'[n].kind = k /\ calls'[n].st = "sent"
    /\ calls'[n].img = i /\ calls'[n].anns = a
    /\ calls' \in [Slots -> Call \cup {Free}]

LEMMA SendIs ==
  ASSUME ServerTyped, images \in Seq(Row), PollTyped, NEW k \in Kinds,
         NEW i \in Images \cup {None}, NEW a \in Annotations, Request(k, i, a)
  PROVE  HasSent(k, i, a)
<1>1. NextSlot \in Slots /\ calls[NextSlot] = Free
  BY DEF Request, NextSlot
<1>2. calls' = [calls EXCEPT ![NextSlot] = NewCall(k, i, a)]
  BY DEF Request
<1>3. /\ NewCall(k, i, a) \in Call /\ NewCall(k, i, a).kind = k
      /\ NewCall(k, i, a).st = "sent" /\ NewCall(k, i, a).img = i
      /\ NewCall(k, i, a).anns = a
  BY NewCallIs
<1>4. calls'[NextSlot] = NewCall(k, i, a) /\ Others({NextSlot})
  BY <1>1, <1>2 DEF Others, ServerTyped
<1>5. calls' \in [Slots -> Call \cup {Free}]
  BY <1>1, <1>2, <1>3 DEF ServerTyped
<1> QED
  BY <1>1, <1>3, <1>4, <1>5 DEF HasSent

LEMMA SettleIs ==
  ASSUME ServerTyped, NEW c \in Slots, Settle(c)
  PROVE  calls'[c] = Free /\ Others({c}) /\ calls' \in [Slots -> Call \cup {Free}]
BY DEF Settle, ServerTyped, Others

LEMMA ReadIs ==
  ASSUME ServerTyped, NEW c \in Slots, Read(c)
  PROVE  /\ calls[c] \in Call /\ calls[c].st = "sent" /\ calls[c].kind # "predict"
         /\ Others({c}) /\ calls' \in [Slots -> Call \cup {Free}] /\ doc' = doc
         /\ Alike(calls[c], calls'[c]) /\ calls'[c].anns = calls[c].anns
         /\ \/ calls'[c].st = "failed"
            \/ /\ calls'[c].st = "read" /\ calls'[c].copy = doc
               /\ calls[c].kind \in {"save", "approve"} => calls[c].img \in DOMAIN doc
<1> DEFINE q == calls[c]
<1>1. q \in Call /\ q.st = "sent" /\ q.kind # "predict"
  BY CallIs DEF Read, Kinds
<1>2. CASE Refuses(c)
  <2>1. calls' = [calls EXCEPT ![c] = [q EXCEPT !.st = "failed"]]
    BY <1>2 DEF Read
  <2>2. Alike(q, [q EXCEPT !.st = "failed"]) /\ [q EXCEPT !.st = "failed"].st = "failed"
        /\ [q EXCEPT !.st = "failed"].anns = q.anns
    BY <1>1, CallFails
  <2>3. calls'[c] = [q EXCEPT !.st = "failed"] /\ Others({c})
    BY <2>1 DEF Others, ServerTyped
  <2>4. calls' \in [Slots -> Call \cup {Free}]
    BY <2>1, <2>2 DEF ServerTyped, Alike
  <2> QED
    BY <1>1, <2>2, <2>3, <2>4 DEF Read
<1>3. CASE ~Refuses(c)
  <2> DEFINE r == [q EXCEPT !.st = "read", !.copy = doc]
  <2>1. calls' = [calls EXCEPT ![c] = r]
    BY <1>3 DEF Read
  <2>2. Alike(q, r) /\ r.st = "read" /\ r.copy = doc /\ r.anns = q.anns
    BY <1>1, CallReads DEF ServerTyped
  <2> HIDE DEF r
  <2>3. calls'[c] = r /\ Others({c})
    BY <2>1 DEF Others, ServerTyped
  <2>4. calls' \in [Slots -> Call \cup {Free}]
    BY <2>1, <2>2 DEF ServerTyped, Alike
  <2>5. q.kind \in {"save", "approve"} => q.img \in DOMAIN doc
    BY <1>3 DEF Refuses, Missing
  <2> QED
    BY <1>1, <2>2, <2>3, <2>4, <2>5 DEF Read
<1> QED
  BY <1>2, <1>3

LEMMA DispatchIs ==
  ASSUME ServerTyped, images \in Seq(Row), PollTyped, NEW c \in Slots, Dispatch(c)
  PROVE  /\ doc' = doc /\ calls' \in [Slots -> Call \cup {Free}]
         /\ calls'[c] \in Call /\ calls'[c].kind = "predict" /\ calls'[c].st = "answered"
         /\ \E t \in Slots \ {c} :
              /\ calls[t] = Free /\ Others({c, t})
              /\ calls'[t] \in Call /\ calls'[t].kind = "task" /\ calls'[t].st = "sent"
<1> DEFINE q == calls[c]
           n == Cardinality(DOMAIN doc \ ByHand(doc))
           r == [q EXCEPT !.st = "answered", !.count = n]
           w == NewCall("task", None, {})
<1>1. q \in Call /\ q.kind = "predict"
  BY CallIs DEF Dispatch, Is
<1>2. n \in Nat
  <2>1. IsFiniteSet(DOMAIN doc \ ByHand(doc))
    BY DocumentIs, FS_Subset, AnnotationAssumption DEF ServerTyped, AnnotationAssumption
  <2> QED
    BY <2>1, FS_CardinalityType
<1>3. PICK t \in Slots : calls[t] = Free /\ calls' = [calls EXCEPT ![c] = r, ![t] = w]
  BY DEF Dispatch
<1> HIDE DEF n
<1>4. Alike(q, r) /\ r.st = "answered"
  BY <1>1, <1>2, CallCounts
<1>5. w \in Call /\ w.kind = "task" /\ w.st = "sent"
  BY NewCallIs DEF Kinds, Annotations
<1> HIDE DEF r, w
<1>6. t # c
  BY <1>1, <1>3, FreeIs
<1>7. calls'[c] = r /\ calls'[t] = w /\ Others({c, t})
  BY <1>3, <1>6 DEF ServerTyped, Others
<1>8. calls' \in [Slots -> Call \cup {Free}]
  BY <1>3, <1>4, <1>5 DEF ServerTyped, Alike
<1>9. doc' = doc
  BY DEF Dispatch
<1> QED
  BY <1>1, <1>3, <1>4, <1>5, <1>6, <1>7, <1>8, <1>9 DEF Alike

LEMMA LoseIs ==
  ASSUME ServerTyped, NEW c \in Slots, Lose(c)
  PROVE  /\ doc' = doc /\ Others({c}) /\ calls' \in [Slots -> Call \cup {Free}]
         /\ calls[c] \in Call
         /\ \/ calls'[c] = Free /\ calls[c].kind \in {"delete", "predict", "tick"}
            \/ /\ Alike(calls[c], calls'[c]) /\ calls'[c].st = "failed"
               /\ calls'[c].anns = calls[c].anns
<1> DEFINE q == calls[c]
           r == [q EXCEPT !.st = "failed"]
<1>1. q \in Call /\ doc' = doc
  BY CallIs DEF Lose, Is, Kinds
<1>2. CASE q.kind \in {"delete", "predict", "tick"}
  BY <1>1, <1>2, SettleIs DEF Lose
<1>3. CASE q.kind \notin {"delete", "predict", "tick"}
  <2>1. calls' = [calls EXCEPT ![c] = r]
    BY <1>3 DEF Lose
  <2>2. Alike(q, r) /\ r.st = "failed" /\ r.anns = q.anns
    BY <1>1, CallFails
  <2> HIDE DEF r
  <2>3. calls'[c] = r /\ Others({c}) /\ calls' \in [Slots -> Call \cup {Free}]
    BY <2>1, <2>2 DEF ServerTyped, Alike, Others
  <2> QED
    BY <1>1, <2>2, <2>3
<1> QED
  BY <1>2, <1>3

(* A handler saves its whole copy.  Its call has the answer, and the other *)
(* copies are overtaken.                                                   *)
SavedOver(c) ==
  LET q == calls[c] IN
  /\ doc' \in Documents
  /\ q.kind = "save" =>
       /\ DOMAIN doc' = DOMAIN q.copy \cup {q.img} /\ doc'[q.img].anns = q.anns
       /\ \A x \in DOMAIN q.copy \ {q.img} : doc'[x] = q.copy[x]
  /\ q.kind # "save" =>
       /\ DOMAIN doc' \subseteq DOMAIN q.copy
       /\ \A x \in DOMAIN doc' : doc'[x].anns \cap Shapes = q.copy[x].anns \cap Shapes
  /\ q.kind \in {"save", "approve"} => q.img \in DOMAIN doc'

Answers(c) ==
  \/ calls'[c] = Free /\ calls[c].kind = "task"
  \/ /\ calls[c].kind # "task" /\ Alike(calls[c], calls'[c]) /\ calls'[c].st = "answered"
     /\ calls[c].kind \in {"save", "approve"} => calls'[c].anns = doc'[calls[c].img].anns

Overtaken(x) ==
  /\ Alike(calls[x], calls'[x]) /\ calls'[x].st = calls[x].st
  /\ calls'[x].anns = calls[x].anns /\ calls'[x].copy = calls[x].copy
  /\ calls'[x].fresh = FALSE

LEMMA SavesWhole ==
  ASSUME ServerTyped, NEW c \in Slots, Write(c)
  PROVE  SavedOver(c) /\ calls[c] \in Call /\ calls[c].kind \notin {"predict", "tick"}
<1> DEFINE q == calls[c]
           d == q.copy
           i == q.img
<1>1. q \in Call /\ Formed(q) /\ q.st = "read" /\ doc' \in Changes(c)
  BY CallIs DEF Write, Kinds
<1>2. /\ q.kind \in Kinds /\ q.kind \notin {"predict", "tick"} /\ d \in Documents /\ q.anns \in Annotations
      /\ q.kind \in {"save", "approve", "delete"} => i \in Images
      /\ q.kind \in {"save", "approve"} => i \in DOMAIN d
  BY <1>1, CallFields DEF Formed, Write
<1>3. CASE q.kind = "save"
  <2>1. PICK t \in Statuses : doc' = Put(d, i, q.anns, t)
    BY <1>1, <1>3 DEF Changes, Statuses
  <2>2. /\ doc' \in Documents /\ DOMAIN doc' = DOMAIN d \cup {i} /\ doc'[i].anns = q.anns
        /\ \A x \in DOMAIN d \ {i} : doc'[x] = d[x]
    <3>1. HasPut(Put(d, i, q.anns, t), d, i, q.anns)
      BY <1>2, <1>3, <2>1, PutIs
    <3> QED
      BY <2>1, <3>1 DEF HasPut
  <2> QED
    BY <1>1, <1>2, <1>3, <2>2 DEF SavedOver
<1>4. CASE q.kind = "approve"
  <2> DEFINE a == Approved(d[i].anns)
  <2>1. doc' = Put(d, i, a, "approved")
    BY <1>1, <1>4 DEF Changes
  <2>2. a \in Annotations /\ a \cap Shapes = d[i].anns \cap Shapes
    BY <1>2, <1>4, DataFields, ApprovedIs
  <2> HIDE DEF a
  <2>3. /\ doc' \in Documents /\ DOMAIN doc' = DOMAIN d \cup {i} /\ doc'[i].anns = a
        /\ \A x \in DOMAIN d \ {i} : doc'[x] = d[x]
    <3>1. HasPut(Put(d, i, a, "approved"), d, i, a)
      <4>1. "approved" \in Statuses /\ a \in Annotations /\ d \in Documents /\ i \in Images
        BY <1>2, <1>4, <2>2 DEF Statuses
      <4> HIDE DEF d, i
      <4> QED
        BY <4>1, PutIs
    <3> QED
      BY <2>1, <3>1 DEF HasPut
  <2>4. \A x \in DOMAIN doc' : doc'[x].anns \cap Shapes = d[x].anns \cap Shapes
    BY <2>2, <2>3
  <2> QED
    BY <1>1, <1>2, <1>4, <2>3, <2>4 DEF SavedOver
<1>5. CASE q.kind = "delete"
  <2>1. doc' = [x \in DOMAIN d \ {i} |-> d[x]]
    BY <1>1, <1>5 DEF Changes
  <2>2. /\ doc' \in Documents /\ DOMAIN doc' = DOMAIN d \ {i}
        /\ \A x \in DOMAIN doc' : doc'[x] = d[x]
    BY <1>2, <2>1, DeletedIs
  <2> QED
    BY <1>1, <1>2, <1>5, <2>2 DEF SavedOver
<1>6. CASE q.kind = "task"
  <2>1. doc' \in Predicted(d)
    BY <1>1, <1>6 DEF Changes
  <2>2. /\ doc' \in Documents /\ DOMAIN doc' = DOMAIN d
        /\ \A x \in DOMAIN d : doc'[x].anns \cap Shapes = d[x].anns \cap Shapes
    BY <1>2, <2>1, PredictedIs
  <2> QED
    BY <1>1, <1>2, <1>6, <2>2 DEF SavedOver
<1> QED
  BY <1>2, <1>3, <1>4, <1>5, <1>6 DEF Kinds

LEMMA WriteIs ==
  ASSUME ServerTyped, NEW c \in Slots, Write(c)
  PROVE  /\ SavedOver(c) /\ Answers(c) /\ calls[c] \in Call /\ calls[c].st = "read"
         /\ calls' \in [Slots -> Call \cup {Free}]
         /\ \A x \in Slots \ {c} :
              IF calls[x].kind # "none" /\ calls[x].st = "read"
              THEN Overtaken(x) ELSE calls'[x] = calls[x]
<1> DEFINE q == calls[c]
<1>1. /\ SavedOver(c) /\ q \in Call /\ q.st = "read" /\ q.kind \notin {"predict", "tick"}
      /\ doc' \in Documents
      /\ q.kind \in {"save", "approve"} => q.img \in DOMAIN doc'
  BY SavesWhole DEF Write, SavedOver
<1>2. \A x \in Slots :
        calls'[x] = IF x = c THEN Answered(c, doc')
                    ELSE IF calls[x].kind # "none" /\ calls[x].st = "read"
                    THEN [calls[x] EXCEPT !.fresh = FALSE] ELSE calls[x]
  BY DEF Write
<1>3. DOMAIN calls' = Slots /\ calls' = [x \in Slots |-> calls'[x]]
  BY DEF Write
<1>4. Answers(c)
  <2>1. CASE q.kind = "task"
    BY <1>2, <2>1 DEF Answers, Answered
  <2>2. CASE q.kind = "delete"
    <3>1. calls'[c] = [q EXCEPT !.st = "answered", !.copy = <<>>]
      BY <1>2, <2>2 DEF Answered
    <3>2. Alike(q, calls'[c]) /\ calls'[c].st = "answered"
      BY <1>1, <3>1, CallAnswers
    <3> QED
      BY <2>2, <3>2 DEF Answers
  <2>3. CASE q.kind \in {"save", "approve"}
    <3> DEFINE a == doc'[q.img].anns
               t == doc'[q.img].status
    <3>1. calls'[c] = [q EXCEPT !.st = "answered", !.copy = <<>>, !.anns = a, !.status = t]
      BY <1>2, <2>3 DEF Answered
    <3>2. a \in Annotations /\ t \in Statuses
      <4>1. \A e \in Documents : \A j \in DOMAIN e : e[j].anns \in Annotations /\ e[j].status \in Statuses
        BY DataFields
      <4> QED
        BY <1>1, <2>3, <4>1
    <3> HIDE DEF a, t
    <3>3. Alike(q, calls'[c]) /\ calls'[c].st = "answered" /\ calls'[c].anns = a
      <4> DEFINE w == [q EXCEPT !.st = "answered", !.copy = <<>>, !.anns = a, !.status = t]
      <4>1. Alike(q, w) /\ w.st = "answered" /\ w.anns = a
        <5>1. q \in Call
          BY <1>1
        <5> HIDE DEF q
        <5> QED
          BY <3>2, <5>1, CallAnswersWith
      <4> QED
        BY <3>1, <4>1
    <3> QED
      BY <2>3, <3>3 DEF Answers, a
  <2> QED
    BY <1>1, <2>1, <2>2, <2>3, CallFields DEF Kinds
<1>5. ASSUME NEW x \in Slots \ {c}
      PROVE  IF calls[x].kind # "none" /\ calls[x].st = "read"
             THEN Overtaken(x) ELSE calls'[x] = calls[x]
  <2>1. CASE calls[x].kind # "none" /\ calls[x].st = "read"
    <3>1. calls'[x] = [calls[x] EXCEPT !.fresh = FALSE]
      BY <1>2, <2>1
    <3>2. calls[x] \in Call
      BY <2>1, CallIs
    <3> QED
      BY <2>1, <3>1, <3>2, CallOvertaken DEF Overtaken
  <2>2. CASE ~(calls[x].kind # "none" /\ calls[x].st = "read")
    BY <1>2, <2>2
  <2> QED
    BY <2>1, <2>2
<1>6. \A x \in Slots : calls'[x] \in Call \cup {Free}
  <2>1. calls'[c] \in Call \cup {Free}
    BY <1>4 DEF Answers, Alike
  <2>2. \A x \in Slots \ {c} : calls'[x] \in Call \cup {Free}
    BY <1>5 DEF Overtaken, Alike, ServerTyped
  <2> QED
    BY <2>1, <2>2
<1>7. calls' \in [Slots -> Call \cup {Free}]
  BY <1>3, <1>6
<1> QED
  BY <1>1, <1>4, <1>5, <1>7

-----------------------------------------------------------------------------
(* The page only sends requests and settles those that were answered.      *)
Listing == images \in Seq(Row) /\ currentIdx \in Nat /\ pendingAnns \in Annotations \cup {None}

Sends ==
  \E k \in Kinds \ {"task"}, i \in Images \cup {None}, a \in Annotations :
    /\ k \in {"save", "approve", "delete"} => i \in Images
    /\ k = "save" => i = Current /\ a = pendingAnns /\ pendingAnns # None
    /\ Request(k, i, a)
Settles == \E c \in Slots : Settle(c)

LEMMA PageCalls ==
  ASSUME Listing, OnCanvas \/ OnPage
  PROVE  doc' = doc /\ (calls' = calls \/ Sends \/ Settles)
<1>1. CASE OnCanvas
  BY <1>1 DEF OnCanvas, Draw, RemoveShape, Undo, Redo, Step, ApproveOnCanvas, SwitchTool, Edit,
     Changed, store
<1>2. Current \in Images \cup {None} /\ {} \in Annotations
  BY AtIs DEF Current, Listing, Annotations
<1>3. CASE Save
  <2>1. /\ Current \in Images /\ pendingAnns \in Annotations /\ pendingAnns # None
        /\ Request("save", Current, pendingAnns)
    BY <1>2, <1>3 DEF Save, Send, Listing
  <2> QED
    BY <1>3, <2>1 DEF Save, Sends, Kinds
<1>4. CASE Approve
  BY <1>2, <1>4 DEF Approve, Send, Sends, Kinds
<1>5. CASE Delete
  BY <1>2, <1>5 DEF Delete, Send, Sends, Kinds
<1>6. CASE PredictAll
  BY <1>2, <1>6 DEF PredictAll, Send, Sends, Kinds
<1>7. CASE PollAsk
  BY <1>2, <1>7 DEF PollAsk, Sends, Kinds
<1>8. ASSUME NEW k \in 0..Cardinality(Images) - 1, Strip(k)
      PROVE  doc' = doc /\ (calls' = calls \/ Sends \/ Settles)
  <2>1. CASE pendingAnns # None /\ Current # None
    <3>1. /\ Current \in Images /\ pendingAnns \in Annotations /\ pendingAnns # None
          /\ Request("save", Current, pendingAnns)
      BY <1>2, <1>8, <2>1 DEF Strip, Send, Listing
    <3> QED
      BY <1>8, <3>1 DEF Strip, Sends, Kinds
  <2>2. CASE ~(pendingAnns # None /\ Current # None)
    BY <1>8, <2>2 DEF Strip
  <2> QED
    BY <2>1, <2>2
<1>9. ASSUME NEW k \in 0..Cardinality(Images) - 1, Go(k)
      PROVE  doc' = doc /\ calls' = calls
  BY <1>9 DEF Go, store
<1>10. ASSUME NEW c \in Slots,
              \/ SaveDone(c) \/ SaveFailed(c) \/ ApproveDone(c) \/ ApproveFailed(c)
              \/ DeleteDone(c) \/ PredictDone(c) \/ PollApply(c)
       PROVE  doc' = doc /\ Settle(c)
  BY <1>10 DEF SaveDone, SaveFailed, ApproveDone, ApproveFailed, DeleteDone, PredictDone, PollApply
<1> QED
  BY <1>1, <1>3, <1>4, <1>5, <1>6, <1>7, <1>8, <1>9, <1>10 DEF OnPage, Settles

LEMMA ServerStep ==
  ASSUME ServerTyped, Kept, Listing, PollTyped, [Next]_vars
  PROVE  ServerTyped' /\ Kept'
<1>1. ASSUME doc' = doc, calls' \in [Slots -> Call \cup {Free}], NEW X \in SUBSET Slots, Others(X),
             \A x \in X : calls'[x].kind # "none" =>
               Formed(calls'[x]) /\ (calls'[x].st = "read" => calls'[x].copy = doc)
      PROVE  ServerTyped' /\ Kept'
  <2>1. ASSUME NEW x \in Slots, calls'[x].kind # "none"
        PROVE  /\ Formed(calls'[x])
               /\ calls'[x].st = "read" /\ calls'[x].fresh => calls'[x].copy = doc'
    <3>1. CASE x \in X
      BY <1>1, <2>1, <3>1
    <3>2. CASE x \notin X
      BY <1>1, <2>1, <3>2 DEF Others, ServerTyped, Kept
    <3> QED
      BY <3>1, <3>2
  <2> QED
    BY <1>1, <2>1 DEF ServerTyped, Kept
<1>2. CASE doc' = doc /\ calls' = calls
  BY <1>2 DEF ServerTyped, Kept
<1>3. CASE doc' = doc /\ Sends
  <2>1. PICK k \in Kinds \ {"task"}, i \in Images \cup {None}, a \in Annotations :
          (k \in {"save", "approve", "delete"} => i \in Images) /\ Request(k, i, a)
    BY <1>3 DEF Sends
  <2>2. PICK n \in Slots :
           /\ calls[n] = Free /\ Others({n})
           /\ calls'[n] \in Call /\ calls'[n].kind = k /\ calls'[n].st = "sent"
           /\ calls'[n].img = i /\ calls'[n].anns = a
           /\ calls' \in [Slots -> Call \cup {Free}]
    <3>1. k \in Kinds /\ Request(k, i, a) /\ images \in Seq(Row) /\ ServerTyped /\ PollTyped
      BY <2>1 DEF Listing
    <3>2. HasSent(k, i, a)
      BY <3>1, SendIs
    <3> QED
      BY <3>2 DEF HasSent
  <2>3. Formed(calls'[n])
    BY <2>1, <2>2 DEF Formed
  <2> QED
    BY <1>1, <1>3, <2>2, <2>3
<1>4. CASE doc' = doc /\ Settles
  <2>1. PICK c \in Slots : Settle(c)
    BY <1>4 DEF Settles
  <2>2. calls'[c] = Free /\ Others({c}) /\ calls' \in [Slots -> Call \cup {Free}]
    BY <2>1, SettleIs
  <2> QED
    BY <1>1, <1>4, <2>2, FreeIs
<1>5. CASE OnCanvas \/ OnPage
  BY <1>2, <1>3, <1>4, <1>5, PageCalls
<1>6. ASSUME NEW c \in Slots, Read(c)
      PROVE  ServerTyped' /\ Kept'
  <2>1. /\ calls[c] \in Call /\ calls[c].st = "sent" /\ calls[c].kind # "predict"
        /\ Others({c}) /\ calls' \in [Slots -> Call \cup {Free}] /\ doc' = doc
        /\ Alike(calls[c], calls'[c])
        /\ \/ calls'[c].st = "failed"
           \/ /\ calls'[c].st = "read" /\ calls'[c].copy = doc
              /\ calls[c].kind \in {"save", "approve"} => calls[c].img \in DOMAIN doc
    BY <1>6, ReadIs
  <2>2. Formed(calls[c])
    BY <2>1, CallIs, CallFields
  <2>3. Formed(calls'[c]) /\ (calls'[c].st = "read" => calls'[c].copy = doc)
    BY <2>1, <2>2 DEF Formed, Alike
  <2> QED
    BY <1>1, <2>1, <2>3
<1>7. ASSUME NEW c \in Slots, Dispatch(c)
      PROVE  ServerTyped' /\ Kept'
  <2>1. /\ doc' = doc /\ calls' \in [Slots -> Call \cup {Free}]
        /\ calls'[c] \in Call /\ calls'[c].kind = "predict" /\ calls'[c].st = "answered"
    BY <1>7, DispatchIs DEF Listing
  <2>2. PICK t \in Slots \ {c} :
              /\ calls[t] = Free /\ Others({c, t})
              /\ calls'[t] \in Call /\ calls'[t].kind = "task" /\ calls'[t].st = "sent"
    BY <1>7, DispatchIs DEF Listing
  <2>3. Formed(calls'[c]) /\ Formed(calls'[t])
    BY <2>1, <2>2 DEF Formed
  <2> QED
    BY <1>1, <2>1, <2>2, <2>3
<1>8. ASSUME NEW c \in Slots, Lose(c)
      PROVE  ServerTyped' /\ Kept'
  <2>1. /\ doc' = doc /\ Others({c}) /\ calls' \in [Slots -> Call \cup {Free}]
        /\ calls[c] \in Call
        /\ \/ calls'[c] = Free
           \/ Alike(calls[c], calls'[c]) /\ calls'[c].st = "failed"
    BY <1>8, LoseIs
  <2>2. Formed(calls[c])
    BY <2>1, CallIs, CallFields
  <2>3. calls'[c].kind # "none" =>
          Formed(calls'[c]) /\ (calls'[c].st = "read" => calls'[c].copy = doc)
    BY <2>1, <2>2, FreeIs DEF Formed, Alike
  <2> QED
    BY <1>1, <2>1, <2>3
<1>9. ASSUME NEW c \in Slots, Write(c)
      PROVE  ServerTyped' /\ Kept'
  <2>1. /\ SavedOver(c) /\ Answers(c) /\ calls[c] \in Call /\ calls[c].st = "read"
        /\ calls' \in [Slots -> Call \cup {Free}]
        /\ \A x \in Slots \ {c} :
              IF calls[x].kind # "none" /\ calls[x].st = "read"
              THEN Overtaken(x) ELSE calls'[x] = calls[x]
    BY <1>9, WriteIs
  <2>2. doc' \in Documents
    BY <2>1 DEF SavedOver
  <2>3. ASSUME NEW x \in Slots, calls'[x].kind # "none"
        PROVE  Formed(calls'[x]) /\ (calls'[x].st = "read" => ~calls'[x].fresh)
    <3>1. CASE x = c
      <4>1. Formed(calls[c])
        BY <2>1, CallIs, CallFields
      <4>2. Alike(calls[c], calls'[c]) /\ calls'[c].st = "answered"
        BY <2>1, <2>3, <3>1, FreeIs DEF Answers
      <4> QED
        BY <3>1, <4>1, <4>2 DEF Formed, Alike
    <3>2. CASE x # c /\ calls[x].kind # "none" /\ calls[x].st = "read"
      <4>1. Overtaken(x) /\ Formed(calls[x])
        BY <2>1, <3>2 DEF ServerTyped
      <4> QED
        BY <4>1 DEF Overtaken, Formed, Alike
    <3>3. CASE x # c /\ ~(calls[x].kind # "none" /\ calls[x].st = "read")
      BY <2>1, <2>3, <3>3 DEF ServerTyped
    <3> QED
      BY <3>1, <3>2, <3>3
  <2> QED
    BY <2>1, <2>2, <2>3 DEF ServerTyped, Kept
<1>10. CASE UNCHANGED vars
  BY <1>2, <1>10 DEF vars, store
<1> QED
  BY <1>5, <1>6, <1>7, <1>8, <1>9, <1>10 DEF Next, OnServer

(* A handler that read the newest document adds no image to it.            *)
LEMMA NothingReturns ==
  ASSUME ServerTyped, Kept, Listing, [Next]_vars
  PROVE  DOMAIN doc' \subseteq DOMAIN doc \/ "overwritten" \in seen'
<1>1. ASSUME NEW c \in Slots, Write(c)
      PROVE  DOMAIN doc' \subseteq DOMAIN doc \/ "overwritten" \in seen'
  <2>1. SavedOver(c) /\ calls[c] \in Call /\ calls[c].st = "read"
    BY <1>1, WriteIs
  <2>2. CASE calls[c].fresh
    <3>1. calls[c].copy = doc /\ Formed(calls[c])
      BY <2>1, <2>2, CallFields DEF Kept, ServerTyped
    <3>2. DOMAIN doc' \subseteq DOMAIN calls[c].copy
      BY <2>1, <3>1 DEF SavedOver, Formed
    <3> QED
      BY <3>1, <3>2
  <2>3. CASE ~calls[c].fresh
    BY <1>1, <2>3 DEF Write, Note
  <2> QED
    BY <2>2, <2>3
<1>2. CASE OnCanvas \/ OnPage
  BY <1>2, PageCalls
<1>3. ASSUME NEW c \in Slots, Read(c) \/ Dispatch(c) \/ Lose(c)
      PROVE  doc' = doc
  BY <1>3 DEF Read, Dispatch, Lose
<1> QED
  BY <1>1, <1>2, <1>3 DEF Next, OnServer, vars, store

-----------------------------------------------------------------------------
(* The page.  The mounted canvas is that of the current image, and an      *)
(* empty one without it.                                                   *)
Steady == canvas.id = Current /\ (canvas.id = None => canvas = Empty)

PageTyped ==
  /\ Listing /\ saving \in BOOLEAN /\ canvas \in Inhabited /\ Steady
  /\ canvas.id # None => canvas.at \in 1..Len(canvas.hist)
HistoryTyped ==
  /\ drawn \in [Shapes -> Images \cup {None}]
  /\ wanted \in [Images -> SUBSET Shapes] /\ seen \subseteq Races

LEMMA CanvasFields ==
  ASSUME PageTyped
  PROVE  /\ canvas.id \in Images \cup {None} /\ canvas.anns \in Annotations
         /\ canvas.hist \in Seq(Annotations) /\ canvas.at \in Nat
         /\ canvas.id = None => canvas.anns = {} /\ canvas.hist = <<>>
BY EmptyFields DEF PageTyped, Inhabited, Steady

LEMMA ChangedIs ==
  ASSUME canvas \in Inhabited, NEW next \in Annotations, NEW hist \in Seq(Annotations),
         NEW at \in Nat, Changed(next, hist, at)
  PROVE  /\ canvas' \in Inhabited /\ canvas'.id = canvas.id /\ canvas'.anns = next
         /\ canvas'.hist = hist /\ canvas'.at = at /\ pendingAnns' = next
         /\ images' = images /\ currentIdx' = currentIdx /\ saving' = saving
         /\ seen' = seen /\ doc' = doc /\ calls' = calls /\ made' = made
         /\ UNCHANGED poll
BY DEF Changed, Inhabited, store

LEMMA PushedIs ==
  ASSUME PageTyped, canvas.id # None, NEW next \in Annotations
  PROVE  /\ Pushed(next) \in Seq(Annotations) /\ Len(Pushed(next)) = canvas.at + 1
         /\ \A k \in 1..canvas.at : k \in 1..Len(canvas.hist) /\ Pushed(next)[k] = canvas.hist[k]
         /\ Pushed(next)[canvas.at + 1] = next
<1> DEFINE h == SubSeq(canvas.hist, 1, canvas.at)
<1>1. canvas.hist \in Seq(Annotations) /\ canvas.at \in 1..Len(canvas.hist) /\ canvas.at \in Nat
  BY CanvasFields DEF PageTyped
<1>2. /\ h \in Seq(Annotations) /\ Len(h) = canvas.at
      /\ \A k \in 1..canvas.at : h[k] = canvas.hist[k] /\ k \in 1..Len(canvas.hist)
  BY <1>1
<1> HIDE DEF h
<1>3. /\ Append(h, next) \in Seq(Annotations) /\ Len(Append(h, next)) = canvas.at + 1
      /\ \A k \in 1..canvas.at : Append(h, next)[k] = h[k]
      /\ Append(h, next)[canvas.at + 1] = next
  BY <1>1, <1>2
<1> QED
  BY <1>2, <1>3 DEF Pushed, h

(* An edit of the canvas: it is pending at once, and the history of undo   *)
(* holds what it held or what the edit made.                               *)
Edits ==
  /\ canvas.id \in Images /\ canvas' \in Inhabited /\ canvas'.id = canvas.id
  /\ canvas'.at \in 1..Len(canvas'.hist) /\ pendingAnns' = canvas'.anns
  /\ canvas'.anns \in Annotations
  /\ images' = images /\ currentIdx' = currentIdx /\ saving' = saving
  /\ seen' = seen /\ doc' = doc /\ calls' = calls /\ made' = made /\ UNCHANGED poll
Remembers ==
  \A k \in 1..Len(canvas'.hist) :
    \/ canvas'.hist[k] = canvas'.anns
    \/ \E j \in 1..Len(canvas.hist) : canvas'.hist[k] = canvas.hist[j]
(* Its shapes come from the canvas, from the history, or are new.          *)
Draws ==
  /\ drawn' \in [Shapes -> Images \cup {None}]
  /\ \A s \in Shapes : drawn[s] # None => drawn'[s] = drawn[s]
  /\ \A s \in canvas'.anns \cap Shapes :
       \/ s \in canvas.anns
       \/ \E j \in 1..Len(canvas.hist) : s \in canvas.hist[j]
       \/ drawn'[s] = canvas.id
Follows ==
  /\ wanted' \in [Images -> SUBSET Shapes]
  /\ \A i \in Images \ {canvas.id} : wanted'[i] = wanted[i]
  /\ canvas.anns \cap Shapes = wanted[canvas.id] =>
       canvas'.anns \cap Shapes = wanted'[canvas.id]

LEMMA EditIs ==
  ASSUME PageTyped, canvas.id # None, NEW next \in Annotations, Edit(next)
  PROVE  Edits /\ Remembers /\ canvas'.anns = next
<1>1. /\ Pushed(next) \in Seq(Annotations) /\ Len(Pushed(next)) = canvas.at + 1
      /\ \A k \in 1..canvas.at : k \in 1..Len(canvas.hist) /\ Pushed(next)[k] = canvas.hist[k]
      /\ Pushed(next)[canvas.at + 1] = next
  BY PushedIs
<1>2. canvas.at \in Nat /\ canvas.at + 1 \in Nat /\ canvas.id \in Images /\ canvas \in Inhabited
  BY CanvasFields DEF PageTyped
<1> DEFINE h == Pushed(next)
           n == canvas.at + 1
<1>3. Changed(next, h, n)
  BY DEF Edit
<1> HIDE DEF h, n
<1>4. /\ canvas' \in Inhabited /\ canvas'.id = canvas.id /\ canvas'.anns = next
      /\ canvas'.hist = h /\ canvas'.at = n /\ pendingAnns' = next
      /\ images' = images /\ currentIdx' = currentIdx /\ saving' = saving
      /\ seen' = seen /\ doc' = doc /\ calls' = calls /\ made' = made
      /\ UNCHANGED poll
  <2>1. h \in Seq(Annotations) /\ n \in Nat
    BY <1>1, <1>2 DEF h, n
  <2> QED
    BY <1>2, <1>3, <2>1, ChangedIs
<1>5. n \in 1..Len(h)
  BY <1>1, <1>2 DEF h, n
<1>6. Edits
  BY <1>2, <1>4, <1>5 DEF Edits
<1>7. ASSUME NEW k \in 1..Len(h)
      PROVE  h[k] = next \/ \E j \in 1..Len(canvas.hist) : h[k] = canvas.hist[j]
  <2>1. k \in 1..canvas.at \/ k = canvas.at + 1
    BY <1>1, <1>2 DEF h
  <2> QED
    BY <1>1, <2>1 DEF h
<1> QED
  BY <1>4, <1>6, <1>7 DEF Remembers

LEMMA ReviseIs ==
  ASSUME PageTyped, canvas.id # None, NEW next \in Annotations,
         NEW at \in 1..Len(canvas.hist), Changed(next, canvas.hist, at)
  PROVE  Edits /\ Remembers /\ canvas'.anns = next
<1>1. canvas.hist \in Seq(Annotations) /\ canvas.id \in Images /\ canvas \in Inhabited
  BY CanvasFields DEF PageTyped
<1>2. at \in Nat
  OBVIOUS
<1>3. /\ canvas' \in Inhabited /\ canvas'.id = canvas.id /\ canvas'.anns = next
      /\ canvas'.hist = canvas.hist /\ canvas'.at = at /\ pendingAnns' = next
      /\ images' = images /\ currentIdx' = currentIdx /\ saving' = saving
      /\ seen' = seen /\ doc' = doc /\ calls' = calls /\ made' = made
      /\ UNCHANGED poll
  BY <1>1, <1>2, ChangedIs
<1> QED
  BY <1>1, <1>3 DEF Edits, Remembers

LEMMA CanvasStep ==
  ASSUME PageTyped, HistoryTyped, OnCanvas
  PROVE  Edits /\ Remembers /\ Draws /\ Follows
<1>1. /\ canvas.id \in Images \cup {None} /\ canvas.anns \in Annotations
      /\ canvas.hist \in Seq(Annotations) /\ canvas.at \in Nat
      /\ canvas.id = None => canvas.anns = {} /\ canvas.hist = <<>>
      /\ canvas.id # None => canvas.at \in 1..Len(canvas.hist)
  BY CanvasFields DEF PageTyped
<1>2. ASSUME NEW s \in Shapes, Draw(s)
      PROVE  Edits /\ Remembers /\ Draws /\ Follows
  <2>1. canvas.anns \cup {s} \in Annotations /\ canvas.id \in Images
    BY <1>1, <1>2 DEF Draw, Annotations
  <2>2. Edits /\ Remembers /\ canvas'.anns = canvas.anns \cup {s}
    BY <1>2, <2>1, EditIs DEF Draw
  <2>3. /\ drawn' = [drawn EXCEPT ![s] = canvas.id] /\ drawn[s] = None
        /\ wanted' = [wanted EXCEPT ![canvas.id] = @ \cup {s}]
    BY <1>2 DEF Draw
  <2>4. Draws
    BY <2>1, <2>2, <2>3 DEF Draws, HistoryTyped
  <2>5. Follows
    BY <2>1, <2>2, <2>3 DEF Follows, HistoryTyped
  <2> QED
    BY <2>2, <2>4, <2>5
<1>3. ASSUME NEW s \in Shapes \cup {Guess, Agreed}, RemoveShape(s)
      PROVE  Edits /\ Remembers /\ Draws /\ Follows
  <2>1. canvas.anns \ {s} \in Annotations /\ canvas.id \in Images
    BY <1>1, <1>3 DEF RemoveShape, Annotations
  <2>2. Edits /\ Remembers /\ canvas'.anns = canvas.anns \ {s}
    BY <1>3, <2>1, EditIs, AnnotationAssumption DEF RemoveShape, AnnotationAssumption
  <2>3. drawn' = drawn /\ wanted' = [wanted EXCEPT ![canvas.id] = @ \ {s}]
    BY <1>3 DEF RemoveShape
  <2>4. Draws
    BY <2>1, <2>2, <2>3 DEF Draws, HistoryTyped
  <2>5. Follows
    BY <2>1, <2>2, <2>3 DEF Follows, HistoryTyped
  <2> QED
    BY <2>2, <2>4, <2>5
<1>4. ASSUME NEW at, Step(at)
      PROVE  Edits /\ Remembers /\ Draws /\ Follows
  <2>1. at \in 1..Len(canvas.hist) /\ canvas.id \in Images /\ canvas.hist[at] \in Annotations
    BY <1>1, <1>4 DEF Step
  <2>2. Edits /\ Remembers /\ canvas'.anns = canvas.hist[at]
    BY <1>4, <2>1, ReviseIs, AnnotationAssumption DEF Step, AnnotationAssumption
  <2>3. drawn' = drawn /\ wanted' = [wanted EXCEPT ![canvas.id] = canvas.hist[at] \cap Shapes]
    BY <1>4 DEF Step
  <2>4. Draws
    BY <2>1, <2>2, <2>3 DEF Draws, HistoryTyped
  <2>5. Follows
    BY <2>1, <2>2, <2>3 DEF Follows, HistoryTyped
  <2> QED
    BY <2>2, <2>4, <2>5
<1>5. ASSUME NEW next \in Annotations, next \cap Shapes = canvas.anns \cap Shapes,
             canvas.id \in Images, Changed(next, canvas.hist, canvas.at), UNCHANGED <<drawn, wanted>>
      PROVE  Edits /\ Remembers /\ Draws /\ Follows
  <2>1. canvas.at \in 1..Len(canvas.hist) /\ canvas.id # None
    BY <1>1, <1>5, AnnotationAssumption DEF AnnotationAssumption
  <2>2. Edits /\ Remembers /\ canvas'.anns = next
    BY <1>5, <2>1, ReviseIs
  <2>3. Draws
    BY <1>5, <2>2 DEF Draws, HistoryTyped
  <2>4. Follows
    BY <1>5, <2>2 DEF Follows, HistoryTyped
  <2> QED
    BY <2>2, <2>3, <2>4
<1>6. CASE ApproveOnCanvas
  <2>1. Approved(canvas.anns) \in Annotations
        /\ Approved(canvas.anns) \cap Shapes = canvas.anns \cap Shapes
    BY <1>1, ApprovedIs
  <2>2. canvas.id \in Images
    BY <1>1, <1>6 DEF ApproveOnCanvas
  <2> QED
    BY <1>5, <1>6, <2>1, <2>2 DEF ApproveOnCanvas
<1>7. CASE SwitchTool
  BY <1>1, <1>5, <1>7 DEF SwitchTool
<1> QED
  BY <1>2, <1>3, <1>4, <1>6, <1>7 DEF OnCanvas, Undo, Redo

(* The page shows its list: the canvas that was mounted, none, or a new    *)
(* one with the annotations of its row.                                    *)
Turns ==
  /\ canvas' \in Inhabited /\ Steady'
  /\ canvas'.id # None => canvas'.at \in 1..Len(canvas'.hist)
  /\ canvas' = canvas \/ canvas'.id # canvas.id
  /\ \/ canvas' = canvas
     \/ canvas'.id = None
     \/ \E k \in 1..Len(images') :
          /\ canvas'.id = images'[k].id /\ canvas'.anns = images'[k].anns
          /\ canvas'.hist = <<images'[k].anns>>

LEMMA RenderIs ==
  ASSUME PageTyped, images' \in Seq(Row), currentIdx' \in Nat, Render
  PROVE  Turns
<1> DEFINE list == images'
           i == currentIdx'
<1>1. canvas \in Inhabited
  BY DEF PageTyped
<1>2. \A l \in Seq(Row), j \in Nat :
         /\ Shown(l, j) \in Inhabited /\ Shown(l, j).id = At(l, j)
         /\ \/ Shown(l, j) = canvas
            \/ Shown(l, j) = Empty /\ At(l, j) = None
            \/ /\ j + 1 \in 1..Len(l) /\ At(l, j) = l[j + 1].id
               /\ Shown(l, j) = Opened(l[j + 1])
  BY <1>1, ShownIs
<1>3. canvas' = Shown(list, i) /\ Current' = At(list, i) /\ list \in Seq(Row) /\ i \in Nat
  BY DEF Render, Current
<1>4. \A l \in Seq(Row) : \A k \in 1..Len(l) : l[k].id # None
  BY RowFields
<1>9. canvas' = canvas \/ canvas'.id # canvas.id
  BY <1>2, <1>3 DEF Shown
<1> HIDE DEF list, i
<1>5. /\ canvas' \in Inhabited /\ canvas'.id = Current'
      /\ \/ canvas' = canvas
         \/ canvas' = Empty /\ canvas'.id = None
         \/ i + 1 \in 1..Len(list) /\ canvas' = Opened(list[i + 1])
  BY <1>2, <1>3
<1>6. CASE canvas' = canvas
  BY <1>5, <1>6, <1>9 DEF Turns, Steady, PageTyped
<1>7. CASE canvas' = Empty /\ canvas'.id = None
  BY <1>5, <1>7, <1>9 DEF Turns, Steady
<1>8. CASE i + 1 \in 1..Len(list) /\ canvas' = Opened(list[i + 1])
  <2> DEFINE row == list[i + 1]
  <2>1. row.id # None
    BY <1>3, <1>4, <1>8
  <2>2. canvas'.id = row.id /\ canvas'.anns = row.anns /\ canvas'.hist = <<row.anns>> /\ canvas'.at = 1
    <3> HIDE DEF row
    <3>1. \A r : /\ Opened(r).id = r.id /\ Opened(r).anns = r.anns
                 /\ Opened(r).hist = <<r.anns>> /\ Opened(r).at = 1
      BY OpenedFields
    <3> QED
      BY <1>8, <3>1 DEF row
  <2>3. canvas'.at \in 1..Len(canvas'.hist)
    BY <2>2
  <2>4. \E k \in 1..Len(list) :
          /\ canvas'.id = list[k].id /\ canvas'.anns = list[k].anns
          /\ canvas'.hist = <<list[k].anns>>
    BY <1>8, <2>2
  <2>5. Steady'
    BY <1>5, <2>1, <2>2 DEF Steady
  <2> QED
    BY <1>5, <1>9, <2>3, <2>4, <2>5 DEF Turns, list
<1> QED
  BY <1>5, <1>6, <1>7, <1>8

(* An answer changes the row of its image.                                 *)
Relisted(a, i) ==
  /\ images' \in Seq(Row) /\ Len(images') = Len(images)
  /\ \A k \in 1..Len(images) :
       /\ images'[k].id = images[k].id
       /\ images'[k].anns = IF images[k].id = i THEN a ELSE images[k].anns

RowsChanged(old, new, a, i) ==
  /\ new \in Seq(Row) /\ Len(new) = Len(old)
  /\ \A k \in 1..Len(old) :
       /\ new[k].id = old[k].id
       /\ new[k].anns = IF old[k].id = i THEN a ELSE old[k].anns
With(old, a, t, i) ==
  [k \in DOMAIN old |->
     IF old[k].id = i THEN [old[k] EXCEPT !.anns = a, !.status = t] ELSE old[k]]

LEMMA RowsChange ==
  ASSUME NEW old \in Seq(Row), NEW a \in Annotations, NEW t \in Statuses, NEW i
  PROVE  RowsChanged(old, With(old, a, t, i), a, i)
<1> DEFINE new == With(old, a, t, i)
           n == Len(old)
<1>1. n \in Nat /\ DOMAIN old = 1..n
  OBVIOUS
<1>2. /\ new = [k \in 1..n |-> new[k]]
      /\ \A k \in 1..n :
           new[k] = IF old[k].id = i THEN [old[k] EXCEPT !.anns = a, !.status = t] ELSE old[k]
  BY <1>1 DEF With
<1> HIDE DEF new
<1>3. \A k \in 1..n : old[k] \in Row
  OBVIOUS
<1>4. \A k \in 1..n :
        /\ new[k] \in Row /\ new[k].id = old[k].id
        /\ new[k].anns = IF old[k].id = i THEN a ELSE old[k].anns
  <2> TAKE k \in 1..n
  <2> DEFINE r == [old[k] EXCEPT !.anns = a, !.status = t]
  <2>1. r \in Row /\ r.id = old[k].id /\ r.anns = a
    <3>1. old[k] \in Row
      BY <1>3
    <3> QED
      BY <3>1 DEF Row
  <2>2. new[k] = IF old[k].id = i THEN r ELSE old[k]
    BY <1>2
  <2> HIDE DEF r
  <2> QED
    BY <1>3, <2>1, <2>2
<1> HIDE DEF n
<1>5. new \in [1..n -> Row]
  BY <1>2, <1>4
<1>6. new \in Seq(Row) /\ Len(new) = n
  BY <1>1, <1>5
<1> QED
  BY <1>4, <1>6 DEF RowsChanged, new, n

LEMMA RelistedIs ==
  ASSUME images \in Seq(Row), NEW a \in Annotations, NEW t \in Statuses, NEW i,
         images' = [k \in DOMAIN images |->
                      IF images[k].id = i
                      THEN [images[k] EXCEPT !.anns = a, !.status = t] ELSE images[k]]
  PROVE  Relisted(a, i)
<1>1. images' = With(images, a, t, i)
  BY DEF With
<1>2. \A old \in Seq(Row) : RowsChanged(old, With(old, a, t, i), a, i)
  BY RowsChange
<1>3. RowsChanged(images, images', a, i)
  BY <1>1, <1>2
<1> QED
  BY <1>3 DEF RowsChanged, Relisted

LEMMA RelistedSteady ==
  ASSUME PageTyped, NEW a, NEW i, Relisted(a, i), canvas' = canvas, currentIdx' = currentIdx
  PROVE  Steady' /\ Current' = Current
<1>1. Current' = Current
  BY DEF Relisted, Current, At, PageTyped, Listing
<1> QED
  BY <1>1 DEF Steady, PageTyped

(* The steps that may make another image current.                          *)
Sourced ==
  \/ \A k \in 1..Len(images') : \E j \in 1..Len(images) : images'[k] = images[j]
  \/ \E c \in Slots : PollApply(c)
Turned ==
  /\ images' \in Seq(Row) /\ currentIdx' \in Nat /\ Sourced /\ Turns
  /\ pendingAnns' \in {pendingAnns, None} /\ saving' \in BOOLEAN
  /\ doc' = doc /\ drawn' = drawn /\ wanted' = wanted
  /\ "carried" \in seen' \/ pendingAnns' = None \/ canvas'.id = canvas.id

LEMMA TurnedIs ==
  ASSUME PageTyped, ServerTyped,
         \/ \E k \in 0..Cardinality(Images) - 1 : Strip(k) \/ Go(k)
         \/ \E c \in Slots : DeleteDone(c) \/ PollApply(c)
  PROVE  Turned
<1>1. images \in Seq(Row) /\ currentIdx \in Nat /\ saving \in BOOLEAN /\ doc \in Documents
  BY DEF PageTyped, Listing, ServerTyped
<1>2. ASSUME images' \in Seq(Row), Sourced, currentIdx' \in Nat, Render,
             doc' = doc, drawn' = drawn, wanted' = wanted, saving' \in BOOLEAN,
             \/ pendingAnns' = None /\ pendingAnns' \in {pendingAnns, None}
             \/ pendingAnns' = pendingAnns /\ Passed \subseteq seen'
      PROVE  Turned
  <2>1. Turns
    BY <1>2, RenderIs
  <2>2. "carried" \in seen' \/ pendingAnns' = None \/ canvas'.id = canvas.id
    BY <1>2 DEF Passed, Left
  <2> QED
    BY <1>2, <2>1, <2>2 DEF Turned
<1>3. ASSUME NEW c \in Slots, PollApply(c)
      PROVE  Turned
  <2>1. calls[c] \in Call /\ images' = List(calls[c].copy)
    BY <1>3, CallIs DEF PollApply, Is
  <2>2. images' \in Seq(Row)
    BY <2>1, CallFields, ListIs
  <2>3. Passed \subseteq seen'
    BY <1>3 DEF PollApply
  <2> QED
    BY <1>1, <1>2, <1>3, <2>2, <2>3 DEF PollApply, Sourced
<1>4. ASSUME NEW k \in 0..Cardinality(Images) - 1, Strip(k)
      PROVE  Turned
  <2>1. k \in Nat /\ images' = images /\ currentIdx' = k
    BY <1>4 DEF Strip
  <2>3. saving' = TRUE \/ saving' = saving
    BY <1>4 DEF Strip
  <2>2. Sourced
    BY <2>1 DEF Sourced
  <2> QED
    BY <1>1, <1>2, <1>4, <2>1, <2>2, <2>3 DEF Strip
<1>5. ASSUME NEW k \in 0..Cardinality(Images) - 1, Go(k)
      PROVE  Turned
  <2>1. k \in Nat /\ images' = images /\ currentIdx' = k
    BY <1>5 DEF Go
  <2>2. Sourced
    BY <2>1 DEF Sourced
  <2> QED
    BY <1>1, <1>2, <1>5, <2>1, <2>2 DEF Go, Passing, store
<1>6. ASSUME NEW c \in Slots, DeleteDone(c)
      PROVE  Turned
  <2>1. \A i : /\ Without(images, i) \in Seq(Row)
               /\ \A k \in 1..Len(Without(images, i)) :
                    \E j \in 1..Len(images) : Without(images, i)[k] = images[j]
    BY <1>1, WithoutIs
  <2>2. images' \in Seq(Row) /\ Sourced
    BY <1>6, <2>1 DEF DeleteDone, Sourced
  <2>3. currentIdx' \in Nat
    <3>1. \A i, n \in Nat : Clamp(i, n) \in Nat
      BY DEF Clamp
    <3>2. Len(images') \in Nat
      BY <2>2
    <3> QED
      BY <1>1, <1>6, <3>1, <3>2 DEF DeleteDone
  <2> QED
    BY <1>1, <1>2, <1>6, <2>2, <2>3 DEF DeleteDone, Passing
<1> QED
  BY <1>3, <1>4, <1>5, <1>6

(* The answers of a save and of an approval change the list alone.         *)
Answer(c) == SaveDone(c) \/ ApproveDone(c)

LEMMA AnswerIs ==
  ASSUME PageTyped, ServerTyped, NEW c \in Slots, Answer(c)
  PROVE  /\ calls[c] \in Call /\ calls[c].kind \in {"save", "approve"}
         /\ calls[c].st = "answered" /\ Relisted(calls[c].anns, calls[c].img)
         /\ canvas' = canvas /\ currentIdx' = currentIdx /\ Steady' /\ Current' = Current
         /\ pendingAnns' \in {pendingAnns, None} /\ saving' \in BOOLEAN
<1>1. /\ calls[c] \in Call /\ calls[c].kind \in {"save", "approve"} /\ calls[c].st = "answered"
      /\ calls[c].anns \in Annotations /\ calls[c].status \in Statuses
  BY CallIs, CallFields DEF Answer, SaveDone, ApproveDone, Is
<1>2. /\ canvas' = canvas /\ currentIdx' = currentIdx
      /\ pendingAnns' \in {pendingAnns, None} /\ saving' \in BOOLEAN
  BY DEF Answer, SaveDone, ApproveDone
<1>3. Relisted(calls[c].anns, calls[c].img)
  <2>1. \A a \in Annotations, t \in Statuses : \A i :
          (images' = [k \in DOMAIN images |->
                        IF images[k].id = i
                        THEN [images[k] EXCEPT !.anns = a, !.status = t] ELSE images[k]])
          => Relisted(a, i)
    BY RelistedIs DEF PageTyped, Listing
  <2>2. images' = [k \in DOMAIN images |->
                     IF images[k].id = calls[c].img
                     THEN [images[k] EXCEPT !.anns = calls[c].anns, !.status = calls[c].status]
                     ELSE images[k]]
    BY DEF Answer, SaveDone, ApproveDone
  <2> QED
    BY <1>1, <2>1, <2>2
<1>4. Steady' /\ Current' = Current
  <2>1. \A a, i : Relisted(a, i) => Steady' /\ Current' = Current
    BY <1>2, RelistedSteady
  <2> QED
    BY <1>3, <2>1
<1> QED
  BY <1>1, <1>2, <1>3, <1>4

(* All other steps leave the page as it is.                                *)
Still == UNCHANGED <<images, currentIdx, pendingAnns, canvas, drawn, wanted>> /\ saving' \in BOOLEAN

LEMMA StillIs ==
  ASSUME PageTyped,
         \/ Save \/ Approve \/ Delete \/ PredictAll \/ PollAsk \/ OnServer
         \/ \E c \in Slots : SaveFailed(c) \/ ApproveFailed(c) \/ PredictDone(c)
  PROVE  Still
<1>1. CASE Save \/ Approve \/ Delete \/ PredictAll \/ PollAsk
  BY <1>1 DEF Save, Approve, Delete, PredictAll, PollAsk, Still, page, history, PageTyped
<1>2. CASE OnServer
  BY <1>2 DEF OnServer, Read, Write, Dispatch, Lose, Still, page, history, PageTyped
<1>3. CASE \E c \in Slots : SaveFailed(c) \/ ApproveFailed(c) \/ PredictDone(c)
  BY <1>3 DEF SaveFailed, ApproveFailed, PredictDone, Still, page, history, PageTyped
<1> QED
  BY <1>1, <1>2, <1>3

(* The steps by what they do to the page.                                  *)
LEMMA StepIs ==
  ASSUME PageTyped, ServerTyped, HistoryTyped, [Next]_vars
  PROVE  \/ Edits /\ Remembers /\ Draws /\ Follows
         \/ Turned
         \/ \E c \in Slots : Answer(c)
         \/ Still
<1>1. CASE OnCanvas
  BY <1>1, CanvasStep
<1>2. CASE \/ \E k \in 0..Cardinality(Images) - 1 : Strip(k) \/ Go(k)
           \/ \E c \in Slots : DeleteDone(c) \/ PollApply(c)
  BY <1>2, TurnedIs
<1>3. CASE \E c \in Slots : SaveDone(c) \/ ApproveDone(c)
  BY <1>3 DEF Answer
<1>4. CASE \/ Save \/ Approve \/ Delete \/ PredictAll \/ PollAsk \/ OnServer
           \/ \E c \in Slots : SaveFailed(c) \/ ApproveFailed(c) \/ PredictDone(c)
  BY <1>4, StillIs
<1>5. CASE UNCHANGED vars
  BY <1>5 DEF vars, page, history, Still, PageTyped
<1> QED
  BY <1>1, <1>2, <1>3, <1>4, <1>5 DEF Next, OnPage

LEMMA PageStep ==
  ASSUME PageTyped, ServerTyped, HistoryTyped, [Next]_vars
  PROVE  PageTyped'
<1>1. CASE Edits
  <2>1. Listing' /\ saving' \in BOOLEAN
    BY <1>1 DEF Edits, PageTyped, Listing
  <2>2. Steady' /\ canvas'.id # None
    <3>1. Current' = Current
      BY <1>1 DEF Edits, Current
    <3> QED
      BY <1>1, <3>1, AnnotationAssumption DEF Edits, Steady, PageTyped, AnnotationAssumption
  <2> QED
    BY <1>1, <2>1, <2>2 DEF PageTyped, Edits
<1>2. CASE Turned
  BY <1>2 DEF Turned, Turns, PageTyped, Listing
<1>3. ASSUME NEW c \in Slots, Answer(c)
      PROVE  PageTyped'
  <2>1. /\ Relisted(calls[c].anns, calls[c].img)
        /\ canvas' = canvas /\ currentIdx' = currentIdx /\ Steady'
        /\ pendingAnns' \in {pendingAnns, None} /\ saving' \in BOOLEAN
    BY <1>3, AnswerIs
  <2>2. images' \in Seq(Row)
    BY <2>1 DEF Relisted
  <2> QED
    BY <2>1, <2>2 DEF PageTyped, Listing
<1>4. CASE Still
  <2>1. Current' = Current
    BY <1>4 DEF Still, Current
  <2> QED
    BY <1>4, <2>1 DEF Still, PageTyped, Listing, Steady
<1> QED
  BY <1>1, <1>2, <1>3, <1>4, StepIs

-----------------------------------------------------------------------------
(* The other variables.                                                    *)
LEMMA MadeStep ==
  ASSUME made \in 0..MaxOps, [Next]_vars
  PROVE  made' \in 0..MaxOps
<1>1. made' = made \/ (made < MaxOps /\ made' = made + 1)
  <2>1. CASE OnCanvas
    BY <2>1 DEF OnCanvas, Draw, RemoveShape, Undo, Redo, Step, ApproveOnCanvas, SwitchTool, Edit,
       Changed, store
  <2>2. CASE Save \/ Approve \/ Delete \/ PredictAll
    BY <2>2 DEF Save, Approve, Delete, PredictAll, Send
  <2>3. CASE PollAsk
    BY <2>3 DEF PollAsk
  <2>4. ASSUME NEW k \in 0..Cardinality(Images) - 1, Strip(k) \/ Go(k)
        PROVE  made' = made \/ (made < MaxOps /\ made' = made + 1)
    BY <2>4 DEF Strip, Go, Send, store
  <2>5. ASSUME NEW c \in Slots,
               \/ SaveDone(c) \/ SaveFailed(c) \/ ApproveDone(c) \/ ApproveFailed(c)
               \/ DeleteDone(c) \/ PredictDone(c) \/ PollApply(c)
        PROVE  made' = made
    BY <2>5 DEF SaveDone, SaveFailed, ApproveDone, ApproveFailed, DeleteDone, PredictDone, PollApply
  <2>6. CASE OnServer
    BY <2>6 DEF OnServer, Read, Write, Dispatch, Lose
  <2>7. CASE UNCHANGED vars
    BY <2>7 DEF vars, store
  <2> QED
    BY <2>1, <2>2, <2>3, <2>4, <2>5, <2>6, <2>7 DEF Next, OnPage
<1> QED
  BY <1>1, AnnotationAssumption DEF AnnotationAssumption

LEMMA PollStep ==
  ASSUME PollTyped, ServerTyped, PageTyped, HistoryTyped, [Next]_vars
  PROVE  PollTyped'
<1>1. ASSUME UNCHANGED poll
      PROVE  PollTyped'
  BY <1>1 DEF poll, PollTyped
<1>2. CASE OnCanvas
  BY <1>1, <1>2, CanvasStep DEF Edits
<1>3. CASE Save \/ Approve \/ Delete \/ PredictAll \/ PollAsk
  BY <1>1, <1>3 DEF Save, Approve, Delete, PredictAll, PollAsk
<1>4. ASSUME NEW c \in Slots, PollApply(c)
      PROVE  PollTyped'
  <2>1. UNCHANGED poll \/ (predictPoll' = FALSE /\ predictTotal' = 0 /\ predictStart' = 0)
    BY <1>4 DEF PollApply
  <2>2. CASE predictPoll' = FALSE /\ predictTotal' = 0 /\ predictStart' = 0
    <3>1. predictPoll' \in BOOLEAN
      BY <2>2
    <3>2. predictTotal' \in Nat /\ predictStart' \in Nat
      BY <2>2
    <3> QED
      BY <3>1, <3>2 DEF PollTyped
  <2> QED
    BY <1>1, <2>1, <2>2
<1>5. ASSUME NEW k \in 0..Cardinality(Images) - 1, Strip(k) \/ Go(k)
      PROVE  PollTyped'
  BY <1>1, <1>5 DEF Strip, Go
<1>6. ASSUME NEW c \in Slots,
             \/ SaveDone(c) \/ SaveFailed(c) \/ ApproveDone(c) \/ ApproveFailed(c) \/ DeleteDone(c)
      PROVE  PollTyped'
  BY <1>1, <1>6 DEF SaveDone, SaveFailed, ApproveDone, ApproveFailed, DeleteDone
<1>7. ASSUME NEW c \in Slots, PredictDone(c)
      PROVE  PollTyped'
  <2>1. calls[c] \in Call
    BY <1>7, CallIs DEF PredictDone, Is
  <2>2. calls[c].count \in Nat /\ calls[c].known \in Nat
    BY <2>1, CallFields
  <2> QED
    BY <1>7, <2>2 DEF PredictDone, PollTyped
<1>8. CASE OnServer
  BY <1>1, <1>8 DEF OnServer, Read, Write, Dispatch, Lose
<1>9. CASE UNCHANGED vars
  BY <1>1, <1>9 DEF vars
<1> QED
  BY <1>2, <1>3, <1>4, <1>5, <1>6, <1>7, <1>8, <1>9 DEF Next, OnPage

LEMMA PassingIs ==
  ASSUME seen \subseteq Races, Passing
  PROVE  seen' \subseteq Races /\ seen \subseteq seen'
BY DEF Passing, Passed, Races

LEMMA SeenStep ==
  ASSUME seen \subseteq Races, [Next]_vars
  PROVE  seen' \subseteq Races /\ seen \subseteq seen'
<1>1. CASE seen' = seen
  BY <1>1
<1>2. CASE OnCanvas
  BY <1>1, <1>2 DEF OnCanvas, Draw, RemoveShape, Undo, Redo, Step, ApproveOnCanvas, SwitchTool, Edit,
     Changed
<1>3. CASE Save \/ Approve \/ Delete \/ PredictAll \/ PollAsk
  BY <1>3 DEF Save, Approve, Delete, PredictAll, PollAsk, Note, Races, history
<1>4. ASSUME NEW c \in Slots, PollApply(c)
      PROVE  seen' \subseteq Races /\ seen \subseteq seen'
  BY <1>4 DEF PollApply, Passed, Races
<1>5. ASSUME NEW k \in 0..Cardinality(Images) - 1, Strip(k)
      PROVE  seen' \subseteq Races /\ seen \subseteq seen'
  BY <1>5 DEF Strip, Note, Races
<1>6. ASSUME NEW k \in 0..Cardinality(Images) - 1, Go(k)
      PROVE  seen' \subseteq Races /\ seen \subseteq seen'
  BY <1>6, PassingIs DEF Go
<1>7. ASSUME NEW c \in Slots, SaveDone(c) \/ SaveFailed(c)
      PROVE  seen' \subseteq Races /\ seen \subseteq seen'
  BY <1>7 DEF SaveDone, SaveFailed, Note, Races
<1>8. ASSUME NEW c \in Slots, DeleteDone(c)
      PROVE  seen' \subseteq Races /\ seen \subseteq seen'
  BY <1>8, PassingIs DEF DeleteDone
<1>9. ASSUME NEW c \in Slots, ApproveDone(c) \/ ApproveFailed(c) \/ PredictDone(c)
      PROVE  seen' = seen
  BY <1>9 DEF ApproveDone, ApproveFailed, PredictDone, history
<1>10. ASSUME NEW c \in Slots, Write(c)
       PROVE  seen' \subseteq Races /\ seen \subseteq seen'
  BY <1>10 DEF Write, Note, Races
<1>11. ASSUME NEW c \in Slots, Read(c) \/ Dispatch(c) \/ Lose(c)
       PROVE  seen' = seen
  BY <1>11 DEF Read, Dispatch, Lose, history
<1>12. CASE UNCHANGED vars
  BY <1>1, <1>12 DEF vars, history
<1> QED
  BY <1>1, <1>2, <1>3, <1>4, <1>5, <1>6, <1>7, <1>8, <1>9, <1>10, <1>11, <1>12
     DEF Next, OnPage, OnServer

-----------------------------------------------------------------------------
Typed ==
  /\ ServerTyped /\ Kept /\ PageTyped /\ HistoryTyped /\ PollTyped /\ made \in 0..MaxOps

LEMMA TypedInit == Init => Typed
<1> SUFFICES ASSUME Init PROVE Typed
  OBVIOUS
<1>1. doc \in Documents /\ DOMAIN doc = Images
  <2>1. DOMAIN doc = Images
    BY DEF Init
  <2>2. \A i \in Images : doc[i] \in Data
    BY AnnotationAssumption DEF Init, Data, Annotations, Statuses, AnnotationAssumption
  <2>3. doc = [i \in Images |-> doc[i]]
    BY DEF Init
  <2>4. doc \in [DOMAIN doc -> Data]
    BY <2>1, <2>2, <2>3
  <2> QED
    BY <2>1, <2>4, DocumentIs
<1>2. calls = [c \in Slots |-> Free] /\ made = 0 /\ Free.kind = "none"
  BY DEF Init, Free
<1>3. ServerTyped /\ Kept
  BY <1>1, <1>2 DEF ServerTyped, Kept
<1>4. images \in Seq(Row) /\ Len(images) = Cardinality(Images)
  BY <1>1, ListIs DEF Init
<1>5. Cardinality(Images) \in Nat \ {0}
  BY FS_CardinalityType, FS_EmptySet, AnnotationAssumption DEF AnnotationAssumption
<1>6. 1 \in 1..Len(images) /\ currentIdx = 0 /\ canvas = Opened(images[1]) /\ pendingAnns = None
      /\ saving = FALSE
  BY <1>4, <1>5 DEF Init
<1>7. PageTyped
  <2>1. images[1].id \in Images /\ images[1].anns \in Annotations /\ images[1].id # None
    BY <1>4, <1>6, RowFields
  <2>2. /\ canvas.id = images[1].id /\ canvas.anns = images[1].anns
        /\ canvas.hist = <<images[1].anns>> /\ canvas.at = 1
    BY <1>6 DEF Opened
  <2>3. canvas \in Inhabited
    BY <1>6, <2>1 DEF Opened, Inhabited
  <2>4. Current = images[1].id
    BY <1>4, <1>5, <1>6 DEF Current, At
  <2>5. canvas.at \in 1..Len(canvas.hist)
    BY <2>2
  <2> QED
    BY <1>4, <1>6, <2>1, <2>2, <2>3, <2>4, <2>5 DEF PageTyped, Listing, Steady
<1>8. HistoryTyped /\ PollTyped /\ made \in 0..MaxOps
  <2>1. HistoryTyped
    BY DEF Init, HistoryTyped
  <2>2. predictPoll \in BOOLEAN
    BY DEF Init
  <2>3. predictTotal \in Nat /\ predictStart \in Nat
    BY DEF Init
  <2>4. made \in 0..MaxOps
    BY <1>2, AnnotationAssumption DEF AnnotationAssumption
  <2> QED
    BY <2>1, <2>2, <2>3, <2>4 DEF PollTyped
<1> QED
  BY <1>3, <1>7, <1>8 DEF Typed

LEMMA TypedStep == Typed /\ [Next]_vars => Typed'
<1> SUFFICES ASSUME Typed, [Next]_vars PROVE Typed'
  OBVIOUS
<1>1. ServerTyped' /\ Kept'
  BY ServerStep DEF Typed, PageTyped
<1>2. PageTyped'
  BY PageStep DEF Typed
<1>3. PollTyped' /\ made' \in 0..MaxOps
  BY PollStep, MadeStep DEF Typed
<1>4. seen' \subseteq Races
  BY SeenStep DEF Typed, HistoryTyped
<1>5. drawn' \in [Shapes -> Images \cup {None}] /\ wanted' \in [Images -> SUBSET Shapes]
  <2>1. CASE Draws /\ Follows
    BY <2>1 DEF Draws, Follows
  <2>2. CASE Turned \/ Still
    BY <2>2 DEF Turned, Still, Typed, HistoryTyped
  <2>3. CASE \E c \in Slots : Answer(c)
    BY <2>3 DEF Answer, SaveDone, ApproveDone, history, Typed, HistoryTyped
  <2> QED
    BY <2>1, <2>2, <2>3, StepIs DEF Typed
<1> QED
  BY <1>1, <1>2, <1>3, <1>4, <1>5 DEF Typed, HistoryTyped

LEMMA AlwaysTyped == Spec => []Typed
BY TypedInit, TypedStep, PTL DEF Spec

(* Every state is well-typed: the index of the undo history stays inside   *)
(* it, the list holds images with their annotations, and the requests      *)
(* carry what their handlers expect.                                       *)
THEOREM TypesHold == Spec => []TypeOK
<1>1. Typed => TypeOK
  BY DEF Typed, TypeOK, ServerTyped, PageTyped, Listing, HistoryTyped, PollTyped
<1> QED
  BY <1>1, AlwaysTyped, PTL

(* A deleted image comes back only with a whole document that was read     *)
(* before the deletion and is saved after it: a fresh copy is the          *)
(* document, and no handler adds an image to the copy it was given.        *)
THEOREM DeletedImagesStayDeleted == Spec => DeletedStaysDeleted
<1>1. Typed /\ [Next]_vars => [DOMAIN doc' \subseteq DOMAIN doc \/ "overwritten" \in seen']_vars
  BY NothingReturns DEF Typed, PageTyped
<1> QED
  BY <1>1, AlwaysTyped, PTL DEF Spec, DeletedStaysDeleted

-----------------------------------------------------------------------------
(* Where the shapes are while no pending edit was carried to another       *)
(* image: with f for the image each was drawn on.                          *)
MineIn(f, i, a) == \A s \in a \cap Shapes : f[s] = i
OwnDocument(f, d) == \A i \in DOMAIN d : MineIn(f, i, d[i].anns)
OwnRows(f, l) == \A k \in 1..Len(l) : MineIn(f, l[k].id, l[k].anns)
OwnCanvas(f, w) ==
  w.id # None => /\ MineIn(f, w.id, w.anns)
                 /\ \A k \in 1..Len(w.hist) : MineIn(f, w.id, w.hist[k])
OwnPending(f, w, p) == p # None => w.id # None /\ MineIn(f, w.id, p)
OwnCall(f, q) ==
  /\ q.kind = "save" => MineIn(f, q.img, q.anns)
  /\ q.kind = "approve" /\ q.st = "answered" => MineIn(f, q.img, q.anns)
  /\ q.kind # "none" /\ q.st = "read" => OwnDocument(f, q.copy)

OwnPage(f) ==
  OwnRows(f, images) /\ OwnCanvas(f, canvas) /\ OwnPending(f, canvas, pendingAnns)
OwnServer(f) == OwnDocument(f, doc) /\ \A c \in Slots : OwnCall(f, calls[c])
Own == "carried" \notin seen => OwnPage(drawn) /\ OwnServer(drawn)

(* A shape that was drawn stays drawn where it was.                        *)
Keeps(f, g) == \A s \in Shapes : f[s] # None => g[s] = f[s]

LEMMA MineKept ==
  ASSUME NEW f, NEW g, Keeps(f, g), NEW i \in Images, NEW a, MineIn(f, i, a)
  PROVE  MineIn(g, i, a)
BY AnnotationAssumption DEF Keeps, MineIn, AnnotationAssumption

LEMMA DocumentKept ==
  ASSUME NEW f, NEW g, Keeps(f, g), NEW d \in Documents, OwnDocument(f, d)
  PROVE  OwnDocument(g, d)
BY MineKept, DataFields DEF OwnDocument

LEMMA RowsKept ==
  ASSUME NEW f, NEW g, Keeps(f, g), NEW l \in Seq(Row), OwnRows(f, l)
  PROVE  OwnRows(g, l)
BY MineKept, RowFields DEF OwnRows

LEMMA CallKept ==
  ASSUME NEW f, NEW g, Keeps(f, g), NEW q \in Call \cup {Free}, q.kind # "none" => Formed(q),
         OwnCall(f, q)
  PROVE  OwnCall(g, q)
<1>1. CASE q = Free
  BY <1>1 DEF Free, OwnCall
<1>2. CASE q \in Call
  <2>1. q.copy \in Documents /\ q.kind # "none"
    BY <1>2, CallFields
  <2>2. q.kind \in {"save", "approve"} => q.img \in Images
    BY <2>1 DEF Formed
  <2> QED
    BY <2>1, <2>2, MineKept, DocumentKept DEF OwnCall
<1> QED
  BY <1>1, <1>2

LEMMA OwnEdits ==
  ASSUME PageTyped, ServerTyped, OwnPage(drawn), OwnServer(drawn), Edits, Remembers, Draws
  PROVE  OwnPage(drawn)' /\ OwnServer(drawn)'
<1>1. Keeps(drawn, drawn') /\ canvas.id \in Images /\ canvas.id # None /\ canvas'.id = canvas.id
  BY AnnotationAssumption DEF Keeps, Draws, Edits, AnnotationAssumption
<1>2. OwnRows(drawn', images)
  BY <1>1, RowsKept DEF OwnPage, PageTyped, Listing
<1>3. OwnServer(drawn')
  <2>1. OwnDocument(drawn', doc)
    BY <1>1, DocumentKept DEF OwnServer, ServerTyped
  <2>2. \A c \in Slots : OwnCall(drawn', calls[c])
    BY <1>1, CallKept DEF OwnServer, ServerTyped
  <2> QED
    BY <2>1, <2>2 DEF OwnServer
<1>4. MineIn(drawn', canvas.id, canvas.anns)
  BY <1>1, MineKept DEF OwnPage, OwnCanvas
<1>5. \A j \in 1..Len(canvas.hist) : MineIn(drawn', canvas.id, canvas.hist[j])
  BY <1>1, MineKept DEF OwnPage, OwnCanvas
<1>6. MineIn(drawn', canvas.id, canvas'.anns)
  BY <1>4, <1>5 DEF Draws, MineIn
<1>7. \A k \in 1..Len(canvas'.hist) : MineIn(drawn', canvas.id, canvas'.hist[k])
  BY <1>5, <1>6 DEF Remembers
<1>8. OwnCanvas(drawn', canvas') /\ OwnPending(drawn', canvas', pendingAnns')
  BY <1>1, <1>6, <1>7 DEF OwnCanvas, OwnPending, Edits
<1> QED
  BY <1>2, <1>3, <1>8 DEF OwnPage, OwnServer, Edits

LEMMA OwnTurned ==
  ASSUME ServerTyped, OwnPage(drawn), OwnServer(drawn), Turned, "carried" \notin seen'
  PROVE  OwnPage(drawn)'
<1>1. OwnRows(drawn, images')
  <2>1. CASE \A k \in 1..Len(images') : \E j \in 1..Len(images) : images'[k] = images[j]
    BY <2>1 DEF OwnRows, OwnPage
  <2>2. ASSUME NEW c \in Slots, PollApply(c)
        PROVE  OwnRows(drawn, images')
    <3>1. /\ calls[c] \in Call /\ calls[c].st = "read" /\ calls[c].kind # "none"
          /\ images' = List(calls[c].copy)
      BY <2>2, CallIs DEF PollApply, Is
    <3>2. OwnDocument(drawn, calls[c].copy) /\ calls[c].copy \in Documents
      BY <3>1, CallFields DEF OwnServer, OwnCall
    <3> QED
      BY <3>1, <3>2, ListIs DEF OwnRows, OwnDocument
  <2> QED
    BY <2>1, <2>2 DEF Turned, Sourced
<1>2. canvas' = canvas \/ canvas'.id # canvas.id
  BY DEF Turned, Turns
<1>3. OwnCanvas(drawn, canvas')
  <2>1. CASE canvas' = canvas \/ canvas'.id = None
    BY <2>1 DEF OwnCanvas, OwnPage
  <2>2. ASSUME NEW k \in 1..Len(images'),
               canvas'.id = images'[k].id, canvas'.anns = images'[k].anns,
               canvas'.hist = <<images'[k].anns>>
        PROVE  OwnCanvas(drawn, canvas')
    <3>1. MineIn(drawn, canvas'.id, canvas'.anns)
      BY <1>1, <2>2 DEF OwnRows
    <3>2. \A j \in 1..Len(canvas'.hist) : canvas'.hist[j] = canvas'.anns
      BY <2>2
    <3> QED
      BY <3>1, <3>2 DEF OwnCanvas
  <2> QED
    BY <2>1, <2>2 DEF Turned, Turns
<1>4. OwnPending(drawn, canvas', pendingAnns')
  BY <1>2 DEF OwnPending, OwnPage, Turned
<1>5. drawn' = drawn
  BY DEF Turned
<1> QED
  BY <1>1, <1>3, <1>4, <1>5 DEF OwnPage

LEMMA OwnPageStep ==
  ASSUME Typed, OwnPage(drawn), OwnServer(drawn), [Next]_vars, "carried" \notin seen'
  PROVE  OwnPage(drawn)' /\ ((Edits /\ OwnServer(drawn)') \/ drawn' = drawn)
<1>1. CASE Edits /\ Remembers /\ Draws
  BY <1>1, OwnEdits DEF Typed
<1>2. CASE Turned
  BY <1>2, OwnTurned DEF Turned, Typed
<1>3. ASSUME NEW c \in Slots, Answer(c)
      PROVE  OwnPage(drawn)' /\ drawn' = drawn
  <2>1. drawn' = drawn
    BY <1>3 DEF Answer, SaveDone, ApproveDone, history
  <2>2. /\ Relisted(calls[c].anns, calls[c].img) /\ canvas' = canvas
        /\ pendingAnns' \in {pendingAnns, None}
        /\ calls[c].kind \in {"save", "approve"} /\ calls[c].st = "answered"
    BY <1>3, AnswerIs DEF Typed
  <2>3. MineIn(drawn, calls[c].img, calls[c].anns)
    BY <2>2 DEF OwnServer, OwnCall
  <2>4. OwnRows(drawn, images')
    BY <2>2, <2>3 DEF OwnRows, Relisted, OwnPage
  <2> QED
    BY <2>1, <2>2, <2>4 DEF OwnPage, OwnPending
<1>4. CASE Still
  BY <1>4 DEF Still, OwnPage
<1> QED
  BY <1>1, <1>2, <1>3, <1>4, StepIs DEF Typed

(* A handler's copy holds the shapes where they were drawn, and so does    *)
(* what it saves and what it answers.                                      *)
LEMMA OwnWrite ==
  ASSUME Typed, NEW f, OwnServer(f), NEW c \in Slots, Write(c)
  PROVE  OwnDocument(f, doc') /\ \A x \in Slots : OwnCall(f, calls'[x])
<1>1. /\ SavedOver(c) /\ Answers(c) /\ calls[c] \in Call /\ calls[c].st = "read"
      /\ \A x \in Slots \ {c} :
           IF calls[x].kind # "none" /\ calls[x].st = "read"
           THEN Overtaken(x) ELSE calls'[x] = calls[x]
  BY WriteIs DEF Typed
<1>2. calls[c].kind # "none" /\ Formed(calls[c])
  BY <1>1, CallFields DEF Typed, ServerTyped
<1>3. OwnDocument(f, calls[c].copy)
  BY <1>1, <1>2 DEF OwnServer, OwnCall
<1>4. OwnDocument(f, doc')
  <2>1. CASE calls[c].kind = "save"
    <3>1. MineIn(f, calls[c].img, doc'[calls[c].img].anns)
      BY <1>1, <2>1 DEF OwnServer, OwnCall, SavedOver
    <3>2. \A x \in DOMAIN doc' : x = calls[c].img \/ MineIn(f, x, doc'[x].anns)
      BY <1>1, <1>3, <2>1 DEF SavedOver, OwnDocument
    <3> QED
      BY <3>1, <3>2 DEF OwnDocument
  <2>2. CASE calls[c].kind # "save"
    <3>1. /\ DOMAIN doc' \subseteq DOMAIN calls[c].copy
          /\ \A x \in DOMAIN doc' :
               doc'[x].anns \cap Shapes = calls[c].copy[x].anns \cap Shapes
      BY <1>1, <2>2 DEF SavedOver
    <3> QED
      BY <1>3, <3>1 DEF OwnDocument, MineIn
  <2> QED
    BY <2>1, <2>2
<1>5. OwnCall(f, calls'[c])
  <2>1. CASE calls'[c] = Free
    BY <2>1 DEF OwnCall, Free
  <2>2. CASE calls'[c] # Free
    <3>1. /\ Alike(calls[c], calls'[c]) /\ calls'[c].st = "answered"
          /\ calls[c].kind \in {"save", "approve"} => calls'[c].anns = doc'[calls[c].img].anns
      BY <1>1, <2>2 DEF Answers
    <3>2. calls[c].kind \in {"save", "approve"} => calls[c].img \in DOMAIN doc'
      BY <1>1 DEF SavedOver
    <3> QED
      BY <1>4, <3>1, <3>2 DEF OwnCall, OwnDocument, Alike
  <2> QED
    BY <2>1, <2>2
<1>6. ASSUME NEW x \in Slots \ {c}
      PROVE  OwnCall(f, calls'[x])
  <2>1. OwnCall(f, calls[x])
    BY DEF OwnServer
  <2> QED
    BY <1>1, <2>1 DEF Overtaken, OwnCall, Alike
<1> QED
  BY <1>4, <1>5, <1>6

LEMMA OwnServerStep ==
  ASSUME Typed, OwnPage(drawn), OwnServer(drawn), [Next]_vars, drawn' = drawn
  PROVE  OwnServer(drawn)'
<1> DEFINE f == drawn
<1>1. drawn' = f
  OBVIOUS
<1>2. OwnPending(f, canvas, pendingAnns) /\ OwnServer(f)
  BY DEF OwnPage
<1> HIDE DEF f
<1>3. \A x \in Slots : OwnCall(f, calls[x])
  BY <1>2 DEF OwnServer
<1>4. OwnDocument(f, doc)
  BY <1>2 DEF OwnServer
<1> SUFFICES OwnDocument(f, doc') /\ \A x \in Slots : OwnCall(f, calls'[x])
  BY <1>1 DEF OwnServer
<1>5. ASSUME doc' = doc, NEW X \in SUBSET Slots, Others(X), \A x \in X : OwnCall(f, calls'[x])
      PROVE  OwnDocument(f, doc') /\ \A x \in Slots : OwnCall(f, calls'[x])
  BY <1>3, <1>4, <1>5 DEF Others
<1>6. CASE doc' = doc /\ calls' = calls
  BY <1>3, <1>4, <1>6
<1>7. CASE doc' = doc /\ Sends
  <2>1. PICK k \in Kinds \ {"task"}, i \in Images \cup {None}, a \in Annotations :
          /\ k = "save" => i = Current /\ a = pendingAnns /\ pendingAnns # None
          /\ Request(k, i, a)
    BY <1>7 DEF Sends
  <2>2. HasSent(k, i, a)
    <3>1. k \in Kinds /\ Request(k, i, a) /\ images \in Seq(Row) /\ ServerTyped /\ PollTyped
      BY <2>1 DEF Typed, PageTyped, Listing
    <3> QED
      BY <3>1, SendIs
  <2>3. PICK n \in Slots :
           /\ Others({n}) /\ calls'[n].kind = k /\ calls'[n].st = "sent"
           /\ calls'[n].img = i /\ calls'[n].anns = a
    BY <2>2 DEF HasSent
  <2>4. k = "save" => MineIn(f, i, a)
    BY <1>2, <2>1 DEF OwnPending, Typed, PageTyped, Steady
  <2>5. OwnCall(f, calls'[n])
    BY <2>3, <2>4 DEF OwnCall
  <2> QED
    BY <1>5, <1>7, <2>3, <2>5
<1>8. CASE doc' = doc /\ Settles
  <2>1. PICK c \in Slots : Settle(c)
    BY <1>8 DEF Settles
  <2>2. calls'[c] = Free /\ Others({c})
    BY <2>1, SettleIs DEF Typed
  <2>3. OwnCall(f, calls'[c])
    BY <2>2 DEF OwnCall, Free
  <2> QED
    BY <1>5, <1>8, <2>2, <2>3
<1>9. CASE OnCanvas \/ OnPage
  BY <1>6, <1>7, <1>8, <1>9, PageCalls DEF Typed, PageTyped
<1>10. ASSUME NEW c \in Slots, Read(c)
       PROVE  OwnDocument(f, doc') /\ \A x \in Slots : OwnCall(f, calls'[x])
  <2>1. /\ Others({c}) /\ doc' = doc
        /\ Alike(calls[c], calls'[c]) /\ calls'[c].anns = calls[c].anns
        /\ calls'[c].st = "failed" \/ (calls'[c].st = "read" /\ calls'[c].copy = doc)
    BY <1>10, ReadIs DEF Typed
  <2>2. OwnCall(f, calls'[c])
    BY <1>3, <1>4, <2>1 DEF OwnCall, Alike
  <2> QED
    BY <1>5, <2>1, <2>2
<1>11. ASSUME NEW c \in Slots, Dispatch(c)
       PROVE  OwnDocument(f, doc') /\ \A x \in Slots : OwnCall(f, calls'[x])
  <2>1. doc' = doc /\ calls'[c].kind = "predict" /\ calls'[c].st = "answered"
    BY <1>11, DispatchIs DEF Typed, PageTyped, Listing
  <2>2. PICK t \in Slots \ {c} :
              Others({c, t}) /\ calls'[t].kind = "task" /\ calls'[t].st = "sent"
    BY <1>11, DispatchIs DEF Typed, PageTyped, Listing
  <2>3. OwnCall(f, calls'[c]) /\ OwnCall(f, calls'[t])
    BY <2>1, <2>2 DEF OwnCall
  <2> QED
    BY <1>5, <2>1, <2>2, <2>3
<1>12. ASSUME NEW c \in Slots, Lose(c)
       PROVE  OwnDocument(f, doc') /\ \A x \in Slots : OwnCall(f, calls'[x])
  <2>1. /\ doc' = doc /\ Others({c})
        /\ \/ calls'[c] = Free
           \/ /\ Alike(calls[c], calls'[c]) /\ calls'[c].st = "failed"
              /\ calls'[c].anns = calls[c].anns
    BY <1>12, LoseIs DEF Typed
  <2>2. OwnCall(f, calls'[c])
    BY <1>3, <2>1 DEF OwnCall, Alike, Free
  <2> QED
    BY <1>5, <2>1, <2>2
<1>13. ASSUME NEW c \in Slots, Write(c)
       PROVE  OwnDocument(f, doc') /\ \A x \in Slots : OwnCall(f, calls'[x])
  BY <1>2, <1>13, OwnWrite
<1>14. CASE UNCHANGED vars
  BY <1>6, <1>14 DEF vars, store
<1> QED
  BY <1>9, <1>10, <1>11, <1>12, <1>13, <1>14 DEF Next, OnServer

(* While no pending edit was carried to another image, every shape of the  *)
(* project and of the canvas is on the image it was drawn on: so are the   *)
(* rows of the page, the undo history, what waits for Save, the requests   *)
(* and the copies of the handlers.                                         *)
THEOREM ShapesStayOnTheirImage == Spec => []OwnImage
<1>1. Init => Own
  <2> SUFFICES ASSUME Init PROVE OwnPage(drawn) /\ OwnServer(drawn)
    BY DEF Own
  <2>1. Typed
    BY TypedInit
  <2>2. OwnDocument(drawn, doc)
    BY AnnotationAssumption DEF Init, OwnDocument, MineIn, AnnotationAssumption
  <2>3. OwnRows(drawn, images)
    BY <2>1, <2>2, ListIs DEF Init, OwnRows, OwnDocument, Typed, ServerTyped
  <2>4. OwnCanvas(drawn, canvas)
    <3>1. canvas = Opened(images[1]) /\ Len(images) \in Nat
      BY <2>1 DEF Init, Typed, PageTyped, Listing
    <3>2. canvas.id # None => 1 \in 1..Len(images)
      <4>1. canvas.id = At(images, 0)
        BY <2>1 DEF Init, Typed, PageTyped, Steady, Current
      <4> QED
        BY <3>1, <4>1 DEF At
    <3>3. /\ canvas.id = images[1].id /\ canvas.anns = images[1].anns
          /\ canvas.hist = <<images[1].anns>>
      BY <3>1 DEF Opened
    <3>4. \A k \in 1..Len(canvas.hist) : canvas.hist[k] = canvas.anns
      BY <3>3
    <3> QED
      BY <2>3, <3>2, <3>3, <3>4 DEF OwnRows, OwnCanvas
  <2>5. OwnPending(drawn, canvas, pendingAnns)
    BY DEF Init, OwnPending
  <2>6. \A c \in Slots : OwnCall(drawn, calls[c])
    BY DEF Init, OwnCall, Free
  <2> QED
    BY <2>2, <2>3, <2>4, <2>5, <2>6 DEF OwnPage, OwnServer
<1>2. Typed /\ Own /\ [Next]_vars => Own'
  <2> SUFFICES ASSUME Typed, Own, [Next]_vars, "carried" \notin seen'
               PROVE  OwnPage(drawn)' /\ OwnServer(drawn)'
    BY DEF Own
  <2>1. OwnPage(drawn) /\ OwnServer(drawn)
    BY SeenStep DEF Own, Typed, HistoryTyped
  <2>2. OwnPage(drawn)' /\ (OwnServer(drawn)' \/ drawn' = drawn)
    BY <2>1, OwnPageStep
  <2> QED
    BY <2>1, <2>2, OwnServerStep
<1>3. Own => OwnImage
  BY DEF Own, OwnImage, OwnPage, OwnServer, OwnDocument, OwnCanvas, MineIn, Mine
<1> QED
  BY <1>1, <1>2, <1>3, AlwaysTyped, PTL DEF Spec

-----------------------------------------------------------------------------
(* Nothing is lost while no race has happened: with w for what is wanted   *)
(* of each image, e for the image whose edits are pending, if any, and k   *)
(* for the requests.                                                       *)
Edited == IF pendingAnns = None THEN None ELSE canvas.id
HeldIn(w, e, i, a) == a \cap Shapes = w[i] \/ e = i
SavingIn(k, i) == \E c \in Slots : k[c].kind = "save" /\ k[c].img = i
SafeIn(w, e, k, i, a) == HeldIn(w, e, i, a) \/ SavingIn(k, i)

CanvasOf(w, v, p) ==
  /\ p # None => v.id # None /\ p = v.anns
  /\ v.id # None => v.anns \cap Shapes = w[v.id]
RowsSafe(w, e, k, l) == \A j \in 1..Len(l) : SafeIn(w, e, k, l[j].id, l[j].anns)
DocumentSafe(w, e, k, d) == \A i \in DOMAIN d : SafeIn(w, e, k, i, d[i].anns)
(* A save sends what is wanted, unless that was edited since; so does what *)
(* an approval answers.  What a save has written stays in the project.     *)
CallHeld(w, e, q) ==
  q.kind = "save" \/ (q.kind = "approve" /\ q.st = "answered") => HeldIn(w, e, q.img, q.anns)
CallWritten(d, q) ==
  q.kind = "save" /\ q.st = "answered" /\ q.img \in DOMAIN d =>
    d[q.img].anns \cap Shapes = q.anns \cap Shapes
CallsHeld(w, e, k, d) == \A c \in Slots : CallHeld(w, e, k[c]) /\ CallWritten(d, k[c])
Apart(k) ==
  \A c, x \in Slots :
    c # x /\ k[c].kind = "save" /\ k[x].kind \in {"save", "approve"} => k[c].img # k[x].img

Safe ==
  /\ CanvasOf(wanted, canvas, pendingAnns)
  /\ RowsSafe(wanted, Edited, calls, images) /\ DocumentSafe(wanted, Edited, calls, doc)
  /\ CallsHeld(wanted, Edited, calls, doc) /\ Apart(calls)
Lossless == seen = {} => Safe

(* From w and e to v and g nothing that was held is let go, and no save    *)
(* of k is missing from h.                                                 *)
Carries(w, e, v, g) == \A i \in Images : g = i \/ (e # i /\ v[i] = w[i])
SavesOn(k, h) == \A i \in Images : SavingIn(k, i) => SavingIn(h, i)

LEMMA HeldKept ==
  ASSUME NEW w, NEW e, NEW v, NEW g, Carries(w, e, v, g), NEW i \in Images, NEW a,
         HeldIn(w, e, i, a)
  PROVE  HeldIn(v, g, i, a)
BY DEF Carries, HeldIn

LEMMA RowsSafeKept ==
  ASSUME NEW w, NEW e, NEW v, NEW g, Carries(w, e, v, g), NEW k, NEW h, SavesOn(k, h),
         NEW l \in Seq(Row), RowsSafe(w, e, k, l)
  PROVE  RowsSafe(v, g, h, l)
BY HeldKept, RowFields DEF RowsSafe, SafeIn, SavesOn

LEMMA DocumentSafeKept ==
  ASSUME NEW w, NEW e, NEW v, NEW g, Carries(w, e, v, g), NEW k, NEW h, SavesOn(k, h),
         NEW d \in Documents, DocumentSafe(w, e, k, d)
  PROVE  DocumentSafe(v, g, h, d)
BY HeldKept, DataFields DEF DocumentSafe, SafeIn, SavesOn

LEMMA CallHeldKept ==
  ASSUME NEW w, NEW e, NEW v, NEW g, Carries(w, e, v, g), NEW q,
         q.kind # "none" => Formed(q), CallHeld(w, e, q)
  PROVE  CallHeld(v, g, q)
BY HeldKept DEF CallHeld, Formed

(* The canvas is edited.                                                   *)
LEMMA SafeEdits ==
  ASSUME Typed, Safe, Edits, Follows
  PROVE  Safe'
<1>1. canvas.id \in Images /\ canvas'.id = canvas.id /\ canvas.id # None /\ pendingAnns' # None
  BY AnnotationAssumption DEF Edits, Annotations, AnnotationAssumption
<1>2. Edited' = canvas.id /\ Edited \in {None, canvas.id}
  BY <1>1 DEF Edited
<1>3. CanvasOf(wanted', canvas', pendingAnns')
  BY <1>1 DEF Safe, CanvasOf, Edits, Follows
<1>4. Carries(wanted, Edited, wanted', Edited')
  BY <1>1, <1>2, AnnotationAssumption DEF Carries, Follows, AnnotationAssumption
<1> DEFINE w == wanted
           e == Edited
           v == wanted'
           g == Edited'
<1>5. Carries(w, e, v, g) /\ SavesOn(calls, calls)
  BY <1>4 DEF SavesOn
<1>6. /\ RowsSafe(w, e, calls, images) /\ DocumentSafe(w, e, calls, doc)
      /\ CallsHeld(w, e, calls, doc) /\ Apart(calls)
      /\ images \in Seq(Row) /\ doc \in Documents
      /\ \A c \in Slots : calls[c].kind # "none" => Formed(calls[c])
  BY DEF Safe, Typed, PageTyped, Listing, ServerTyped
<1>7. CanvasOf(v, canvas', pendingAnns') /\ images' = images /\ calls' = calls /\ doc' = doc
  BY <1>3 DEF Edits
<1>8. Safe' = ( /\ CanvasOf(v, canvas', pendingAnns')
                /\ RowsSafe(v, g, calls', images') /\ DocumentSafe(v, g, calls', doc')
                /\ CallsHeld(v, g, calls', doc') /\ Apart(calls') )
  BY DEF Safe
<1> HIDE DEF w, e, v, g
<1>9. RowsSafe(v, g, calls, images) /\ DocumentSafe(v, g, calls, doc)
  BY <1>5, <1>6, RowsSafeKept, DocumentSafeKept
<1>10. CallsHeld(v, g, calls, doc)
  BY <1>5, <1>6, CallHeldKept DEF CallsHeld
<1> QED
  BY <1>6, <1>7, <1>8, <1>9, <1>10

(* Steps that leave the page and the project alone, but for what they do   *)
(* to the requests: a new call is one that keeps the saves apart.          *)
LEMMA SafeCalls ==
  ASSUME Typed, Safe, Still, doc' = doc, SavesOn(calls, calls'),
         CallsHeld(wanted, Edited, calls', doc), Apart(calls')
  PROVE  Safe'
<1>1. /\ wanted' = wanted /\ Edited' = Edited /\ images' = images /\ canvas' = canvas
      /\ pendingAnns' = pendingAnns
  BY DEF Still, Edited
<1> DEFINE w == wanted
           e == Edited
<1>2. /\ RowsSafe(w, e, calls, images) /\ DocumentSafe(w, e, calls, doc)
      /\ CanvasOf(w, canvas, pendingAnns)
      /\ images \in Seq(Row) /\ doc \in Documents
  BY DEF Safe, Typed, PageTyped, Listing, ServerTyped
<1>3. RowsSafe(w, e, calls', images) /\ DocumentSafe(w, e, calls', doc)
  <2>1. SavesOn(calls, calls') /\ \A j \in 1..Len(images) : images[j].id \in Images
    BY <1>2, RowFields
  <2>2. \A i \in DOMAIN doc : i \in Images
    BY <1>2, DataFields
  <2> HIDE DEF w, e
  <2> QED
    BY <1>2, <2>1, <2>2 DEF RowsSafe, DocumentSafe, SafeIn, SavesOn
<1> QED
  BY <1>1, <1>2, <1>3 DEF Safe

(* The requests of the page: another one than a save, or a save of what is *)
(* pending while no save and no approval of the image is in flight.        *)
HeldAll(w, e) == CallsHeld(w, e, calls', doc) /\ Apart(calls') /\ SavesOn(calls, calls')

LEMMA SentHeld ==
  ASSUME NEW w, NEW e, CallsHeld(w, e, calls, doc), Apart(calls),
         NEW k \in Kinds, NEW i, NEW a, HasSent(k, i, a),
         k = "save" => HeldIn(w, e, i, a) /\ ~Busy(i),
         k = "approve" => ~Saving(i)
  PROVE  HeldAll(w, e)
<1>1. PICK n \in Slots :
         /\ calls[n] = Free /\ Others({n}) /\ calls'[n].kind = k /\ calls'[n].st = "sent"
         /\ calls'[n].img = i /\ calls'[n].anns = a
  BY DEF HasSent
<1>2. CallHeld(w, e, calls'[n]) /\ CallWritten(doc, calls'[n])
  BY <1>1 DEF CallHeld, CallWritten
<1>3. CallsHeld(w, e, calls', doc)
  BY <1>1, <1>2 DEF CallsHeld, Others
<1>4. SavesOn(calls, calls')
  BY <1>1 DEF SavesOn, SavingIn, Others, Free
<1>5. ASSUME NEW c \in Slots, NEW x \in Slots, c # x,
             calls'[c].kind = "save", calls'[x].kind \in {"save", "approve"}
      PROVE  calls'[c].img # calls'[x].img
  <2>1. CASE c = n
    <3>1. calls'[x] = calls[x] /\ ~Busy(i)
      BY <1>1, <1>5, <2>1 DEF Others
    <3> QED
      BY <1>1, <1>5, <2>1, <3>1 DEF Busy
  <2>2. CASE x = n
    <3>1. calls'[c] = calls[c]
      BY <1>1, <1>5, <2>2 DEF Others
    <3> QED
      BY <1>1, <1>5, <2>2, <3>1 DEF Busy, Saving
  <2>3. CASE c # n /\ x # n
    BY <1>1, <1>5, <2>3 DEF Others, Apart
  <2> QED
    BY <2>1, <2>2, <2>3
<1> QED
  BY <1>3, <1>4, <1>5 DEF HeldAll, Apart

LEMMA SettledHeld ==
  ASSUME Typed, NEW w, NEW e, CallsHeld(w, e, calls, doc), Apart(calls), NEW c \in Slots, Settle(c)
  PROVE  /\ CallsHeld(w, e, calls', doc) /\ Apart(calls')
         /\ \A i : SavingIn(calls, i) => SavingIn(calls', i) \/ (calls[c].kind = "save" /\ calls[c].img = i)
<1>1. calls'[c] = Free /\ Others({c})
  BY SettleIs DEF Typed
<1>2. CallsHeld(w, e, calls', doc)
  BY <1>1 DEF CallsHeld, CallHeld, CallWritten, Others, Free
<1>3. Apart(calls')
  BY <1>1 DEF Apart, Others, Free
<1>4. ASSUME NEW i, SavingIn(calls, i)
      PROVE  SavingIn(calls', i) \/ (calls[c].kind = "save" /\ calls[c].img = i)
  BY <1>1, <1>4 DEF SavingIn, Others
<1> QED
  BY <1>2, <1>3, <1>4

(* Handlers that read, hand over or fail keep what they were sent.         *)
LEMMA ServedHeld ==
  ASSUME Typed, NEW w, NEW e, CallsHeld(w, e, calls, doc), Apart(calls), NEW c \in Slots,
         Read(c) \/ Dispatch(c) \/ Lose(c)
  PROVE  doc' = doc /\ HeldAll(w, e)
<1>1. ASSUME NEW X \in SUBSET Slots, Others(X),
             \A x \in X :
               \/ calls'[x].kind \notin {"save", "approve"} /\ calls[x].kind # "save"
               \/ /\ calls'[x].kind = calls[x].kind /\ calls'[x].img = calls[x].img
                  /\ calls'[x].anns = calls[x].anns /\ calls'[x].st # "answered"
      PROVE  HeldAll(w, e)
  <2>1. CallsHeld(w, e, calls', doc)
    <3> SUFFICES ASSUME NEW x \in Slots
                 PROVE  CallHeld(w, e, calls'[x]) /\ CallWritten(doc, calls'[x])
      BY DEF CallsHeld
    <3>1. CASE x \in X
      BY <1>1, <3>1 DEF CallsHeld, CallHeld, CallWritten
    <3>2. CASE x \notin X
      BY <1>1, <3>2 DEF CallsHeld, Others
    <3> QED
      BY <3>1, <3>2
  <2>2. \A x \in Slots :
          /\ calls'[x].kind = "save" => calls[x].kind = "save" /\ calls[x].img = calls'[x].img
          /\ calls'[x].kind = "approve" => calls[x].kind = "approve" /\ calls[x].img = calls'[x].img
          /\ calls[x].kind = "save" => calls'[x].kind = "save" /\ calls[x].img = calls'[x].img
    BY <1>1 DEF Others
  <2>3. Apart(calls') /\ SavesOn(calls, calls')
    BY <2>2 DEF Apart, SavesOn, SavingIn
  <2> QED
    BY <2>1, <2>3 DEF HeldAll
<1>2. CASE Read(c)
  <2>1. /\ Others({c}) /\ doc' = doc
        /\ Alike(calls[c], calls'[c]) /\ calls'[c].anns = calls[c].anns
        /\ calls'[c].st = "failed" \/ calls'[c].st = "read"
    BY <1>2, ReadIs DEF Typed
  <2> QED
    BY <1>1, <2>1 DEF Alike
<1>3. CASE Dispatch(c)
  <2>1. doc' = doc /\ calls'[c].kind = "predict" /\ calls[c].kind = "predict"
    BY <1>3, DispatchIs DEF Typed, PageTyped, Listing, Dispatch, Is
  <2>2. PICK t \in Slots \ {c} : calls[t] = Free /\ Others({c, t}) /\ calls'[t].kind = "task"
    BY <1>3, DispatchIs DEF Typed, PageTyped, Listing
  <2>3. calls[t].kind # "save"
    BY <2>2 DEF Free
  <2> QED
    BY <1>1, <2>1, <2>2, <2>3
<1>4. CASE Lose(c)
  <2>1. /\ doc' = doc /\ Others({c})
        /\ \/ calls'[c] = Free /\ calls[c].kind \in {"delete", "predict", "tick"}
           \/ /\ Alike(calls[c], calls'[c]) /\ calls'[c].st = "failed"
              /\ calls'[c].anns = calls[c].anns
    BY <1>4, LoseIs DEF Typed
  <2>2. CASE calls'[c] = Free /\ calls[c].kind \in {"delete", "predict", "tick"}
    BY <1>1, <2>1, <2>2 DEF Free
  <2>3. CASE /\ Alike(calls[c], calls'[c]) /\ calls'[c].st = "failed"
             /\ calls'[c].anns = calls[c].anns
    BY <1>1, <2>1, <2>3 DEF Alike
  <2> QED
    BY <2>1, <2>2, <2>3
<1> QED
  BY <1>2, <1>3, <1>4

(* Another image becomes current without Save: nothing was pending, or the *)
(* canvas stays.                                                           *)
LEMMA SafeTurned ==
  ASSUME Typed, Safe, Turned, Passed \subseteq seen', seen' = {}, pendingAnns' = pendingAnns,
         CallsHeld(wanted, Edited, calls', doc), Apart(calls'), SavesOn(calls, calls')
  PROVE  Safe'
<1>1. ~Left /\ ~Early
  BY DEF Passed
<1>2. /\ images' \in Seq(Row) /\ doc' = doc /\ wanted' = wanted /\ Sourced
      /\ canvas' = canvas \/ (canvas'.id # canvas.id /\ pendingAnns = None)
  BY <1>1 DEF Turned, Turns, Left
<1>3. Edited' = Edited
  BY <1>2 DEF Edited
<1> DEFINE w == wanted
           e == Edited
<1>4. /\ RowsSafe(w, e, calls, images) /\ DocumentSafe(w, e, calls, doc)
      /\ CanvasOf(w, canvas, pendingAnns)
      /\ CallsHeld(w, e, calls', doc) /\ Apart(calls') /\ SavesOn(calls, calls')
      /\ images \in Seq(Row) /\ doc \in Documents
  BY DEF Safe, Typed, PageTyped, Listing, ServerTyped
<1>5. w = wanted' /\ e = Edited'
  BY <1>2, <1>3
<1>6. pendingAnns = None => e = None
  BY DEF Edited
<1> HIDE DEF w, e
<1>7. RowsSafe(w, e, calls, images')
  <2>1. CASE \A k \in 1..Len(images') : \E j \in 1..Len(images) : images'[k] = images[j]
    BY <1>4, <2>1 DEF RowsSafe
  <2>2. CASE \E c \in Slots : PollApply(c)
    <3>1. ~Late(images')
      BY <2>2 DEF PollApply
    <3>2. ASSUME NEW k \in 1..Len(images')
          PROVE  SafeIn(w, e, calls, images'[k].id, images'[k].anns)
      <4>1. /\ images'[k].id \in DOMAIN doc
            /\ \/ images'[k].anns \cap Shapes = doc[images'[k].id].anns \cap Shapes
               \/ Saving(images'[k].id)
        BY <3>1, <3>2 DEF Late
      <4>2. SafeIn(w, e, calls, images'[k].id, doc[images'[k].id].anns)
        BY <1>4, <4>1 DEF DocumentSafe
      <4> QED
        BY <4>1, <4>2 DEF SafeIn, HeldIn, Saving, SavingIn
    <3> QED
      BY <3>2 DEF RowsSafe
  <2> QED
    BY <1>2, <2>1, <2>2 DEF Sourced
<1>8. RowsSafe(w, e, calls', images') /\ DocumentSafe(w, e, calls', doc)
  <2>1. \A l \in Seq(Row) : \A j \in 1..Len(l) : l[j].id \in Images
    BY RowFields
  <2>2. \A i \in DOMAIN doc : i \in Images
    BY <1>4, DataFields
  <2> QED
    BY <1>2, <1>4, <1>7, <2>1, <2>2 DEF RowsSafe, DocumentSafe, SafeIn, SavesOn
<1>9. CanvasOf(w, canvas', pendingAnns')
  <2>1. CASE canvas' = canvas
    BY <1>4, <2>1 DEF CanvasOf
  <2>2. CASE canvas' # canvas /\ canvas'.id = None
    BY <1>2, <2>2 DEF CanvasOf
  <2>3. CASE canvas' # canvas /\ canvas'.id # None
    <3>1. PICK j \in 1..Len(images') :
            canvas'.id = images'[j].id /\ canvas'.anns = images'[j].anns
      BY <2>3 DEF Turned, Turns
    <3>2. ~SavingIn(calls, canvas'.id)
      BY <1>1, <1>2, <2>3 DEF Early, Saving, SavingIn
    <3>3. e = None /\ pendingAnns' = None
      BY <1>2, <1>6, <2>3
    <3>4. canvas'.anns \cap Shapes = w[canvas'.id]
      BY <1>7, <2>3, <3>1, <3>2, <3>3 DEF RowsSafe, SafeIn, HeldIn
    <3> QED
      BY <3>3, <3>4 DEF CanvasOf
  <2> QED
    BY <2>1, <2>2, <2>3
<1> QED
  BY <1>2, <1>4, <1>5, <1>8, <1>9 DEF Safe


(* A click on the strip sends what is pending, if anything is.             *)
LEMMA SafeStrip ==
  ASSUME Typed, Safe, NEW n \in 0..Cardinality(Images) - 1, Strip(n), Turned, seen' = {}
  PROVE  Safe'
<1>1. /\ images' = images /\ doc' = doc /\ wanted' = wanted /\ pendingAnns' = None
      /\ pendingAnns # None => ~Busy(Current)
      /\ canvas'.id # canvas.id => ~Saving(canvas'.id)
  BY DEF Strip, Note
<1>2. /\ canvas.id = Current /\ images \in Seq(Row) /\ doc \in Documents
      /\ canvas.id \in Images \cup {None}
  BY CanvasFields DEF Typed, PageTyped, Steady, Listing, ServerTyped
<1> DEFINE w == wanted
           e == Edited
<1>3. /\ RowsSafe(w, e, calls, images) /\ DocumentSafe(w, e, calls, doc)
      /\ CanvasOf(w, canvas, pendingAnns) /\ CallsHeld(w, e, calls, doc) /\ Apart(calls)
      /\ None \notin Images
  BY AnnotationAssumption DEF Safe, AnnotationAssumption
<1>4. e = (IF pendingAnns = None THEN None ELSE canvas.id) /\ w = wanted' /\ Edited' = None
  BY <1>1 DEF Edited
<1> HIDE DEF w, e
<1>5. CanvasOf(w, canvas', pendingAnns')
  <2>1. CASE canvas' = canvas
    BY <1>1, <1>3, <2>1 DEF CanvasOf
  <2>2. CASE canvas' # canvas /\ canvas'.id = None
    BY <1>1, <2>2 DEF CanvasOf
  <2>3. CASE canvas' # canvas /\ canvas'.id # None
    <3>1. PICK j \in 1..Len(images) : canvas'.id = images[j].id /\ canvas'.anns = images[j].anns
      BY <1>1, <2>3 DEF Turned, Turns
    <3>2. canvas'.id # canvas.id
      BY <2>3 DEF Turned, Turns
    <3>3. ~SavingIn(calls, canvas'.id)
      BY <1>1, <3>2 DEF Saving, SavingIn
    <3>4. e # canvas'.id
      BY <1>4, <2>3, <3>2
    <3>5. canvas'.anns \cap Shapes = w[canvas'.id]
      BY <1>3, <3>1, <3>3, <3>4 DEF RowsSafe, SafeIn, HeldIn
    <3> QED
      BY <1>1, <3>5 DEF CanvasOf
  <2> QED
    BY <2>1, <2>2, <2>3
<1>6. /\ RowsSafe(w, None, calls', images) /\ DocumentSafe(w, None, calls', doc)
      /\ CallsHeld(w, None, calls', doc) /\ Apart(calls')
  <2>1. CASE pendingAnns = None
    <3>1. calls' = calls /\ e = None
      BY <1>4, <2>1 DEF Strip
    <3> QED
      BY <1>3, <3>1
  <2>2. CASE pendingAnns # None
    <3>1. /\ canvas.id # None /\ pendingAnns = canvas.anns /\ canvas.id \in Images
          /\ canvas.anns \cap Shapes = w[canvas.id] /\ e = canvas.id
      BY <1>2, <1>3, <1>4, <2>2 DEF CanvasOf
    <3>2. Request("save", canvas.id, pendingAnns) /\ ~Busy(canvas.id)
      BY <1>1, <1>2, <2>2, <3>1 DEF Strip, Send
    <3>3. HasSent("save", canvas.id, pendingAnns)
      <4>1. "save" \in Kinds /\ pendingAnns \in Annotations /\ images \in Seq(Row) /\ ServerTyped /\ PollTyped
        BY <2>2 DEF Kinds, Typed, PageTyped, Listing
      <4> QED
        BY <3>1, <3>2, <4>1, SendIs
    <3>4. CallsHeld(w, None, calls, doc)
      <4>1. ASSUME NEW c \in Slots
            PROVE  CallHeld(w, None, calls[c])
        <5>1. CallHeld(w, e, calls[c])
          BY <1>3 DEF CallsHeld
        <5>2. calls[c].kind \in {"save", "approve"} => calls[c].img # e
          BY <3>1, <3>2 DEF Busy
        <5> QED
          BY <5>1, <5>2 DEF CallHeld, HeldIn
      <4> QED
        BY <1>3, <4>1 DEF CallsHeld
    <3>5. HeldIn(w, None, canvas.id, pendingAnns)
      BY <3>1 DEF HeldIn
    <3>6. HeldAll(w, None)
      <4>1. "save" \in Kinds /\ "save" # "approve"
        BY DEF Kinds
      <4> QED
        BY <1>3, <3>2, <3>3, <3>4, <3>5, <4>1, SentHeld
    <3>7. SavingIn(calls', e)
      BY <3>1, <3>3 DEF HasSent, SavingIn
    <3>8. \A i \in Images : \A a : SafeIn(w, e, calls, i, a) => SafeIn(w, None, calls', i, a)
      BY <3>6, <3>7 DEF HeldAll, SavesOn, SafeIn, HeldIn
    <3>9. RowsSafe(w, None, calls', images) /\ DocumentSafe(w, None, calls', doc)
      BY <1>2, <1>3, <3>8, RowFields, DataFields DEF RowsSafe, DocumentSafe
    <3> QED
      BY <3>6, <3>9 DEF HeldAll
  <2> QED
    BY <2>1, <2>2
<1> QED
  BY <1>1, <1>4, <1>5, <1>6 DEF Safe

(* A save is answered: what was sent is what is wanted.                    *)
LEMMA SafeSaveDone ==
  ASSUME Typed, Safe, NEW c \in Slots, SaveDone(c), seen' = {}
  PROVE  Safe'
<1> DEFINE w == wanted
           e == Edited
           q == calls[c]
<1>1. /\ q.kind = "save" /\ q.st = "answered" /\ canvas' = canvas /\ doc' = doc
      /\ wanted' = wanted /\ pendingAnns' = None /\ Settle(c)
      /\ pendingAnns = None \/ (Current = q.img /\ pendingAnns = q.anns)
  BY DEF SaveDone, Is, Note
<1>2. Relisted(q.anns, q.img) /\ q \in Call /\ Formed(q)
  BY <1>1, AnswerIs, CallIs DEF Answer, Typed
<1>3. /\ canvas.id = Current /\ images \in Seq(Row) /\ doc \in Documents /\ q.img \in Images
  BY <1>1, <1>2 DEF Typed, PageTyped, Steady, Listing, ServerTyped, Formed
<1>4. /\ RowsSafe(w, e, calls, images) /\ DocumentSafe(w, e, calls, doc)
      /\ CanvasOf(w, canvas, pendingAnns) /\ CallsHeld(w, e, calls, doc) /\ Apart(calls)
      /\ None \notin Images
  BY AnnotationAssumption DEF Safe, AnnotationAssumption
<1>5. e = (IF pendingAnns = None THEN None ELSE canvas.id) /\ w = wanted' /\ Edited' = None
  BY <1>1 DEF Edited
<1> HIDE DEF w, e
<1>6. e \in {None, q.img}
  BY <1>1, <1>3, <1>5
<1>7. q.anns \cap Shapes = w[q.img]
  <2>1. HeldIn(w, e, q.img, q.anns)
    BY <1>1, <1>4 DEF CallsHeld, CallHeld
  <2>2. CASE e = q.img
    <3>1. pendingAnns # None /\ canvas.id = q.img /\ pendingAnns = q.anns
      BY <1>1, <1>3, <1>4, <1>5, <2>2
    <3> QED
      BY <1>3, <1>4, <3>1 DEF CanvasOf
  <2> QED
    BY <2>1, <2>2 DEF HeldIn
<1>8. /\ CallsHeld(w, e, calls', doc) /\ Apart(calls') /\ calls'[c] = Free /\ Others({c})
      /\ \A i : SavingIn(calls, i) => SavingIn(calls', i) \/ q.img = i
  BY <1>1, <1>4, SettledHeld, SettleIs DEF Typed
<1>9. CallsHeld(w, None, calls', doc)
  <2>1. ASSUME NEW x \in Slots
        PROVE  CallHeld(w, None, calls'[x])
    <3>1. CASE x = c
      BY <1>8, <3>1 DEF CallHeld, Free
    <3>2. CASE x # c
      <4>1. calls'[x] = calls[x] /\ CallHeld(w, e, calls[x])
        BY <1>4, <1>8, <3>2 DEF Others, CallsHeld
      <4>2. calls[x].kind \in {"save", "approve"} => calls[x].img # q.img
        BY <1>1, <1>4, <3>2 DEF Apart
      <4>3. calls[x].kind \in {"save", "approve"} /\ e = calls[x].img => e = None
        BY <1>6, <4>2
      <4> QED
        BY <4>1, <4>3 DEF CallHeld, HeldIn
    <3> QED
      BY <3>1, <3>2
  <2> QED
    BY <1>8, <2>1 DEF CallsHeld
<1>10. \A i \in Images : \A a : i # q.img /\ SafeIn(w, e, calls, i, a) => SafeIn(w, None, calls', i, a)
  BY <1>4, <1>6, <1>8 DEF SafeIn, HeldIn
<1>11. RowsSafe(w, None, calls', images')
  <2>1. ASSUME NEW j \in 1..Len(images)
        PROVE  SafeIn(w, None, calls', images'[j].id, images'[j].anns)
    <3>1. /\ images'[j].id = images[j].id /\ images[j].id \in Images
          /\ images'[j].anns = IF images[j].id = q.img THEN q.anns ELSE images[j].anns
      BY <1>2, <1>3, RowFields DEF Relisted
    <3>2. CASE images[j].id = q.img
      BY <1>7, <3>1, <3>2 DEF SafeIn, HeldIn
    <3>3. CASE images[j].id # q.img
      BY <1>4, <1>10, <3>1, <3>3 DEF RowsSafe
    <3> QED
      BY <3>2, <3>3
  <2> QED
    BY <1>2, <2>1 DEF RowsSafe, Relisted
<1>12. DocumentSafe(w, None, calls', doc)
  <2>1. ASSUME NEW i \in DOMAIN doc
        PROVE  SafeIn(w, None, calls', i, doc[i].anns)
    <3>1. i \in Images
      BY <1>3, DataFields
    <3>2. CASE i = q.img
      <4>1. doc[i].anns \cap Shapes = q.anns \cap Shapes
        BY <1>1, <1>4, <3>2 DEF CallsHeld, CallWritten
      <4> QED
        BY <1>7, <3>2, <4>1 DEF SafeIn, HeldIn
    <3>3. CASE i # q.img
      BY <1>4, <1>10, <3>1, <3>3 DEF DocumentSafe
    <3> QED
      BY <3>2, <3>3
  <2> QED
    BY <2>1 DEF DocumentSafe
<1>13. CanvasOf(w, canvas', pendingAnns')
  BY <1>1, <1>4 DEF CanvasOf
<1> QED
  BY <1>1, <1>5, <1>8, <1>9, <1>11, <1>12, <1>13 DEF Safe

(* A save fails: its edits are still pending.                              *)
LEMMA SafeSaveFailed ==
  ASSUME Typed, Safe, NEW c \in Slots, SaveFailed(c), seen' = {}
  PROVE  Safe'
<1> DEFINE w == wanted
           e == Edited
           q == calls[c]
<1>1. /\ q.kind = "save" /\ canvas' = canvas /\ doc' = doc /\ wanted' = wanted
      /\ pendingAnns' = pendingAnns /\ Settle(c) /\ images' = images
      /\ Current = q.img /\ pendingAnns = q.anns
  BY DEF SaveFailed, Is, Note
<1>2. q.anns \in Annotations
  BY <1>1, CallIs, CallFields DEF Typed
<1>3. e = q.img /\ Edited' = e
  BY <1>1, <1>2, AnnotationAssumption
     DEF Edited, Typed, PageTyped, Steady, Annotations, AnnotationAssumption
<1>4. /\ RowsSafe(w, e, calls, images) /\ DocumentSafe(w, e, calls, doc)
      /\ CanvasOf(w, canvas, pendingAnns) /\ CallsHeld(w, e, calls, doc) /\ Apart(calls)
  BY DEF Safe
<1>5. w = wanted'
  BY <1>1
<1> HIDE DEF w, e
<1>6. /\ CallsHeld(w, e, calls', doc) /\ Apart(calls')
      /\ \A i : SavingIn(calls, i) => SavingIn(calls', i) \/ q.img = i
  BY <1>1, <1>4, SettledHeld DEF Typed
<1>7. \A i, a : SafeIn(w, e, calls, i, a) => SafeIn(w, e, calls', i, a)
  BY <1>3, <1>6 DEF SafeIn, HeldIn
<1>8. RowsSafe(w, e, calls', images) /\ DocumentSafe(w, e, calls', doc)
  BY <1>4, <1>7 DEF RowsSafe, DocumentSafe
<1> QED
  BY <1>1, <1>3, <1>4, <1>5, <1>6, <1>8 DEF Safe

(* An approval is answered: the row gets the shapes of the project.        *)
LEMMA SafeApproveDone ==
  ASSUME Typed, Safe, NEW c \in Slots, ApproveDone(c)
  PROVE  Safe'
<1> DEFINE w == wanted
           e == Edited
           q == calls[c]
<1>1. /\ q.kind = "approve" /\ q.st = "answered" /\ canvas' = canvas /\ doc' = doc
      /\ wanted' = wanted /\ pendingAnns' = pendingAnns /\ Settle(c)
  BY DEF ApproveDone, Is, history
<1>2. Relisted(q.anns, q.img)
  BY AnswerIs DEF Answer, Typed
<1>3. w = wanted' /\ Edited' = e
  BY <1>1 DEF Edited
<1>4. /\ RowsSafe(w, e, calls, images) /\ DocumentSafe(w, e, calls, doc)
      /\ CanvasOf(w, canvas, pendingAnns) /\ CallsHeld(w, e, calls, doc) /\ Apart(calls)
  BY DEF Safe
<1> HIDE DEF w, e
<1>5. /\ CallsHeld(w, e, calls', doc) /\ Apart(calls')
      /\ \A i : SavingIn(calls, i) => SavingIn(calls', i)
  BY <1>1, <1>4, SettledHeld DEF Typed
<1>6. \A i, a : SafeIn(w, e, calls, i, a) => SafeIn(w, e, calls', i, a)
  BY <1>5 DEF SafeIn
<1>7. HeldIn(w, e, q.img, q.anns)
  BY <1>1, <1>4 DEF CallsHeld, CallHeld
<1>8. RowsSafe(w, e, calls', images')
  <2>1. ASSUME NEW j \in 1..Len(images)
        PROVE  SafeIn(w, e, calls', images'[j].id, images'[j].anns)
    <3>1. /\ images'[j].id = images[j].id
          /\ images'[j].anns = IF images[j].id = q.img THEN q.anns ELSE images[j].anns
      BY <1>2 DEF Relisted
    <3>2. CASE images[j].id = q.img
      BY <1>7, <3>1, <3>2 DEF SafeIn
    <3>3. CASE images[j].id # q.img
      BY <1>4, <1>6, <3>1, <3>3 DEF RowsSafe
    <3> QED
      BY <3>2, <3>3
  <2> QED
    BY <1>2, <2>1 DEF RowsSafe, Relisted
<1>9. DocumentSafe(w, e, calls', doc)
  BY <1>4, <1>6 DEF DocumentSafe
<1> QED
  BY <1>1, <1>3, <1>4, <1>5, <1>8, <1>9 DEF Safe

(* A handler saves a copy that is the document: it changes the shapes of   *)
(* one image at most, and only a save does.                                *)
LEMMA SafeWrite ==
  ASSUME Typed, Safe, NEW c \in Slots, Write(c), Still, seen' = {}
  PROVE  Safe'
<1> DEFINE w == wanted
           e == Edited
           q == calls[c]
<1>1. /\ SavedOver(c) /\ Answers(c) /\ q \in Call /\ q.st = "read"
      /\ \A x \in Slots \ {c} :
           IF calls[x].kind # "none" /\ calls[x].st = "read"
           THEN Overtaken(x) ELSE calls'[x] = calls[x]
  BY WriteIs DEF Typed
<1>2. q.kind # "none" /\ Formed(q) /\ q.copy = doc
  <2>1. q.fresh
    BY DEF Write, Note
  <2> QED
    BY <1>1, <2>1, CallFields DEF Typed, ServerTyped, Kept
<1>3. /\ w = wanted' /\ Edited' = e /\ images' = images /\ canvas' = canvas
      /\ pendingAnns' = pendingAnns
  BY DEF Still, Edited
<1>4. /\ RowsSafe(w, e, calls, images) /\ DocumentSafe(w, e, calls, doc)
      /\ CanvasOf(w, canvas, pendingAnns) /\ CallsHeld(w, e, calls, doc) /\ Apart(calls)
  BY DEF Safe
<1> HIDE DEF w, e
<1>5. \A x \in Slots \ {c} :
        /\ calls'[x].kind = calls[x].kind /\ calls'[x].img = calls[x].img
        /\ calls'[x].anns = calls[x].anns /\ calls'[x].st = calls[x].st
  BY <1>1 DEF Overtaken, Alike
<1>6. \/ calls'[c] = Free /\ q.kind = "task"
      \/ /\ q.kind # "task" /\ calls'[c].kind = q.kind /\ calls'[c].img = q.img
         /\ calls'[c].st = "answered"
         /\ q.kind \in {"save", "approve"} => calls'[c].anns = doc'[q.img].anns
  BY <1>1 DEF Answers, Alike
<1>7. Apart(calls')
  <2>1. \A x \in Slots : calls'[x].kind \in {"save", "approve"} =>
          calls'[x].kind = calls[x].kind /\ calls'[x].img = calls[x].img
    BY <1>5, <1>6 DEF Free
  <2> QED
    BY <1>4, <2>1 DEF Apart
<1>8. \A i : SavingIn(calls, i) => SavingIn(calls', i)
  <2>1. \A x \in Slots : calls[x].kind = "save" =>
          calls'[x].kind = "save" /\ calls'[x].img = calls[x].img
    BY <1>5, <1>6
  <2> QED
    BY <2>1 DEF SavingIn
<1>9. \A i, a : SafeIn(w, e, calls, i, a) => SafeIn(w, e, calls', i, a)
  BY <1>8 DEF SafeIn
<1>10. /\ DOMAIN doc' \subseteq DOMAIN doc
       /\ \A i \in DOMAIN doc' : (q.kind = "save" /\ i = q.img) \/
            doc'[i].anns \cap Shapes = doc[i].anns \cap Shapes
       /\ q.kind = "save" => doc'[q.img].anns = q.anns
       /\ q.kind \in {"save", "approve"} => q.img \in DOMAIN doc'
  BY <1>1, <1>2 DEF SavedOver, Formed
<1>11. DocumentSafe(w, e, calls', doc')
  <2>1. ASSUME NEW i \in DOMAIN doc'
        PROVE  SafeIn(w, e, calls', i, doc'[i].anns)
    <3>1. CASE q.kind = "save" /\ i = q.img
      BY <1>4, <1>10, <3>1 DEF CallsHeld, CallHeld, SafeIn
    <3>2. CASE ~(q.kind = "save" /\ i = q.img)
      <4>1. SafeIn(w, e, calls', i, doc[i].anns)
        BY <1>4, <1>9, <1>10 DEF DocumentSafe
      <4>2. doc'[i].anns \cap Shapes = doc[i].anns \cap Shapes
        BY <1>10, <3>2
      <4> QED
        BY <4>1, <4>2 DEF SafeIn, HeldIn
    <3> QED
      BY <3>1, <3>2
  <2> QED
    BY <2>1 DEF DocumentSafe
<1>12. RowsSafe(w, e, calls', images)
  BY <1>4, <1>9 DEF RowsSafe
<1>13. ASSUME NEW x \in Slots
       PROVE  CallHeld(w, e, calls'[x]) /\ CallWritten(doc', calls'[x])
  <2>1. CASE x # c
    <3>1. CallHeld(w, e, calls[x]) /\ CallWritten(doc, calls[x])
      BY <1>4 DEF CallsHeld
    <3>2. CallHeld(w, e, calls'[x])
      BY <1>5, <2>1, <3>1 DEF CallHeld
    <3>3. calls[x].kind = "save" => ~(q.kind = "save" /\ calls[x].img = q.img)
      BY <1>4, <2>1 DEF Apart
    <3>4. CallWritten(doc', calls'[x])
      BY <1>5, <1>10, <2>1, <3>1, <3>3 DEF CallWritten
    <3> QED
      BY <3>2, <3>4
  <2>2. CASE x = c /\ q.kind = "save"
    BY <1>4, <1>6, <1>10, <2>2 DEF CallsHeld, CallHeld, CallWritten
  <2>3. CASE x = c /\ q.kind = "approve"
    <3>1. q.img \in DOMAIN doc /\ SafeIn(w, e, calls, q.img, doc[q.img].anns)
      BY <1>4, <1>10, <2>3 DEF DocumentSafe
    <3>2. ~SavingIn(calls, q.img)
      BY <1>4, <2>3 DEF SavingIn, Apart
    <3>3. doc'[q.img].anns \cap Shapes = doc[q.img].anns \cap Shapes
      BY <1>10, <2>3
    <3>4. HeldIn(w, e, q.img, doc'[q.img].anns)
      BY <3>1, <3>2, <3>3 DEF SafeIn, HeldIn
    <3> QED
      BY <1>6, <2>3, <3>4 DEF CallHeld, CallWritten
  <2>4. CASE x = c /\ q.kind \notin {"save", "approve"}
    BY <1>6, <2>4 DEF CallHeld, CallWritten, Free
  <2> QED
    BY <2>1, <2>2, <2>3, <2>4
<1>14. CallsHeld(w, e, calls', doc')
  BY <1>13 DEF CallsHeld
<1> QED
  BY <1>3, <1>4, <1>7, <1>11, <1>12, <1>14 DEF Safe

LEMMA SafeStep ==
  ASSUME Typed, Safe, [Next]_vars, seen' = {}
  PROVE  Safe'
<1>1. CASE OnCanvas
  BY <1>1, SafeEdits, CanvasStep DEF Typed
<1>2. /\ CallsHeld(wanted, Edited, calls, doc) /\ Apart(calls)
      /\ canvas.id = Current /\ CanvasOf(wanted, canvas, pendingAnns)
      /\ images \in Seq(Row) /\ ServerTyped /\ PollTyped
      /\ pendingAnns \in Annotations \cup {None} /\ Current \in Images \cup {None}
  BY CanvasFields DEF Safe, Typed, PageTyped, Steady, Listing
<1>3. ASSUME Still, doc' = doc, HeldAll(wanted, Edited)
      PROVE  Safe'
  BY <1>3, SafeCalls DEF HeldAll
<1>4. SavesOn(calls, calls)
  BY DEF SavesOn
<1>5. ASSUME NEW k \in Kinds, NEW i \in Images \cup {None}, NEW a \in Annotations, Request(k, i, a),
             k = "save" => HeldIn(wanted, Edited, i, a) /\ ~Busy(i),
             k = "approve" => ~Saving(i)
      PROVE  HeldAll(wanted, Edited)
  <2> DEFINE w == wanted
             e == Edited
  <2>1. HasSent(k, i, a)
    BY <1>2, <1>5, SendIs
  <2>2. /\ CallsHeld(w, e, calls, doc) /\ Apart(calls)
        /\ k = "save" => HeldIn(w, e, i, a) /\ ~Busy(i)
        /\ k = "approve" => ~Saving(i)
    BY <1>2, <1>5
  <2> HIDE DEF w, e
  <2>3. HeldAll(w, e)
    BY <2>1, <2>2, SentHeld
  <2> QED
    BY <2>3 DEF w, e
<1>6. CASE Save
  <2>1. /\ Request("save", Current, pendingAnns) /\ ~Busy(Current) /\ doc' = doc
        /\ pendingAnns # None /\ Current # None
    BY <1>6 DEF Save, Send, Note
  <2>2. HeldIn(wanted, Edited, Current, pendingAnns)
    BY <1>2, <2>1 DEF HeldIn, CanvasOf
  <2>3. "save" \in Kinds /\ "save" # "approve" /\ pendingAnns \in Annotations
    BY <1>2, <2>1 DEF Kinds
  <2>4. HeldAll(wanted, Edited)
    BY <1>2, <1>5, <2>1, <2>2, <2>3
  <2> QED
    BY <1>3, <1>6, <2>1, <2>4, StillIs DEF Typed
<1>7. CASE Approve \/ Delete \/ PredictAll \/ PollAsk
  <2>1. /\ {} \in Annotations /\ None \in Images \cup {None}
        /\ {"approve", "delete", "predict", "tick"} \subseteq Kinds
    BY DEF Annotations, Kinds
  <2>2. PICK k \in {"approve", "delete", "predict", "tick"}, i \in Images \cup {None} :
          Request(k, i, {}) /\ (k = "approve" => ~Saving(i))
    BY <1>2, <1>7 DEF Approve, Delete, PredictAll, PollAsk, Send, Note
  <2>3. HeldAll(wanted, Edited)
    BY <1>5, <2>1, <2>2
  <2>4. doc' = doc
    BY <1>7 DEF Approve, Delete, PredictAll, PollAsk
  <2> QED
    BY <1>3, <1>7, <2>3, <2>4, StillIs DEF Typed
<1>9. ASSUME NEW k \in 0..Cardinality(Images) - 1, Go(k)
      PROVE  Safe'
  <2>1. calls' = calls /\ Passed \subseteq seen' /\ pendingAnns' = pendingAnns
    BY <1>9 DEF Go, Passing, store
  <2>2. Turned
    BY <1>9, TurnedIs DEF Typed
  <2> QED
    BY <1>2, <1>4, <2>1, <2>2, SafeTurned
<1>10. ASSUME NEW k \in 0..Cardinality(Images) - 1, Strip(k)
       PROVE  Safe'
  <2>1. Turned
    BY <1>10, TurnedIs DEF Typed
  <2> QED
    BY <1>10, <2>1, SafeStrip
<1>11. ASSUME NEW c \in Slots, Settle(c), calls[c].kind # "save"
       PROVE  HeldAll(wanted, Edited)
  <2> DEFINE w == wanted
             e == Edited
  <2>1. CallsHeld(w, e, calls, doc) /\ Apart(calls)
    BY <1>2
  <2> HIDE DEF w, e
  <2>2. HeldAll(w, e)
    BY <1>11, <2>1, SettledHeld DEF HeldAll, SavesOn
  <2> QED
    BY <2>2 DEF w, e
<1>12. ASSUME NEW c \in Slots, DeleteDone(c) \/ PollApply(c)
       PROVE  Safe'
  <2>1. /\ Settle(c) /\ calls[c].kind # "save" /\ Passed \subseteq seen'
        /\ pendingAnns' = pendingAnns
    BY <1>12 DEF DeleteDone, PollApply, Passing, Is
  <2>2. Turned
    BY <1>12, TurnedIs DEF Typed
  <2>3. HeldAll(wanted, Edited)
    BY <1>11, <2>1
  <2> QED
    BY <2>1, <2>2, <2>3, SafeTurned DEF HeldAll
<1>13. ASSUME NEW c \in Slots, ApproveFailed(c) \/ PredictDone(c)
       PROVE  Safe'
  <2>1. Settle(c) /\ calls[c].kind # "save" /\ doc' = doc
    BY <1>13 DEF ApproveFailed, PredictDone, Is
  <2>2. HeldAll(wanted, Edited)
    BY <1>11, <2>1
  <2> QED
    BY <1>3, <1>13, <2>1, <2>2, StillIs DEF Typed
<1>14. ASSUME NEW c \in Slots, SaveDone(c) \/ SaveFailed(c) \/ ApproveDone(c)
       PROVE  Safe'
  BY <1>14, SafeSaveDone, SafeSaveFailed, SafeApproveDone
<1>15. ASSUME NEW c \in Slots, Read(c) \/ Dispatch(c) \/ Lose(c)
       PROVE  Safe'
  <2> DEFINE w == wanted
             e == Edited
  <2>1. CallsHeld(w, e, calls, doc) /\ Apart(calls)
    BY <1>2
  <2> HIDE DEF w, e
  <2>2. doc' = doc /\ HeldAll(w, e)
    BY <1>15, <2>1, ServedHeld
  <2>3. Still
    BY <1>15, StillIs DEF Typed, OnServer
  <2> QED
    BY <1>3, <2>2, <2>3 DEF w, e
<1>16. ASSUME NEW c \in Slots, Write(c)
       PROVE  Safe'
  BY <1>16, SafeWrite, StillIs DEF OnServer, Typed
<1>17. CASE UNCHANGED vars
  BY <1>17 DEF vars, store, page, history, Safe, Edited
<1> QED
  BY <1>1, <1>6, <1>7, <1>9, <1>10, <1>12, <1>13, <1>14, <1>15, <1>16, <1>17
     DEF Next, OnPage, OnServer

(* While no race has happened, what was drawn and not removed is pending,  *)
(* on its way or in the project.  The saves of an image are apart from     *)
(* each other and from its approval, each sends what is wanted unless that *)
(* was edited since, and a row or an image of the project that shows less  *)
(* has its save on the way or its edits pending.                           *)
THEOREM NoDrawingIsLost == Spec => []NothingLost
<1>1. Init => Lossless
  <2> SUFFICES ASSUME Init PROVE Safe
    BY DEF Lossless
  <2>1. Typed /\ images \in Seq(Row) /\ doc \in Documents
    BY TypedInit DEF Typed, PageTyped, Listing, ServerTyped
  <2>2. \A i \in DOMAIN doc : i \in Images /\ doc[i].anns \cap Shapes = wanted[i]
    BY AnnotationAssumption DEF Init, AnnotationAssumption
  <2>3. DocumentSafe(wanted, Edited, calls, doc)
    BY <2>2 DEF DocumentSafe, SafeIn, HeldIn
  <2>4. ASSUME NEW j \in 1..Len(images)
        PROVE  images[j].anns \cap Shapes = wanted[images[j].id]
    BY <2>1, <2>2, ListIs DEF Init
  <2>5. RowsSafe(wanted, Edited, calls, images)
    BY <2>4 DEF RowsSafe, SafeIn, HeldIn
  <2>6. CanvasOf(wanted, canvas, pendingAnns)
    <3>1. canvas = Opened(images[1]) /\ Len(images) \in Nat /\ pendingAnns = None
      BY <2>1 DEF Init
    <3>2. canvas.id # None => 1 \in 1..Len(images)
      <4>1. canvas.id = At(images, 0)
        BY <2>1 DEF Init, Typed, PageTyped, Steady, Current
      <4> QED
        BY <3>1, <4>1 DEF At
    <3>3. canvas.id = images[1].id /\ canvas.anns = images[1].anns
      BY <3>1 DEF Opened
    <3> QED
      BY <2>4, <3>1, <3>2, <3>3 DEF CanvasOf
  <2>7. CallsHeld(wanted, Edited, calls, doc) /\ Apart(calls)
    BY DEF Init, CallsHeld, CallHeld, CallWritten, Apart, Free
  <2> QED
    BY <2>3, <2>5, <2>6, <2>7 DEF Safe
<1>2. Typed /\ Lossless /\ [Next]_vars => Lossless'
  <2> SUFFICES ASSUME Typed, Lossless, [Next]_vars, seen' = {}
               PROVE  Safe'
    BY DEF Lossless
  <2>1. Safe
    BY SeenStep DEF Lossless, Typed, HistoryTyped
  <2> QED
    BY <2>1, SafeStep
<1>3. Typed /\ Lossless => NothingLost
  <2> SUFFICES ASSUME Typed, Safe, NEW i \in DOMAIN doc
               PROVE  Somewhere(i)
    BY DEF Lossless, NothingLost
  <2>1. i \in Images /\ i # None
    BY DataFields, AnnotationAssumption DEF Typed, ServerTyped, AnnotationAssumption
  <2>2. SafeIn(wanted, Edited, calls, i, doc[i].anns) /\ CanvasOf(wanted, canvas, pendingAnns)
        /\ CallsHeld(wanted, Edited, calls, doc) /\ canvas.id = Current
    BY DEF Safe, DocumentSafe, Typed, PageTyped, Steady
  <2>3. CASE Edited = i
    BY <2>1, <2>2, <2>3 DEF Edited, CanvasOf, Somewhere
  <2>4. CASE Edited # i /\ SavingIn(calls, i)
    <3>1. PICK c \in Slots : calls[c].kind = "save" /\ calls[c].img = i
      BY <2>4 DEF SavingIn
    <3>2. calls[c].anns \cap Shapes = wanted[i]
      BY <2>2, <2>4, <3>1 DEF CallsHeld, CallHeld, HeldIn
    <3> QED
      BY <3>1, <3>2 DEF OnItsWay, Somewhere
  <2> QED
    BY <2>2, <2>3, <2>4 DEF SafeIn, HeldIn, Somewhere
<1> QED
  BY <1>1, <1>2, <1>3, AlwaysTyped, PTL DEF Spec
=============================================================================
