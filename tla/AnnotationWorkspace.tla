------------------------- MODULE AnnotationWorkspace -------------------------
(***************************************************************************)
(* The annotation workspace of the ML studio (AnnotatePage.tsx): the strip *)
(* of images, the canvas of the current one with its undo history, the     *)
(* pending edits that wait for Save, and the requests in flight.  On the   *)
(* other side each handler of annotation_service.py, and the prediction    *)
(* task, reads the project document, changes its copy and saves the whole  *)
(* document.  Geometry, labels, training and export are abstracted away.   *)
(***************************************************************************)
EXTENDS Naturals, Sequences, FiniteSets, SequencesExt

CONSTANTS Images, Shapes,     \* the images; what the user may draw, once each
          Guess, Agreed,      \* a predicted shape, before and after approval
          Guessed,            \* the images that had a prediction before
          None,
          MaxCalls,           \* bound on the requests and tasks at one time
          MaxTicks,           \* bound on the ticks of the poll among them
          MaxOps,             \* bound on saves, deletions and predictions
          MaxHistory          \* bound on the undo history

ASSUME AnnotationAssumption ==
  /\ IsFiniteSet(Images) /\ Images # {} /\ None \notin Images
  /\ \A a \in SUBSET (Shapes \cup {Guess, Agreed}) : a # None
  /\ Guessed \subseteq Images /\ Guess # Agreed /\ {Guess, Agreed} \cap Shapes = {}
  /\ MaxCalls \in Nat \ {0} /\ MaxOps \in Nat /\ MaxHistory \in Nat

Annotations == SUBSET (Shapes \cup {Guess, Agreed})
Statuses == {"unannotated", "annotated", "predicted", "approved"}
Data == [anns : Annotations, status : Statuses]
Row == [id : Images, anns : Annotations, status : Statuses]
Documents == UNION {[S -> Data] : S \in SUBSET Images}

Slots == 1..MaxCalls
Kinds == {"save", "approve", "delete", "predict", "tick", "task"}
Free == [kind |-> "none"]
Call == [kind : Kinds, st : {"sent", "read", "answered", "failed"},
         img : Images \cup {None}, anns : Annotations, status : Statuses,
         count : Nat, known : Nat, copy : Documents, fresh : BOOLEAN]

VARIABLES doc,        \* the project document: the images it holds
          calls,      \* per slot: a request of the page or its poll, or a prediction task
          made,       \* how many operations were begun
          images,     \* the page's list of images, with their data
          currentIdx, pendingAnns, saving,
          canvas,     \* the mounted canvas: annotations, history and index
          predictPoll, predictTotal, predictStart,
          drawn,      \* history: the image each shape was drawn on
          wanted,     \* history: per image, what was drawn and not removed
          seen        \* history: which of the known races has happened
store == <<doc, calls, made>>
page == <<images, currentIdx, pendingAnns, saving, canvas>>
poll == <<predictPoll, predictTotal, predictStart>>
history == <<drawn, wanted, seen>>
vars == <<store, page, poll, history>>

(* carried: another image became current under pending edits.  crossed: an   *)
(* answer dropped newer edits, a save failed after its edits had left the    *)
(* page, or an image was saved while a save or an approval of it was on its  *)
(* way, or approved or opened while a save of it was: the answer that comes  *)
(* last puts older annotations on the page's list.                           *)
(* late: the answer of a tick of the prediction poll was applied after the   *)
(* project had changed what it says of an image that no save is on its way   *)
(* for.  overwritten: a whole document was saved over a newer one.           *)
Races == {"carried", "crossed", "late", "overwritten"}
Note(r, happened) == seen' = IF happened THEN seen \cup {r} ELSE seen

Inhabited == [id : Images \cup {None}, anns : Annotations,
              hist : Seq(Annotations), at : Nat]
TypeOK ==
  /\ doc \in Documents
  /\ calls \in [Slots -> Call \cup {Free}] /\ made \in 0..MaxOps
  /\ images \in Seq(Row) /\ currentIdx \in Nat
  /\ pendingAnns \in Annotations \cup {None} /\ saving \in BOOLEAN
  /\ canvas \in Inhabited
  /\ canvas.id # None =>
       canvas.at \in 1..Len(canvas.hist)
  /\ predictPoll \in BOOLEAN /\ predictTotal \in Nat /\ predictStart \in Nat
  /\ drawn \in [Shapes -> Images \cup {None}]
  /\ wanted \in [Images -> SUBSET Shapes] /\ seen \subseteq Races

-----------------------------------------------------------------------------
(* The page: what is current, and the canvas that is keyed by its id.       *)
At(list, i) == IF i < Len(list) THEN list[i + 1].id ELSE None
Current == At(images, currentIdx)
Saving(i) == \E c \in Slots : calls[c].kind = "save" /\ calls[c].img = i
Busy(i) == \E c \in Slots : calls[c].kind \in {"save", "approve"} /\ calls[c].img = i

Empty == [id |-> None, anns |-> {}, hist |-> <<>>, at |-> 0]
Opened(row) == [id |-> row.id, anns |-> row.anns, hist |-> <<row.anns>>, at |-> 1]
Shown(list, i) ==
  IF At(list, i) = canvas.id THEN canvas
  ELSE IF At(list, i) = None THEN Empty ELSE Opened(list[i + 1])
Render == canvas' = Shown(images', currentIdx')

(* Another image than the canvas's becomes current: Left tells that edits   *)
(* stay pending meanwhile, Early that its own save is still on its way.     *)
Left == pendingAnns' # None /\ canvas'.id # canvas.id
Early == canvas'.id \notin {canvas.id, None} /\ Saving(canvas'.id)
Passed ==
  seen \cup (IF Left THEN {"carried"} ELSE {}) \cup (IF Early THEN {"crossed"} ELSE {})
Passing == seen' = Passed

List(d) ==
  LET order == SetToSeq(DOMAIN d) IN
    [k \in 1..Cardinality(DOMAIN d) |->
       [id |-> order[k], anns |-> d[order[k]].anns, status |-> d[order[k]].status]]

Init ==
  /\ doc = [i \in Images |-> IF i \in Guessed THEN [anns |-> {Guess}, status |-> "predicted"]
                             ELSE [anns |-> {}, status |-> "unannotated"]]
  /\ calls = [c \in Slots |-> Free] /\ made = 0
  /\ images = List(doc) /\ currentIdx = 0 /\ pendingAnns = None /\ saving = FALSE
  /\ canvas = Opened(images[1])
  /\ predictPoll = FALSE /\ predictTotal = 0 /\ predictStart = 0
  /\ drawn = [s \in Shapes |-> None] /\ wanted = [i \in Images |-> {}] /\ seen = {}

(* The requests of the page and the answers to them; known is the number of *)
(* predicted images the page had when it asked for more, and the count of a *)
(* tick the number it waits for.                                            *)
Counted(list) == Cardinality({i \in DOMAIN list : list[i].status \in {"predicted", "approved"}})
NewCall(k, i, a) ==
  [kind |-> k, st |-> "sent", img |-> i, anns |-> a, status |-> "unannotated",
   count |-> IF k = "tick" THEN predictTotal ELSE 0, known |-> IF k = "predict" THEN Counted(images) ELSE 0, copy |-> <<>>, fresh |-> TRUE]
NextSlot == CHOOSE c \in Slots : calls[c] = Free
Request(k, i, a) ==
  /\ \E c \in Slots : calls[c] = Free
  /\ calls' = [calls EXCEPT ![NextSlot] = NewCall(k, i, a)]
Send(k, i, a) == made < MaxOps /\ made' = made + 1 /\ Request(k, i, a)
Is(c, k, st) == calls[c].kind = k /\ calls[c].st = st
Settle(c) == calls' = [calls EXCEPT ![c] = Free]

-----------------------------------------------------------------------------
(* The canvas.  Every edit is handed to onChange, which makes it pending.    *)
Changed(next, hist, at) ==
  /\ canvas' = [canvas EXCEPT !.anns = next, !.hist = hist, !.at = at]
  /\ pendingAnns' = next
  /\ UNCHANGED <<store, images, currentIdx, saving, poll, seen>>

Pushed(next) == Append(SubSeq(canvas.hist, 1, canvas.at), next)
EditPastEnd(next) ==
  /\ canvas.at < MaxHistory
  /\ Changed(next, Pushed(next), canvas.at + 2)
Edit(next) ==
  /\ canvas.at < MaxHistory
  /\ Changed(next, Pushed(next), canvas.at + 1)

Draw(s) ==
  /\ canvas.id # None /\ drawn[s] = None
  /\ Edit(canvas.anns \cup {s})
  /\ drawn' = [drawn EXCEPT ![s] = canvas.id]
  /\ wanted' = [wanted EXCEPT ![canvas.id] = @ \cup {s}]

RemoveShape(s) ==
  /\ s \in canvas.anns
  /\ Edit(canvas.anns \ {s})
  /\ wanted' = [wanted EXCEPT ![canvas.id] = @ \ {s}]
  /\ UNCHANGED drawn

Step(at) ==
  /\ at \in 1..Len(canvas.hist)
  /\ Changed(canvas.hist[at], canvas.hist, at)
  /\ wanted' = [wanted EXCEPT ![canvas.id] = canvas.hist[at] \cap Shapes]
  /\ UNCHANGED drawn
Undo == canvas.at > 1 /\ Step(canvas.at - 1)
Redo == Step(canvas.at + 1)

(* approveAll of the canvas and the change of tool write no history.        *)
Approved(a) == IF Guess \in a THEN (a \ {Guess}) \cup {Agreed} ELSE a
ApproveOnCanvas ==
  /\ Guess \in canvas.anns
  /\ Changed(Approved(canvas.anns), canvas.hist, canvas.at)
  /\ UNCHANGED <<drawn, wanted>>
SwitchTool ==
  /\ canvas.id # None
  /\ Changed(canvas.anns, canvas.hist, canvas.at)
  /\ UNCHANGED <<drawn, wanted>>

-----------------------------------------------------------------------------
(* handleSave, from the Save button.                                        *)
Save ==
  /\ pendingAnns # None /\ Current # None /\ ~saving
  /\ Send("save", Current, pendingAnns)
  /\ saving' = TRUE
  /\ Note("crossed", Busy(Current))
  /\ UNCHANGED <<doc, images, currentIdx, pendingAnns, canvas, poll, drawn, wanted>>

(* The answer arrives: the list gets what was sent and nothing is pending.   *)
SaveDone(c) ==
  /\ Is(c, "save", "answered")
  /\ images' = [i \in DOMAIN images |->
                  IF images[i].id = calls[c].img
                  THEN [images[i] EXCEPT !.anns = calls[c].anns, !.status = calls[c].status]
                  ELSE images[i]]
  /\ pendingAnns' = None /\ saving' = FALSE /\ Settle(c)
  /\ Note("crossed", pendingAnns # None /\ <<Current, pendingAnns>> # <<calls[c].img, calls[c].anns>>)
  /\ UNCHANGED <<doc, made, currentIdx, canvas, poll, drawn, wanted>>

(* It fails: the edits stay pending, if they still were.                     *)
SaveFailed(c) ==
  /\ Is(c, "save", "failed")
  /\ saving' = FALSE /\ Settle(c)
  /\ Note("crossed", <<Current, pendingAnns>> # <<calls[c].img, calls[c].anns>>)
  /\ UNCHANGED <<doc, made, images, currentIdx, pendingAnns, canvas, poll, drawn, wanted>>

(* A click on the strip saves what is pending and moves on at once.          *)
StripKeepsPending(k) ==
  /\ k < Len(images)
  /\ currentIdx' = k
  /\ UNCHANGED <<store, images, pendingAnns, saving, poll, drawn, wanted, seen>>
  /\ Render
StripForgetsToSave(k) ==
  /\ k < Len(images)
  /\ currentIdx' = k /\ pendingAnns' = None
  /\ UNCHANGED <<store, images, saving, poll, drawn, wanted>>
  /\ Render /\ Passing
Strip(k) ==
  /\ k < Len(images)
  /\ IF pendingAnns # None /\ Current # None
     THEN Send("save", Current, pendingAnns) /\ saving' = TRUE
     ELSE UNCHANGED <<calls, made, saving>>
  /\ currentIdx' = k /\ pendingAnns' = None
  /\ UNCHANGED <<doc, images, poll, drawn, wanted>>
  /\ Render
  /\ Note("crossed", \/ pendingAnns # None /\ Busy(Current)
                     \/ canvas'.id # canvas.id /\ Saving(canvas'.id))

(* The arrows and the panel of similar images only change the index.         *)
Go(k) ==
  /\ Current # None /\ k < Len(images) /\ k # currentIdx
  /\ currentIdx' = k
  /\ UNCHANGED <<store, images, pendingAnns, saving, poll, drawn, wanted>>
  /\ Render /\ Passing

-----------------------------------------------------------------------------
(* Approve All of the workspace: the server approves, the list follows, the  *)
(* mounted canvas does not.                                                  *)
Approve ==
  /\ Current # None /\ Guess \in images[currentIdx + 1].anns /\ ~saving
  /\ Send("approve", Current, {})
  /\ saving' = TRUE
  /\ Note("crossed", Saving(Current))
  /\ UNCHANGED <<doc, images, currentIdx, pendingAnns, canvas, poll, drawn, wanted>>

ApproveDone(c) ==
  /\ Is(c, "approve", "answered")
  /\ images' = [i \in DOMAIN images |->
                  IF images[i].id = calls[c].img
                  THEN [images[i] EXCEPT !.anns = calls[c].anns, !.status = calls[c].status]
                  ELSE images[i]]
  /\ saving' = FALSE /\ Settle(c)
  /\ UNCHANGED <<doc, made, currentIdx, pendingAnns, canvas, poll, history>>

ApproveFailed(c) ==
  /\ Is(c, "approve", "failed")
  /\ saving' = FALSE /\ Settle(c)
  /\ UNCHANGED <<doc, made, images, currentIdx, pendingAnns, canvas, poll, history>>

(* handleDeleteImage: the answer takes the image off the list and keeps the  *)
(* index inside it.                                                          *)
Delete ==
  /\ Current # None
  /\ Send("delete", Current, {})
  /\ UNCHANGED <<doc, page, poll, history>>

Without(list, i) ==
  IF \E p \in DOMAIN list : list[p].id = i
  THEN RemoveAt(list, CHOOSE p \in DOMAIN list : list[p].id = i)
  ELSE list
Clamp(i, n) == IF i < n THEN i ELSE IF n = 0 THEN 0 ELSE n - 1
DeleteDone(c) ==
  /\ Is(c, "delete", "answered")
  /\ images' = Without(images, calls[c].img)
  /\ currentIdx' = Clamp(currentIdx, Len(images'))
  /\ Settle(c)
  /\ UNCHANGED <<doc, made, pendingAnns, saving, poll, drawn, wanted>>
  /\ Render /\ Passing

(* handlePredict: the answer says how many images are queued.                *)
PredictAll ==
  /\ ~predictPoll
  /\ Send("predict", None, {})
  /\ UNCHANGED <<doc, page, poll, history>>

PredictDone(c) ==
  /\ Is(c, "predict", "answered")
  /\ predictPoll' = TRUE /\ predictTotal' = calls[c].count
  /\ predictStart' = calls[c].known
  /\ Settle(c)
  /\ UNCHANGED <<doc, made, page, history>>

(* A tick of the poll asks for the list.  The page puts what the server read *)
(* over its own list, under the canvas, whatever happened meanwhile, even if *)
(* another tick has ended the poll.                                          *)
PollAsk ==
  /\ predictPoll /\ Cardinality({c \in Slots : calls[c].kind = "tick"}) < MaxTicks
  /\ Request("tick", None, {})
  /\ UNCHANGED <<doc, made, page, poll, history>>

Late(rows) ==
  \E k \in 1..Len(rows) :
    \/ rows[k].id \notin DOMAIN doc
    \/ /\ rows[k].anns \cap Shapes # doc[rows[k].id].anns \cap Shapes
       /\ ~Saving(rows[k].id)
PollApply(c) ==
  /\ Is(c, "tick", "read")
  /\ images' = List(calls[c].copy) /\ Settle(c)
  /\ IF predictPoll /\ Counted(images') >= predictStart + calls[c].count
     THEN predictPoll' = FALSE /\ predictTotal' = 0 /\ predictStart' = 0
     ELSE UNCHANGED poll
  /\ UNCHANGED <<doc, made, currentIdx, pendingAnns, saving, drawn, wanted>>
  /\ Render
  /\ seen' = Passed \cup (IF Late(images') THEN {"late"} ELSE {})

-----------------------------------------------------------------------------
(* The server.  A handler reads the project and later saves all of it; that  *)
(* of a tick answers with it.                                                *)
Missing(c) == calls[c].img \notin DOMAIN doc
ByHand(d) == {i \in DOMAIN d : d[i].anns \cap Shapes # {}}

NeverRefuses(c) == FALSE
Refuses(c) == calls[c].kind \in {"save", "approve"} /\ Missing(c)

Read(c) ==
  /\ calls[c].kind \in Kinds \ {"predict"} /\ calls[c].st = "sent"
  /\ calls' = [calls EXCEPT ![c] =
                 IF Refuses(c) THEN [@ EXCEPT !.st = "failed"]
                 ELSE [@ EXCEPT !.st = "read", !.copy = doc]]
  /\ UNCHANGED <<doc, made, page, poll, history>>

(* save_annotations, approve_predictions, delete_image and the task on their *)
(* copy.  The task skips an image whose file it cannot read.                 *)
Put(d, i, a, st) == [x \in DOMAIN d \cup {i} |->
                       IF x = i THEN [anns |-> a, status |-> st] ELSE d[x]]
Predicted(d) ==
  {[x \in DOMAIN d |->
      IF x \in ByHand(d) \cup unread THEN d[x]
      ELSE IF x \in found THEN [anns |-> {Guess}, status |-> "predicted"]
      ELSE [anns |-> {}, status |-> "unannotated"]] :
     found \in SUBSET DOMAIN d, unread \in SUBSET DOMAIN d}
Changes(c) ==
  LET d == calls[c].copy i == calls[c].img IN
  CASE calls[c].kind = "save" ->
         {Put(d, i, calls[c].anns, IF calls[c].anns = {} THEN "unannotated" ELSE "annotated")}
    [] calls[c].kind = "approve" -> {Put(d, i, Approved(d[i].anns), "approved")}
    [] calls[c].kind = "delete" -> {[x \in DOMAIN d \ {i} |-> d[x]]}
    [] calls[c].kind = "task" -> Predicted(d)

(* The task has no caller; a handler answers with the image it changed.      *)
Answered(c, d) ==
  IF calls[c].kind = "task" THEN Free
  ELSE IF calls[c].kind = "delete" THEN [calls[c] EXCEPT !.st = "answered", !.copy = <<>>]
  ELSE [calls[c] EXCEPT !.st = "answered", !.copy = <<>>,
          !.anns = d[calls[c].img].anns, !.status = d[calls[c].img].status]

Write(c) ==
  /\ calls[c].kind \in Kinds \ {"tick"} /\ calls[c].st = "read"
  /\ doc' \in Changes(c)
  /\ calls' = [x \in Slots |->
                 IF x = c THEN Answered(c, doc')
                 ELSE IF calls[x].kind # "none" /\ calls[x].st = "read"
                 THEN [calls[x] EXCEPT !.fresh = FALSE] ELSE calls[x]]
  /\ Note("overwritten", ~calls[c].fresh)
  /\ UNCHANGED <<made, page, poll, drawn, wanted>>

(* run_predictions_now counts the images without manual shapes and hands     *)
(* the work to a task.                                                       *)
Dispatch(c) ==
  /\ Is(c, "predict", "sent")
  /\ \E t \in Slots :
       /\ calls[t] = Free
       /\ t = NextSlot
       /\ calls' = [calls EXCEPT
            ![c] = [@ EXCEPT !.st = "answered",
                             !.count = Cardinality(DOMAIN doc \ ByHand(doc))],
            ![t] = NewCall("task", None, {})]
  /\ UNCHANGED <<doc, made, page, poll, history>>

(* A request never arrives, or its answer is lost.  The page ignores that of *)
(* a deletion, a prediction or a tick.                                       *)
Lose(c) ==
  /\ \/ calls[c].kind \in Kinds \ {"task"} /\ calls[c].st \in {"sent", "answered"}
     \/ Is(c, "tick", "read")
  /\ IF calls[c].kind \in {"delete", "predict", "tick"} THEN Settle(c)
     ELSE calls' = [calls EXCEPT ![c].st = "failed"]
  /\ UNCHANGED <<doc, made, page, poll, history>>

-----------------------------------------------------------------------------
OnCanvas ==
  \/ \E s \in Shapes : Draw(s)
  \/ \E s \in Shapes \cup {Guess, Agreed} : RemoveShape(s)
  \/ Undo \/ Redo \/ ApproveOnCanvas \/ SwitchTool
OnPage ==
  \/ Save \/ Approve \/ Delete \/ PredictAll \/ PollAsk
  \/ \E k \in 0..Cardinality(Images) - 1 : Strip(k) \/ Go(k)
  \/ \E c \in Slots : SaveDone(c) \/ SaveFailed(c) \/ ApproveDone(c) \/ ApproveFailed(c)
                      \/ DeleteDone(c) \/ PredictDone(c) \/ PollApply(c)
OnServer == \E c \in Slots : Read(c) \/ Write(c) \/ Dispatch(c) \/ Lose(c)
Next == OnCanvas \/ OnPage \/ OnServer

Spec == Init /\ [][Next]_vars

-----------------------------------------------------------------------------
(* A shape stays on the image it was drawn on, on the canvas and in the      *)
(* project, as long as nobody leaves an image by its arrows, or deletes it,  *)
(* with edits pending.                                                       *)
Mine(i, a) == \A s \in a \cap Shapes : drawn[s] = i
OwnImage ==
  "carried" \notin seen =>
    /\ \A i \in DOMAIN doc : Mine(i, doc[i].anns)
    /\ canvas.id # None => Mine(canvas.id, canvas.anns)

(* What was drawn and not removed is pending, on its way to the server or in *)
(* the project, until one of the listed races happens.                       *)
OnItsWay(i) == {calls[c].anns : c \in {x \in Slots : calls[x].kind = "save" /\ calls[x].img = i}}
Somewhere(i) ==
  \/ doc[i].anns \cap Shapes = wanted[i]
  \/ Current = i /\ pendingAnns # None /\ pendingAnns \cap Shapes = wanted[i]
  \/ \E a \in OnItsWay(i) : a \cap Shapes = wanted[i]
NothingLost == seen = {} => \A i \in DOMAIN doc : Somewhere(i)

(* A deleted image does not come back, unless a whole document that still    *)
(* holds it is saved over the deletion.                                      *)
DeletedStaysDeleted ==
  [][DOMAIN doc' \subseteq DOMAIN doc \/ "overwritten" \in seen']_vars

(* Without the exception of OwnImage: the arrows break it.                   *)
AlwaysOwnImage == \A i \in DOMAIN doc : Mine(i, doc[i].anns)

(* Without the exception of the late poll: its older list breaks it.         *)
LostByNoPoll == seen \subseteq {"late"} => \A i \in DOMAIN doc : Somewhere(i)

(* An approved prediction does not return to the unapproved ones: the canvas *)
(* that still shows it unapproved, and the next prediction, break it.        *)
ApprovalHolds ==
  [][\A i \in DOMAIN doc \cap DOMAIN doc' :
       Agreed \in doc[i].anns => Guess \notin doc'[i].anns]_vars
=============================================================================
