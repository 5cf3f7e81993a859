------------------------- MODULE TopLevelCallbacks -------------------------
(***************************************************************************)
(* PuTTY's queue of top-level callbacks (puttysrc/callback.c) as QuTTY     *)
(* runs it: callback_notify (GuiMain.cpp) has the event loop call          *)
(* run_toplevel_callbacks until the queue is empty.                        *)
(*                                                                         *)
(* A callback may open a modal dialog (the host key and weak cipher        *)
(* questions of QtDlg.cpp), and so may any other event handler.  A dialog  *)
(* runs an event loop of its own inside the handler that opened it.  What  *)
(* is being executed is therefore a stack: callbacks, and dialogs that     *)
(* wait for the user.  Events are handled when the stack is empty or a     *)
(* dialog is on top of it.                                                 *)
(***************************************************************************)
EXTENDS Naturals, Sequences, SequencesExt

CONSTANTS Ctx,         \* the contexts callbacks are queued for
          None,        \* no callback
          MaxQueued,   \* bound: callbacks queued in all
          MaxDialogs   \* bound: dialogs opened in all

\* A callback: its context, whether it is run_idempotent_callback, its number.
Callback == [ctx : Ctx, idem : BOOLEAN, n : Nat]

ASSUME CallbacksAssumption ==
  /\ MaxQueued \in Nat /\ MaxDialogs \in Nat
  /\ None \notin Callback

VARIABLES
  queue,    \* cbhead .. cbtail
  cbcurr,   \* cbcurr: the callback being executed, or None
  queued,   \* the contexts whose IdempotentCallback has its queued flag set
  freed,    \* contexts that were deleted
  shots,    \* single-shot timers of callback_notify that have not fired
  stack,    \* what is being executed
  total,    \* callbacks queued so far, which numbers them
  dialogs,  \* dialogs opened so far
  deleted   \* history: delete_callbacks_for_context emptied the queue

vars == <<queue, cbcurr, queued, freed, shots, stack, total, dialogs, deleted>>

Dialog == [k |-> "dialog", cb |-> None]
Executing(cb) == [k |-> "callback", cb |-> cb]

Init ==
  /\ queue = <<>> /\ cbcurr = None
  /\ queued = {} /\ freed = {}
  /\ shots = 0 /\ stack = <<>>
  /\ total = 0 /\ dialogs = 0 /\ deleted = FALSE

\* The code of a callback is executing; otherwise events are handled.
InCallback == stack # <<>> /\ Last(stack).k = "callback"

-----------------------------------------------------------------------------
\* Mutant: the front end is not told if there are dialogs.
QueueQuiet(c, idem) ==
  /\ total < MaxQueued
  /\ total' = total + 1
  /\ queue' = Append(queue, [ctx |-> c, idem |-> idem, n |-> total + 1])
  /\ shots' = IF queue = <<>> /\ stack = <<>> THEN shots + 1 ELSE shots

\* Mutant: a callback that is being executed does not count as queued.
QueueEager(c, idem) ==
  /\ total < MaxQueued
  /\ total' = total + 1
  /\ queue' = Append(queue, [ctx |-> c, idem |-> idem, n |-> total + 1])
  /\ shots' = IF queue = <<>> THEN shots + 1 ELSE shots

\* queue_toplevel_callback: the front end is told if nothing was queued and no
\* callback is being executed.
QueueToplevelCallback(c, idem) ==
  /\ total < MaxQueued
  /\ total' = total + 1
  /\ queue' = Append(queue, [ctx |-> c, idem |-> idem, n |-> total + 1])
  /\ shots' = IF queue = <<>> /\ cbcurr = None THEN shots + 1 ELSE shots

\* From an event handler or from a callback.
QueuePlain(c) ==
  /\ c \notin freed
  /\ QueueToplevelCallback(c, FALSE)
  /\ UNCHANGED <<cbcurr, queued, freed, stack, dialogs, deleted>>

\* queue_idempotent_callback.
QueueIdempotentCallback(c) ==
  /\ c \notin freed
  /\ c \notin queued
  /\ queued' = queued \cup {c}
  /\ QueueToplevelCallback(c, TRUE)
  /\ UNCHANGED <<cbcurr, freed, stack, dialogs, deleted>>

\* What the loop of delete_callbacks_for_context leaves of the list q, entry by entry.
Without(q, c) ==
  LET kept[n \in 0..Len(q)] ==
        IF n = 0 THEN <<>>
        ELSE IF q[n].ctx = c THEN kept[n - 1] ELSE Append(kept[n - 1], q[n])
  IN  kept[Len(q)]

\* Mutant: only the callbacks queued directly for the context are deleted.
DeletePlainOnly(c) ==
  /\ c \notin freed
  /\ freed' = freed \cup {c}
  /\ queue' = SelectSeq(queue, LAMBDA cb : cb.ctx # c \/ cb.idem)
  /\ deleted' = (deleted \/ (queue # <<>> /\ queue' = <<>>))
  /\ UNCHANGED <<cbcurr, queued, shots, stack, total, dialogs>>

\* delete_callbacks_for_context, when a context is about to be freed, which may
\* be that of a callback that is executing; queued flags are left as they are.
DeleteCallbacksForContext(c) ==
  /\ c \notin freed
  /\ freed' = freed \cup {c}
  /\ queue' = Without(queue, c)
  /\ deleted' = (deleted \/ (queue # <<>> /\ queue' = <<>>))
  /\ UNCHANGED <<cbcurr, queued, shots, stack, total, dialogs>>

-----------------------------------------------------------------------------
\* run_toplevel_callbacks, up to the call of the function: the head of the queue
\* becomes cbcurr; run_idempotent_callback clears the flag first.
RunToplevelCallbacks(below) ==
  /\ cbcurr' = Head(queue)
  /\ queue' = Tail(queue)
  /\ stack' = Append(below, Executing(Head(queue)))
  /\ queued' = IF Head(queue).idem THEN queued \ {Head(queue).ctx} ELSE queued

\* The single-shot timer fires, in whatever event loop is running.
FireShot ==
  /\ ~InCallback /\ shots > 0
  /\ shots' = shots - 1
  /\ IF queue = <<>> THEN UNCHANGED <<queue, cbcurr, queued, stack>>
                     ELSE RunToplevelCallbacks(stack)
  /\ UNCHANGED <<freed, total, dialogs, deleted>>

\* Mutant: one callback is run for each notification.
CallbackReturnsOnce ==
  /\ InCallback
  /\ cbcurr' = None /\ stack' = Front(stack) /\ UNCHANGED <<queue, queued>>
  /\ UNCHANGED <<freed, shots, total, dialogs, deleted>>

\* A callback returns, and the loop of callback_notify goes on with the next.
CallbackReturns ==
  /\ InCallback
  /\ IF queue = <<>>
     THEN cbcurr' = None /\ stack' = Front(stack) /\ UNCHANGED <<queue, queued>>
     ELSE RunToplevelCallbacks(Front(stack))
  /\ UNCHANGED <<freed, shots, total, dialogs, deleted>>

\* A callback or an event handler opens a dialog.
OpenDialog ==
  /\ dialogs < MaxDialogs
  /\ dialogs' = dialogs + 1
  /\ stack' = Append(stack, Dialog)
  /\ UNCHANGED <<queue, cbcurr, queued, freed, shots, total, deleted>>

\* The user answers the topmost dialog, and its event loop ends.
AnswerDialog ==
  /\ stack # <<>> /\ Last(stack).k = "dialog"
  /\ stack' = Front(stack)
  /\ UNCHANGED <<queue, cbcurr, queued, freed, shots, total, dialogs, deleted>>

Next ==
  \/ \E c \in Ctx : QueuePlain(c) \/ QueueIdempotentCallback(c) \/ DeleteCallbacksForContext(c)
  \/ FireShot \/ CallbackReturns
  \/ OpenDialog \/ AnswerDialog

\* Timers fire, callbacks return and the user answers.
Fairness == WF_vars(FireShot) /\ WF_vars(CallbackReturns) /\ WF_vars(AnswerDialog)

Spec == Init /\ [][Next]_vars /\ Fairness

-----------------------------------------------------------------------------
Executed == {i \in DOMAIN stack : stack[i].k = "callback"}

TypeOK ==
  /\ queue \in Seq(Callback)
  /\ cbcurr \in Callback \cup {None}
  /\ queued \subseteq Ctx /\ freed \subseteq Ctx
  /\ shots \in Nat /\ total \in Nat /\ dialogs \in Nat /\ deleted \in BOOLEAN
  /\ stack \in Seq([k : {"dialog", "callback"}, cb : Callback \cup {None}])

\* No callback is stranded: one that is queued has a notification under way, or a
\* callback further down the stack whose loop will come to it.  Dialogs, deleted
\* contexts and callbacks that queue others do not break this.
NoneStranded == queue # <<>> => shots > 0 \/ Executed # {}

\* The queue holds what is owed: no callback of a context that was freed, and the
\* flag of an IdempotentCallback says whether it is queued, once or not at all.
QueueIsExact ==
  /\ TypeOK
  /\ \A i \in DOMAIN queue : queue[i].ctx \notin freed
  /\ \A c \in Ctx \ freed :
       LET at == {i \in DOMAIN queue : queue[i].ctx = c /\ queue[i].idem} IN
       /\ c \in queued <=> at # {}
       /\ \A i, j \in at : i = j

\* A callback waits while another one is executing, its dialogs included, and
\* cbcurr says that one is.  Only once deleting a context has emptied the queue,
\* which leaves a notification behind, may a callback run inside the dialog of
\* another and clear cbcurr under it.
OneAtATime ==
  ~deleted => /\ \A i, j \in Executed : i = j
              /\ cbcurr # None <=> Executed # {}

\* What makes these inductive: cbcurr is set only while a callback is on the stack,
\* and until the queue was emptied by a deletion there is at most one notification
\* under way, which then has callbacks to run and none that it could run inside of.
CallbacksInv ==
  /\ QueueIsExact /\ NoneStranded /\ OneAtATime
  /\ cbcurr # None => Executed # {}
  /\ ~deleted => shots <= 1 /\ (shots = 1 => queue # <<>> /\ Executed = {})

\* Every callback is executed or deleted.
EveryCallbackRuns == \A n \in 1..MaxQueued :
  (\E i \in DOMAIN queue : queue[i].n = n) ~> (\A i \in DOMAIN queue : queue[i].n # n)
=============================================================================
