---------------------------- MODULE EventSource ----------------------------
(***************************************************************************)
(* The event sources uv::signal_source, uv::poll_source and                *)
(* uv::fs_event_source, and uv::process: a movable owner of one native     *)
(* handle, with one consumer slot for co_await next() or wait() and an     *)
(* asynchronous close.  They share their lifecycle; what each does with a  *)
(* notification and with a new consumer differs and is selected by family. *)
(* A process has one notification, its exit; it is kept for every later    *)
(* wait, and no close may begin before it.                                 *)
(*                                                                         *)
(* All runs on the loop thread.  Closing or stopping a source resumes its  *)
(* consumer inside the call, and that consumer may use the source again,   *)
(* close it or destroy its owner, so the call stack is explicit and only   *)
(* its top acts.  The empty stack is libuv's poll or an unrelated callback.*)
(***************************************************************************)
EXTENDS Naturals, FiniteSets, AsyncClose, Cancellation

CONSTANTS
  Families,   \* among "signal", "poll", "fs_event" and "process"
  ReleasedInCompletion,  \* families whose owner the code that its own close
                         \* resumes may destroy
  Tasks,      \* coroutines that share one cancellation_state
  None,       \* an empty consumer slot
  MaxAwaits,  \* bound: next() and close() calls of each task
  MaxEvents   \* bound: native notifications (the exit of a process is one)

ASSUME SourceAssumption ==
  /\ Families \subseteq {"signal", "poll", "fs_event", "process"}
  /\ ReleasedInCompletion \subseteq Families
  /\ None \notin Tasks
  /\ MaxAwaits \in Nat /\ MaxEvents \in Nat \ {0}

VARIABLES
  family,          \* which source this is
  stack,           \* the loop thread's call stack, top first
  task,            \* "ready" (suspended elsewhere), "running", "waiting", "closing"
  awaits,          \* next() and close() calls made by each task
  registrations,   \* the cancellation list
  stop_requested,  \* its stop_requested_
  close,           \* async_close_state
  slot,            \* waiter: the task that claimed it, or None
  pending,         \* the coalesced pending outcome, or NoEvent
  native,          \* "armed" (a process: it runs), "idle", "closing", "closed"
  owner,           \* does a source object hold the state
  resuming,        \* close waiters complete() has detached and not resumed
  deletions,       \* times the state was deleted
  arrived,         \* notifications so far
  unseen           \* history: notifications since a consumer last received one

taskVars   == <<task, awaits>>
cancelVars == <<registrations, stop_requested>>
eventVars  == <<pending, arrived, unseen>>
vars == <<family, stack, taskVars, cancelVars, close, slot, native, owner, resuming, deletions, eventVars>>

-----------------------------------------------------------------------------
(* Outcomes of notifications.                                              *)

Outcome(status, flags, filename) == [status |-> status, flags |-> flags, filename |-> filename]
Bare(status) == Outcome(status, {}, "none")
NoEvent  == Bare("none")

\* What libuv may report: a signal or readiness carries no more than the fact;
\* a file event has a kind and perhaps a name, or failed, or threw when its
\* name was copied.
Notifications ==
  IF family = "fs_event"
    THEN {Outcome("ok", {k}, n) : k \in {"rename", "change"}, n \in {"none", "a", "b"}}
         \cup {Bare("error"), Bare("threw")}
    ELSE {Bare("ok")}

Outcomes ==
  {Outcome("ok", F, n) : F \in SUBSET {"rename", "change"}, n \in {"none", "a", "b"}}
  \cup {Bare(s) : s \in {"none", "error", "threw"}}

Failure(event) == event.status \in {"error", "threw"}

-----------------------------------------------------------------------------

Frames == ({"run"} \X Tasks) \cup ({"quiesce", "complete", "stop"} \X {None})

Top(f, x) == stack # <<>> /\ Head(stack) = <<f, x>>
OnStack(f, x) == <<f, x>> \in Range(stack)
UserRuns == stack # <<>> => Head(stack)[1] = "run"

TypeOK ==
  /\ family \in Families
  /\ stack \in Seq(Frames)
  /\ task \in [Tasks -> {"ready", "running", "waiting", "closing"}]
  /\ awaits \in [Tasks -> 0..MaxAwaits]
  /\ registrations \in Seq(Tasks) /\ stop_requested \in BOOLEAN
  /\ close \in CloseStates(Tasks)
  /\ slot \in Tasks \cup {None}
  /\ pending \in Outcomes
  /\ native \in {"armed", "idle", "closing", "closed"}
  /\ owner \in BOOLEAN
  /\ resuming \in Seq(Tasks)
  /\ deletions \in 0..2
  /\ arrived \in 0..MaxEvents
  /\ unseen \in Seq(Notifications)

\* The constructor started the watcher or the process, or failed to and released
\* the state to its close.  A poll is started by next() only.  After a failed
\* uv_spawn the constructor calls uv_close itself, with the close not begun.
Init ==
  /\ family \in Families
  /\ stack = <<>>
  /\ task = [t \in Tasks |-> "ready"]
  /\ awaits = [t \in Tasks |-> 0]
  /\ registrations = <<>> /\ stop_requested = FALSE
  /\ slot = None /\ pending = NoEvent /\ resuming = <<>>
  /\ deletions = 0 /\ arrived = 0 /\ unseen = <<>>
  /\ \/ /\ close = OpenState /\ owner = TRUE
        /\ native = IF family = "poll" THEN "idle" ELSE "armed"
     \/ /\ family # "poll"
        /\ close = IF family = "process" THEN OwnerReleased(OpenState)
                                        ELSE Begun(OwnerReleased(OpenState))
        /\ owner = FALSE /\ native = "closing"

-----------------------------------------------------------------------------
(* Tasks.                                                                  *)

\* Something unrelated to the source resumes a task, or the task suspends on it.
Scheduled(t) ==
  /\ stack = <<>> /\ task[t] = "ready"
  /\ task' = [task EXCEPT ![t] = "running"]
  /\ stack' = <<<<"run", t>>>>
  /\ UNCHANGED <<family, awaits, cancelVars, close, slot, native, owner, resuming, deletions,
                 eventVars>>

Suspends(t) ==
  /\ Top("run", t)
  /\ task' = [task EXCEPT ![t] = "ready"]
  /\ stack' = Tail(stack)
  /\ UNCHANGED <<family, awaits, cancelVars, close, slot, native, owner, resuming, deletions,
                 eventVars>>

ConsumesPending == pending' = NoEvent /\ unseen' = <<>>

\* The slot is claimed, the stop callback registered and the task suspended.
Claims(t) ==
  /\ slot' = t
  /\ registrations' = Registered(registrations, t)
  /\ task' = [task EXCEPT ![t] = "waiting"]
  /\ stack' = Tail(stack)

\* The call ends with a result without suspending the task.
Returns == UNCHANGED <<slot, registrations, task, stack, native>>

\* signal_source and fs_event_source: the consumer takes the pending outcome,
\* gets UV_EBUSY, or claims the slot of the watcher, which is armed already.
PersistentNext(t) ==
  /\ family \in {"signal", "fs_event"}
  /\ \/ pending # NoEvent /\ ConsumesPending /\ Returns
     \/ pending = NoEvent /\ slot # None /\ Returns /\ UNCHANGED <<pending, unseen>>
     \/ pending = NoEvent /\ slot = None /\ Claims(t) /\ UNCHANGED <<native, pending, unseen>>

\* poll_source: each wait starts the watcher.  A bad mask or a failing
\* uv_poll_start releases the slot and the registration before it returns.
PollNext(t) ==
  /\ family = "poll"
  /\ \/ Returns
     \/ slot = None /\ Claims(t) /\ native' = "armed"
  /\ UNCHANGED <<pending, unseen>>

Exited == native # "armed"

\* process::wait_awaiter: an exit that is known is the result of every wait.
ProcessWait(t) ==
  /\ family = "process"
  /\ \/ (Exited \/ slot # None) /\ Returns
     \/ ~Exited /\ slot = None /\ Claims(t) /\ UNCHANGED native
  /\ UNCHANGED <<pending, unseen>>

\* next_awaiter::await_suspend: a closing source (UV_EBADF) or a stop requested
\* earlier (UV_ECANCELED) ends the call.
AwaitNext(t) ==
  /\ Top("run", t) /\ owner /\ awaits[t] < MaxAwaits
  /\ awaits' = [awaits EXCEPT ![t] = @ + 1]
  /\ IF IsClosing(close) \/ ~CanRegister(stop_requested)
       THEN Returns /\ UNCHANGED <<pending, unseen>>
       ELSE PersistentNext(t) \/ PollNext(t) \/ ProcessWait(t)
  /\ UNCHANGED <<family, stop_requested, close, owner, resuming, deletions, arrived>>

\* next_awaiter::on_delivery: unregister and resume inside the caller, whose
\* frames are below; the caller leaves the tasks as given.
Delivers(t, tasks, below) ==
  /\ registrations' = Unregistered(registrations, t)
  /\ task' = [tasks EXCEPT ![t] = "running"]
  /\ stack' = <<<<"run", t>>>> \o below

-----------------------------------------------------------------------------
(* Notifications.                                                          *)

\* deliver_event of fs_event_source with no consumer: a pending failure wins, a
\* new failure replaces, and events merge: kinds add up and a name survives only
\* if it is the same.
Merge_LastName(old, event) ==
  IF old # NoEvent /\ Failure(old) THEN old
  ELSE IF old = NoEvent \/ Failure(event) THEN event
  ELSE [event EXCEPT !.flags = @ \cup old.flags]

Merge(old, event) ==
  IF old # NoEvent /\ Failure(old) THEN old
  ELSE IF old = NoEvent \/ Failure(event) THEN event
  ELSE Outcome("ok", old.flags \cup event.flags,
               IF old.filename = event.filename THEN old.filename ELSE "none")

\* uv_poll_stop comes before the delivery; the other watchers stay armed.
NativeAfterDelivery_Armed == native
NativeAfterDelivery == IF family = "poll" THEN "idle" ELSE native

SlotAfterDelivery_Kept == slot
SlotAfterDelivery == None

\* deliver_signal and deliver_event.
Notify(event) ==
  /\ family # "process"
  /\ stack = <<>> /\ native = "armed" /\ IsOpen(close) /\ arrived < MaxEvents
  /\ arrived' = arrived + 1
  /\ native' = NativeAfterDelivery
  /\ IF slot # None
       THEN /\ slot' = SlotAfterDelivery
            /\ Delivers(slot, task, <<>>)
            /\ UNCHANGED <<pending, unseen>>
       ELSE /\ pending' = IF family = "poll" THEN pending ELSE Merge(pending, event)
            /\ unseen' = Append(unseen, event)
            /\ UNCHANGED <<slot, registrations, task, stack>>
  /\ UNCHANGED <<family, awaits, stop_requested, close, owner, resuming, deletions>>

\* process_state::on_exit.  Without an owner the native close begins before the
\* waiter resumes.
ProcessExits ==
  /\ family = "process"
  /\ stack = <<>> /\ native = "armed"
  /\ arrived' = arrived + 1
  /\ pending' = Bare("ok") /\ unseen' = Append(unseen, Bare("ok"))
  /\ close' = IF owner THEN close ELSE Begun(close)
  /\ native' = IF owner THEN "idle" ELSE "closing"
  /\ slot' = SlotAfterDelivery
  /\ IF slot # None THEN Delivers(slot, task, <<>>) ELSE UNCHANGED <<registrations, task, stack>>
  /\ UNCHANGED <<family, awaits, stop_requested, owner, resuming, deletions>>

-----------------------------------------------------------------------------
(* Close.                                                                  *)

\* request_close of a source up to the return of cancel_waiter: claim the close,
\* stop the watcher, and resume the consumer, if there is one, inside the call.
SourceCloses(state, tasks, below) ==
  /\ close' = Begun(state)
  /\ native' = "idle"
  /\ slot' = None
  /\ IF slot # None
       THEN Delivers(slot, tasks, <<<<"quiesce", None>>>> \o below)
       ELSE /\ task' = tasks
            /\ stack' = <<<<"quiesce", None>>>> \o below
            /\ UNCHANGED registrations

\* process_state::request_close.
ProcessCloses(state, tasks, below) ==
  /\ close' = Begun(state)
  /\ native' = "closing"
  /\ task' = tasks /\ stack' = below
  /\ UNCHANGED <<slot, registrations>>

BeginsClose(state, tasks, below) ==
  IF family = "process" THEN ProcessCloses(state, tasks, below)
                        ELSE SourceCloses(state, tasks, below)

\* has_active_operation: a process that has not exited refuses to be closed.
MayClose == family = "process" => Exited

\* request_close after cancel_waiter: fs_event_source drops what is pending, and
\* uv_close is called.
QuiesceReturns ==
  /\ Top("quiesce", None)
  /\ native' = "closing"
  /\ pending' = IF family = "fs_event" THEN NoEvent ELSE pending
  /\ stack' = Tail(stack)
  /\ UNCHANGED <<family, taskVars, cancelVars, close, slot, owner, resuming, deletions, arrived, unseen>>

\* request_close by user code; a second one does nothing.
RequestClose ==
  /\ UserRuns /\ owner /\ IsOpen(close) /\ MayClose
  /\ BeginsClose(close, task, stack)
  /\ UNCHANGED <<family, awaits, stop_requested, owner, resuming, deletions, eventVars>>

\* owner_close_awaiter::await_suspend: closed already or UV_EBUSY, or wait for the close and
\* start it unless it is under way.
AwaitClose(t) ==
  /\ Top("run", t) /\ owner /\ awaits[t] < MaxAwaits
  /\ awaits' = [awaits EXCEPT ![t] = @ + 1]
  /\ \/ /\ IsClosed(close) \/ ~MayClose
        /\ UNCHANGED <<task, stack, registrations, close, native, slot>>
     \/ /\ close.phase = "closing"
        /\ close' = WithWaiter(close, t)
        /\ task' = [task EXCEPT ![t] = "closing"]
        /\ stack' = Tail(stack)
        /\ UNCHANGED <<registrations, native, slot>>
     \/ /\ IsOpen(close) /\ MayClose
        /\ BeginsClose(WithWaiter(close, t), [task EXCEPT ![t] = "closing"], Tail(stack))
  /\ UNCHANGED <<family, stop_requested, owner, resuming, deletions, eventVars>>

\* Whether release_owner deletes the state of a close that has begun.
DestroysNow(state) ==
  IF family = "process" THEN IsClosed(state) ELSE CanDestroyNow(state)

\* The owner is destroyed: reset and release_owner.  The close of a process that
\* has not exited is left to its exit.
DestroyOwner ==
  /\ UserRuns /\ owner
  /\ OnStack("complete", None) => family \in ReleasedInCompletion
  /\ owner' = FALSE
  /\ LET released == OwnerReleased(close)
     IN IF IsOpen(close) /\ MayClose
          THEN /\ BeginsClose(released, task, stack)
               /\ UNCHANGED deletions
          ELSE /\ close' = released
               /\ deletions' = deletions + (IF DestroysNow(released) THEN 1 ELSE 0)
               /\ UNCHANGED <<stack, task, registrations, native, slot>>
  /\ UNCHANGED <<family, awaits, stop_requested, resuming, eventVars>>

\* on_close: complete detaches the waiters, resumes them one after another and
\* deletes the state if the owner is gone by then.
OnClose ==
  /\ stack = <<>> /\ native = "closing"
  /\ native' = "closed"
  /\ close' = Completing(close)
  /\ resuming' = DetachedWaiters(close)
  /\ stack' = <<<<"complete", None>>>>
  /\ UNCHANGED <<family, taskVars, cancelVars, slot, owner, deletions, eventVars>>

CompleteNext ==
  /\ Top("complete", None) /\ resuming # <<>>
  /\ task' = [task EXCEPT ![Head(resuming)] = "running"]
  /\ stack' = <<<<"run", Head(resuming)>>>> \o stack
  /\ resuming' = Tail(resuming)
  /\ UNCHANGED <<family, awaits, cancelVars, close, slot, native, owner, deletions, eventVars>>

CompleteReturns ==
  /\ Top("complete", None) /\ resuming = <<>>
  /\ close' = Completed(close)
  /\ deletions' = deletions + (IF DeletesState(close) THEN 1 ELSE 0)
  /\ stack' = Tail(stack)
  /\ UNCHANGED <<family, taskVars, cancelVars, slot, native, owner, resuming, eventVars>>

-----------------------------------------------------------------------------
(* Cooperative stop of the tasks.                                          *)

RequestStop ==
  /\ UserRuns /\ ~stop_requested
  /\ stop_requested' = TRUE
  /\ stack' = <<<<"stop", None>>>> \o stack
  /\ UNCHANGED <<family, taskVars, registrations, close, slot, native, owner, resuming, deletions,
                 eventVars>>

\* One turn of request_stop: next_awaiter::on_stop_requested cancels the waiter.
StopNext ==
  /\ Top("stop", None) /\ registrations # <<>>
  /\ native' = NativeAfterDelivery
  /\ slot' = None
  /\ Delivers(slot, task, stack)
  /\ UNCHANGED <<family, awaits, stop_requested, close, owner, resuming, deletions, eventVars>>

StopReturns ==
  /\ Top("stop", None) /\ registrations = <<>>
  /\ stack' = Tail(stack)
  /\ UNCHANGED <<family, taskVars, cancelVars, close, slot, native, owner, resuming, deletions,
                 eventVars>>

-----------------------------------------------------------------------------

Next ==
  \/ \E t \in Tasks : Scheduled(t) \/ Suspends(t) \/ AwaitNext(t) \/ AwaitClose(t)
  \/ ProcessExits
  \/ \E event \in Notifications : Notify(event)
  \/ RequestClose \/ QuiesceReturns \/ DestroyOwner
  \/ OnClose \/ CompleteNext \/ CompleteReturns
  \/ RequestStop \/ StopNext \/ StopReturns

Spec == Init /\ [][Next]_vars

\* Code that runs comes back.  Every iteration of the loop runs the callbacks of
\* finished closes, whatever else it runs, so OnClose is strongly fair.  Nothing
\* says that a signal arrives or that a process exits.
LoopDriven ==
  /\ WF_vars(\E t \in Tasks : Suspends(t))
  /\ SF_vars(OnClose)
  /\ WF_vars(QuiesceReturns \/ CompleteNext \/ CompleteReturns \/ StopNext \/ StopReturns)

FairSpec == Spec /\ LoopDriven

-----------------------------------------------------------------------------
(* Properties.                                                             *)

FirstFailure(events) ==
  CHOOSE i \in 1..Len(events) : Failure(events[i]) /\ \A j \in 1..(i - 1) : ~Failure(events[j])

\* What a list of notifications amounts to for a consumer that saw none of them:
\* the first failure, or else all kinds and the name they agree on.
Summary(events) ==
  IF events = <<>> THEN NoEvent
  ELSE IF \E i \in 1..Len(events) : Failure(events[i])
    THEN events[FirstFailure(events)]
  ELSE Outcome("ok", UNION {events[i].flags : i \in 1..Len(events)},
               IF \A i \in 1..Len(events) : events[i].filename = events[1].filename
                 THEN events[1].filename ELSE "none")

\* Notifications without a consumer are coalesced without loss: while the source
\* is open the pending outcome is exactly what the unseen ones amount to, and no
\* consumer sleeps while there is one.  The exit of a process stays pending for
\* every later wait.
UnseenIsPending ==
  /\ IsOpen(close) => pending = Summary(unseen)
  /\ slot # None => unseen = <<>>

\* The slot holds exactly the task that waits, and exactly it has a stop
\* callback, through deliveries, cancellations and closes that resume the
\* consumer inside them; a closing source has no consumer.
SlotAccounted ==
  /\ TypeOK
  /\ \A t \in Tasks : task[t] = "waiting" <=> slot = t
  /\ registrations = IF slot = None THEN <<>> ELSE <<slot>>
  /\ slot # None => IsOpen(close)

\* The watcher is armed exactly while its notifications have somewhere to go: a
\* poll for its one waiter, the others until their close begins.  The handle of
\* a process is never closed while the process runs, with or without its owner.
ArmedWhenUseful ==
  CASE family = "poll" -> native = "armed" <=> slot # None
    [] family = "process" -> native = "armed" => IsOpen(close)
    [] OTHER -> native = "armed" <=> IsOpen(close)

\* The state is deleted once, after the native close, and nothing that runs or
\* waits needs it then: not the code inside complete() that resumed whoever
\* destroyed the owner.
NoUseAfterDelete ==
  deletions > 0 =>
    /\ deletions = 1
    /\ native = "closed" /\ ~owner
    /\ ~OnStack("quiesce", None) /\ ~OnStack("complete", None)
    /\ \A t \in Tasks : task[t] \notin {"waiting", "closing"}

\* Every close() awaiter resumes, and destroying the owner, at any time, ends in
\* the deletion of the state; that of a process waits for its exit.
CloseCompletes ==
  /\ \A t \in Tasks : (task[t] = "closing") ~> (task[t] # "closing")
  /\ (~owner /\ MayClose) ~> deletions = 1

=============================================================================
