------------------------------ MODULE Listener ------------------------------
(***************************************************************************)
(* uv::tcp_listener (include/uvpp/net/tcp_listener.hpp) with its one       *)
(* accept slot (include/uvpp/detail/accept_slot.hpp).  An accept brings a  *)
(* provisional child, initialized with libuv before any peer exists.  It   *)
(* is transferred to the task, or closed before the task learns that its   *)
(* accept failed or was cancelled; the listener may be closed, or even     *)
(* deleted, by then.                                                       *)
(*                                                                         *)
(* uv::pipe_listener (include/uvpp/net/pipe_listener.hpp) runs the same    *)
(* protocol on a uv_pipe_t, step for step, so one model stands for both.   *)
(* The call stack is explicit as in EventSource.                           *)
(***************************************************************************)
EXTENDS Naturals, FiniteSets, AsyncClose, Cancellation

CONSTANTS
  Tasks,     \* coroutines that share one cancellation_state
  None,      \* an empty accept slot
  MaxAwaits  \* bound: accept() and close() calls of each task

ASSUME ListenerAssumption == IsFiniteSet(Tasks) /\ None \notin Tasks /\ MaxAwaits \in Nat

VARIABLES
  stack,           \* the loop thread's call stack, top first
  task,            \* "ready" (suspended elsewhere), "running", "accepting", "closing"
  awaits,          \* accept() and close() calls made by each task
  registrations,   \* the cancellation list
  stop_requested,  \* its stop_requested_
  close,           \* async_close_state of the listener
  slot,            \* accept: the task that claimed it, or None
  child,           \* connection_ of each accept: "none", "provisional", "closing"
  children,        \* child states allocated, not deleted and not transferred
  native,          \* the listening uv_tcp_t or uv_pipe_t: "listening", "closing", "closed"
  unaccepted,      \* libuv holds a connection it announced to an empty slot
  owner,           \* does a listener object hold the state
  resuming,        \* close waiters complete() has detached and not resumed
  deletions,       \* times the listener's state was deleted
  terminated       \* std::terminate() was called

taskVars   == <<task, awaits>>
cancelVars == <<registrations, stop_requested>>
acceptVars == <<slot, child, children>>
lifeVars   == <<close, native, unaccepted, owner, resuming, deletions, terminated>>
vars == <<stack, taskVars, cancelVars, acceptVars, lifeVars>>

Frames == ({"run", "child"} \X Tasks) \cup ({"complete", "stop"} \X {None})

Top(f, x) == ~terminated /\ stack # <<>> /\ Head(stack) = <<f, x>>
OnStack(f, x) == <<f, x>> \in Range(stack)
InPoll == ~terminated /\ stack = <<>>
UserRuns == ~terminated /\ (stack # <<>> => Head(stack)[1] = "run")

TypeOK ==
  /\ stack \in Seq(Frames)
  /\ task \in [Tasks -> {"ready", "running", "accepting", "closing"}]
  /\ awaits \in [Tasks -> 0..MaxAwaits]
  /\ registrations \in Seq(Tasks) /\ stop_requested \in BOOLEAN
  /\ close \in CloseStates(Tasks)
  /\ slot \in Tasks \cup {None}
  /\ child \in [Tasks -> {"none", "provisional", "closing"}]
  /\ children \in 0..(2 * Cardinality(Tasks))
  /\ native \in {"listening", "closing", "closed"}
  /\ unaccepted \in BOOLEAN /\ owner \in BOOLEAN /\ terminated \in BOOLEAN
  /\ resuming \in Seq(Tasks)
  /\ deletions \in 0..1

\* make_state: listening, or bind or listen failed and the state is being closed.
Init ==
  /\ stack = <<>>
  /\ task = [t \in Tasks |-> "ready"]
  /\ awaits = [t \in Tasks |-> 0]
  /\ registrations = <<>> /\ stop_requested = FALSE
  /\ slot = None /\ child = [t \in Tasks |-> "none"] /\ children = 0
  /\ resuming = <<>> /\ deletions = 0 /\ terminated = FALSE /\ unaccepted = FALSE
  /\ \/ close = OpenState /\ native = "listening" /\ owner = TRUE
     \/ close = Begun(OwnerReleased(OpenState)) /\ native = "closing" /\ owner = FALSE

-----------------------------------------------------------------------------
(* Tasks.                                                                  *)

\* Something else resumes a task, or the task suspends on something else.
Scheduled(t) ==
  /\ InPoll /\ task[t] = "ready"
  /\ task' = [task EXCEPT ![t] = "running"]
  /\ stack' = <<<<"run", t>>>>
  /\ UNCHANGED <<awaits, cancelVars, acceptVars, lifeVars>>

Suspends(t) ==
  /\ Top("run", t)
  /\ task' = [task EXCEPT ![t] = "ready"]
  /\ stack' = Tail(stack)
  /\ UNCHANGED <<awaits, cancelVars, acceptVars, lifeVars>>

Awaits(t) ==
  /\ Top("run", t) /\ owner /\ awaits[t] < MaxAwaits
  /\ awaits' = [awaits EXCEPT ![t] = @ + 1]

SuspendsIn(t, operation) ==
  /\ task' = [task EXCEPT ![t] = operation]
  /\ stack' = Tail(stack)

Returns == UNCHANGED <<task, stack>>

-----------------------------------------------------------------------------
(* Accepting.                                                              *)

CanAccept == ~IsClosing(close) /\ CanRegister(stop_requested) /\ slot = None

\* accept_awaiter::await_suspend.  UV_EBADF, UV_ECANCELED, UV_EBUSY or a failing
\* uv_tcp_init end the call.
AwaitAccept(t) ==
  /\ Awaits(t)
  /\ \/ Returns /\ UNCHANGED <<registrations, acceptVars>>
     \/ /\ CanAccept
        /\ SuspendsIn(t, "accepting")
        /\ slot' = t
        /\ child' = [child EXCEPT ![t] = "provisional"]
        /\ children' = children + 1
        /\ registrations' = Registered(registrations, t)
  /\ UNCHANGED <<stop_requested, lifeVars>>

\* close_untransferred_connection: the child's close carries the continuation.
CloseUntransferred_Dropped(t) == [child EXCEPT ![t] = "none"]
CloseUntransferred(t) == [child EXCEPT ![t] = "closing"]

\* accept_slot::quiesce and on_listener_close_requested: the claim and the
\* registration go, then the child's close begins.  Nothing resumes yet.
Quiesce_KeepsClaim ==
  IF slot = None
    THEN UNCHANGED <<registrations, slot, child>>
    ELSE /\ child' = CloseUntransferred(slot)
         /\ UNCHANGED <<slot, registrations>>

Quiesce ==
  IF slot = None
    THEN UNCHANGED <<registrations, slot, child>>
    ELSE /\ registrations' = Unregistered(registrations, slot)
         /\ slot' = None
         /\ child' = CloseUntransferred(slot)

\* on_connection without a waiter does nothing.  libuv may then keep the connection
\* and announce no other before uv_accept, which only an announcement leads to.
OnConnectionIgnored ==
  /\ InPoll /\ native = "listening" /\ slot = None /\ ~unaccepted
  /\ unaccepted' = TRUE
  /\ UNCHANGED <<stack, taskVars, cancelVars, acceptVars, close, native, owner, resuming,
                 deletions, terminated>>

\* on_connection with a waiter releases the slot; the child is transferred to the
\* resumed task, or closed because the notification or uv_accept reports an error.
OnConnection(accepted) ==
  /\ InPoll /\ native = "listening" /\ slot # None /\ ~unaccepted
  /\ slot' = None
  /\ registrations' = Unregistered(registrations, slot)
  /\ IF accepted
       THEN /\ child' = [child EXCEPT ![slot] = "none"]
            /\ children' = children - 1
            /\ task' = [task EXCEPT ![slot] = "running"]
            /\ stack' = <<<<"run", slot>>>>
       ELSE /\ child' = CloseUntransferred(slot)
            /\ UNCHANGED <<children, task, stack>>
  /\ UNCHANGED <<awaits, stop_requested, lifeVars>>

\* The child's close callback: complete resumes the task, whose await throws,
\* and deletes the child afterwards.
ChildClosed(t) ==
  /\ InPoll /\ child[t] = "closing"
  /\ child' = [child EXCEPT ![t] = "none"]
  /\ task' = [task EXCEPT ![t] = "running"]
  /\ stack' = <<<<"run", t>>, <<"child", t>>>>
  /\ UNCHANGED <<awaits, cancelVars, slot, children, lifeVars>>

ChildReturns(t) ==
  /\ Top("child", t)
  /\ children' = children - 1
  /\ stack' = Tail(stack)
  /\ UNCHANGED <<taskVars, cancelVars, slot, child, lifeVars>>

-----------------------------------------------------------------------------
(* Close.                                                                  *)

\* tcp_listener_state::request_close on an open listener, whose close state is
\* given: claim the close, quiesce the accept, uv_close.
BeginsClose(state) ==
  /\ close' = Begun(state)
  /\ Quiesce
  /\ native' = "closing"

RequestClose ==
  /\ UserRuns /\ owner /\ IsOpen(close)
  /\ BeginsClose(close)
  /\ UNCHANGED <<stack, taskVars, stop_requested, children, unaccepted, owner, resuming, deletions,
                 terminated>>

\* owner_close_awaiter::await_suspend; a listener has no operation that would
\* make it refuse.
AwaitClose(t) ==
  /\ Awaits(t)
  /\ \/ /\ IsClosed(close)
        /\ Returns
        /\ UNCHANGED <<close, native, registrations, slot, child>>
     \/ /\ close.phase = "closing"
        /\ SuspendsIn(t, "closing")
        /\ close' = WithWaiter(close, t)
        /\ UNCHANGED <<native, registrations, slot, child>>
     \/ /\ IsOpen(close)
        /\ SuspendsIn(t, "closing")
        /\ BeginsClose(WithWaiter(close, t))
  /\ UNCHANGED <<stop_requested, children, unaccepted, owner, resuming, deletions,
                 terminated>>

\* reset: the program ends if an accept is armed; otherwise release_owner.
DestroyOwner ==
  /\ UserRuns /\ owner
  /\ IF slot # None
       THEN /\ terminated' = TRUE
            /\ UNCHANGED <<close, native, owner, deletions, registrations, slot, child>>
       ELSE /\ owner' = FALSE
            /\ LET released == OwnerReleased(close)
               IN IF IsOpen(close)
                    THEN BeginsClose(released) /\ UNCHANGED deletions
                    ELSE /\ close' = released
                         /\ deletions' = deletions + (IF CanDestroyNow(released) THEN 1 ELSE 0)
                         /\ UNCHANGED <<native, registrations, slot, child>>
            /\ UNCHANGED terminated
  /\ UNCHANGED <<stack, taskVars, stop_requested, children, unaccepted, resuming>>

OnClose ==
  /\ InPoll /\ native = "closing"
  /\ native' = "closed"
  /\ close' = Completing(close)
  /\ resuming' = DetachedWaiters(close)
  /\ stack' = <<<<"complete", None>>>>
  /\ UNCHANGED <<taskVars, cancelVars, acceptVars, unaccepted, owner, deletions, terminated>>

CompleteNext ==
  /\ Top("complete", None) /\ resuming # <<>>
  /\ task' = [task EXCEPT ![Head(resuming)] = "running"]
  /\ stack' = <<<<"run", Head(resuming)>>>> \o stack
  /\ resuming' = Tail(resuming)
  /\ UNCHANGED <<awaits, cancelVars, acceptVars, close, native, unaccepted, owner, deletions,
                 terminated>>

CompleteReturns ==
  /\ Top("complete", None) /\ resuming = <<>>
  /\ close' = Completed(close)
  /\ deletions' = deletions + (IF DeletesState(close) THEN 1 ELSE 0)
  /\ stack' = Tail(stack)
  /\ UNCHANGED <<taskVars, cancelVars, acceptVars, native, unaccepted, owner, resuming, terminated>>

-----------------------------------------------------------------------------
(* Cooperative stop.                                                       *)

RequestStop ==
  /\ UserRuns /\ ~stop_requested
  /\ stop_requested' = TRUE
  /\ stack' = <<<<"stop", None>>>> \o stack
  /\ UNCHANGED <<taskVars, registrations, acceptVars, lifeVars>>

\* One turn of request_stop's loop calls accept_awaiter::on_stop_requested, which
\* does nothing for an awaiter that does not hold the slot.
StopNext ==
  /\ Top("stop", None) /\ registrations # <<>>
  /\ IF HeadRegistration(registrations) = slot
       THEN Quiesce
       ELSE /\ registrations' = AfterHead(registrations)
            /\ UNCHANGED <<slot, child>>
  /\ UNCHANGED <<stack, taskVars, stop_requested, children, lifeVars>>

StopReturns ==
  /\ Top("stop", None) /\ registrations = <<>>
  /\ stack' = Tail(stack)
  /\ UNCHANGED <<taskVars, cancelVars, acceptVars, lifeVars>>

-----------------------------------------------------------------------------

Next ==
  \/ \E t \in Tasks :
       \/ Scheduled(t) \/ Suspends(t)
       \/ AwaitAccept(t) \/ ChildClosed(t) \/ ChildReturns(t)
       \/ AwaitClose(t)
  \/ OnConnectionIgnored \/ \E accepted \in BOOLEAN : OnConnection(accepted)
  \/ RequestClose \/ DestroyOwner
  \/ OnClose \/ CompleteNext \/ CompleteReturns
  \/ RequestStop \/ StopNext \/ StopReturns

Spec == Init /\ [][Next]_vars

\* Code that runs comes back, and every iteration of the loop runs the callbacks
\* of finished closes, whatever else it runs.  No peer need ever connect.
LoopDriven ==
  /\ WF_vars(\E t \in Tasks : Suspends(t))
  /\ SF_vars(OnClose \/ \E t \in Tasks : ChildClosed(t))
  /\ WF_vars(\/ CompleteNext \/ CompleteReturns \/ StopNext \/ StopReturns
             \/ \E t \in Tasks : ChildReturns(t))

FairSpec == Spec /\ LoopDriven

-----------------------------------------------------------------------------
(* Properties.                                                             *)

\* Once the listener's close begins nothing is armed on it, and its state is deleted
\* when nothing that runs or waits needs it, after the native close; a cancelled
\* accept may still wait for its child.
NoUseAfterClose ==
  /\ IsClosing(close) => slot = None
  /\ deletions > 0 =>
       /\ native = "closed" /\ ~owner /\ ~OnStack("complete", None)
       /\ \A t \in Tasks : task[t] # "closing"

\* Every child state is transferred to a task, or deleted by its own close: the
\* ones left are those of suspended accepts and of close callbacks that run.
ChildrenAccounted ==
  /\ TypeOK
  /\ children = Cardinality({t \in Tasks : child[t] # "none"})
                + Cardinality({i \in 1..Len(stack) : stack[i][1] = "child"})

\* Every close() awaiter resumes.  So does an accept that was stopped or whose
\* listener is closing, although no peer connects and although the listener is
\* deaf since a notification found nobody waiting.
OperationsEnd ==
  \A t \in Tasks :
    (\/ task[t] = "closing"
     \/ task[t] = "accepting" /\ (stop_requested \/ IsClosing(close)))
      ~> (task[t] \in {"ready", "running"} \/ terminated)

=============================================================================
