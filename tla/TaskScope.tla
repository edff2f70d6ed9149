----------------------------- MODULE TaskScope -----------------------------
(***************************************************************************)
(* uv::co::task_scope (include/uvpp/co/task_scope.hpp) with the tasks it   *)
(* owns, the parent that joins it and its cancellation_state.              *)
(*                                                                         *)
(* Everything runs on the loop thread, but not one after another: a stop   *)
(* callback, a symmetric transfer or a close of a shared resource resumes  *)
(* a coroutine inside whatever is running.  So the model keeps the call    *)
(* stack, and only its top acts.  An empty stack is libuv's poll.          *)
(*                                                                         *)
(* A task waits in one of three kinds of operation:                        *)
(*   "inline": its stop callback resumes the task at once (reads, recv,    *)
(*             next());                                                    *)
(*   "closing": its stop callback starts a native close that resumes the   *)
(*             task later (sleep_for, also on its timeout; accept).  Once  *)
(*             that close has begun, close_started_, it is "ended";        *)
(*   "opaque": it registers nothing and completes by itself (a submitted   *)
(*             write, a connect, the close of a resource).                 *)
(***************************************************************************)
EXTENDS Naturals, FiniteSets, Cancellation

CONSTANTS
  Children,         \* tasks that may be spawned into the scope
  Parent,           \* the task that owns the scope
  MaxAwaits         \* bound: operations each task awaits before it returns

ASSUME ScopeAssumption ==
  /\ IsFiniteSet(Children)
  /\ Parent \notin Children
  /\ MaxAwaits \in Nat

Tasks == Children \cup {Parent}

VARIABLES
  stack,              \* the loop thread's call stack, top first
  task,               \* where each child is
  op,                 \* the operation a suspended task waits in
  awaits,             \* operations each task has started
  registrations,      \* cancellation_'s list
  stop_requested,     \* cancellation_.stop_requested_
  active_children,    \* active_children_
  completion_depth,   \* completion_depth_
  first_failure,      \* first_failure_: the child whose exception it holds, or Parent
  join_started,       \* join_started_
  join_continuation,  \* is join_continuation_ set
  parent,             \* "working", "away", "joining", "joined"
  scope,              \* is the scope alive
  rethrown,           \* history: the child whose exception join() rethrew, or Parent
  failures            \* history: children that failed, in order of completion

scopeVars == <<registrations, stop_requested, active_children, completion_depth,
               first_failure, join_started, join_continuation>>
historyVars == <<rethrown, failures>>
vars == <<stack, task, op, awaits, scopeVars, parent, scope, historyVars>>

\* Frames: a task's body; child_completed() of a child, waiting for request_stop;
\* the loop of request_stop() (Parent there is only a filler).
Run(t) == <<"run", t>>
InCompletion(c) == <<"complete", c>>
Stopping == <<"stop", Parent>>
Frames == {Run(t) : t \in Tasks} \cup {InCompletion(c) : c \in Children} \cup {Stopping}

Top(frame) == stack # <<>> /\ Head(stack) = frame
Running(t) == Top(Run(t))
OnStack(frame) == \E i \in 1..Len(stack) : stack[i] = frame

TypeOK ==
  /\ stack \in Seq(Frames)
  /\ task \in [Children -> {"cold", "running", "suspended", "completed", "destroyed"}]
  /\ op \in [Tasks -> {"none", "inline", "closing", "ended", "opaque"}]
  /\ awaits \in [Tasks -> 0..MaxAwaits]
  /\ registrations \in Seq(Children)
  /\ stop_requested \in BOOLEAN
  /\ active_children \in 0..Cardinality(Children)
  /\ completion_depth \in 0..Cardinality(Children)
  /\ first_failure \in Tasks
  /\ join_started \in BOOLEAN
  /\ join_continuation \in BOOLEAN
  /\ parent \in {"working", "away", "joining", "joined"}
  /\ scope \in BOOLEAN
  /\ rethrown \in Tasks
  /\ failures \in Seq(Children)

Init ==
  /\ stack = <<Run(Parent)>>
  /\ task = [c \in Children |-> "cold"]
  /\ op = [t \in Tasks |-> "none"]
  /\ awaits = [t \in Tasks |-> 0]
  /\ registrations = <<>>
  /\ stop_requested = FALSE
  /\ active_children = 0
  /\ completion_depth = 0
  /\ first_failure = Parent
  /\ join_started = FALSE
  /\ join_continuation = FALSE
  /\ parent = "working"
  /\ scope = TRUE
  /\ rethrown = Parent
  /\ failures = <<>>

-----------------------------------------------------------------------------
(* Steps of task bodies.                                                   *)

ActiveAfterSpawn == active_children + 1

\* spawn: the child is bound to the scope's cancellation state, recorded and
\* resumed inside the caller, the parent or a sibling.
Spawn(t, c) ==
  /\ Running(t) /\ scope
  /\ task[c] = "cold"
  /\ ~join_started
  /\ task' = [task EXCEPT ![c] = "running"]
  /\ active_children' = ActiveAfterSpawn
  /\ stack' = <<Run(c)>> \o stack
  /\ UNCHANGED <<op, awaits, registrations, stop_requested, completion_depth, first_failure,
                 join_started, join_continuation, parent, scope, historyVars>>

\* A child awaits an operation.  After a stop request a cancellable one ends
\* with UV_ECANCELED before it is submitted and the child runs on.
Await(c, kind) ==
  /\ Running(c) /\ awaits[c] < MaxAwaits
  /\ awaits' = [awaits EXCEPT ![c] = @ + 1]
  /\ IF kind = "opaque" \/ CanRegister(stop_requested)
       THEN /\ op' = [op EXCEPT ![c] = kind]
            /\ task' = [task EXCEPT ![c] = "suspended"]
            /\ registrations' = IF kind = "opaque" THEN registrations
                                                   ELSE Registered(registrations, c)
            /\ stack' = Tail(stack)
       ELSE UNCHANGED <<op, task, registrations, stack>>
  /\ UNCHANGED <<stop_requested, active_children, completion_depth, first_failure,
                 join_started, join_continuation, parent, scope, historyVars>>

\* An operation that could not be submitted: the child runs on with the error or,
\* when a sleep's timer exists but does not start, waits for its close.
AwaitFails(c) ==
  /\ Running(c) /\ awaits[c] < MaxAwaits
  /\ awaits' = [awaits EXCEPT ![c] = @ + 1]
  /\ \/ UNCHANGED <<op, task, stack>>
     \/ /\ ~stop_requested
        /\ op' = [op EXCEPT ![c] = "ended"]
        /\ task' = [task EXCEPT ![c] = "suspended"]
        /\ stack' = Tail(stack)
  /\ UNCHANGED <<scopeVars, parent, scope, historyVars>>

\* The parent waits for something else.  Its own operations are registered with
\* the cancellation state of its root, not with the scope's.
ParentAwaits(kind) ==
  /\ Running(Parent) /\ parent = "working" /\ awaits[Parent] < MaxAwaits
  /\ awaits' = [awaits EXCEPT ![Parent] = @ + 1]
  /\ op' = [op EXCEPT ![Parent] = kind]
  /\ parent' = "away"
  /\ stack' = Tail(stack)
  /\ UNCHANGED <<task, scopeVars, scope, historyVars>>

\* request_stop called by a task, or by a callback of the loop that can see the
\* scope.  A second request does nothing.
RequestStop ==
  /\ scope
  /\ \/ \E t \in Tasks : Running(t)
     \/ stack = <<>>
  /\ ~stop_requested
  /\ stop_requested' = TRUE
  /\ stack' = <<Stopping>> \o stack
  /\ UNCHANGED <<task, op, awaits, registrations, active_children, completion_depth,
                 first_failure, join_started, join_continuation, parent, scope, historyVars>>

-----------------------------------------------------------------------------
(* Resumption.                                                             *)

Resumed(t) ==
  /\ op' = [op EXCEPT ![t] = "none"]
  /\ stack' = <<Run(t)>> \o stack
  /\ IF t = Parent THEN parent' = "working" /\ UNCHANGED task
                   ELSE task' = [task EXCEPT ![t] = "running"] /\ UNCHANGED parent

\* An operation completes: it unregisters its stop callback and resumes the
\* task.  Libuv completes it from the poll; an inline one also ends when a
\* running task closes the resource it waits on.
OperationCompletes(t) ==
  /\ \/ op[t] = "inline" /\ (stack = <<>> \/ \E s \in Tasks : Running(s))
     \/ op[t] \in {"opaque", "closing"} /\ stack = <<>>
  /\ registrations' = Unregistered(registrations, t)
  /\ Resumed(t)
  /\ UNCHANGED <<awaits, stop_requested, active_children, completion_depth, first_failure,
                 join_started, join_continuation, scope, historyVars>>

\* close_trampoline: the close of an ended operation resumes its task and
\* unregisters nothing: whoever ended the operation did.
CloseTrampoline(c) ==
  /\ stack = <<>> /\ op[c] = "ended"
  /\ Resumed(c)
  /\ UNCHANGED <<awaits, scopeVars, scope, historyVars>>

Finish_KeepsRegistration(c, list) ==
  /\ op' = [op EXCEPT ![c] = "ended"]
  /\ registrations' = list

\* finish(): does nothing once close_started_, else unregisters and starts the
\* native close.  list is the registration list as the caller leaves it.
Finish(c, list) ==
  IF op[c] = "ended"
    THEN registrations' = list /\ UNCHANGED op
    ELSE /\ op' = [op EXCEPT ![c] = "ended"]
         /\ registrations' = Unregistered(list, c)

\* The timer of a sleep fires.  finish() stops the timer, so it fires once.
TimerFires(c) ==
  /\ stack = <<>> /\ op[c] = "closing"
  /\ Finish(c, registrations)
  /\ UNCHANGED <<stack, task, awaits, stop_requested, active_children, completion_depth,
                 first_failure, join_started, join_continuation, parent, scope, historyVars>>

-----------------------------------------------------------------------------
(* cancellation_state::request_stop.                                       *)

\* One turn of the loop: an inline operation resumes its task inside the call,
\* a closing one starts its native close and returns.
StopNext ==
  /\ Top(Stopping) /\ registrations # <<>>
  /\ LET c == HeadRegistration(registrations)
     IN IF op[c] = "inline"
          THEN registrations' = AfterHead(registrations) /\ Resumed(c)
          ELSE Finish(c, AfterHead(registrations)) /\ UNCHANGED <<stack, task, parent>>
  /\ UNCHANGED <<awaits, stop_requested, active_children, completion_depth, first_failure,
                 join_started, join_continuation, scope, historyVars>>

\* The loop reads head_ once more.  If the scope is gone that read is undefined:
\* it finds the list empty, as here, or the behaviour ends in a crash.
StopReturns ==
  /\ Top(Stopping) /\ registrations = <<>>
  /\ stack' = Tail(stack)
  /\ UNCHANGED <<task, op, awaits, scopeVars, parent, scope, historyVars>>

-----------------------------------------------------------------------------
(* Completion and join.                                                    *)

\* finish_join: the frame of every recorded child is destroyed (JoinWaitsForAll is
\* what it asserts of them), the first failure leaves the scope as the exception
\* join() throws, and the parent runs on.
FinishJoin ==
  /\ task' = [c \in Children |-> IF task[c] = "cold" THEN "cold" ELSE "destroyed"]
  /\ parent' = "joined"
  /\ rethrown' = first_failure
  /\ first_failure' = Parent

\* The exception kept is the first one; it is stored before siblings are stopped.
FailFirst(c, fails) == IF fails /\ first_failure = Parent THEN c ELSE first_failure

\* child_completed, up to and including the call of request_stop that the first
\* failure makes.  The final awaiter of the child called it.
ChildCompletes(c, fails) ==
  /\ Running(c)
  /\ task' = [task EXCEPT ![c] = "completed"]
  /\ active_children' = active_children - 1
  /\ completion_depth' = completion_depth + 1
  /\ first_failure' = FailFirst(c, fails)
  /\ failures' = IF fails THEN Append(failures, c) ELSE failures
  /\ LET stops == fails /\ first_failure = Parent /\ ~stop_requested
     IN /\ stop_requested' = (stop_requested \/ stops)
        /\ stack' = (IF stops THEN <<Stopping>> ELSE <<>>) \o <<InCompletion(c)>> \o Tail(stack)
  /\ UNCHANGED <<op, awaits, registrations, join_started, join_continuation, parent, scope, rethrown>>

ResumesJoin_NoDepth == active_children = 0 /\ join_continuation
ResumesJoin_NoActive == join_continuation /\ completion_depth = 1

\* The condition at the end of child_completed, after --completion_depth_.
ResumesJoin == active_children = 0 /\ join_continuation /\ completion_depth = 1

\* The end of child_completed and the transfer it returns: to the joining parent
\* or to nothing.
CompletionReturns(c) ==
  /\ Top(InCompletion(c))
  /\ completion_depth' = completion_depth - 1
  /\ IF ResumesJoin
       THEN /\ join_continuation' = FALSE
            /\ FinishJoin
            /\ stack' = <<Run(Parent)>> \o Tail(stack)
       ELSE /\ stack' = Tail(stack)
            /\ UNCHANGED <<join_continuation, task, parent, rethrown, first_failure>>
  /\ UNCHANGED <<op, awaits, registrations, stop_requested, active_children, join_started,
                 scope, failures>>

\* join_awaiter::await_suspend; with no active child await_resume follows at once.
Join ==
  /\ Running(Parent) /\ ~join_started
  /\ join_started' = TRUE
  /\ IF active_children = 0
       THEN /\ FinishJoin
            /\ UNCHANGED <<join_continuation, stack>>
       ELSE /\ join_continuation' = TRUE
            /\ parent' = "joining"
            /\ stack' = Tail(stack)
            /\ UNCHANGED <<task, rethrown, first_failure>>
  /\ UNCHANGED <<op, awaits, registrations, stop_requested, active_children, completion_depth,
                 scope, failures>>

\* The joined parent returns, which destroys the scope it holds by value.
ParentReturns ==
  /\ Running(Parent) /\ parent = "joined" /\ scope
  /\ scope' = FALSE
  /\ stack' = Tail(stack)
  /\ UNCHANGED <<task, op, awaits, scopeVars, parent, historyVars>>

-----------------------------------------------------------------------------

Next ==
  \/ \E t \in Tasks, c \in Children : Spawn(t, c)
  \/ \E c \in Children, kind \in {"inline", "closing", "opaque"} : Await(c, kind)
  \/ \E c \in Children : AwaitFails(c)
  \/ \E kind \in {"inline", "opaque"} : ParentAwaits(kind)
  \/ RequestStop
  \/ \E t \in Tasks : OperationCompletes(t)
  \/ \E c \in Children : CloseTrampoline(c) \/ TimerFires(c)
  \/ StopNext
  \/ StopReturns
  \/ \E c \in Children, fails \in BOOLEAN : ChildCompletes(c, fails)
  \/ \E c \in Children : CompletionReturns(c)
  \/ Join
  \/ ParentReturns

Spec == Init /\ [][Next]_vars

\* Code that runs comes back, and libuv finishes the closes and the requests it
\* accepted.  Nothing says that an inline operation, or one that was neither
\* stopped nor timed out, ever completes.
LoopDriven ==
  WF_vars(\/ StopNext \/ StopReturns
          \/ \E c \in Children :
               \/ CompletionReturns(c)
               \/ \E fails \in BOOLEAN : ChildCompletes(c, fails)
               \/ CloseTrampoline(c)
               \/ op[c] = "opaque" /\ OperationCompletes(c))

FairSpec == Spec /\ LoopDriven

-----------------------------------------------------------------------------
(* Properties.                                                             *)

\* finish_join never destroys a frame that is still on the call stack, neither a
\* child's body nor its child_completed: this is what completion_depth_ is for.  Nor
\* does the parent destroy the scope under a stop that a task requested.
NoFrameDestroyedInUse ==
  /\ TypeOK
  /\ \A c \in Children :
       task[c] = "destroyed" => ~OnStack(Run(c)) /\ ~OnStack(InCompletion(c))
  /\ OnStack(Stopping) /\ stack[Len(stack)] # Stopping => scope

\* join() resumes its parent only when every child it recorded has completed, as
\* finish_join asserts before it destroys their frames, and from then on no child
\* starts, resumes or completes.
JoinWaitsForAll ==
  [][/\ parent # "joined" /\ parent' = "joined" =>
          \A c \in Children : task[c] \in {"cold", "completed"}
     /\ parent = "joined" => task' = task]_vars

\* The exception join() rethrows is the first child's that failed, even when the
\* stop it triggers makes siblings fail inside its own completion.
FirstFailureWins ==
  (IF parent = "joined" THEN rethrown ELSE first_failure) =
    IF failures = <<>> THEN Parent ELSE Head(failures)

\* What join() promises: it ends over completed children only, with the first
\* failure.
JoinOutcome == JoinWaitsForAll /\ []FirstFailureWins

\* Exactly the tasks suspended in a cancellable operation that has not ended are
\* registered, each once: a timeout and a stop cannot both end a sleep, no stop
\* callback is left behind for a frame that resumed, and none is missing.
RegistrationsLive ==
  /\ IsInjective(registrations)
  /\ \A c \in Children :
       c \in Range(registrations) <=>
         task[c] = "suspended" /\ op[c] \in {"inline", "closing"}

\* The loop in request_stop reads head_ after every callback, so the scope that
\* holds the list must survive the callback.
StopLoopOutlived == OnStack(Stopping) => scope

\* After a stop request a joining parent resumes, although inline operations
\* would otherwise never complete.
StopUnblocksJoin == (parent = "joining" /\ stop_requested) ~> (parent = "joined")

=============================================================================
