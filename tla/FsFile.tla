------------------------------- MODULE FsFile -------------------------------
(***************************************************************************)
(* Coroutine operations that libuv runs on its thread pool: uv::fs::open,  *)
(* read, write and close on one uv::fs::file                               *)
(* (include/uvpp/fs/coroutines.hpp) and uv::resolve                        *)
(* (include/uvpp/net/dns.hpp).  Every operation keeps its native request   *)
(* in the frame of the coroutine that awaits it; a worker thread performs  *)
(* it, and the loop thread completes it.  A stop request only asks libuv   *)
(* to cancel: whichever of the two wins, the frame waits for the           *)
(* completion.                                                             *)
(*                                                                         *)
(* The loop thread's call stack is explicit as in EventSource.  A call     *)
(* that the code answers with std::terminate() has no successor.           *)
(***************************************************************************)
EXTENDS Naturals, Cancellation

CONSTANTS
  Tasks,  \* coroutines that share one cancellation_state
  None    \* no task

ASSUME FsFileAssumption == None \notin Tasks

VARIABLES
  stack,           \* the loop thread's call stack, top first
  task,            \* "ready" (suspended elsewhere), "running", or its operation
  registrations,   \* the cancellation list
  stop_requested,  \* its stop_requested_
  request,         \* the native request in each task's frame, see RequestStates
  file,            \* file_state: descriptor, the operation flags and the close result
  close_waiters,   \* the list of suspended close awaiters, last added first
  resuming,        \* close waiters that on_complete has detached and not resumed
  owner,           \* who holds the uv::fs::file: "nobody", "user", "scope", "released"
  fd               \* the descriptor in the kernel: "none", "open", "closed"

cancelVars == <<registrations, stop_requested>>
fileVars   == <<file, close_waiters, resuming, owner>>
FileVars == <<stack, task, cancelVars, request, fileVars, fd>>

FileStates ==
  [descriptor : BOOLEAN, read_active : BOOLEAN, write_active : BOOLEAN,
   close_active : BOOLEAN, close_complete : BOOLEAN, close_status : {"ok", "error"}]

\* With the pool, or answered and waiting for the loop.
RequestStates == {"none", "pending", "ok", "error"}
Answered == {"ok", "error"}

Top(f, x) == stack # <<>> /\ Head(stack) = <<f, x>>
InPoll == stack = <<>>
UserRuns == stack # <<>> => Head(stack)[1] = "run"

FileInit ==
  /\ stack = <<>>
  /\ task = [t \in Tasks |-> "ready"]
  /\ registrations = <<>> /\ stop_requested = FALSE
  /\ request = [t \in Tasks |-> "none"]
  /\ file = [descriptor |-> FALSE, read_active |-> FALSE, write_active |-> FALSE,
             close_active |-> FALSE, close_complete |-> FALSE, close_status |-> "ok"]
  /\ close_waiters = <<>> /\ resuming = <<>>
  /\ owner = "nobody" /\ fd = "none"

Open == file.descriptor /\ ~file.close_active /\ ~file.close_complete
HasActiveOperation == file.read_active \/ file.write_active \/ file.close_active

-----------------------------------------------------------------------------
(* Tasks.                                                                  *)

\* Something else resumes a task, or the task suspends on something else.
Scheduled(t) ==
  /\ InPoll /\ task[t] = "ready"
  /\ task' = [task EXCEPT ![t] = "running"]
  /\ stack' = <<<<"run", t>>>>
  /\ UNCHANGED <<cancelVars, request, fileVars, fd>>

Suspends(t) ==
  /\ Top("run", t)
  /\ task' = [task EXCEPT ![t] = "ready"]
  /\ stack' = Tail(stack)
  /\ UNCHANGED <<cancelVars, request, fileVars, fd>>

\* Task t awaits something: it is suspended in an operation, or goes on.
SuspendsIn(t, operation) ==
  /\ task' = [task EXCEPT ![t] = operation]
  /\ stack' = Tail(stack)

Returns == UNCHANGED <<task, stack>>

Resumes(t) ==
  /\ task' = [task EXCEPT ![t] = "running"]
  /\ stack' = <<<<"run", t>>>> \o stack

\* The common end of await_suspend: libuv has the request, then the stop
\* callback is registered.  Nothing can request the stop between the two.
Submits(t, operation) ==
  /\ ~stop_requested
  /\ SuspendsIn(t, operation)
  /\ request' = [request EXCEPT ![t] = "pending"]
  /\ registrations' = Registered(registrations, t)

\* await_suspend returns false: an error, a stop requested earlier, an empty
\* buffer, or a refused submission whose flags were rolled back.
Immediate == Returns /\ UNCHANGED <<request, registrations>>

-----------------------------------------------------------------------------
(* The operations.                                                         *)

\* detail_open_awaiter::await_suspend; one file per behaviour.
AwaitOpen(t) ==
  /\ Top("run", t) /\ owner = "nobody" /\ \A u \in Tasks : task[u] # "opening"
  /\ Immediate \/ Submits(t, "opening")
  /\ UNCHANGED <<stop_requested, fileVars, fd>>

\* resolve_awaiter::await_suspend.
AwaitResolve(t) ==
  /\ Top("run", t)
  /\ Immediate \/ Submits(t, "resolving")
  /\ UNCHANGED <<stop_requested, fileVars, fd>>

\* A file, or a view of one that resource_scope owns.
Reachable == owner \in {"user", "scope"}

\* detail_read_awaiter::await_suspend: UV_EBADF, UV_ECANCELED, UV_EBUSY, or one
\* read on an open descriptor.
AwaitRead(t) ==
  /\ Top("run", t) /\ Reachable
  /\ \/ Immediate /\ UNCHANGED file
     \/ /\ Open /\ ~file.read_active
        /\ Submits(t, "reading")
        /\ file' = [file EXCEPT !.read_active = TRUE]
  /\ UNCHANGED <<stop_requested, close_waiters, resuming, owner, fd>>

\* detail_write_awaiter::await_suspend.
AwaitWrite(t) ==
  /\ Top("run", t) /\ Reachable
  /\ \/ Immediate /\ UNCHANGED file
     \/ /\ Open /\ ~file.write_active
        /\ Submits(t, "writing")
        /\ file' = [file EXCEPT !.write_active = TRUE]
  /\ UNCHANGED <<stop_requested, close_waiters, resuming, owner, fd>>

\* complete: the request is cleaned up and the flags are cleared before the
\* coroutine resumes.
Complete(t, operation) ==
  /\ InPoll /\ task[t] = operation /\ request[t] \in Answered
  /\ registrations' = Unregistered(registrations, t)
  /\ request' = [request EXCEPT ![t] = "none"]
  /\ Resumes(t)
  /\ UNCHANGED <<stop_requested, close_waiters, resuming, fd>>

\* An open that succeeds delivers its descriptor although a stop was requested
\* meanwhile.
OpenCompletes(t) ==
  /\ Complete(t, "opening")
  /\ file' = [file EXCEPT !.descriptor = (request[t] = "ok")]
  /\ owner' = IF request[t] = "ok" THEN "user" ELSE owner

ReadCompletes(t) ==
  /\ Complete(t, "reading")
  /\ file' = [file EXCEPT !.read_active = FALSE]
  /\ UNCHANGED owner

WriteCompletes(t) ==
  /\ Complete(t, "writing")
  /\ file' = [file EXCEPT !.write_active = FALSE]
  /\ UNCHANGED owner

ResolveCompletes(t) == Complete(t, "resolving") /\ UNCHANGED <<file, owner>>

Completes(t) == OpenCompletes(t) \/ ReadCompletes(t) \/ WriteCompletes(t) \/ ResolveCompletes(t)

-----------------------------------------------------------------------------
(* Close.                                                                  *)

\* The results of detail_close_awaiter::await_suspend that suspend nobody:
\* closed already, UV_EBADF, UV_EBUSY.
CloseAnswersNow ==
  file.close_complete \/ (~file.close_active /\ (~Open \/ HasActiveOperation))

CanStartClose_IgnoresWrite == Open /\ ~file.read_active
CanStartClose == Open /\ ~file.read_active /\ ~file.write_active

\* await_suspend suspends: the first awaiter submits uv_fs_close, the others join
\* its waiters.
CloseSuspends_NotJoined(t) ==
  /\ SuspendsIn(t, "closing")
  /\ \/ /\ file.close_active
        /\ UNCHANGED <<file, request, close_waiters>>
     \/ /\ CanStartClose
        /\ close_waiters' = <<t>> \o close_waiters
        /\ file' = [file EXCEPT !.close_active = TRUE]
        /\ request' = [request EXCEPT ![t] = "pending"]

CloseSuspends(t) ==
  /\ SuspendsIn(t, "closing")
  /\ close_waiters' = <<t>> \o close_waiters
  /\ \/ /\ file.close_active
        /\ UNCHANGED <<file, request>>
     \/ /\ CanStartClose
        /\ file' = [file EXCEPT !.close_active = TRUE]
        /\ request' = [request EXCEPT ![t] = "pending"]

\* What is left after uv_fs_close refused the request.
WaitersAfterRefusal(t) == <<>>

CloseRefused(t) ==
  /\ CanStartClose
  /\ Returns
  /\ close_waiters' = WaitersAfterRefusal(t)
  /\ UNCHANGED <<file, request>>

AwaitClose(t) ==
  /\ Top("run", t) /\ owner = "user"
  /\ \/ CloseAnswersNow /\ Returns /\ UNCHANGED <<file, close_waiters, request>>
     \/ CloseSuspends(t)
     \/ CloseRefused(t)
  /\ UNCHANGED <<cancelVars, resuming, owner, fd>>

\* detail_close_awaiter::on_complete: the state is settled and the list detached
\* before anybody resumes.
OnCloseComplete(t) ==
  /\ InPoll /\ task[t] = "closing" /\ request[t] \in Answered
  /\ request' = [request EXCEPT ![t] = "none"]
  /\ file' = [file EXCEPT !.descriptor = FALSE, !.close_active = FALSE, !.close_complete = TRUE,
                          !.close_status = IF request[t] = "ok" THEN "ok" ELSE "error"]
  /\ resuming' = close_waiters /\ close_waiters' = <<>>
  /\ stack' = <<<<"complete", None>>>>
  /\ UNCHANGED <<task, cancelVars, owner, fd>>

\* One turn of its loop; the next link was read before the resumption.
CompleteNext ==
  /\ Top("complete", None) /\ resuming # <<>>
  /\ Resumes(Head(resuming))
  /\ resuming' = Tail(resuming)
  /\ UNCHANGED <<cancelVars, request, file, close_waiters, owner, fd>>

CompleteReturns ==
  /\ Top("complete", None) /\ resuming = <<>>
  /\ stack' = Tail(stack)
  /\ UNCHANGED <<task, cancelVars, request, fileVars, fd>>

\* file::reset: a file must be closed, or closing, when its owner goes.
DestroyOwner ==
  /\ UserRuns /\ owner = "user"
  /\ ~file.read_active /\ ~file.write_active /\ ~Open
  /\ owner' = "released"
  /\ UNCHANGED <<stack, task, cancelVars, request, file, close_waiters, resuming, fd>>

-----------------------------------------------------------------------------
(* Cooperative stop.                                                       *)

RequestStop ==
  /\ UserRuns /\ ~stop_requested
  /\ stop_requested' = TRUE
  /\ stack' = <<<<"stop", None>>>> \o stack
  /\ UNCHANGED <<task, registrations, request, fileVars, fd>>

\* request_native_cancellation: uv_cancel takes back a request that no worker has
\* begun and refuses the others; nobody resumes here.
StopNext_Resumes ==
  /\ Top("stop", None) /\ registrations # <<>>
  /\ registrations' = AfterHead(registrations)
  /\ Resumes(HeadRegistration(registrations))
  /\ UNCHANGED <<stop_requested, request, fileVars, fd>>

StopNext ==
  /\ Top("stop", None) /\ registrations # <<>>
  /\ registrations' = AfterHead(registrations)
  /\ LET t == HeadRegistration(registrations)
     IN \/ UNCHANGED request
        \/ request[t] = "pending" /\ request' = [request EXCEPT ![t] = "error"]
  /\ UNCHANGED <<stack, task, stop_requested, fileVars, fd>>

StopReturns ==
  /\ Top("stop", None) /\ registrations = <<>>
  /\ stack' = Tail(stack)
  /\ UNCHANGED <<task, cancelVars, request, fileVars, fd>>

-----------------------------------------------------------------------------
(* The thread pool, at any time.                                           *)

\* What an open or a close answers is told apart; a close gives the descriptor up
\* whatever it answers.
PoolAnswers(t, answer) ==
  /\ request[t] = "pending"
  /\ answer = "error" => task[t] \in {"opening", "closing"}
  /\ request' = [request EXCEPT ![t] = answer]
  /\ fd' = IF task[t] = "opening" /\ answer = "ok" THEN "open"
           ELSE IF task[t] = "closing" THEN "closed" ELSE fd
  /\ UNCHANGED <<stack, task, cancelVars, fileVars>>

-----------------------------------------------------------------------------

TaskActs(t) ==
  \/ Suspends(t)
  \/ AwaitOpen(t) \/ AwaitResolve(t) \/ AwaitRead(t) \/ AwaitWrite(t) \/ AwaitClose(t)

UserActs == DestroyOwner \/ RequestStop

LoopActs ==
  \/ \E t \in Tasks : Scheduled(t) \/ Completes(t) \/ OnCloseComplete(t)
  \/ CompleteNext \/ CompleteReturns \/ StopNext \/ StopReturns

PoolActs == \E t \in Tasks, answer \in Answered : PoolAnswers(t, answer)

-----------------------------------------------------------------------------
(* Properties.                                                             *)

\* The descriptor is closed once, and no worker ever reads, writes or closes one
\* that is not open: a close starts when no read or write is in flight, and none
\* starts under a close.  An open descriptor has an owner, or the opener is about
\* to become it: an open that completes after the stop request is delivered.
DescriptorUsedWhileOpen ==
  /\ \A t \in Tasks : request[t] = "pending"
                        /\ task[t] \in {"reading", "writing", "closing"} => fd = "open"
  /\ \A t, u \in Tasks :
       request[t] # "none" /\ request[u] # "none" /\ task[t] = "closing" /\ t # u
         => task[u] \in {"opening", "resolving"}
  /\ fd = "open" => \/ owner \in {"user", "scope"}
                    \/ (owner = "released" /\ file.close_active)
                    \/ \E t \in Tasks : task[t] = "opening" /\ request[t] = "ok"

\* A request that libuv still has lies in the frame of a suspended coroutine, and
\* every coroutine suspended on the pool has one: a stop request, a lost uv_cancel
\* or a refused submission neither frees the frame nor forgets it.  Those that wait
\* for a close are on its list or in the walk that resumes them, each once.
RequestInSuspendedFrame ==
  /\ \A t \in Tasks :
       /\ request[t] # "none" =>
            task[t] \in {"opening", "resolving", "reading", "writing", "closing"}
       /\ task[t] \in {"opening", "resolving", "reading", "writing"} => request[t] # "none"
       /\ t \in Range(registrations) => request[t] # "none"
       /\ (task[t] = "closing") <=> t \in Range(close_waiters \o resuming)
  /\ IsInjective(close_waiters \o resuming)
  /\ close_waiters # <<>> =>
       \E t \in Tasks : \A u \in Tasks : (task[u] = "closing" /\ request[u] # "none") <=> u = t

=============================================================================
