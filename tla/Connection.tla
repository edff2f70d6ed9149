----------------------------- MODULE Connection -----------------------------
(***************************************************************************)
(* The connected owners of include/uvpp/net: tcp_connection and            *)
(* pipe_connection with the stream operations of detail/stream_io.hpp, and *)
(* udp_socket.  Connecting or binding, one read and one write at a time,   *)
(* the pin a pipe write takes on the connection it exports, the handles a  *)
(* pipe receives, and the asynchronous close.  The family is chosen        *)
(* initially; a udp_socket reads with recv_from and writes with send_to.   *)
(*                                                                         *)
(* As in EventSource the loop thread's call stack is explicit: a stop      *)
(* request resumes a reader inside the call, and a resumed task may use    *)
(* the connection again, close it or destroy its owner.                    *)
(***************************************************************************)
EXTENDS Naturals, AsyncClose, Cancellation

CONSTANTS
  Families,  \* the owners to explore: "tcp", "pipe", "udp"
  Tasks,     \* coroutines that share one cancellation_state
  None,      \* an empty read slot
  MaxAwaits  \* bound: operations each task awaits

ASSUME ConnectionAssumption ==
  Families \subseteq {"tcp", "pipe", "udp"} /\ None \notin Tasks /\ MaxAwaits \in Nat

VARIABLES
  family,          \* the kind of owner
  stack,           \* the loop thread's call stack, top first
  task,            \* "ready" (suspended elsewhere), "running", or its operation
  awaits,          \* operations each task has awaited
  registrations,   \* the cancellation list
  stop_requested,  \* its stop_requested_
  close,           \* async_close_state
  active_read,     \* io.active_read, active_receive: the reading task, or None
  write_active,    \* io.write_active, send_active
  export_active,   \* handle_export_active
  incoming,        \* a received connection that is closed instead of transferred
  forced,          \* did a receive close its pipe
  native,          \* the native handle: "none", "connecting", "open", "closing", "closed"
  reading,         \* is uv_read_start in force
  owner,           \* who holds the state: "nobody", "awaiter", "user", "released"
  connect,         \* "none", "pending", "ok", "failed"
  resuming,        \* close waiters complete() has detached and not resumed
  deletions,       \* times the state was deleted
  terminated       \* std::terminate() was called

taskVars   == <<task, awaits>>
cancelVars == <<registrations, stop_requested>>
ioVars     == <<active_read, write_active, export_active, reading, incoming, forced>>
lifeVars   == <<close, native, owner, connect, resuming, deletions, terminated>>
vars == <<family, stack, taskVars, cancelVars, ioVars, lifeVars>>

Frames == ({"run"} \X Tasks) \cup ({"complete", "stop"} \X {None})

Top(f, x) == ~terminated /\ stack # <<>> /\ Head(stack) = <<f, x>>
OnStack(f, x) == <<f, x>> \in Range(stack)
InPoll == ~terminated /\ stack = <<>>
UserRuns == ~terminated /\ (stack # <<>> => Head(stack)[1] = "run")

TypeOK ==
  /\ stack \in Seq(Frames)
  /\ task \in [Tasks -> {"ready", "running", "connecting", "reading", "receiving", "discarding",
                         "writing", "exporting", "closing"}]
  /\ awaits \in [Tasks -> 0..MaxAwaits]
  /\ registrations \in Seq(Tasks) /\ stop_requested \in BOOLEAN
  /\ close \in CloseStates(Tasks)
  /\ active_read \in Tasks \cup {None}
  /\ {write_active, export_active, reading, incoming, forced, terminated} \subseteq BOOLEAN
  /\ native \in {"none", "connecting", "open", "closing", "closed"}
  /\ owner \in {"nobody", "awaiter", "user", "released"}
  /\ connect \in {"none", "pending", "ok", "failed"}
  /\ resuming \in Seq(Tasks)
  /\ deletions \in 0..2

\* Nothing is connected yet, or a listener accepted the connection.
Init ==
  /\ family \in Families
  /\ stack = <<>>
  /\ task = [t \in Tasks |-> "ready"]
  /\ awaits = [t \in Tasks |-> 0]
  /\ registrations = <<>> /\ stop_requested = FALSE
  /\ close = OpenState
  /\ active_read = None /\ write_active = FALSE /\ export_active = FALSE /\ reading = FALSE
  /\ incoming = FALSE /\ forced = FALSE
  /\ connect = "none" /\ resuming = <<>> /\ deletions = 0 /\ terminated = FALSE
  /\ \/ native = "none" /\ owner = "nobody"
     \/ native = "open" /\ owner = "user" /\ family # "udp"

-----------------------------------------------------------------------------
(* Tasks.                                                                  *)

\* Something else resumes a task, or the task suspends on something else.
Scheduled(t) ==
  /\ InPoll /\ task[t] = "ready"
  /\ task' = [task EXCEPT ![t] = "running"]
  /\ stack' = <<<<"run", t>>>>
  /\ UNCHANGED <<awaits, cancelVars, ioVars, lifeVars>>

Suspends(t) ==
  /\ Top("run", t)
  /\ task' = [task EXCEPT ![t] = "ready"]
  /\ stack' = Tail(stack)
  /\ UNCHANGED <<awaits, cancelVars, ioVars, lifeVars>>

\* Task t awaits something; it is then suspended in an operation, or goes on.
Awaits(t) ==
  /\ Top("run", t) /\ awaits[t] < MaxAwaits
  /\ awaits' = [awaits EXCEPT ![t] = @ + 1]

SuspendsIn(t, operation) ==
  /\ task' = [task EXCEPT ![t] = operation]
  /\ stack' = Tail(stack)

Returns == UNCHANGED <<task, stack>>

Resumes(t) ==
  /\ task' = [task EXCEPT ![t] = "running"]
  /\ stack' = <<<<"run", t>>>> \o stack

-----------------------------------------------------------------------------
(* Connecting.                                                             *)

ConnectFails_ResumeFirst(t) ==
  /\ close' = Begun(OwnerReleased(close))
  /\ native' = "closing" /\ owner' = "released" /\ connect' = "failed"
  /\ UNCHANGED <<resuming, deletions, terminated>>

\* A failed connect, reported at once or later: the awaiter gives up the state,
\* release_owner starts the close, and the task resumes from the close callback.
ConnectFails(t) ==
  /\ close' = WithCallbackWaiter(Begun(OwnerReleased(close)), t)
  /\ native' = "closing" /\ owner' = "released" /\ connect' = "failed"
  /\ UNCHANGED <<resuming, deletions, terminated>>

\* connect_awaiter::await_suspend.  A stop requested earlier or a failing
\* uv_tcp_init, uv_pipe_init ends the call; the state was never known to libuv then.
Connect(t) ==
  /\ Awaits(t) /\ owner = "nobody"
  /\ \/ Returns /\ UNCHANGED lifeVars
     \/ /\ ~stop_requested
        /\ SuspendsIn(t, "connecting")
        /\ owner' = "awaiter" /\ native' = "connecting" /\ connect' = "pending"
        /\ UNCHANGED <<close, resuming, deletions, terminated>>
     \/ /\ ~stop_requested
        /\ SuspendsIn(t, "connecting")
        /\ ConnectFails(t)
  /\ UNCHANGED <<cancelVars, ioVars>>

TcpConnect(t) == family = "tcp" /\ Connect(t)
PipeConnect(t) == family = "pipe" /\ Connect(t)

\* on_connect; on success await_resume moves the state to the connection.
OnConnect(t) ==
  /\ InPoll /\ native = "connecting" /\ task[t] = "connecting"
  /\ \/ /\ Resumes(t)
        /\ owner' = "user" /\ native' = "open" /\ connect' = "ok"
        /\ UNCHANGED <<close, resuming, deletions, terminated>>
     \/ Returns /\ ConnectFails(t)
  /\ UNCHANGED <<awaits, cancelVars, ioVars>>

\* udp_socket::make_state, from user code: a socket that could not be bound is
\* released and closes by itself.  (A failing uv_udp_init leaves no trace.)
Bind ==
  /\ UserRuns /\ owner = "nobody" /\ family = "udp"
  /\ \/ owner' = "user" /\ native' = "open" /\ UNCHANGED close
     \/ owner' = "released" /\ native' = "closing" /\ close' = Begun(OwnerReleased(close))
  /\ UNCHANGED <<stack, taskVars, cancelVars, ioVars, connect, resuming, deletions, terminated>>

-----------------------------------------------------------------------------
(* Reading and writing.                                                    *)

\* The await_suspend the readers share.  The call ends without suspending with
\* UV_EBADF, UV_ECANCELED, UV_EBUSY, UV_EINVAL or what the native start says, and
\* leaves the slot as it was.
AwaitRead(t, operation) ==
  /\ Awaits(t) /\ owner = "user"
  /\ \/ Returns /\ UNCHANGED <<active_read, reading, registrations>>
     \/ /\ ~IsClosing(close) /\ CanRegister(stop_requested) /\ active_read = None
        /\ SuspendsIn(t, operation)
        /\ active_read' = t /\ reading' = TRUE
        /\ registrations' = Registered(registrations, t)
  /\ UNCHANGED <<stop_requested, write_active, export_active, incoming, forced, lifeVars>>

\* stream_read_awaiter, recv_from_awaiter and receive_handle_awaiter.
ReadSome(t) == family # "udp" /\ AwaitRead(t, "reading")
RecvFrom(t) == family = "udp" /\ AwaitRead(t, "reading")
ReceiveHandle(t) == family = "pipe" /\ AwaitRead(t, "receiving")

\* stop_native_or_terminate and release_slots, before the reader resumes.
ReleaseSlots ==
  /\ reading' = FALSE
  /\ registrations' = Unregistered(registrations, active_read)
  /\ active_read' = None

\* The reader is called and resumes its task; nread = 0 changes nothing.
ReadEnds ==
  /\ InPoll /\ reading /\ native = "open"
  /\ ReleaseSlots
  /\ Resumes(active_read)
  /\ UNCHANGED <<awaits, stop_requested, write_active, export_active, incoming, forced, lifeVars>>

\* on_read with data, end of file or an error, and on_receive with a datagram.
OnRead == family # "udp" /\ active_read # None /\ task[active_read] = "reading" /\ ReadEnds
OnReceive == family = "udp" /\ ReadEnds

\* receive_handle_awaiter::on_read: handles were adopted, the buffer is full or the
\* stream ended.
HandlesReceived == active_read # None /\ task[active_read] = "receiving" /\ ReadEnds

\* close_pipe_after_protocol_failure: a write in flight does not prevent it.
ForceClose ==
  /\ forced' = TRUE
  /\ close' = Begun(close)
  /\ native' = "closing"
  /\ UNCHANGED <<owner, connect, resuming, deletions, terminated>>

\* close_untransferred_connection: the receiver resumes from the close callback of
\* the connection it could not accept.
DiscardIncoming(t) ==
  /\ task' = [task EXCEPT ![t] = "discarding"]
  /\ UNCHANGED stack

\* receive_handle_awaiter::on_read when adopt_pending_tcp fails: the pending count,
\* the type of handle, an allocation or uv_tcp_init ("unusable"), or uv_accept after
\* the incoming connection was initialized.
ReceiveFails(unusable) ==
  /\ InPoll /\ reading /\ native = "open" /\ task[active_read] = "receiving"
  /\ ReleaseSlots
  /\ ForceClose
  /\ incoming' = ~unusable
  /\ IF unusable THEN Resumes(active_read) ELSE DiscardIncoming(active_read)
  /\ UNCHANGED <<awaits, stop_requested, write_active, export_active>>

\* The close callback of that connection.
IncomingClosed(t) ==
  /\ InPoll /\ incoming /\ task[t] = "discarding"
  /\ incoming' = FALSE
  /\ Resumes(t)
  /\ UNCHANGED <<awaits, cancelVars, active_read, write_active, export_active, reading, forced, lifeVars>>

CanWrite_Overlapping == ~IsClosing(close) /\ ~stop_requested
CanWrite == ~IsClosing(close) /\ ~stop_requested /\ ~write_active

\* The await_suspend the writers share, and the rollback if uv_write, uv_write2 or
\* uv_udp_send fails.
AwaitWrite(t) ==
  /\ Awaits(t) /\ owner = "user"
  /\ \/ Returns /\ UNCHANGED write_active
     \/ CanWrite /\ SuspendsIn(t, "writing") /\ write_active' = TRUE
  /\ UNCHANGED <<cancelVars, active_read, export_active, reading, incoming, forced, lifeVars>>

Write(t) == family # "udp" /\ AwaitWrite(t)
SendTo(t) == family = "udp" /\ AwaitWrite(t)

\* The slot is free before the writer resumes.  A close that could not wait for
\* the write cancels it first.
WriteEnds(t) ==
  /\ InPoll /\ task[t] = "writing"
  /\ write_active' = FALSE
  /\ Resumes(t)
  /\ UNCHANGED <<awaits, cancelVars, active_read, export_active, reading, incoming, forced, lifeVars>>

OnWrite(t) == family # "udp" /\ WriteEnds(t)
OnSend(t) == family = "udp" /\ WriteEnds(t)

\* acquire_handle_export, after the stop test of the pipe's write.
CanExport == ~stop_requested /\ ~IsClosing(close) /\ ~export_active

\* pipe_connection::write_with_handle of this connection: the pin is taken, and
\* given back if uv_write2 fails or when the pipe's write completes.
AwaitExport(t) ==
  /\ Awaits(t) /\ owner = "user" /\ family = "tcp"
  /\ \/ Returns /\ UNCHANGED export_active
     \/ CanExport /\ SuspendsIn(t, "exporting") /\ export_active' = TRUE
  /\ UNCHANGED <<cancelVars, active_read, write_active, reading, incoming, forced, lifeVars>>

ExportReturns(t) ==
  /\ InPoll /\ task[t] = "exporting"
  /\ export_active' = FALSE
  /\ Resumes(t)
  /\ UNCHANGED <<awaits, cancelVars, active_read, write_active, reading, incoming, forced, lifeVars>>

-----------------------------------------------------------------------------
(* Close.                                                                  *)

HasActiveOperation_IgnoresExport == write_active \/ active_read # None
HasActiveOperation == write_active \/ active_read # None \/ export_active

\* request_close: UV_EBUSY with an operation active, nothing when it is closing.
RequestClose ==
  /\ UserRuns /\ owner = "user" /\ IsOpen(close) /\ ~HasActiveOperation
  /\ close' = Begun(close) /\ native' = "closing"
  /\ UNCHANGED <<stack, taskVars, cancelVars, ioVars, owner, connect, resuming, deletions,
                 terminated>>

\* owner_close_awaiter::await_suspend: it does not suspend on a closed connection
\* or, with UV_EBUSY, on one with an active operation.
AwaitClose(t) ==
  /\ Awaits(t) /\ owner = "user"
  /\ \/ (IsClosed(close) \/ HasActiveOperation) /\ Returns /\ UNCHANGED <<close, native>>
     \/ /\ ~IsClosed(close) /\ ~HasActiveOperation
        /\ SuspendsIn(t, "closing")
        /\ close' = Begun(WithWaiter(close, t))
        /\ native' = "closing"
  /\ UNCHANGED <<cancelVars, ioVars, owner, connect, resuming, deletions, terminated>>

\* reset: the program ends if an operation still borrows the state; otherwise
\* release_owner.
Reset ==
  /\ UserRuns /\ owner = "user"
  /\ IF HasActiveOperation
       THEN terminated' = TRUE /\ UNCHANGED <<close, native, owner, deletions>>
       ELSE /\ owner' = "released"
            /\ LET released == OwnerReleased(close)
               IN IF IsOpen(close)
                    THEN close' = Begun(released) /\ native' = "closing" /\ UNCHANGED deletions
                    ELSE /\ close' = released
                         /\ deletions' = deletions + (IF CanDestroyNow(released) THEN 1 ELSE 0)
                         /\ UNCHANGED native
            /\ UNCHANGED terminated
  /\ UNCHANGED <<stack, taskVars, cancelVars, ioVars, connect, resuming>>

DestroyTcp == family = "tcp" /\ Reset
DestroyPipe == family = "pipe" /\ Reset
DestroyUdp == family = "udp" /\ Reset

\* on_close and complete.  libuv completes the writes of a handle before its close
\* callback.
OnClose ==
  /\ InPoll /\ native = "closing" /\ ~write_active
  /\ native' = "closed"
  /\ close' = Completing(close)
  /\ resuming' = DetachedWaiters(close)
  /\ stack' = <<<<"complete", None>>>>
  /\ UNCHANGED <<taskVars, cancelVars, ioVars, owner, connect, deletions, terminated>>

CompleteNext ==
  /\ Top("complete", None) /\ resuming # <<>>
  /\ Resumes(Head(resuming))
  /\ resuming' = Tail(resuming)
  /\ UNCHANGED <<awaits, cancelVars, ioVars, close, native, owner, connect, deletions, terminated>>

CompleteReturns ==
  /\ Top("complete", None) /\ resuming = <<>>
  /\ close' = Completed(close)
  /\ deletions' = deletions + (IF DeletesState(close) THEN 1 ELSE 0)
  /\ stack' = Tail(stack)
  /\ UNCHANGED <<taskVars, cancelVars, ioVars, native, owner, connect, resuming, terminated>>

-----------------------------------------------------------------------------
(* Cooperative stop: only reads are registered.                            *)

RequestStop ==
  /\ UserRuns /\ ~stop_requested
  /\ stop_requested' = TRUE
  /\ stack' = <<<<"stop", None>>>> \o stack
  /\ UNCHANGED <<taskVars, registrations, ioVars, lifeVars>>

\* One turn of request_stop's loop: on_stop_requested ends the active read with
\* UV_ECANCELED, and does nothing for a read that is not the active one.
StopReading ==
  /\ Top("stop", None) /\ registrations # <<>>
  /\ IF HeadRegistration(registrations) = active_read
       THEN ReleaseSlots /\ Resumes(active_read)
       ELSE /\ registrations' = AfterHead(registrations)
            /\ UNCHANGED <<active_read, reading, task, stack>>
  /\ UNCHANGED <<awaits, stop_requested, write_active, export_active, incoming, forced, lifeVars>>

StopRead == family # "udp" /\ StopReading
StopRecvFrom == family = "udp" /\ StopReading

StopReturns ==
  /\ Top("stop", None) /\ registrations = <<>>
  /\ stack' = Tail(stack)
  /\ UNCHANGED <<taskVars, cancelVars, ioVars, lifeVars>>

-----------------------------------------------------------------------------

Next ==
  \/ \E t \in Tasks :
       \/ Scheduled(t) \/ Suspends(t)
       \/ TcpConnect(t) \/ PipeConnect(t) \/ OnConnect(t)
       \/ ReadSome(t) \/ RecvFrom(t) \/ ReceiveHandle(t) \/ IncomingClosed(t)
       \/ Write(t) \/ SendTo(t) \/ OnWrite(t) \/ OnSend(t)
       \/ AwaitExport(t) \/ ExportReturns(t)
       \/ AwaitClose(t)
  \/ OnRead \/ OnReceive \/ HandlesReceived \/ \E unusable \in BOOLEAN : ReceiveFails(unusable)
  \/ Bind \/ RequestClose \/ DestroyTcp \/ DestroyPipe \/ DestroyUdp
  \/ OnClose \/ CompleteNext \/ CompleteReturns
  \/ RequestStop \/ StopRead \/ StopRecvFrom \/ StopReturns

Fixed == UNCHANGED family

NativeAnswers ==
  \/ OnClose
  \/ \E t \in Tasks : OnConnect(t) \/ OnWrite(t) \/ OnSend(t) \/ ExportReturns(t) \/ IncomingClosed(t)

Spec == Init /\ [][Next /\ Fixed]_vars

\* Code that runs comes back.  Every iteration of the loop runs callbacks that
\* are due, whatever else it runs: closes end, and requests that libuv accepted
\* (connect, write) complete or fail.  Nothing says that data arrives.
LoopDriven ==
  /\ WF_vars(Fixed /\ \E t \in Tasks : Suspends(t))
  /\ SF_vars(Fixed /\ NativeAnswers)
  /\ WF_vars(Fixed /\ (\/ CompleteNext \/ CompleteReturns
                      \/ StopRead \/ StopRecvFrom \/ StopReturns))

FairSpec == Spec /\ LoopDriven

-----------------------------------------------------------------------------
(* Properties.                                                             *)

\* A close never begins under an operation, and no operation begins under a
\* close: nothing that libuv would leave unanswered is ever suspended on a
\* closing handle, and no exported handle is closed before uv_write2 completes.
\* Only the close a failed receive forces may find a write, which libuv cancels.
NoOperationWhileClosing ==
  IsClosing(close) =>
    \A t \in Tasks :
      /\ task[t] \notin {"reading", "receiving", "exporting"}
      /\ task[t] = "writing" => forced /\ native = "closing"

\* A flag that says whether some task is in the operation; at most one is.
Occupied(flag, operation) ==
  /\ flag <=> \E t \in Tasks : task[t] = operation
  /\ \A t, u \in Tasks : task[t] = operation /\ task[u] = operation => t = u

\* Each slot holds exactly the operation that is suspended in it: one reader or
\* receiver, which is also the one registered for a stop, one writer, one export.
SlotsAccounted ==
  /\ TypeOK
  /\ \A t \in Tasks : task[t] \in {"reading", "receiving"} <=> active_read = t
  /\ reading <=> active_read # None
  /\ registrations = IF active_read = None THEN <<>> ELSE <<active_read>>
  /\ Occupied(write_active, "writing") /\ Occupied(export_active, "exporting")

\* A task learns that its connect failed, or that a received connection could not
\* be accepted, only after the native handle made for it closed, and is never
\* forgotten: it waits for that close.
FailureIsClosedFirst ==
  /\ connect = "failed" /\ native # "closed" =>
       \E t \in Tasks : task[t] = "connecting" /\ close.callback_waiter = <<t>>
  /\ incoming <=> \E t \in Tasks : task[t] = "discarding"

\* The state is deleted once, after the native close, and nothing that runs or
\* waits needs it then.
NoUseAfterDelete ==
  deletions > 0 =>
    /\ deletions = 1
    /\ native = "closed" /\ owner = "released" /\ ~OnStack("complete", None)
    /\ \A t \in Tasks : task[t] \in {"ready", "running", "discarding"}

\* Whoever awaits connect, write or close, or a failed receive, resumes, and
\* destroying the owner, at any time, ends in the deletion of the state.
OperationsEnd ==
  /\ \A t \in Tasks :
       (task[t] \in {"connecting", "discarding", "writing", "exporting", "closing"})
         ~> (task[t] = "running" \/ terminated)
  /\ (owner = "released") ~> (deletions = 1 \/ terminated)

=============================================================================
