# A TLA+ model of uvpp

uvpp is a header-only C++20 binding over libuv. Its raw layer wraps libuv
handles and requests; its high-level layer adds owners (connections, listeners,
event sources, files), coroutine tasks with cooperative cancellation, and a
queue through which other threads hand work to a loop. Nearly everything runs
on one loop thread. What makes it hard is that the thread is re-entrant: closing,
stopping or completing something resumes a coroutine *inside* the call, and that
coroutine may use, close or destroy the very object whose member function is
still running below it on the stack.

This directory models that code, checks it with TLC on small instances and
proves with TLAPS, for every instance, the safety properties of the posting
queue (its refinement of an abstract queue included), of task scopes, spawned
tasks, event sources, connections and sockets, listeners and of the raw layer.
Files and resource scopes are model-checked only.

Run from this directory:

    tlc -workers 2 -config LoopPosting.cfg LoopPosting
    tlapm Listener_proofs.tla

`PROJECT.json` lists the runs, the mutated definition each property is known to
reject, the source lines each definition stands for, the hazards, the findings
and the theorems.

## The system and its parts

Paths are relative to `include/uvpp/`.

| Part | Source | State | Operations | What must hold |
|---|---|---|---|---|
| posting | `loop_posting.hpp` | phase, queue, active batch, async handle, waiters, failure handler | post, drain, request_close, close, set_failure_handler, destroy | accepted work runs once, in order, before the close; no wake-up lost |
| cancellation | `co/cancellation.hpp` | intrusive list, stop flag | register, unregister, request_stop | a stop reaches everyone; the list outlives the walk |
| task scope | `co/task_scope.hpp` | active children, completion depth, first failure, join continuation | spawn, join, request_stop, child completion, destroy | frames outlive the calls on them; join neither early nor forgotten |
| spawn handle | `co/task.hpp` | shared state, references, joiners, failure flags | spawn, join, observe, request_stop, release, completion | one destination per failure; state lives exactly as long as needed |
| loop, handler slot | `core/loop.hpp`, `core/callback.hpp` | handler, generation | set, report, invoke | replacement inside the handler survives it |
| close protocol | `detail/async_close_state.hpp`, `detail/owner_close.hpp` | phase, waiters, callback waiter, owner flag | begin, add_waiter, complete, owner_released | deleted once, after the last use; every waiter resumes |
| event sources, process | `signal_source.hpp`, `poll_source.hpp`, `fs_event_source.hpp`, `handles/process.hpp`, `detail/one_shot_callback_slot.hpp` | consumer slot, pending event, native watcher | next or wait, notification or exit, close, stop, destroy | nothing unseen is lost or invented; one consumer |
| connections, UDP socket | `net/tcp_connection.hpp`, `net/pipe_connection.hpp`, `net/udp_socket.hpp`, `detail/stream_io.hpp` | read, write and export slots, connect, received handles, close | connect, bind, read, write, send and receive of handles and datagrams, export, close, stop, destroy | close and I/O exclude each other; what failed is closed first |
| listeners | `net/tcp_listener.hpp`, `net/pipe_listener.hpp`, `detail/accept_slot.hpp` | accept slot, provisional children, close | accept, notification, close, stop, destroy | every provisional child is handed over or closed |
| files, DNS | `fs/coroutines.hpp`, `net/dns.hpp` | shared descriptor state, one request per frame | open, read, write, close, resolve, stop | descriptor closed once, not while in use; a cancel racing a completion |
| resource scope | `co/resource_scope.hpp` | records, cleanup state | own, borrow, finish, destroy | two-phase cleanup that can be interrupted and resumed |
| raw handles | `handles/*`, `detail/raw_watcher.hpp`, `core/callback.hpp` | callable, subscription, buffer loans | init, start, replace, stop, close, delivery, spawn | a delivery reaches the current subscription; loans are paired |
| raw requests, filesystem | `requests/*`, `detail/stream_request.hpp`, `fs/operations.hpp`, `fs/dir.hpp` | callables, pending flag, native result | submit, cancel, execute, complete, clean up, destroy | one completion per submission, with live memory |
| threads | `threading/primitives.hpp` | the callable's heap state | start, join, detach | freed once |
| the rest | `misc/`, `core/`, `net/address.hpp`, ... | none that changes | conversions and direct calls | |

How they interact: every coroutine operation registers with the cancellation
list of its scope or root; every owner embeds the close protocol; a scope's
child failure stops its siblings through the list; a root's unobserved failure
goes to the loop's handler slot; a pipe write can pin a connection it exports; a
resource scope closes listeners, connections and files that tasks may still use.

## Modules

| Module | Models | Notes |
|---|---|---|
| `PostingQueue` | what the posting facility promises: a bounded FIFO that is sealed, closes when empty and wakes its waiters | abstract specification |
| `LoopPosting` | `loop_posting_state`, `loop_posting`, its endpoints | producer threads against the loop thread |
| `Cancellation` | the registration list as operators | used by the coroutine and owner modules |
| `TaskScope` | scope, children, parent | |
| `SpawnHandle` | roots, handles, joiners, failure routing | |
| `AsyncClose` | `async_close_state` as operators on a record | used by the owner modules |
| `EventSource` | three event sources and `uv::process` | `family` is chosen in `Init` |
| `Connection` | `tcp_connection`, `pipe_connection`, `udp_socket` | `family` is chosen in `Init` |
| `Listener` | `tcp_listener`, `pipe_listener` | the two run one protocol |
| `FsFile` | coroutine file operations and `resolve` against the thread pool | |
| `ResourceScope` | the scope, composed with the file of `FsFile` | other owners are reduced to what the scope sees |
| `CallbackSlot` | `persistent_callback_slot` as operators on a record | |
| `RawHandle` | raw watchers, streams, UDP and processes | `kind` is chosen in `Init` |
| `FsOperations` | the raw and owned filesystem operations, as tables of what they return | |
| `RawRequest` | five families of request against the thread pool | |
| `Thread` | `uv::thread` | |
| `RawApi` | one object of the raw layer: a handle, a request or a thread | the raw objects share no state, so a behaviour is of one of them |
| `LoopPosting_proofs` | theorems about `LoopPosting`, its refinement of `PostingQueue` included | |
| `TaskScope_proofs` | theorems about `TaskScope` | |
| `SpawnHandle_proofs` | theorems about `SpawnHandle` | |
| `EventSource_proofs` | theorems about `EventSource` | |
| `Connection_proofs` | theorems about `Connection` | |
| `Listener_proofs` | theorems about `Listener` | |
| `RawApi_proofs` | theorems about `RawHandle`, `RawRequest` and `Thread`, composed in `RawApi` | |
| `StackLemmas` | facts about call stacks, lists without repetition and close records | used by the coroutine and owner proofs |

### How code becomes actions

*Threads.* The posting queue, the thread pool and `uv::thread` are touched by
several threads. What the posting code does under `mutex_` is one step;
everything outside the lock (invoking a callable, running the failure handler,
destroying captures, resuming a waiter) is a step of its own between which other
threads run. A request is queued, taken, executed and completed in separate
steps, so a worker may start before the submitting call has returned and a
cancel may lose against it.

*Re-entrancy.* In the other modules the variable `stack` is the loop thread's
call stack, top first. Only the top acts. A member function that calls user code
(resumes a coroutine, runs a handler) pushes a frame and continues in a later
step, `...Returns` or `...Next`, after whatever the user code did. The empty
stack is libuv's poll phase or a callback that has nothing to do with the
object. In `RawHandle` and `RawRequest` at most one callback of the object runs
(libuv does not re-enter its loop), so one record replaces the stack. User code
is modelled by letting it call every public operation it can reach, in any
order, up to the named bounds. Operations whose precondition the code asserts
or the documentation states (an allocator must not stop or close the stream that
asked it, `MayQuiesce`) are taken only where it holds; where the code calls
`std::terminate` the variable `terminated` records it, or the step has no
successor.

*libuv* is external. `uv_async_send` sets a mark and calls coalesce; a marked
handle gets its callback; `uv_close` gets its close callback in a later
iteration; an accepted request gets its completion once. A call that can fail
fails nondeterministically where the code handles the failure.

*Data.* Payloads, addresses, signal numbers and file contents are left out.
`EventSource` keeps a status, a set of flags and a file name of each
notification, because coalescing them is what the property is about. Callables
of the raw layer are told apart by the number of their subscription or
submission. `FsOperations` keeps of each operation what its result refers to.

*Deletion* is a counter (`deletions`, `freed`), a reference count (`refs`) or a
storage state, so that both use after deletion and a second deletion are visible.

### State and actions

* `LoopPosting`: the fields of `loop_posting_state` keep their names.
  `Post` is `post`; `RequestClose`, `AwaitClose`, `SetFailureHandler`,
  `DestroyOwner` are the owner's operations; `Wakeup`, `BeginDrain`/`LateDrain`,
  `CallableReturns`/`CallableThrows`, `HandlerReturns`/`HandlerThrows`,
  `EndDrain` are `on_async` and `drain` cut where user code runs; `ResendFails`
  is its other end, the wake-up that libuv refuses and the code answers with
  `std::terminate`; `OnClose`, `ResumeWaiter`, `OnCloseReturns` are `on_close`.
  Handlers have an identity: `failure_handler` is the one in the slot, `callback`
  the one `invoke()` moved out to run, `NoHandler` stands for an empty slot.
  `accepted`, `executed` and `policy` (the handler last installed) are history.
* `TaskScope`: a suspended task waits in an operation that resumes inline when
  stopped, that resumes later through a native close (`sleep_for`, `accept`), or
  that registers nothing (`write`). A sleep follows `sleep_awaiter`: `Finish` is
  `finish()`, called by the timer (`TimerFires`) and by the stop; from then on
  (`close_started_`) the operation is "ended" until `CloseTrampoline` resumes the
  task; `AwaitFails` is the submission that fails, which for a sleep may leave a
  timer to close. `ChildCompletes` and `CompletionReturns` are the two halves of
  `child_completed` around its stop loop and its nesting. The assertion of
  `finish_join` is not a guard of the model: `JoinWaitsForAll`, a part of
  `JoinOutcome`, states it of every step that ends the join.
* `SpawnHandle`: `refs` counts the `shared_ptr`s of the handle, the baton and
  the locals that keep one. `RootCompletes`, `DeliverNext`, `DeliverReports`,
  `DeliverReturns` are `deliver_completion`; `Report` is
  `report_unobserved_failure`.
* `EventSource`: `AwaitNext` is `next()` or `wait()`, split by family; `Notify`
  and `ProcessExits` the native callbacks; `QuiesceReturns` the part of
  `request_close` after the waiter was cancelled inline. A process keeps its exit
  for every later wait, and its close waits for the exit.
* `Connection`, `Listener`: one action per awaiter's `await_suspend`, per native
  callback and per owner operation. `ConnectFails`, `DiscardIncoming` and
  `CloseUntransferred` close a handle before its task resumes; `ForceClose` is
  the close a pipe forces when it cannot take a handle it was sent. `StopReading`
  and the listener's `StopNext` are one turn of `request_stop`: a callback whose
  operation no longer holds the slot returns at once, as the code does.
* `FsFile`: `file` is the record of `file_state`; `request` is the native request
  in each task's frame; `PoolAnswers` is the worker, `...Completes` and
  `OnCloseComplete` the completions, `CloseRefused` the submission that fails
  with waiters already joined.
* `ResourceScope`: `FinishRecord`, `FinishFile`, `ReleaseFile`, `FinishedFile`
  and `Finished` are `finish_impl` cut at its awaits; `Current` is the record
  its two phases look at, listeners first.
* `RawHandle`: one action per `init`, `start`, setter, `stop`, `close` and native
  callback of each kind. `Lend`, `Read` and `LoanDropped` are the buffer loans of
  `read_start` and `receive_start`; `Spawn` has the throwing and the reporting
  form.
* `RawRequest`: `Submit...`, `NativeAccepts`/`NativeRefuses`, `SubmitReturns`
  are one submission; `WorkerStarts`/`WorkerEnds` its execution; `...Completes`
  and `DeliveryReturns` its callback.

## Runs

States are distinct states. Every run ends in states from which nothing more
need happen (all awaits used, the owner closed), so deadlock is not checked;
the liveness properties say what must still happen.

| Run | States | Shows |
|---|---|---|
| `posting` | 987,070 | exactly once and in order, close after drain, no lost wake-up, the handler in force is the one last installed, no send after close, and that `LoopPosting` implements `PostingQueue` (bounded backlog, settled waiters) with its liveness |
| `task_scope` | 344,205 | no frame is destroyed while in use, the join ends only over completed children, nothing runs after it and the first failure is rethrown, a stop callback is registered exactly while its task waits in an operation that has not ended, a stop unblocks the join |
| `task_scope_outside` | violation | the scope does not outlive a stop that comes from another callback |
| `spawn` | 358,028 | one destination per failure, none lost, state lives exactly as long as needed, joiners of a completed root resume, an abandoned root ends |
| `spawn_stop` | violation | `request_stop` can outlive the state it walks |
| `spawn_reentrant` | violation | the failure handler is not re-entrant |
| `sources` | 584,010 | four families: the pending event is the summary of what was not seen, one consumer, native delivery armed exactly while useful, no use after deletion, closes complete, released state is deleted |
| `process_release` | violation | a process destroyed by the coroutine its own close resumed is deleted inside the completion and again by it |
| `connection` | 69,952 | three families: close and I/O exclude each other, failed connects and unusable received handles are closed first, deleted once after last use, accepted operations end |
| `listener` | 115,454 | provisional children accounted for, no accept armed while closing, cancelled accepts and closes complete |
| `scope` | 204,191 | descriptors are used while open and closed once, requests lie in suspended frames, `finish` keeps its two phases and makes progress over attempts, everything that suspends resumes |
| `raw` | 27,021 | deliveries reach the current subscription, captures are released, loans are paired, a failed spawn keeps its storage; a request's callables match what is in flight, results have an owner, submissions complete; a thread's state is freed once |

One restriction of `sources` is a finding and not an abstraction:
`ReleasedInCompletion` leaves out, for the process family only, that the code
resumed by the process's own close destroys the owner. With it
`NoUseAfterDelete` fails, which is run `process_release`. In `spawn` and
`task_scope` nothing is left out: a stop loop that outlives the list it reads is
in the state space (the read finds the list empty, or the program crashes and
the behaviour ends), and the properties of those runs hold there too.

### Bounds and why they are enough

* `posting`: one producer thread and the loop thread itself as a producer, three
  posts each, capacity 3 and budget 2. Six posts overflow the capacity and exceed
  the bound that `PostingQueue` puts on the accepted callables not yet started
  (capacity + budget - 1, here four: a full queue and what a batch has left while
  its first callable runs), a full queue needs two batches (so the resend
  matters). Two handlers tell a replacement from the handler it replaces. Two
  waiters let one resume while another is still detached.
* `task_scope`: three children: one fails, a second completes inside the stop
  it causes, a third is still active. Two awaits let a task register again after
  a stop. `task_scope_outside` needs only one await.
* `spawn`: two roots are needed for a report inside a report; two joiners for a
  list that is walked while it changes.
* `connection`, `listener`: three tasks cover a reader or acceptor, a closer and
  a task that destroys the owner from inside either.
* `sources`: two tasks (a consumer and a closer that may also destroy the owner);
  the states go to the values of the notifications, three of them: two to merge
  and one to disagree.
* `scope`: two tasks (one finishes while the other uses an owner) and two owners,
  so that the order of adoption and the order of the phases can differ.
* `raw`: four starts let a subscription be replaced, refused and replaced again
  around one delivery, and `MaxGeneration` 7 leaves each of them a stop; three
  submissions cover a resubmission from a completion and one after it; three
  threads a start after a join and after a detach. One object suffices because
  the raw objects share no state of uvpp.

No run uses symmetry: most check liveness, for which TLC's symmetry is unsound.

### Fairness

The fair specifications add fairness only to what the loop, a running call or the
thread pool does: callbacks libuv owes, the continuation of a call already on the
stack, the return of user code, the execution of a queued request. User
operations (posting, closing, stopping, destroying) are never fair, and nothing
says that a signal arrives, a peer connects, data comes or a process exits. Where
user code may keep pre-empting a due callback (`OnClose`, the answers of
accepted requests, completions) the condition is strong fairness: libuv processes
pending and closing callbacks in every iteration, whatever else it runs. In
`Connection` it is asked of the union of those callbacks and not of each, the
weaker assumption, which is enough because requests are bounded. The assumption
behind all of it is that the application keeps running the loop and that its
callbacks return.

## Proofs

All theorems hold for every value of the constants that satisfies the named
assumption of the module: any producers, waiters, handlers, nonzero capacity and
budget (`PostingAssumption`, which is what the constructor enforces), any finite
set of children (`ScopeAssumption`), any roots and any finite set of joiners
(`SpawnAssumption`), any tasks and any of the families (`SourceAssumption`,
`ConnectionAssumption`), any finite set of tasks that use a listener
(`ListenerAssumption`), any kinds of handle and families of request and any
number of starts, submissions and threads (`HandleAssumption`,
`RequestAssumption`, `ThreadAssumption`). The bounds that keep TLC finite are
arbitrary natural numbers in the proofs.

| Module | Theorem | Statement |
|---|---|---|
| `LoopPosting_proofs` | `Invariance` | `Spec => []IInv` |
| | `TypeCorrect` | `Spec => []TypeOK` |
| | `ExactlyOnce` | `Spec => []ExactlyOnceInOrder` |
| | `ClosesDrained` | `Spec => []CloseAfterDrain` |
| | `SendsOnlyWhenActive` | `Spec => NoSendAfterClose` |
| | `WakeupNeverLost` | `Spec => []NoLostWakeup` |
| | `HandlerKept` | `Spec => []HandlerIsLastInstalled` |
| | `BacklogBounded` | `Spec => []BoundedBacklog` |
| | `RunsInProducerOrder` | `Spec => []ProducerOrder` |
| | `Implements` | `Spec => KeepsPromise`, the safety part of `PostingQueue` |
| `TaskScope_proofs` | `ScopeInvariance` | `Spec => []SInv` |
| | `FramesOutlive` | `Spec => []NoFrameDestroyedInUse` |
| | `RegistrationsExact` | `Spec => []RegistrationsLive` |
| | `JoinPromise` | `Spec => JoinOutcome` |
| `SpawnHandle_proofs` | `HInvariance` | `Spec => []HInv` |
| | `OneFate` | `Spec => []OneDestination` |
| | `FailureKept` | `Spec => []NoFailureLost` |
| | `StateLifetime` | `Spec => []StateLivesAsNeeded` |
| `EventSource_proofs` | `NothingIsLost` | `Spec => []UnseenIsPending` |
| | `SlotIsAccounted` | `Spec => []SlotAccounted` |
| | `WatcherIsUseful` | `Spec => []ArmedWhenUseful` |
| | `DeletedOnce` | `Spec => []NoUseAfterDelete`, if `"process" \notin ReleasedInCompletion` |
| `Connection_proofs` | `CInvariance` | `Spec => []CInv` |
| | `NoOperationIsLeft` | `Spec => []NoOperationWhileClosing` |
| | `SlotsAreAccounted` | `Spec => []SlotsAccounted` |
| | `FailureWaitsForClose` | `Spec => []FailureIsClosedFirst` |
| | `StateDeletedOnce` | `Spec => []NoUseAfterDelete` |
| `Listener_proofs` | `ListenerInvariance` | `Spec => []IInv` |
| | `ListenerDeletedLast` | `Spec => []NoUseAfterClose` |
| | `ChildrenAreAccounted` | `Spec => []ChildrenAccounted` |
| `RawApi_proofs` | `SubscriptionsDelivered` | `Spec => []DeliversCurrentSubscription` |
| | `CapturesAreReleased` | `Spec => []CapturesReleased` |
| | `LoansArePaired` | `Spec => []LoansPaired` |
| | `CallablesMatch` | `Spec => []CallableMatchesFlight` |
| | `ResultsAreOwned` | `Spec => []ResultsOwned` |
| | `FreedOnce` | `Spec => []ThreadStateFreedOnce` |

The hypothesis of `DeletedOnce` is finding 4: without it the theorem is false, as
run `process_release` shows.

*Posting.* `ExactlyOnceInOrder` is an equation between four sequences that
each step keeps by moving one element or one prefix across a boundary (lemmas
`SplitQueue`, `ShiftHead`, `AppendLast`). It is not inductive alone: a batch may
be overwritten only if it is empty, so `IInv` adds `DrainLocals`, which ties the
locals of `drain` to where the loop thread is, and `HandleFollowsPhase`, which
ties the native handle to the phase and says a closing handle has nothing left.
`CloseAfterDrain` follows from `IInv` at once. `NoLostWakeup`,
`HandlerIsLastInstalled`, `BoundedBacklog` and the order of accepted work are
each inductive relative to `IInv` and are proved on top of it. `ProducerOrder`
follows because `executed` is a prefix of `accepted`. `HandlerIsLastInstalled`
needs to know what the slot will hold once a running handler returns: the
replacement if there was one, else the handler in `callback`.

`Implements` uses the refinement mapping of `LoopPosting` (the instance
`Promise`): the histories `accepted` and `executed` are the abstract queue, and
`phase` gives its flags. By `ExactlyOnceInOrder` the callable that a batch starts
next is the oldest one accepted and not started (`StartsOldest`), so posting and
starting are `Accept` and `Execute` (`PostRefines`, `RunRefines`); the close and
its completion are the abstract ones (`CloseRefines`, `OnCloseRefines`), and every
other step changes nothing that `PostingQueue` shows or halts it
(`OtherRefines`). The abstract bound holds because the accepted work not yet
started is the batch and the queue (`WaitingLength`), and `post` tests the
capacity while at most `BatchLimit - 1` extracted callables wait.

*Task scope.* `finish_join` destroys every child frame, so the property needs to
know that no child's body or completion is on the stack when the last completion
returns. That is what the two counters are for, and `SInv` says that they count:
`active_children` the children that started and did not complete,
`completion_depth` the `child_completed` calls on the stack. The step from "depth
one" to "this call is the only one" is `CountInv`; that the stack agrees with the
state of the tasks is `StackInv`. Its part `Shielded` is the one that is not
obvious: where the parent's body was entered above a `child_completed`, a child's
body lies between them, so a join that finds no active child runs above no
completion either. What is needed about cardinalities is the hypothesis `Counts`
of the lemmas, which `FiniteCounts` proves. The stop list is exact because each
step that suspends a task, ends its operation or resumes it changes list and task
together (`SuspendKeeps`, `EndsKeeps`, `UnregisterFacts`). `JoinedInv` says
that after the join every child is cold or its frame is gone, so none moves again
and none of its calls is on the stack; `GoneInv`, that a destroyed scope is one
whose join is over and that only a stop may still be on the stack, the stop that
finding 1 is about.

*Spawn handle.* `HInv` has four parts for each root. `Control` ties root and
handle to the calls on the stack; `Count` says what the reference count is the
sum of (handle or the local moving in or out of it, baton, waiting joiners);
`Waiting` describes the two lists of joiners; `Fate` says where a failure went: it
was observed, or reported, or the root was abandoned and its delivery is still on
the stack. `OneDestination` and `NoFailureLost` follow from `Fate`, and
`StateLivesAsNeeded` from `Count` and the fact that a list without repetition is
no longer than its set. A step is about one root; the lemmas `OtherKeeps`,
`EnterCall` and `LeaveCall` carry the invariant over for the others, and there is
one lemma per action for the root itself.

*Event sources.* `UnseenIsPending` compares the coalesced event with a summary of
the list of notifications nobody saw. To append a notification is to extend the
summary, which needs that a list with a failure has a first one (`HasFirst`, part
of `Events`). That nothing is lost also needs that a consumer in the slot finds
nothing pending, that the slot is empty once the close began (`Consumer`), and
that the part of `request_close` after the inline resumption still finds the
close it began (`Calls`, frame `Quiesce`). `Deleted` bounds the deletions by two
and says when the second is possible: only for a process destroyed inside its own
completion, which the hypothesis of `DeletedOnce` excludes.

*Connections.* The properties speak of tasks and slots; what keeps them true is
where the native handle is. `Handle` ties it to the close record, to the owner and
to the connect; `Work` ties each operation to a handle that is open, with the one
exception of a write under a forced close; `Waiters` says that a task in a connect
is owed its answer by the pending connect, by the close callback or by the walk
that resumes, in one of these places. `Slots` carries that a flag is set exactly
when one task is suspended in the operation, `Calls` that a resumed task is on the
stack once. `Deleted` then follows because only `complete` and `owner_released`
delete, and the record says which of the two comes last.

*Listeners.* `NoUseAfterClose` follows from three parts of `IInv`. `Handle` ties
the native handle to the close record and says that a listener without an owner
is not open; `Deleted` says that a deletion is the last thing to happen; `Waiters`
says that whoever waits for the close is on one of its two lists, so that none is
left when both are empty. `Consumer` ties the accept slot to the stop list and
both to the one provisional child, which is what makes inline cancellation safe:
`Quiesce` empties the slot before the native close begins, so no callback finds
it again. `ChildrenAccounted` counts. `Children` says that the children alive are
those of suspended accepts and the one whose close callback runs, of which the
stack holds at most one (`Calls`); a step changes the child of one task and
therefore one term of the sum. The facts about counting a finite set that this
needs are a definition, `LiveCount`, that the lemmas of the actions assume and
`LiveFacts` proves.

*Raw layer.* The three objects share no state and the invariant is the
conjunction of three. For a handle, `Checked` is the part that matters: a
subscription that a delivery took out of its slot is never newer than the slot,
and if it is as new then its callable is that of the subscription in force; this
is what the generation counter of `persistent_callback_slot` is for. `Placed` says
that the subscription in force is in one place, `FrameOK` what the running
callback and the lent buffer have to do with it. For a request, `InFlight` says
which callables are in place on both sides of the return of the submitting call,
and `Owned` that a result which reads the request keeps it from being submitted
again. For a thread, `TInv` adds that the threads that run were started, that no
later start was freed and that during a start the object names the last thread.

*Only model-checked.* Liveness (fairness and ENABLED are outside the prover): the
liveness half of the refinement of `PostingQueue`, `CloseCompletes`,
`OperationsEnd` and the like; and the properties of files and resource scopes
(run `scope`). Every other safety property that a passing run checks is also a
theorem. What recursive definitions compute on arbitrary data cannot be
proved by induction with the installed provers; the modules with theorems use none.

*Layout.* Facts about cardinality come from the library's theorem modules. They
are instantiated under the name `Finite` in front of the lemmas that cite them,
and a lemma (`SameNotions`, `SameCardinality`) says that the instance's operators
are those of the module. The backends have a limit of 60 seconds for a leaf; each
needs a few seconds at most.

## Findings

1. `co/cancellation.hpp:64`, run `task_scope_outside`. A loop callback outside
   the scope's tasks requests the stop while the parent joins. The stop callback
   of the last child resumes it inline; it completes, the parent resumes,
   returns and destroys the scope; the loop in `request_stop` then reads the
   list head of the destroyed scope.
2. `co/task.hpp:426`, run `spawn_stop`. `spawn_handle::request_stop` holds no
   reference while it runs callbacks; `release` does, and its comment says why.
3. `core/loop.hpp:196`, run `spawn_reentrant`. While the unobserved-failure
   handler runs its slot is empty, so a failure that becomes unobserved inside
   it terminates the program; a comment says the handler may be reentrant.
4. `handles/process.hpp:687`, run `process_release`. `release_owner` deletes the
   state when `close.closed()`, where every other owner asks
   `can_destroy_now()`. A coroutine that its own `close()` resumes and that then
   lets the process go out of scope deletes the state inside `complete()`, which
   deletes it again.

## What is not modelled

* Error codes, buffers, addresses, version macros, system queries and option
  structures: value types and conversions with no state that changes. So are the
  conversions of durations (`handles/timer.hpp`, `co/sleep.hpp`); the models keep
  only whether a conversion is refused.
* Of the raw layer: getters, `ref`/`unref`, socket options, name queries and the
  building of buffer batches, which are single libuv calls. On Windows `uv_read_start`
  of a TTY calls the allocator inside the call; the loans are modelled for the
  overlapped reads of streams and not for that nesting.
* The wrappers of mutexes, read-write locks, semaphores, conditions, barriers and
  keys: one call each.
* `loop::run`, `walk` and metrics: libuv's own loop is the environment of every
  module.
* The promise machinery of `task<T>` (symmetric transfer, value storage) is
  reduced to which frame runs.
* A `uv_fs_close` that libuv refuses during `finish` (it has no memory for the
  request) ends the process in the file's destructor, so there is nothing after it
  to check; the refusal of a close that user code awaits is modelled.
* What libuv does about the child when the constructor of `uv::process` fails
  after the spawn is libuv's; `EventSource` starts from a spawn that succeeded and
  `RawHandle` has the failing one.
* The listener's dropped notification (`net/tcp_listener.hpp:91`) is documented by
  the user guide; the model lets libuv hold the connection and stay silent.
* One abstract lifecycle that all owner modules implement was considered and left
  out: the close protocol is already one module of operators they share
  (`AsyncClose`), and the properties that such a specification would state are
  `NoUseAfterDelete`, `CloseCompletes` and `OperationsEnd` of their runs.
