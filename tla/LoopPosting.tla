---------------------------- MODULE LoopPosting ----------------------------
(***************************************************************************)
(* uv::loop_posting (include/uvpp/loop_posting.hpp): the bounded queue     *)
(* through which producer threads hand callables to the loop thread.       *)
(*                                                                         *)
(* Producers and the loop thread interleave freely; what the code does     *)
(* under mutex_ is one step here, because nothing else that touches the    *)
(* same fields can run in between.  The loop thread runs user code (posted *)
(* callables, the failure handler, destructors of captures, resumed close  *)
(* waiters, other callbacks of the loop) and that code may call every      *)
(* operation again, so those operations are steps that can be taken        *)
(* wherever the loop thread is inside user code.                           *)
(*                                                                         *)
(* libuv itself is external: uv_async_send sets a pending mark (calls      *)
(* coalesce), a pending mark makes the loop call on_async, and uv_close    *)
(* makes the loop call on_close later.                                     *)
(***************************************************************************)
EXTENDS Integers, Sequences

CONSTANTS
  Producers,    \* threads that hold an endpoint
  LoopThread,   \* the one of them that drives the loop
  Waiters,      \* coroutines that may co_await close()
  Capacity,     \* capacity_
  DrainBudget,  \* drain_budget_
  Handlers,     \* the failure handlers the application may install
  NoHandler,    \* an empty failure handler
  MaxPosts      \* bound: how often each producer calls post

\* The constructor throws unless capacity and budget are nonzero.
ASSUME PostingAssumption ==
  /\ LoopThread \in Producers
  /\ Capacity \in Nat \ {0}
  /\ DrainBudget \in Nat \ {0}
  /\ MaxPosts \in Nat
  /\ NoHandler \notin Handlers

VARIABLES
  phase,            \* phase_
  queue,            \* queue_
  batch,            \* the part of batch_ whose invocation has not begun
  active_batches,   \* active_batches_
  close_waiters,    \* close_waiters_
  failure_handler,  \* the callback in the failure_handler_ slot
  handle,           \* the native async_ handle: "active", "closing", "closed"
  pending,          \* libuv's pending mark of async_
  pc,               \* where the loop thread is
  had_work,         \* local of drain()
  callback,         \* local of invoke(): the handler moved out of the slot to run
  replaced,         \* generation_ of the handler slot moved since invoke() read it
  resuming,         \* local of on_close(): the detached waiters still to resume
  owner,            \* is the loop_posting object alive
  terminated,       \* std::terminate() was called
  waiter,           \* state of each close() awaiter
  attempts,         \* calls of post made by each producer
  accepted,         \* history: callables for which post reported success, in order
  executed,         \* history: callables whose invocation began, in order
  policy            \* history: what the last set_failure_handler installed

fieldVars   == <<phase, queue, active_batches, close_waiters, failure_handler>>
nativeVars  == <<handle, pending>>
loopVars    == <<batch, pc, had_work, callback, replaced, resuming>>
userVars    == <<owner, terminated, waiter, attempts>>
historyVars == <<accepted, executed, policy>>
vars == <<fieldVars, nativeVars, loopVars, userVars, historyVars>>

\* A callable is named by its producer and the number of the call that posted it.
Work == Producers \X (1..MaxPosts)

\* What set_failure_handler accepts: an empty function removes the handler.
HandlerOrNone == Handlers \cup {NoHandler}

\* "poll": libuv or another callback; "async": on_async was called and has not
\* locked yet; "invoke": a posted callable runs; "handler": the failure handler
\* runs; "clear": batch_.clear(), then the last locked section of drain();
\* "resume": on_close() resumes waiters.
LoopPlaces == {"poll", "async", "invoke", "handler", "clear", "resume"}

BatchLimit == IF DrainBudget < Capacity THEN DrainBudget ELSE Capacity

TypeOK ==
  /\ phase \in {"open", "draining", "closing", "closed"}
  /\ queue \in Seq(Work)
  /\ batch \in Seq(Work)
  /\ active_batches \in 0..1
  /\ close_waiters \in Seq(Waiters)
  /\ failure_handler \in HandlerOrNone
  /\ handle \in {"active", "closing", "closed"}
  /\ pending \in BOOLEAN
  /\ pc \in LoopPlaces
  /\ had_work \in BOOLEAN
  /\ callback \in HandlerOrNone
  /\ replaced \in BOOLEAN
  /\ resuming \in Seq(Waiters)
  /\ owner \in BOOLEAN
  /\ terminated \in BOOLEAN
  /\ waiter \in [Waiters -> {"none", "suspended", "resumed"}]
  /\ attempts \in [Producers -> 0..MaxPosts]
  /\ accepted \in Seq(Work)
  /\ executed \in Seq(Work)
  /\ policy \in HandlerOrNone

Init ==
  /\ phase = "open"
  /\ queue = <<>>
  /\ batch = <<>>
  /\ active_batches = 0
  /\ close_waiters = <<>>
  /\ failure_handler = NoHandler
  /\ handle = "active"
  /\ pending = FALSE
  /\ pc = "poll"
  /\ had_work = FALSE
  /\ callback = NoHandler
  /\ replaced = FALSE
  /\ resuming = <<>>
  /\ owner = TRUE
  /\ terminated = FALSE
  /\ waiter = [w \in Waiters |-> "none"]
  /\ attempts = [p \in Producers |-> 0]
  /\ accepted = <<>>
  /\ executed = <<>>
  /\ policy = NoHandler

-----------------------------------------------------------------------------
(* Steps of any thread: post through an endpoint.                          *)

\* User code runs on the loop thread everywhere but before the first locked
\* section of drain() and after one that extracted nothing.
LoopInUserCode == pc # "async" /\ (pc = "clear" => had_work)

CanRun(p) == ~terminated /\ (p = LoopThread => LoopInUserCode)

\* uv_async_send: the call succeeds and the pending mark is set.
SendOk == pending' = TRUE

Admits_NoPhaseCheck == Len(queue) # Capacity

Admits_NoCapacityCheck == phase = "open"

\* The admission test of post, made under mutex_.
Admits == phase = "open" /\ Len(queue) # Capacity

Enqueue_Front(w) == queue' = <<w>> \o queue

Enqueue(w) == queue' = Append(queue, w)

\* loop_posting_state::post under mutex_.  The second disjunct is a failed
\* uv_async_send: the insertion is rolled back before the lock is released.
\* The third is UV_ECANCELED (not open) or UV_EAGAIN (full).
Post(p) ==
  LET w == <<p, attempts[p] + 1>>
  IN /\ CanRun(p)
     /\ attempts[p] < MaxPosts
     /\ attempts' = [attempts EXCEPT ![p] = @ + 1]
     /\ \/ /\ Admits
           /\ Enqueue(w)
           /\ accepted' = Append(accepted, w)
           /\ SendOk
        \/ /\ Admits
           /\ UNCHANGED <<queue, accepted, pending>>
        \/ /\ ~Admits
           /\ UNCHANGED <<queue, accepted, pending>>
     /\ UNCHANGED <<phase, active_batches, close_waiters, failure_handler, handle,
                    loopVars, owner, terminated, waiter, executed, policy>>

-----------------------------------------------------------------------------
(* Steps of user code on the loop thread, through the owner.               *)

BeginCloseIfDrained_IgnoreBatch(ph, q, active) ==
  IF ph = "draining" /\ q = <<>>
    THEN phase' = "closing" /\ handle' = "closing"
    ELSE phase' = ph /\ UNCHANGED handle

\* begin_close_if_drained_locked, given the fields as the caller leaves them.
BeginCloseIfDrained(ph, q, active) ==
  IF ph = "draining" /\ q = <<>> /\ active = 0
    THEN phase' = "closing" /\ handle' = "closing"
    ELSE phase' = ph /\ UNCHANGED handle

Sealed(ph) == IF ph = "open" THEN "draining" ELSE ph

RequestCloseLocked == BeginCloseIfDrained(Sealed(phase), queue, active_batches)

OwnerUsable == ~terminated /\ owner /\ LoopInUserCode

RequestClose ==
  /\ OwnerUsable
  /\ RequestCloseLocked
  /\ UNCHANGED <<queue, active_batches, close_waiters, failure_handler, pending,
                 loopVars, userVars, historyVars>>

\* close_awaiter::await_suspend: add_close_waiter, then request_close.  A
\* component that is already closed does not suspend the caller.
AwaitClose(w) ==
  /\ OwnerUsable
  /\ waiter[w] = "none"
  /\ IF phase = "closed"
       THEN /\ waiter' = [waiter EXCEPT ![w] = "resumed"]
            /\ UNCHANGED <<close_waiters, phase, handle>>
       ELSE /\ waiter' = [waiter EXCEPT ![w] = "suspended"]
            /\ close_waiters' = Append(close_waiters, w)
            /\ RequestCloseLocked
  /\ UNCHANGED <<queue, active_batches, failure_handler, pending,
                 loopVars, owner, terminated, attempts, historyVars>>

\* set_failure_handler: persistent_callback_slot::replace stores the handler and
\* advances generation_.
SetFailureHandler(h) ==
  /\ OwnerUsable
  /\ failure_handler' = h
  /\ policy' = h
  /\ replaced' = TRUE
  /\ UNCHANGED <<phase, queue, active_batches, close_waiters, nativeVars,
                 batch, pc, had_work, callback, resuming, userVars, accepted, executed>>

\* The owner outlives close completion; an earlier destruction terminates and
\* is a misuse the documentation excludes.
DestroyOwner ==
  /\ OwnerUsable
  /\ phase = "closed"
  /\ owner' = FALSE
  /\ UNCHANGED <<fieldVars, nativeVars, loopVars, terminated, waiter, attempts, historyVars>>

-----------------------------------------------------------------------------
(* drain().                                                                *)

\* Begin the next callable of batch_, or go on to batch_.clear().
NextCallable(rest) ==
  IF rest = <<>>
    THEN /\ pc' = "clear"
         /\ batch' = rest
         /\ UNCHANGED executed
    ELSE /\ pc' = "invoke"
         /\ batch' = Tail(rest)
         /\ executed' = Append(executed, Head(rest))

\* count in drain().
Extracted == IF DrainBudget < Len(queue) THEN DrainBudget ELSE Len(queue)

\* libuv clears the pending mark, then calls on_async; a producer may send again
\* before drain() has the lock.  A call for a handle whose close has begun is
\* allowed here because drain() allows for it.
Wakeup ==
  /\ ~terminated /\ pc = "poll" /\ pending /\ handle # "closed"
  /\ pending' = FALSE
  /\ pc' = "async"
  /\ UNCHANGED <<fieldVars, handle, batch, had_work, callback, replaced, resuming, userVars,
                 historyVars>>

\* drain(): the first locked section and, if it extracted something, the start
\* of the first callable.
BeginDrain ==
  /\ ~terminated /\ pc = "async" /\ phase \notin {"closing", "closed"}
  /\ queue' = SubSeq(queue, Extracted + 1, Len(queue))
  /\ had_work' = (Extracted # 0)
  /\ active_batches' = active_batches + (IF Extracted # 0 THEN 1 ELSE 0)
  /\ NextCallable(SubSeq(queue, 1, Extracted))
  /\ UNCHANGED <<phase, close_waiters, failure_handler, nativeVars, callback, replaced, resuming,
                 userVars, accepted, policy>>

\* drain() on a handle whose close has begun returns at once.
LateDrain ==
  /\ ~terminated /\ pc = "async" /\ phase \in {"closing", "closed"}
  /\ pc' = "poll"
  /\ UNCHANGED <<fieldVars, nativeVars, batch, had_work, callback, replaced, resuming, userVars,
                 historyVars>>

CallableReturns ==
  /\ ~terminated /\ pc = "invoke"
  /\ NextCallable(batch)
  /\ UNCHANGED <<fieldVars, nativeVars, had_work, callback, replaced, resuming,
                 userVars, accepted, policy>>

\* The callable throws: report_failure moves the handler out of its slot and
\* runs it, or terminates when there is none.
CallableThrows ==
  /\ ~terminated /\ pc = "invoke"
  /\ IF failure_handler # NoHandler
       THEN /\ pc' = "handler"
            /\ callback' = failure_handler
            /\ failure_handler' = NoHandler
            /\ replaced' = FALSE
            /\ UNCHANGED terminated
       ELSE /\ terminated' = TRUE
            /\ UNCHANGED <<pc, failure_handler, callback, replaced>>
  /\ UNCHANGED <<phase, queue, active_batches, close_waiters, nativeVars, batch,
                 had_work, resuming, owner, waiter, attempts, historyVars>>

Restored_Always == callback

\* persistent_callback_slot::invoke puts the handler that ran back unless the slot
\* was replaced while it ran.
Restored == IF replaced THEN failure_handler ELSE callback

HandlerReturns ==
  /\ ~terminated /\ pc = "handler"
  /\ failure_handler' = Restored
  /\ callback' = NoHandler
  /\ NextCallable(batch)
  /\ UNCHANGED <<phase, queue, active_batches, close_waiters, nativeVars, had_work,
                 replaced, resuming, userVars, accepted, policy>>

\* An exception leaving the handler crosses a noexcept boundary.
HandlerThrows ==
  /\ ~terminated /\ pc = "handler"
  /\ terminated' = TRUE
  /\ UNCHANGED <<fieldVars, nativeVars, loopVars, owner, waiter, attempts, historyVars>>

ActiveAfterDrain_Leaked == active_batches

ActiveAfterDrain == active_batches - (IF had_work THEN 1 ELSE 0)

Resend_Never == UNCHANGED pending

\* What the budget left in the queue, or was posted meanwhile, is announced again.
Resend == IF queue # <<>> THEN SendOk ELSE UNCHANGED pending

\* The last locked section of drain().
EndDrain ==
  /\ ~terminated /\ pc = "clear"
  /\ active_batches' = ActiveAfterDrain
  /\ had_work' = FALSE
  /\ pc' = "poll"
  /\ Resend
  /\ BeginCloseIfDrained(phase, queue, ActiveAfterDrain)
  /\ UNCHANGED <<queue, close_waiters, failure_handler, batch, callback, replaced, resuming,
                 userVars, historyVars>>

\* The same section when uv_async_send fails: the program terminates in it.
ResendFails ==
  /\ ~terminated /\ pc = "clear" /\ queue # <<>>
  /\ active_batches' = ActiveAfterDrain
  /\ had_work' = FALSE
  /\ terminated' = TRUE
  /\ UNCHANGED <<phase, queue, close_waiters, failure_handler, nativeVars, batch, pc,
                 callback, replaced, resuming, owner, waiter, attempts, historyVars>>

-----------------------------------------------------------------------------
(* on_close().                                                             *)

\* uv_close completed: mark closed and detach the waiters under the lock, then
\* clear the failure handler.  libuv makes the call from the loop, so never
\* inside a drain.
OnClose ==
  /\ ~terminated /\ pc = "poll" /\ handle = "closing"
  /\ handle' = "closed"
  /\ phase' = "closed"
  /\ resuming' = close_waiters
  /\ close_waiters' = <<>>
  /\ failure_handler' = NoHandler
  /\ replaced' = TRUE
  /\ pc' = "resume"
  /\ UNCHANGED <<queue, active_batches, pending, batch, had_work, callback, userVars,
                 historyVars>>

ResumeWaiter ==
  /\ ~terminated /\ pc = "resume" /\ resuming # <<>>
  /\ waiter' = [waiter EXCEPT ![Head(resuming)] = "resumed"]
  /\ resuming' = Tail(resuming)
  /\ UNCHANGED <<fieldVars, nativeVars, batch, pc, had_work, callback, replaced, owner, terminated,
                 attempts, historyVars>>

OnCloseReturns ==
  /\ ~terminated /\ pc = "resume" /\ resuming = <<>>
  /\ pc' = "poll"
  /\ UNCHANGED <<fieldVars, nativeVars, batch, had_work, callback, replaced, resuming, userVars,
                 historyVars>>

-----------------------------------------------------------------------------

Next ==
  \/ \E p \in Producers : Post(p)
  \/ RequestClose
  \/ \E w \in Waiters : AwaitClose(w)
  \/ \E h \in HandlerOrNone : SetFailureHandler(h)
  \/ DestroyOwner
  \/ Wakeup
  \/ BeginDrain
  \/ LateDrain
  \/ CallableReturns
  \/ CallableThrows
  \/ HandlerReturns
  \/ HandlerThrows
  \/ EndDrain
  \/ ResendFails
  \/ OnClose
  \/ ResumeWaiter
  \/ OnCloseReturns

Spec == Init /\ [][Next]_vars

\* The application drives the loop, and the callables and handlers it runs come
\* back: every callback libuv owes is made and every callback ends.
LoopDriven ==
  /\ WF_vars(Wakeup)
  /\ WF_vars(BeginDrain \/ LateDrain)
  /\ WF_vars(CallableReturns \/ CallableThrows)
  /\ WF_vars(HandlerReturns \/ HandlerThrows)
  /\ WF_vars(EndDrain \/ ResendFails)
  /\ WF_vars(OnClose)
  /\ WF_vars(ResumeWaiter)
  /\ WF_vars(OnCloseReturns)

FairSpec == Spec /\ LoopDriven

-----------------------------------------------------------------------------
(* Properties.                                                             *)

\* Accepted callables are executed exactly once and in acceptance order: what
\* was accepted is what was started, then the rest of the extracted batch, then
\* the queue, whatever producers, drains and close requests interleave.
ExactlyOnceInOrder == accepted = executed \o batch \o queue

\* begin_close_if_drained_locked: once uv_close was called, every accepted
\* callable has run and its captures are destroyed (no batch is active).
CloseAfterDrain ==
  phase \in {"closing", "closed"} =>
    executed = accepted /\ active_batches = 0 /\ ~had_work

\* Each producer's accepted posts run in the order in which it made them.
ProducerOrder ==
  \A i, j \in 1..Len(executed) :
    i < j /\ executed[i][1] = executed[j][1] => executed[i][2] < executed[j][2]

\* A wakeup is never lost although sends coalesce and drains are budgeted: work
\* waits only while a wakeup is pending or the drain that will resend is running.
NoLostWakeup == queue # <<>> => pending \/ pc \in {"async", "invoke", "handler", "clear"}

\* The backlog is bounded as documented: Capacity waiting callables and at most
\* min(Capacity, DrainBudget) extracted ones (one of which is running).
BoundedBacklog == Len(queue) <= Capacity /\ Len(batch) < BatchLimit

\* Outside the failure handler the slot holds the very handler, or the absence of
\* one, that the application installed last: putting back the handler that ran
\* does not undo a replacement or a removal made while it ran.
HandlerIsLastInstalled == pc # "handler" /\ phase # "closed" => failure_handler = policy

\* Producers never touch the native handle once uv_close was called on it.
NoSendAfterClose == [][~pending /\ pending' => handle = "active"]_vars

-----------------------------------------------------------------------------
(* The promise to users, and that this component keeps it.                 *)

Promise == INSTANCE PostingQueue WITH
  Bound  <- Capacity + BatchLimit - 1,
  sealed <- (phase # "open"),
  closed <- (phase = "closed"),
  halted <- terminated

\* Every behaviour of the component is one of the bounded FIFO it promises.
KeepsPromise == Promise!QueueSafety

\* The same with its liveness: accepted work runs, a sealed queue closes and
\* its waiters wake, as long as the loop is driven.
KeepsLivePromise == Promise!QueueSpec

=============================================================================
