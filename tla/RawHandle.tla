----------------------------- MODULE RawHandle -----------------------------
(***************************************************************************)
(* The handles of namespace uv::raw: the watchers over                     *)
(* detail/raw_watcher.hpp, the reading and the listening side of           *)
(* handles/stream.hpp, handles/udp.hpp and the process of                  *)
(* handles/process.hpp.  Each pairs a native handle with the callable of   *)
(* its current subscription; user code starts, restarts, stops and closes  *)
(* it from anywhere on the loop thread, the running callback included.     *)
(*                                                                         *)
(* One handle is modelled, of a kind chosen initially.  libuv does not     *)
(* re-enter its loop, so at most one callback of the handle runs.  Each    *)
(* accepted or refused start has a number; callables are told apart by it. *)
(***************************************************************************)
EXTENDS Naturals, CallbackSlot

CONSTANTS
  Kinds,          \* the kinds of handle to explore
  MaxStarts,      \* bound: starts of the handle (the init of an async is one)
  MaxGeneration   \* bound: replacements of its callable by user code

Watchers == {"timer", "signal", "poll", "fs_event", "fs_poll", "loop_watcher", "async", "listener"}
Readers  == {"stream", "udp"}
AllKinds == Watchers \cup Readers \cup {"process"}

ASSUME HandleAssumption ==
  /\ Kinds \subseteq AllKinds
  /\ MaxStarts \in Nat \ {0} /\ MaxGeneration \in Nat

VARIABLES
  kind,     \* "loop_watcher" stands for check, idle and prepare
  phase,    \* "blank" (not initialized), "open", "closing", "closed"
  armed,    \* is native delivery active
  sub,      \* the last subscription that was accepted, 0 before the first
  starts,   \* starts so far
  slot,     \* callback_, connection_callback_, read_subscription_, exit_callback_
  static,   \* the subscription whose compile-time callback is selected, or 0
  once,     \* is the next delivery the last (oneshot_, a timer's zero repeat)
  pending,  \* pending_read_, pending_receive_: the subscription of the last loan
  lent,     \* the subscription whose buffer libuv still holds, or 0
  running,  \* the callback that runs
  storage   \* of a process: "owned", or after a throwing spawn "detached", "deleted"

subVars == <<sub, starts, static, once>>
loanVars == <<pending, lent>>
hVars == <<kind, phase, armed, subVars, slot, loanVars, running, storage>>

\* A callback that runs: what it is, the subscription called and the one that
\* the delivery is for, and what goes back into the slot after it.
Frame(op, cb, for, delivery) == [op |-> op, cb |-> cb, for |-> for, delivery |-> delivery]
Idle == Frame("none", 0, 0, EmptySlot)

Running == running # Idle
InLoop == ~Running

HInit(k) ==
  /\ kind = k
  /\ phase = "blank" /\ armed = FALSE
  /\ sub = 0 /\ starts = 0 /\ static = 0 /\ once = FALSE
  /\ slot = EmptySlot /\ pending = EmptySlot /\ lent = 0
  /\ running = Idle /\ storage = "owned"

\* user code runs: anywhere, or in a callback of this handle.  An allocator must
\* not stop or close the stream that asked it.
User == slot.generation < MaxGeneration
MayQuiesce == User /\ running.op # "alloc"

-----------------------------------------------------------------------------
(* Initialization and subscriptions.                                       *)

\* init, which fails with UV_EALREADY on an initialized handle.  A failing native
\* init leaves the handle blank: finish_init and finish_poll_init withdraw the loop
\* pointer that marks it initialized.
Opened ==
  /\ phase = "blank" /\ phase' = "open"
  /\ UNCHANGED <<kind, armed, subVars, slot, loanVars, running, storage>>

InitWatcher == kind \in {"timer", "signal", "fs_event", "fs_poll", "loop_watcher"} /\ Opened
InitPoll == kind = "poll" /\ Opened
InitStream == kind \in {"stream", "listener"} /\ Opened
InitUdp == kind = "udp" /\ Opened

\* An async handle is active from its init on, with its callback.
InitAsync(is_static) ==
  /\ kind = "async" /\ phase = "blank"
  /\ phase' = "open" /\ armed' = TRUE
  /\ sub' = 1 /\ starts' = 1
  /\ slot' = Replaced(slot, IF is_static THEN 0 ELSE 1)
  /\ static' = IF is_static THEN 1 ELSE 0
  /\ UNCHANGED <<kind, once, loanVars, running, storage>>

\* The outcomes of a native start: "ok", "idle" (accepted with nothing to watch),
\* "kept" (failed, the watcher is as it was) and "stopped" (failed and stopped).
Accepted(outcome) == outcome \in {"ok", "idle"}
ArmedAfter(outcome) ==
  CASE outcome = "ok" -> TRUE [] outcome = "kept" -> armed [] OTHER -> FALSE

\* commit_start, and the end of listen.
CommitStart_OnSuccess(outcome, cb) == IF Accepted(outcome) THEN Replaced(slot, cb) ELSE slot
CommitStart(outcome, cb) ==
  IF Accepted(outcome) \/ ~ArmedAfter(outcome)
    THEN Replaced(slot, IF ArmedAfter(outcome) THEN cb ELSE 0) ELSE slot

Numbered == User /\ starts < MaxStarts /\ starts' = starts + 1

\* A start that asks libuv, with a callable or a compile-time callback.
Subscribe(is_static, oneshot, outcome) ==
  /\ phase = "open" /\ Numbered
  /\ armed' = ArmedAfter(outcome)
  /\ slot' = CommitStart(outcome, IF is_static THEN 0 ELSE starts')
  /\ IF Accepted(outcome)
       THEN sub' = starts' /\ static' = (IF is_static THEN starts' ELSE 0) /\ once' = oneshot
       ELSE UNCHANGED <<sub, static, once>>
  /\ UNCHANGED <<kind, phase, loanVars, running, storage>>

\* One that only replaces the callable of an active handle.
Reselect(is_static) ==
  /\ phase = "open" /\ Numbered /\ armed
  /\ sub' = starts'
  /\ static' = IF is_static THEN starts' ELSE 0
  /\ slot' = Replaced(slot, IF is_static THEN 0 ELSE starts')
  /\ UNCHANGED <<kind, phase, armed, once, loanVars, running, storage>>

\* timer::start and start_static, with and without a repeat: libuv stops the timer
\* and starts it again.
StartTimer(is_static, oneshot) == kind = "timer" /\ Subscribe(is_static, oneshot, "ok")

\* signal::start, start_oneshot and their static forms: uv_signal_start may fail
\* before or after it stopped the signal it watched.
StartSignal(is_static, oneshot, outcome) ==
  kind = "signal" /\ outcome \in {"ok", "kept", "stopped"} /\ Subscribe(is_static, oneshot, outcome)

\* poll::start: an empty event set is accepted and stops the watcher.
StartPoll(is_static, outcome) ==
  kind = "poll" /\ outcome \in {"ok", "idle", "stopped"} /\ Subscribe(is_static, FALSE, outcome)

\* fs_event::start: libuv refuses an active one.
StartFsEvent(is_static, outcome) ==
  /\ kind = "fs_event" /\ outcome \in (IF armed THEN {"kept"} ELSE {"ok", "kept"})
  /\ Subscribe(is_static, FALSE, outcome)

\* fs_poll::start: an active one with the same path and interval changes its
\* callable and does not ask libuv; with others it is refused with UV_EBUSY.
StartFsPoll(is_static, outcome) ==
  /\ kind = "fs_poll" /\ outcome \in {"ok", "kept"}
  /\ IF armed THEN outcome = "ok" /\ Reselect(is_static)
              ELSE Subscribe(is_static, FALSE, outcome)

\* start of check, idle and prepare: stopped first, because a native start of an
\* active one keeps its callback.
StartLoopWatcher(is_static) == kind = "loop_watcher" /\ Subscribe(is_static, FALSE, "ok")

\* stream::listen and listen_static.
Listen(is_static, outcome) ==
  kind = "listener" /\ outcome \in {"ok", "kept"} /\ Subscribe(is_static, FALSE, outcome)

\* async::set_callback and set_callback_static.
SetCallback(is_static) == kind = "async" /\ Reselect(is_static)

\* timer::set_repeat: a zero repeat makes the next delivery the last.
SetRepeat(oneshot) ==
  /\ phase = "open" /\ kind = "timer" /\ User
  /\ once' = oneshot
  /\ UNCHANGED <<kind, phase, armed, sub, starts, static, slot, loanVars, running, storage>>

CanAgain == armed

\* timer::again: the subscription in force starts over.
Again ==
  /\ phase = "open" /\ kind = "timer" /\ User /\ CanAgain /\ ~once
  /\ armed' = TRUE
  /\ UNCHANGED <<kind, phase, subVars, slot, loanVars, running, storage>>

\* stop of the watchers, and commit_stop.
StopReading ==
  /\ phase = "open" /\ MayQuiesce
  /\ armed' = FALSE
  /\ slot' = Replaced(slot, 0)
  /\ static' = 0
  /\ UNCHANGED <<kind, phase, sub, starts, once, loanVars, running, storage>>

Stop == kind \in Watchers \ {"async", "listener"} /\ StopReading
ReadStop == kind = "stream" /\ StopReading
ReceiveStop == kind = "udp" /\ StopReading

\* A subscription in force is stopped before the new one starts.
Stopped == IF armed THEN Replaced(slot, 0) ELSE slot

\* stream::start_read: the new pair is published before the native start and
\* withdrawn when that fails.
StartRead(ok) ==
  /\ kind = "stream" /\ phase = "open" /\ Numbered
  /\ slot' = IF ok THEN Replaced(Stopped, starts') ELSE Replaced(Replaced(Stopped, starts'), 0)
  /\ armed' = ok
  /\ sub' = IF ok THEN starts' ELSE sub
  /\ UNCHANGED <<kind, phase, static, once, loanVars, running, storage>>

\* udp::start_receive publishes it after the native start.
StartReceive(ok) ==
  /\ kind = "udp" /\ phase = "open" /\ Numbered
  /\ slot' = IF ok THEN Replaced(Stopped, starts') ELSE Stopped
  /\ armed' = ok
  /\ sub' = IF ok THEN starts' ELSE sub
  /\ UNCHANGED <<kind, phase, static, once, loanVars, running, storage>>

-----------------------------------------------------------------------------
(* Deliveries of watchers.                                                 *)

Notified == IF static # 0 THEN static ELSE slot.callback

\* deliver, or a compile-time callback.
Deliver ==
  /\ InLoop /\ phase = "open" /\ armed
  /\ slot' = IF static # 0 THEN slot ELSE CheckedOut(slot)
  /\ running' = Frame("deliver", Notified, sub, slot)
  /\ UNCHANGED <<kind, phase, armed, subVars, loanVars, storage>>

\* deliver_terminal: the last notification of a subscription stops the native
\* watcher, and takes the callable out of the slot, before it is called.
ArmedDuringLast_StopsAfter == TRUE
ArmedDuringLast == FALSE

DeliverTerminal ==
  /\ InLoop /\ phase = "open" /\ armed
  /\ armed' = ArmedDuringLast
  /\ slot' = Taken(slot)
  /\ static' = 0
  /\ running' = Frame("terminal", Notified, sub, EmptySlot)
  /\ UNCHANGED <<kind, phase, sub, starts, once, loanVars, storage>>

\* A timer without repeat and a one-shot signal end with their notification.
TimerExpires == kind = "timer" /\ IF once THEN DeliverTerminal ELSE Deliver
SignalRaised == kind = "signal" /\ IF once THEN DeliverTerminal ELSE Deliver

\* poll and fs_event end with an error.
PollReports(error) == kind = "poll" /\ IF error THEN DeliverTerminal ELSE Deliver
FsEventReports(error) == kind = "fs_event" /\ IF error THEN DeliverTerminal ELSE Deliver

FsPollReports == kind = "fs_poll" /\ Deliver
LoopWatcherRuns == kind = "loop_watcher" /\ Deliver
AsyncWakes == kind = "async" /\ Deliver

\* connection_trampoline: libuv may have stopped listening before it reports an
\* error.
ConnectionArrives(stopped) == kind = "listener" /\ IF stopped THEN DeliverTerminal ELSE Deliver

\* The end of deliver, of deliver_terminal and of a static callback.
CallbackReturns ==
  /\ running.op \in {"deliver", "terminal"}
  /\ slot' = IF running.op = "deliver" /\ running.cb = running.delivery.callback
               THEN RestoredSlot(slot, running.delivery) ELSE slot
  /\ running' = Idle
  /\ UNCHANGED <<kind, phase, armed, subVars, loanVars, storage>>

-----------------------------------------------------------------------------
(* Buffer loans of readers.                                                *)

\* The allocator is called: libuv has finished with the last loan.
Lend ==
  /\ InLoop /\ phase = "open" /\ armed /\ lent = 0
  /\ LET back == RestoredSlot(slot, pending)
     IN /\ slot' = CheckedOut(back)
        /\ running' = Frame("alloc", back.callback, sub, back)
  /\ pending' = EmptySlot
  /\ UNCHANGED <<kind, phase, armed, subVars, lent, storage>>

\* alloc_trampoline of the stream and of the udp handle.
StreamAlloc == kind = "stream" /\ Lend
UdpAlloc == kind = "udp" /\ Lend

AllocReturns ==
  /\ running.op = "alloc"
  /\ pending' = running.delivery
  /\ lent' = running.cb
  /\ running' = Idle
  /\ UNCHANGED <<kind, phase, armed, subVars, slot, storage>>

\* When libuv calls the reader: with the buffer it was lent, even if the read
\* was stopped or its stream is closing meanwhile (an overlapped read), or with
\* an error for which it asked for none.  A batch of datagrams ends with a stop.
NativeRead(outcome) ==
  \/ lent # 0 /\ armed
  \/ lent # 0 /\ kind = "stream" /\ phase \in {"open", "closing"}
  \/ lent = 0 /\ armed /\ kind = "stream" /\ outcome = "error"

\* The delivery read_trampoline and receive_trampoline use.
Lender_Current == slot
Lender == IF pending.callback # 0 THEN pending ELSE slot

\* The reader is called; a "chunk" is one datagram of a batch in the same buffer.
Read(outcome) ==
  /\ InLoop /\ NativeRead(outcome)
  /\ LET left == IF pending.callback # 0 THEN slot ELSE CheckedOut(slot)
     IN slot' = IF outcome = "error" THEN Replaced(left, 0) ELSE left
  /\ armed' = (armed /\ outcome # "error")
  /\ running' = Frame(IF outcome = "chunk" THEN "chunk" ELSE "read",
                      Lender.callback, IF lent # 0 THEN lent ELSE sub, Lender)
  /\ pending' = EmptySlot
  /\ lent' = IF outcome = "chunk" THEN lent ELSE 0
  /\ UNCHANGED <<kind, phase, subVars, storage>>

\* read_trampoline, receive_trampoline.
StreamRead(outcome) == kind = "stream" /\ outcome # "chunk" /\ Read(outcome)
UdpReceive(outcome) == kind = "udp" /\ Read(outcome)

ReadReturns ==
  /\ running.op \in {"read", "chunk"}
  /\ IF running.op = "chunk"
       THEN pending' = running.delivery /\ UNCHANGED slot
       ELSE slot' = RestoredSlot(slot, running.delivery) /\ UNCHANGED pending
  /\ running' = Idle
  /\ UNCHANGED <<kind, phase, armed, subVars, lent, storage>>

\* libuv ends a batch that was stopped in its middle without a last callback.
LoanDropped ==
  /\ InLoop /\ kind = "udp" /\ lent # 0 /\ ~armed
  /\ lent' = 0
  /\ UNCHANGED <<kind, phase, armed, subVars, slot, pending, running, storage>>

-----------------------------------------------------------------------------
(* The process.                                                            *)

\* The native outcome of uv_spawn: a child, no child, or an error after a child
\* was started.  Its handle is initialized, and must be closed, in each case.
SpawnOutcomes == {"ok", "failed", "started"}

\* throw_on_spawn_failure: is the detached storage closed at once?
ClosesFailed_Always(outcome) == TRUE
ClosesFailed(outcome) == outcome # "started"

\* submit_spawn, and throw_on_spawn_failure when a constructor calls it.
Spawn(is_static, throwing, outcome) ==
  /\ kind = "process" /\ phase = "blank" /\ Numbered
  /\ armed' = (outcome # "failed")
  /\ sub' = IF outcome = "failed" THEN 0 ELSE 1
  /\ IF throwing /\ outcome # "ok"
       THEN /\ storage' = "detached"
            /\ phase' = IF ClosesFailed(outcome) THEN "closing" ELSE "open"
            /\ UNCHANGED <<slot, static>>
       ELSE /\ phase' = "open"
            /\ slot' = IF outcome = "failed" \/ is_static THEN slot ELSE Replaced(slot, 1)
            /\ static' = IF outcome = "failed" \/ ~is_static THEN 0 ELSE 1
            /\ UNCHANGED storage
  /\ UNCHANGED <<kind, once, loanVars, running>>

\* exit_trampoline.
Exit ==
  /\ InLoop /\ kind = "process" /\ phase = "open" /\ armed
  /\ armed' = FALSE
  /\ IF storage = "detached"
       THEN phase' = "closing" /\ UNCHANGED <<slot, static, running>>
       ELSE /\ running' = Frame("terminal", IF static # 0 THEN static ELSE slot.callback, sub,
                                EmptySlot)
            /\ slot' = Taken(slot) /\ static' = 0
            /\ UNCHANGED phase
  /\ UNCHANGED <<kind, sub, starts, once, loanVars, storage>>

-----------------------------------------------------------------------------
(* Close.                                                                  *)

\* close, in its forms with a callback, a compile-time callback and none: uv_close
\* ends native delivery, then the callables are released.  A loan stays until the
\* close callback.
BeginClose ==
  /\ phase = "open" /\ MayQuiesce /\ storage = "owned"
  /\ phase' = "closing" /\ armed' = FALSE
  /\ slot' = Replaced(slot, 0) /\ static' = 0
  /\ UNCHANGED <<kind, sub, starts, once, loanVars, running, storage>>

CloseWatcher == kind \in Watchers \ {"async", "listener"} /\ BeginClose
CloseAsync == kind = "async" /\ BeginClose
CloseStream == kind \in {"stream", "listener"} /\ BeginClose
CloseReset == kind = "stream" /\ BeginClose
CloseUdp == kind = "udp" /\ BeginClose
CloseProcess == kind = "process" /\ BeginClose

\* The close callback.
EndClose ==
  /\ InLoop /\ phase = "closing"
  /\ phase' = "closed"
  /\ pending' = EmptySlot /\ lent' = 0
  /\ UNCHANGED <<kind, armed, subVars, slot, running>>

\* close_trampoline of the handles, finish_close of the stream and of udp.
WatcherClosed == kind \in Watchers \ {"listener"} /\ EndClose /\ UNCHANGED storage
StreamClosed == kind \in {"stream", "listener"} /\ EndClose /\ UNCHANGED storage
UdpClosed == kind = "udp" /\ EndClose /\ UNCHANGED storage

\* close_trampoline, or failed_spawn_close_trampoline of a detached storage.
ProcessClosed ==
  /\ kind = "process" /\ EndClose
  /\ storage' = IF storage = "detached" THEN "deleted" ELSE storage

HNext ==
  \/ InitWatcher \/ InitPoll \/ InitStream \/ InitUdp
  \/ \E b \in BOOLEAN : InitAsync(b) \/ StartLoopWatcher(b) \/ SetCallback(b) \/ SetRepeat(b)
  \/ \E b, c \in BOOLEAN : StartTimer(b, c)
  \/ \E b \in BOOLEAN, o \in {"ok", "idle", "kept", "stopped"} :
       \/ \E c \in BOOLEAN : StartSignal(b, c, o)
       \/ StartPoll(b, o) \/ StartFsEvent(b, o) \/ StartFsPoll(b, o) \/ Listen(b, o)
  \/ Again \/ Stop \/ ReadStop \/ ReceiveStop
  \/ \E b \in BOOLEAN : StartRead(b) \/ StartReceive(b)
  \/ TimerExpires \/ SignalRaised \/ FsPollReports \/ LoopWatcherRuns \/ AsyncWakes
  \/ \E b \in BOOLEAN : PollReports(b) \/ FsEventReports(b) \/ ConnectionArrives(b)
  \/ CallbackReturns
  \/ StreamAlloc \/ UdpAlloc \/ AllocReturns \/ ReadReturns \/ LoanDropped
  \/ \E o \in {"data", "error", "chunk"} : StreamRead(o) \/ UdpReceive(o)
  \/ \E b, c \in BOOLEAN, o \in SpawnOutcomes : Spawn(b, c, o)
  \/ Exit
  \/ CloseWatcher \/ CloseAsync \/ CloseStream \/ CloseReset \/ CloseUdp \/ CloseProcess
  \/ WatcherClosed \/ StreamClosed \/ UdpClosed \/ ProcessClosed

-----------------------------------------------------------------------------
(* Properties.                                                             *)

HandleTypeOK ==
  /\ kind \in AllKinds
  /\ phase \in {"blank", "open", "closing", "closed"}
  /\ armed \in BOOLEAN /\ once \in BOOLEAN
  /\ {sub, starts, static, lent} \subseteq 0..MaxStarts
  /\ {slot, pending, running.delivery} \subseteq [callback : 0..MaxStarts, generation : Nat]
  /\ running.op \in {"none", "deliver", "terminal", "alloc", "read", "chunk"}
  /\ storage \in {"owned", "detached", "deleted"}

\* Where the callable of subscription s can be found again for the next delivery.
Reachable(s) ==
  \/ static = s \/ slot.callback = s
  \/ \E d \in {running.delivery, pending} :
       d.callback = s /\ d.generation = slot.generation

\* Native delivery and the callable agree, whatever was started, refused,
\* stopped or replaced inside a callback: a notification calls the subscription
\* that libuv delivers for, and an active handle has its callable.
DeliversCurrentSubscription ==
  /\ running.op \in {"deliver", "terminal", "alloc"} => running.cb = running.for
  /\ armed /\ storage = "owned" => Reachable(sub)

\* A handle that is not active keeps no callable, so captured state is released
\* as soon as nothing can be delivered to it; that of a loan, at the latest, at
\* the close.  (A compile-time callback captures nothing.)  The storage that a
\* throwing constructor gives to libuv lives until the close callback, and a child
\* that was started all the same is reaped before that close begins.
CapturesReleased ==
  /\ HandleTypeOK
  /\ ~armed => slot.callback = 0
  /\ ~armed /\ Running => running.delivery.callback = 0
                          \/ running.delivery.generation # slot.generation
  /\ phase = "closed" => pending.callback = 0
  /\ kind = "process" /\ phase \in {"closing", "closed"} /\ storage # "owned" => ~armed
  /\ storage = "deleted" => phase = "closed"

\* A buffer goes back to the reader whose allocator lent it, although another
\* subscription may have replaced it, and that pair lives as long as the loan.
LoansPaired ==
  /\ lent # 0 => \/ pending.callback = lent
                 \/ running.op = "chunk" /\ running.delivery.callback = lent
  /\ running.op \in {"read", "chunk"} => running.cb = running.for

=============================================================================
