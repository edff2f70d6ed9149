---------------------------- MODULE SpawnHandle ----------------------------
(***************************************************************************)
(* uv::co::spawn and uv::co::spawn_handle (include/uvpp/co/task.hpp): root *)
(* tasks, their public handles, joiners, the completion baton, and where a *)
(* failure that nobody observed goes (uv::loop's handler slot).            *)
(*                                                                         *)
(* As in TaskScope the loop thread's call stack is explicit and only its   *)
(* top acts.  User code runs in root bodies, in resumed joiners, in the    *)
(* failure handler and in callbacks of the loop (the empty stack); it may  *)
(* call every operation of the handles it can reach.                       *)
(***************************************************************************)
EXTENDS Naturals, FiniteSets, Cancellation

CONSTANTS
  Roots,      \* tasks given to spawn
  Joiners,    \* coroutines that may co_await join()
  MaxAwaits   \* bound: operations each root awaits before it returns

ASSUME SpawnAssumption == IsFiniteSet(Joiners) /\ MaxAwaits \in Nat

VARIABLES
  stack,            \* the loop thread's call stack, top first
  root,             \* where each root coroutine is
  awaits,           \* operations each root has started
  op,               \* the kind of operation a suspended root waits in
  registered,       \* roots whose operation is on their state's cancellation list
  stop_requested,   \* roots whose cancellation.stop_requested_ is set
  handle,           \* the public spawn_handle: "none", "held", "released"
  refs,             \* shared_ptr references to the state
  completed,        \* roots whose state is completed
  abandoned,        \* roots with public_handle_abandoned
  failed,           \* roots whose promise holds an exception
  observed,         \* roots with failure_observed
  reported,         \* roots with failure_reported
  joiners,          \* joiners
  detached,         \* completed_joiners of deliver_completion
  joiner,           \* where each joiner is
  failure_handler,  \* is the loop's handler slot nonempty
  replaced,         \* roots in whose handler call the slot's generation_ moved
  policy,           \* history: did the last installation install a handler
  reports,          \* history: exceptions routed to the handler, per root
  terminated        \* how the program ended: std::terminate() "unhandled" or "threw", "crashed"

stateVars   == <<completed, abandoned, failed, observed, reported>>
rootVars    == <<root, awaits, op, registered, stop_requested>>
joinVars    == <<joiners, detached, joiner>>
handlerVars == <<failure_handler, replaced, policy, reports, terminated>>
vars == <<stack, rootVars, handle, refs, stateVars, joinVars, handlerVars>>

\* Frames name the function that runs and the root or joiner it runs for.
Frames == ({"spawn", "root", "stop", "release", "deliver", "handler"} \X Roots)
          \cup ({"joiner"} \X Joiners)

Top(f, x) == stack # <<>> /\ Head(stack) = <<f, x>>
OnStack(f, x) == <<f, x>> \in Range(stack)
Push(f, x) == stack' = <<<<f, x>>>> \o stack
Pop == stack' = Tail(stack)

UserRuns ==
  /\ terminated = "no"
  /\ stack # <<>> => Head(stack)[1] \in {"root", "joiner", "handler"}

TypeOK ==
  /\ stack \in Seq(Frames)
  /\ root \in [Roots -> {"cold", "running", "suspended", "completed"}]
  /\ awaits \in [Roots -> 0..MaxAwaits]
  /\ op \in [Roots -> {"none", "inline", "opaque"}]
  /\ handle \in [Roots -> {"none", "held", "released"}]
  /\ refs \in [Roots -> 0..(2 + Cardinality(Joiners))]
  /\ registered \cup stop_requested \cup completed \cup abandoned \cup failed
       \cup observed \cup reported \cup replaced \subseteq Roots
  /\ joiners \in [Roots -> Seq(Joiners)] /\ detached \in [Roots -> Seq(Joiners)]
  /\ joiner \in [Joiners -> {"idle", "waiting", "running", "done"}]
  /\ failure_handler \in BOOLEAN /\ policy \in BOOLEAN
  /\ reports \in [Roots -> Nat]
  /\ terminated \in {"no", "unhandled", "threw", "crashed"}

Init ==
  /\ stack = <<>>
  /\ root = [r \in Roots |-> "cold"]
  /\ awaits = [r \in Roots |-> 0]
  /\ op = [r \in Roots |-> "none"]
  /\ handle = [r \in Roots |-> "none"]
  /\ refs = [r \in Roots |-> 0]
  /\ registered = {} /\ stop_requested = {} /\ completed = {} /\ abandoned = {}
  /\ failed = {} /\ observed = {} /\ reported = {} /\ replaced = {}
  /\ joiners = [r \in Roots |-> <<>>]
  /\ detached = [r \in Roots |-> <<>>]
  /\ joiner = [j \in Joiners |-> "idle"]
  /\ failure_handler = FALSE /\ policy = FALSE
  /\ reports = [r \in Roots |-> 0]
  /\ terminated = "no"

\* References to a root's state, after a copy or the end of a shared_ptr.
Acquired_Missing(r) == refs
Acquired(r) == [refs EXCEPT ![r] = @ + 1]
Dropped(r) == [refs EXCEPT ![r] = @ - 1]

-----------------------------------------------------------------------------
(* spawn and the root body.                                                *)

\* spawn up to handle.resume(): the local shared_ptr and the baton each hold a
\* reference, then the root runs inside the call.
Spawn(r) ==
  /\ UserRuns /\ root[r] = "cold"
  /\ root' = [root EXCEPT ![r] = "running"]
  /\ refs' = [refs EXCEPT ![r] = 2]
  /\ stack' = <<<<"root", r>>, <<"spawn", r>>>> \o stack
  /\ UNCHANGED <<awaits, op, registered, stop_requested, handle, stateVars, joinVars, handlerVars>>

\* The local reference moves into the handle that spawn returns.
SpawnReturns(r) ==
  /\ terminated = "no" /\ Top("spawn", r)
  /\ handle' = [handle EXCEPT ![r] = "held"]
  /\ Pop
  /\ UNCHANGED <<rootVars, refs, stateVars, joinVars, handlerVars>>

\* The root awaits an operation: an inline one, whose stop callback resumes the
\* root inside request_stop, or one that registers nothing.
RootAwaits(r, kind) ==
  /\ terminated = "no" /\ Top("root", r) /\ awaits[r] < MaxAwaits
  /\ awaits' = [awaits EXCEPT ![r] = @ + 1]
  /\ IF kind = "opaque" \/ CanRegister(r \in stop_requested)
       THEN /\ op' = [op EXCEPT ![r] = kind]
            /\ root' = [root EXCEPT ![r] = "suspended"]
            /\ registered' = IF kind = "inline" THEN registered \cup {r} ELSE registered
            /\ Pop
       ELSE UNCHANGED <<op, root, registered, stack>>
  /\ UNCHANGED <<stop_requested, handle, refs, stateVars, joinVars, handlerVars>>

Resume(r) ==
  /\ op' = [op EXCEPT ![r] = "none"]
  /\ root' = [root EXCEPT ![r] = "running"]
  /\ registered' = registered \ {r}
  /\ Push("root", r)
  /\ UNCHANGED <<awaits, stop_requested, handle, refs, stateVars, joinVars, handlerVars>>

OperationCompletes(r) ==
  /\ terminated = "no"
  /\ \/ op[r] = "inline" /\ UserRuns
     \/ op[r] = "opaque" /\ stack = <<>>
  /\ Resume(r)

-----------------------------------------------------------------------------
(* Completion: final_suspend transfers to the baton, which delivers.       *)

\* deliver_completion, up to the first resumption: complete, and detach every
\* joiner before any of them runs.
RootCompletes(r, fails) ==
  /\ terminated = "no" /\ Top("root", r)
  /\ root' = [root EXCEPT ![r] = "completed"]
  /\ failed' = IF fails THEN failed \cup {r} ELSE failed
  /\ completed' = completed \cup {r}
  /\ detached' = [detached EXCEPT ![r] = joiners[r]]
  /\ joiners' = [joiners EXCEPT ![r] = <<>>]
  /\ stack' = <<<<"deliver", r>>>> \o Tail(stack)
  /\ UNCHANGED <<awaits, op, registered, stop_requested, handle, refs, abandoned, observed,
                 reported, joiner, handlerVars>>

\* A joiner resumes inside deliver_completion; its awaiter, a temporary, drops
\* its reference.
DeliverNext(r) ==
  /\ terminated = "no" /\ Top("deliver", r) /\ detached[r] # <<>>
  /\ LET j == Head(detached[r])
     IN /\ joiner' = [joiner EXCEPT ![j] = "running"]
        /\ Push("joiner", j)
  /\ detached' = [detached EXCEPT ![r] = Tail(@)]
  /\ refs' = Dropped(r)
  /\ UNCHANGED <<rootVars, handle, stateVars, joiners, handlerVars>>

JoinerReturns(j) ==
  /\ terminated = "no" /\ Top("joiner", j)
  /\ joiner' = [joiner EXCEPT ![j] = "done"]
  /\ Pop
  /\ UNCHANGED <<rootVars, handle, refs, stateVars, joiners, detached, handlerVars>>

NeedsReport_Observed(r) == r \in failed /\ r \notin reported

\* The test of report_unobserved_failure_if_needed.
NeedsReport(r) == r \in failed /\ r \notin observed /\ r \notin reported

\* report_unobserved_failure: the handler leaves its slot and runs, or the
\* default policy terminates.
Report(r) ==
  /\ reported' = reported \cup {r}
  /\ IF failure_handler
       THEN /\ failure_handler' = FALSE
            /\ replaced' = replaced \ {r}
            /\ reports' = [reports EXCEPT ![r] = @ + 1]
            /\ UNCHANGED terminated
       ELSE /\ terminated' = "unhandled"
            /\ UNCHANGED <<failure_handler, replaced, reports>>

ReportsOnDelivery_Never(r) == FALSE
ReportsOnDelivery(r) == r \in abandoned

\* After the joiners: report an abandoned root's failure.
DeliverReports(r) ==
  /\ terminated = "no" /\ Top("deliver", r) /\ detached[r] = <<>>
  /\ ReportsOnDelivery(r) /\ NeedsReport(r)
  /\ Report(r)
  /\ Push("handler", r)
  /\ UNCHANGED <<rootVars, handle, refs, completed, abandoned, failed, observed, joinVars, policy>>

\* The baton ends and drops its reference.
DeliverReturns(r) ==
  /\ terminated = "no" /\ Top("deliver", r) /\ detached[r] = <<>>
  /\ ~(ReportsOnDelivery(r) /\ NeedsReport(r))
  /\ refs' = Dropped(r)
  /\ Pop
  /\ UNCHANGED <<rootVars, handle, stateVars, joinVars, handlerVars>>

\* persistent_callback_slot::invoke, after the handler returned.
Restored(r) == IF r \in replaced THEN failure_handler ELSE TRUE

HandlerReturns(r) ==
  /\ terminated = "no" /\ Top("handler", r)
  /\ failure_handler' = Restored(r)
  /\ Pop
  /\ UNCHANGED <<rootVars, handle, refs, stateVars, joinVars, replaced, policy, reports, terminated>>

HandlerThrows(r) ==
  /\ terminated = "no" /\ Top("handler", r)
  /\ terminated' = "threw"
  /\ UNCHANGED <<stack, rootVars, handle, refs, stateVars, joinVars, failure_handler, replaced,
                 policy, reports>>

-----------------------------------------------------------------------------
(* The public handle.                                                      *)

MustWait_Always(r) == TRUE
MustWait(r) == r \notin completed

\* join_awaiter::await_suspend; the awaiter holds a reference while suspended.
Join(j, r) ==
  /\ UserRuns /\ handle[r] = "held" /\ joiner[j] = "idle"
  /\ IF MustWait(r)
       THEN /\ joiner' = [joiner EXCEPT ![j] = "waiting"]
            /\ joiners' = [joiners EXCEPT ![r] = Append(@, j)]
            /\ refs' = Acquired(r)
       ELSE /\ joiner' = [joiner EXCEPT ![j] = "done"]
            /\ UNCHANGED <<joiners, refs>>
  /\ UNCHANGED <<stack, rootVars, handle, stateVars, detached, handlerVars>>

\* rethrow_if_failed and take_result on a completed root.
Observe(r) ==
  /\ UserRuns /\ handle[r] = "held" /\ r \in completed /\ r \in failed /\ r \notin observed
  /\ observed' = observed \cup {r}
  /\ UNCHANGED <<stack, rootVars, handle, refs, completed, abandoned, failed, reported,
                 joinVars, handlerVars>>

RequestStop(r) ==
  /\ UserRuns /\ handle[r] = "held" /\ r \notin stop_requested
  /\ stop_requested' = stop_requested \cup {r}
  /\ Push("stop", r)
  /\ UNCHANGED <<root, awaits, op, registered, handle, refs, stateVars, joinVars, handlerVars>>

AbandonFrames_NoStop(r) == <<<<"release", r>>>>
AbandonFrames(r) == <<<<"stop", r>>, <<"release", r>>>>

\* release() of an active root: mark it abandoned and call request_stop, with the
\* reference moved to a local, which the frame of release() stands for.
ReleaseActive(r) ==
  /\ UserRuns /\ handle[r] = "held" /\ r \notin completed
  /\ handle' = [handle EXCEPT ![r] = "released"]
  /\ abandoned' = abandoned \cup {r}
  /\ stop_requested' = stop_requested \cup {r}
  /\ stack' = AbandonFrames(r) \o stack
  /\ UNCHANGED <<root, awaits, op, registered, refs, completed, failed, observed, reported,
                 joinVars, handlerVars>>

\* release() of a completed root: report its failure unless it was observed.
ReleaseCompleted(r) ==
  /\ UserRuns /\ handle[r] = "held" /\ r \in completed
  /\ handle' = [handle EXCEPT ![r] = "released"]
  /\ IF NeedsReport(r)
       THEN Report(r) /\ stack' = <<<<"handler", r>>, <<"release", r>>>> \o stack
       ELSE Push("release", r) /\ UNCHANGED <<reported, failure_handler, replaced, reports, terminated>>
  /\ UNCHANGED <<rootVars, refs, completed, abandoned, failed, observed, joinVars, policy>>

\* One turn of request_stop's loop.
StopCallback(r) ==
  /\ terminated = "no" /\ Top("stop", r) /\ r \in registered
  /\ Resume(r)

\* request_stop reads the list once more and returns.  If the state is gone, that
\* read is undefined: it finds the list empty or the program crashes.
StopReturns(r) ==
  /\ terminated = "no" /\ Top("stop", r) /\ r \notin registered
  /\ \/ Pop /\ UNCHANGED terminated
     \/ refs[r] = 0 /\ terminated' = "crashed" /\ UNCHANGED stack
  /\ UNCHANGED <<rootVars, handle, refs, stateVars, joinVars, failure_handler, replaced, policy,
                 reports>>

ReleaseReturns(r) ==
  /\ terminated = "no" /\ Top("release", r)
  /\ refs' = Dropped(r)
  /\ Pop
  /\ UNCHANGED <<rootVars, handle, stateVars, joinVars, handlerVars>>

\* loop::set_unobserved_failure_handler.
SetHandler(h) ==
  /\ UserRuns
  /\ failure_handler' = h /\ policy' = h
  /\ replaced' = {r \in Roots : OnStack("handler", r)}
  /\ UNCHANGED <<stack, rootVars, handle, refs, stateVars, joinVars, reports, terminated>>

-----------------------------------------------------------------------------

RootStep(r) ==
  \/ Spawn(r) \/ SpawnReturns(r)
  \/ \E kind \in {"inline", "opaque"} : RootAwaits(r, kind)
  \/ OperationCompletes(r)
  \/ \E fails \in BOOLEAN : RootCompletes(r, fails)
  \/ DeliverNext(r) \/ DeliverReports(r) \/ DeliverReturns(r)
  \/ HandlerReturns(r) \/ HandlerThrows(r)
  \/ \E j \in Joiners : Join(j, r)
  \/ Observe(r) \/ RequestStop(r) \/ ReleaseActive(r) \/ ReleaseCompleted(r)
  \/ StopCallback(r) \/ StopReturns(r) \/ ReleaseReturns(r)

Next ==
  \/ \E r \in Roots : RootStep(r)
  \/ \E j \in Joiners : JoinerReturns(j)
  \/ \E h \in BOOLEAN : SetHandler(h)

Spec == Init /\ [][Next]_vars

\* Code that runs comes back and libuv completes accepted requests; an inline
\* operation may wait for ever.
LoopDriven ==
  WF_vars(\/ \E r \in Roots :
               \/ SpawnReturns(r)
               \/ \E fails \in BOOLEAN : RootCompletes(r, fails)
               \/ op[r] = "opaque" /\ OperationCompletes(r)
               \/ DeliverNext(r) \/ DeliverReports(r) \/ DeliverReturns(r)
               \/ HandlerReturns(r) \/ HandlerThrows(r)
               \/ StopCallback(r) \/ StopReturns(r) \/ ReleaseReturns(r)
          \/ \E j \in Joiners : JoinerReturns(j))

FairSpec == Spec /\ LoopDriven

-----------------------------------------------------------------------------
(* Properties.                                                             *)

\* A root failure has one destination: it reaches the handler at most once, and
\* not at all if the application observed it.
OneDestination == \A r \in Roots : reports[r] <= 1 /\ (r \in observed => reports[r] = 0)

\* A failure is never dropped: once the public handle is gone and every call
\* about the root has returned, it was observed or reported.
NoFailureLost ==
  \A r \in Roots :
    /\ terminated = "no" /\ r \in failed /\ handle[r] = "released"
    /\ ~\E f \in {"deliver", "release"} : OnStack(f, r)
    => r \in observed \/ reports[r] = 1

\* The state, which owns the root's frame, lives as long as something needs it,
\* the running root, a joiner to resume, the delivery, a release in progress, and
\* no longer: the baton and the handle do not keep each other alive.
StateLivesAsNeeded ==
  /\ TypeOK
  /\ \A r \in Roots : refs[r] = 0 /\ root[r] # "cold" =>
       /\ root[r] = "completed"
       /\ joiners[r] = <<>> /\ detached[r] = <<>>
       /\ ~\E f \in {"root", "spawn", "deliver", "release"} : OnStack(f, r)
  /\ \A r \in Roots :
       /\ root[r] = "completed" /\ handle[r] = "released" /\ terminated = "no"
       /\ ~\E f \in {"deliver", "release"} : OnStack(f, r)
       => refs[r] = 0

\* An installed handler receives every unobserved failure; the comment on
\* reporting says that the handler may be reentrant.
HandlerIsReentrant == terminated = "unhandled" => ~policy

\* request_stop reads its list after every callback, so the state that holds it
\* must survive the callback.
StopLoopOutlived == \A r \in Roots : OnStack("stop", r) => refs[r] > 0

\* Every joiner of a completed root resumes and returns, also if the public
\* handle is released meanwhile.
JoinersResume ==
  \A j \in Joiners :
    (\E r \in completed : j \in Range(joiners[r] \o detached[r]))
      ~> (joiner[j] = "done" \/ terminated # "no")

\* Abandoning a handle ends the root although nothing else would resume it.
AbandonedRootEnds ==
  \A r \in Roots : (r \in abandoned) ~> (refs[r] = 0 \/ terminated # "no")

=============================================================================
