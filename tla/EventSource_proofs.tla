------------------------- MODULE EventSource_proofs -------------------------
(***************************************************************************)
(* Proofs about EventSource for every set of families and tasks and for    *)
(* all bounds.                                                             *)
(***************************************************************************)
EXTENDS EventSource, StackLemmas

\* Time limits of the backends, in seconds.
USE SMTT(60), ZenonT(60)

Quiesce == <<"quiesce", None>>
Complete == <<"complete", None>>
Stop == <<"stop", None>>

\* The types, without the Boolean variables.
BaseType ==
  /\ family \in {"signal", "poll", "fs_event", "process"}
  /\ stack \in Seq(Frames)
  /\ task \in [Tasks -> {"ready", "running", "waiting", "closing"}]
  /\ awaits \in [Tasks -> 0..MaxAwaits]
  /\ registrations \in Seq(Tasks)
  /\ close \in CloseStates(Tasks)
  /\ slot \in Tasks \cup {None}
  /\ pending \in Outcomes
  /\ native \in {"armed", "idle", "closing", "closed"}
  /\ resuming \in Seq(Tasks)
  /\ arrived \in 0..MaxEvents
  /\ unseen \in Seq(Notifications)

\* Each call is entered once; where the close and the tasks are agrees with the
\* calls in progress.
Calls ==
  /\ IsInjective(stack)
  /\ \A t \in Tasks : <<"run", t>> \in On(stack) <=> task[t] = "running"
  /\ Quiesce \in On(stack) => close.phase = "closing" /\ native = "idle" /\ family # "process"
  /\ Complete \in On(stack) => close.phase = "closed"

\* The flags agree with the calls in progress and with the owner.
Flags ==
  /\ stop_requested \in BOOLEAN /\ owner \in BOOLEAN
  /\ Complete \in On(stack) <=> close.completion_active
  /\ Stop \in On(stack) => stop_requested
  /\ close.owner_released <=> ~owner

\* Where the native handle is agrees with the close.  Only a spawn that failed is
\* closed natively without a begun close.
Handle ==
  /\ close.phase = "open" => \/ native \in {"armed", "idle"}
                             \/ native = "closing" /\ family = "process" /\ ~owner
  /\ close.phase = "closing" => native = "closing" \/ Quiesce \in On(stack)
  /\ close.phase = "closed" <=> native = "closed"

\* Whoever awaits the close is on one list, of the close or of complete().
Waiters ==
  /\ close.callback_waiter = <<>>
  /\ IsInjective(close.waiters) /\ IsInjective(resuming)
  /\ close.waiters # <<>> => close.phase = "closing"
  /\ resuming # <<>> => Complete \in On(stack)
  /\ \A t \in Tasks : task[t] = "closing" <=> t \in On(close.waiters) \cup On(resuming)

\* The consumer slot, its stop callback and the watcher.
Consumer ==
  /\ \A t \in Tasks : task[t] = "waiting" <=> slot = t
  /\ registrations = IF slot = None THEN <<>> ELSE <<slot>>
  /\ slot # None => close.phase = "open"
  /\ family = "poll" => (native = "armed" <=> slot # None)
  /\ family = "process" => /\ native = "armed" => close.phase = "open"
                           /\ slot # None => native = "armed"
  /\ family \in {"signal", "fs_event"} => (native = "armed" <=> close.phase = "open")

\* The state is deleted at most once where the owner of a process is not destroyed
\* by the code that its own close resumes, and at most twice otherwise.
Deleted ==
  /\ deletions \in 0..2
  /\ deletions > 0 => close.phase = "closed" /\ ~owner
  /\ Complete \in On(stack) => deletions <= 1
  /\ (deletions > 1 \/ (deletions > 0 /\ Complete \in On(stack))) =>
       family = "process" /\ "process" \in ReleasedInCompletion

\* The first failure of a list of notifications, if there is one.
HasFirst(events) ==
  (\E i \in 1..Len(events) : Failure(events[i])) =>
    \E i \in 1..Len(events) : Failure(events[i]) /\ \A j \in 1..(i - 1) : ~Failure(events[j])

\* A poll has no unseen notification, a process one when it has exited.
Events ==
  /\ HasFirst(unseen)
  /\ close.phase = "open" => pending = Summary(unseen)
  /\ slot # None => unseen = <<>>
  /\ family = "poll" => unseen = <<>>
  /\ family = "process" /\ native = "armed" => arrived = 0 /\ unseen = <<>>

SInv ==
  /\ BaseType /\ Flags /\ Calls /\ Handle /\ Waiters /\ Consumer /\ Deleted /\ Events

-----------------------------------------------------------------------------
(* Frames and types.                                                       *)

LEMMA FrameFacts ==
  /\ \A t \in Tasks : <<"run", t>> \in Frames
  /\ Quiesce \in Frames /\ Complete \in Frames /\ Stop \in Frames
  /\ \A t : <<"run", t>> \notin {Quiesce, Complete, Stop}
  /\ \A t, u : <<"run", t>> = <<"run", u>> => t = u
  /\ Quiesce # Complete /\ Quiesce # Stop /\ Complete # Stop
BY DEF Frames, Quiesce, Complete, Stop

LEMMA EnterFrame ==
  \A f \in Frames, s \in Seq(Frames) :
    IsInjective(s) /\ f \notin On(s) =>
      /\ <<f>> \o s \in Seq(Frames) /\ IsInjective(<<f>> \o s)
      /\ On(<<f>> \o s) = On(s) \cup {f}
BY PushCall

\* The top of the stack as the actions test it.
LEMMA TopFacts ==
  ASSUME SInv, NEW f, NEW x, Top(f, x)
  PROVE  /\ stack # <<>> /\ <<f, x>> \in On(stack)
         /\ Tail(stack) \in Seq(Frames) /\ IsInjective(Tail(stack))
         /\ On(Tail(stack)) = On(stack) \ {<<f, x>>}
<1>1. stack \in Seq(Frames) /\ IsInjective(stack) /\ stack # <<>> /\ Head(stack) = <<f, x>>
  BY DEF SInv, BaseType, Calls, Top
<1>2. QED
  BY <1>1, PopCall

-----------------------------------------------------------------------------
(* What a list of notifications amounts to.                                *)

Notes == {e \in [status : {"ok", "error", "threw"}, flags : SUBSET {"rename", "change"},
                 filename : {"none", "a", "b"}] : Failure(e) => e = Bare(e.status)}

LEMMA NotificationFacts == Notifications \subseteq Notes /\ Notes \subseteq Outcomes
BY DEF Notifications, Notes, Outcomes, Outcome, Bare, Failure

LEMMA MergeType == ASSUME NEW o \in Outcomes, NEW e \in Notes PROVE Merge(o, e) \in Outcomes
BY NotificationFacts DEF Merge, Notes, Outcomes, Outcome, Bare, Failure, NoEvent

\* The first failure is unique, so it is the one FirstFailure finds.
LEMMA FirstIs ==
  ASSUME NEW s \in Seq(Notes), NEW k \in 1..Len(s), Failure(s[k]),
         \A j \in 1..(k - 1) : ~Failure(s[j])
  PROVE  FirstFailure(s) = k
<1> DEFINE First(i) == Failure(s[i]) /\ \A j \in 1..(i - 1) : ~Failure(s[j])
<1>1. Len(s) \in Nat
  OBVIOUS
<1>2. First(k)
  OBVIOUS
<1>3. \A i \in 1..Len(s) : First(i) => i = k
  BY <1>1, <1>2
<1>4. FirstFailure(s) = CHOOSE i \in 1..Len(s) : First(i)
  BY DEF FirstFailure
<1> HIDE DEF First
<1>5. QED
  BY <1>2, <1>3, <1>4

\* One more notification amounts to merging it into what the others amount to: the
\* code coalesces one at a time, the consumer is owed the summary of all.
LEMMA SummaryAppend ==
  ASSUME NEW s \in Seq(Notes), HasFirst(s), NEW e \in Notes
  PROVE  HasFirst(Append(s, e)) /\ Summary(Append(s, e)) = Merge(Summary(s), e)
<1> DEFINE a == Append(s, e)  n == Len(s)
<1>1. /\ a \in Seq(Notes) /\ n \in Nat /\ Len(a) = n + 1 /\ a[n + 1] = e /\ a # <<>>
      /\ \A i \in 1..n : a[i] = s[i] /\ s[i] \in Notes
      /\ s = <<>> <=> n = 0
  OBVIOUS
<1> HIDE DEF a, n
<1>2. CASE \E i \in 1..n : Failure(s[i])
  <2>1. PICK k \in 1..n : Failure(s[k]) /\ \A j \in 1..(k - 1) : ~Failure(s[j])
    BY <1>2 DEF HasFirst, n
  <2>2. k \in 1..Len(a) /\ Failure(a[k]) /\ \A j \in 1..(k - 1) : ~Failure(a[j])
    BY <1>1, <2>1
  <2>3. FirstFailure(s) = k /\ FirstFailure(a) = k
    BY <1>1, <2>1, <2>2, FirstIs DEF n
  <2>4. Summary(s) = s[k] /\ Summary(a) = s[k]
    BY <1>1, <2>1, <2>2, <2>3 DEF Summary, n
  <2>5. Merge(s[k], e) = s[k]
    BY <2>1 DEF Merge, NoEvent, Bare, Outcome, Failure
  <2>6. HasFirst(a)
    BY <2>2 DEF HasFirst
  <2>7. QED
    BY <2>4, <2>5, <2>6 DEF a
<1>3. CASE (\A i \in 1..n : ~Failure(s[i])) /\ Failure(e)
  <2>1. /\ n + 1 \in 1..Len(a) /\ Failure(a[n + 1])
        /\ \A j \in 1..((n + 1) - 1) : ~Failure(a[j])
    BY <1>1, <1>3
  <2>2. FirstFailure(a) = n + 1
    BY <1>1, <2>1, FirstIs
  <2>3. Summary(a) = e
    BY <1>1, <2>1, <2>2 DEF Summary
  <2>4. Summary(s).status \notin {"error", "threw"}
    BY <1>3 DEF Summary, NoEvent, Bare, Outcome, n
  <2>5. Merge(Summary(s), e) = e
    BY <1>3, <2>4 DEF Merge, Failure
  <2>6. HasFirst(a)
    BY <2>1 DEF HasFirst
  <2>7. QED
    BY <2>3, <2>5, <2>6 DEF a
<1>4. CASE (\A i \in 1..n : ~Failure(s[i])) /\ ~Failure(e)
  <2>1. \A i \in 1..Len(a) : ~Failure(a[i])
    BY <1>1, <1>4
  <2>2. Summary(a) = Outcome("ok", UNION {a[i].flags : i \in 1..(n + 1)},
                            IF \A i \in 1..(n + 1) : a[i].filename = a[1].filename
                              THEN a[1].filename ELSE "none")
    BY <1>1, <2>1 DEF Summary
  <2>3. HasFirst(a)
    BY <2>1 DEF HasFirst
  <2>4. CASE n = 0
    <3>1. Summary(s) = NoEvent
      BY <1>1, <2>4 DEF Summary
    <3>2. Merge(NoEvent, e) = e
      BY <1>4 DEF Merge
    <3>3. UNION {a[i].flags : i \in 1..(n + 1)} = e.flags
      BY <1>1, <2>4
    <3>4. Summary(a) = Outcome("ok", e.flags, e.filename)
      <4>1. a[1] = e /\ \A i \in 1..(n + 1) : i = 1
        BY <1>1, <2>4
      <4>2. \A i \in 1..(n + 1) : a[i].filename = a[1].filename
        BY <4>1, ZenonT(60)
      <4>3. QED
        BY <2>2, <3>3, <4>1, <4>2, ZenonT(60)
    <3>5. e = Outcome("ok", e.flags, e.filename)
      BY <1>4 DEF Notes, Outcome, Failure
    <3>6. QED
      BY <2>3, <3>1, <3>2, <3>4, <3>5 DEF a
  <2>5. CASE n # 0
    <3> DEFINE flags == UNION {s[i].flags : i \in 1..n}
               name == IF \A i \in 1..n : s[i].filename = s[1].filename
                         THEN s[1].filename ELSE "none"
    <3>1. Summary(s) = Outcome("ok", flags, name)
      BY <1>1, <1>4, <2>5 DEF Summary, n
    <3>2. UNION {a[i].flags : i \in 1..(n + 1)} = flags \cup e.flags
      BY <1>1
    <3>3. (IF \A i \in 1..(n + 1) : a[i].filename = a[1].filename THEN a[1].filename ELSE "none")
            = IF name = e.filename THEN name ELSE "none"
      BY <1>1, <2>5
    <3> HIDE DEF flags, name
    <3>4. Merge(Outcome("ok", flags, name), e)
            = Outcome("ok", flags \cup e.flags, IF name = e.filename THEN name ELSE "none")
      BY <1>4 DEF Merge, Outcome, NoEvent, Bare, Failure
    <3>5. QED
      BY <2>2, <2>3, <3>1, <3>2, <3>3, <3>4, ZenonT(60) DEF a
  <2>6. QED
    BY <2>4, <2>5
<1>5. QED
  BY <1>2, <1>3, <1>4

\* Only the empty list amounts to nothing.
LEMMA SummaryNone ==
  ASSUME NEW s \in Seq(Notes), HasFirst(s), Summary(s) = NoEvent PROVE s = <<>>
<1>1. SUFFICES ASSUME s # <<>> PROVE FALSE
  OBVIOUS
<1>2. CASE \E i \in 1..Len(s) : Failure(s[i])
  <2>1. PICK k \in 1..Len(s) : Failure(s[k]) /\ \A j \in 1..(k - 1) : ~Failure(s[j])
    BY <1>2 DEF HasFirst
  <2>2. Summary(s) = s[k]
    BY <1>1, <2>1, FirstIs DEF Summary
  <2>3. QED
    BY <2>1, <2>2 DEF NoEvent, Bare, Outcome, Failure
<1>3. CASE ~\E i \in 1..Len(s) : Failure(s[i])
  BY <1>1, <1>3 DEF Summary, NoEvent, Bare, Outcome
<1>4. QED
  BY <1>2, <1>3

LEMMA SummaryEmpty == HasFirst(<<>>) /\ Summary(<<>>) = NoEvent
BY DEF HasFirst, Summary

\* A step that is not about the flags.
LEMMA FlagsKept ==
  ASSUME Flags, UNCHANGED <<owner, stop_requested>>,
         close'.completion_active = close.completion_active,
         close'.owner_released = close.owner_released,
         Complete \in On(stack') <=> Complete \in On(stack), Stop \in On(stack') => Stop \in On(stack)
  PROVE  Flags'
BY ZenonT(60) DEF Flags

-----------------------------------------------------------------------------
(* Tasks.                                                                  *)

LEMMA ScheduledKeeps == ASSUME SInv, NEW t \in Tasks, Scheduled(t) PROVE SInv'
<1>1. /\ stack = <<>> /\ task[t] = "ready" /\ task' = [task EXCEPT ![t] = "running"]
      /\ stack' = <<<<"run", t>>>>
      /\ UNCHANGED <<family, awaits, registrations, close, slot, native, resuming, deletions,
                     pending, arrived, unseen>>
  BY DEF Scheduled, cancelVars, eventVars
<1>2. UNCHANGED <<owner, stop_requested>>
  BY ZenonT(60) DEF Scheduled, cancelVars
<1>3. On(stack) = {} /\ stack' \in Seq(Frames) /\ IsInjective(stack') /\ On(stack') = {<<"run", t>>}
  BY <1>1, FrameFacts, OneCall
<1>4. BaseType'
  BY <1>1, <1>3 DEF SInv, BaseType, Notifications
<1>5. Calls'
  BY <1>1, <1>3, FrameFacts, ZenonT(60) DEF SInv, BaseType, Calls
<1>11. Flags'
  BY <1>1, <1>2, <1>3, FrameFacts, FlagsKept DEF SInv
<1>6. Handle'
  BY <1>1, <1>2, <1>3, FrameFacts DEF SInv, Handle
<1>7. Waiters'
  BY <1>1, <1>3, FrameFacts DEF SInv, BaseType, Waiters
<1>8. Consumer'
  BY <1>1 DEF SInv, BaseType, Consumer
<1>9. Deleted' /\ Events'
  BY <1>1, <1>2, <1>3, FrameFacts DEF SInv, Deleted, Events
<1>10. QED
  BY <1>11, <1>4, <1>5, <1>6, <1>7, <1>8, <1>9, ZenonT(60) DEF SInv

LEMMA SuspendsKeeps == ASSUME SInv, NEW t \in Tasks, Suspends(t) PROVE SInv'
<1>1. /\ Top("run", t) /\ task' = [task EXCEPT ![t] = "ready"] /\ stack' = Tail(stack)
      /\ UNCHANGED <<family, awaits, registrations, close, slot, native, resuming, deletions,
                     pending, arrived, unseen>>
  BY DEF Suspends, cancelVars, eventVars
<1>2. UNCHANGED <<owner, stop_requested>>
  BY ZenonT(60) DEF Suspends, cancelVars
<1>3. /\ <<"run", t>> \in On(stack) /\ stack' \in Seq(Frames) /\ IsInjective(stack')
      /\ On(stack') = On(stack) \ {<<"run", t>>}
  BY <1>1, TopFacts
<1>4. task[t] = "running" /\ \A u \in Tasks : task'[u] = IF u = t THEN "ready" ELSE task[u]
  BY <1>1, <1>3 DEF SInv, BaseType, Calls
<1>5. BaseType'
  BY <1>1, <1>3 DEF SInv, BaseType, Notifications
<1>6. Calls'
  BY <1>1, <1>3, <1>4, FrameFacts DEF SInv, Calls
<1>11. Flags'
  BY <1>1, <1>2, <1>3, FrameFacts, FlagsKept DEF SInv
<1>7. Handle'
  BY <1>1, <1>2, <1>3, FrameFacts DEF SInv, Handle
<1>8. Waiters' /\ Consumer'
  BY <1>1, <1>3, <1>4, FrameFacts DEF SInv, Waiters, Consumer
<1>9. Deleted' /\ Events'
  BY <1>1, <1>2, <1>3, FrameFacts DEF SInv, Deleted, Events
<1>10. QED
  BY <1>11, <1>5, <1>6, <1>7, <1>8, <1>9, ZenonT(60) DEF SInv

\* A call of next() that ends at once, with or without the pending outcome.
LEMMA ReturnsKeeps ==
  ASSUME SInv, awaits' \in [Tasks -> 0..MaxAwaits], Returns,
         UNCHANGED <<family, stop_requested, close, owner, resuming, deletions, arrived>>,
         \/ UNCHANGED <<pending, unseen>>
         \/ pending' = NoEvent /\ unseen' = <<>>
  PROVE  SInv'
<1>1. UNCHANGED <<family, registrations, task, stack, native, close, slot, resuming, deletions,
                  arrived>>
  BY DEF Returns
<1>2. UNCHANGED <<owner, stop_requested>>
  OBVIOUS
<1>3. BaseType'
  <2>1. NoEvent \in Outcomes /\ <<>> \in Seq(Notifications)
    BY DEF NoEvent, Outcomes, Bare
  <2>2. Notifications' = Notifications
    BY <1>1 DEF Notifications
  <2>3. QED
    BY <1>1, <2>1, <2>2, ZenonT(60) DEF SInv, BaseType
<1>4. Events'
  <2>1. CASE UNCHANGED <<pending, unseen>>
    BY <1>1, <2>1 DEF SInv, Events
  <2>2. CASE pending' = NoEvent /\ unseen' = <<>>
    BY <1>1, <2>2, SummaryEmpty DEF SInv, Events
  <2>3. QED
    BY <2>1, <2>2
<1>5. Calls' /\ Handle' /\ Waiters' /\ Consumer' /\ Deleted'
  BY <1>1, <1>2 DEF SInv, Calls, Handle, Waiters, Consumer, Deleted
<1>6. Flags'
  BY <1>1, <1>2, FlagsKept DEF SInv
<1>7. QED
  BY <1>3, <1>4, <1>5, <1>6, ZenonT(60) DEF SInv

\* A consumer that suspends: the slot was free and nothing was unseen.
LEMMA ClaimsKeeps ==
  ASSUME SInv, NEW t \in Tasks, Top("run", t), awaits' \in [Tasks -> 0..MaxAwaits], Claims(t),
         close.phase = "open", slot = None, unseen = <<>>,
         native' = (IF family = "poll" THEN "armed" ELSE native),
         family = "process" => native = "armed",
         UNCHANGED <<family, stop_requested, close, owner, resuming, deletions, pending, arrived,
                     unseen>>
  PROVE  SInv'
<1>1. /\ slot' = t /\ t # None /\ task' = [task EXCEPT ![t] = "waiting"] /\ stack' = Tail(stack)
      /\ UNCHANGED <<family, close, resuming, deletions, pending, arrived, unseen>>
  BY SourceAssumption DEF Claims
<1>2. UNCHANGED <<owner, stop_requested>>
  OBVIOUS
<1>3. registrations' = <<t>>
  BY DEF SInv, Consumer, Claims, Registered
<1>4. /\ <<"run", t>> \in On(stack) /\ stack' \in Seq(Frames) /\ IsInjective(stack')
      /\ On(stack') = On(stack) \ {<<"run", t>>}
  BY <1>1, TopFacts
<1>5. task[t] = "running" /\ \A u \in Tasks : task'[u] = IF u = t THEN "waiting" ELSE task[u]
  BY <1>1, <1>4 DEF SInv, BaseType, Calls
<1>6. BaseType'
  BY <1>1, <1>3, <1>4 DEF SInv, BaseType, Notifications
<1>7. Quiesce \notin On(stack) /\ native \in {"armed", "idle", "closing"}
  BY DEF SInv, BaseType, Calls, Handle
<1>8. Calls'
  BY <1>1, <1>4, <1>5, <1>7, FrameFacts DEF SInv, Calls
<1>14. Flags'
  BY <1>1, <1>2, <1>4, FrameFacts, FlagsKept DEF SInv
<1>9. Handle'
  BY <1>1, <1>2, <1>4, FrameFacts DEF SInv, Handle
<1>10. Waiters'
  BY <1>1, <1>4, <1>5, FrameFacts DEF SInv, Waiters
<1>11. Consumer'
  BY <1>1, <1>3, <1>5, SourceAssumption DEF SInv, BaseType, Consumer
<1>12. Deleted' /\ Events'
  BY <1>1, <1>2, <1>4, FrameFacts DEF SInv, Deleted, Events, Consumer
<1>13. QED
  BY <1>14, <1>6, <1>8, <1>9, <1>10, <1>11, <1>12, ZenonT(60) DEF SInv

LEMMA AwaitNextKeeps == ASSUME SInv, NEW t \in Tasks, AwaitNext(t) PROVE SInv'
<1>1. /\ Top("run", t) /\ awaits' \in [Tasks -> 0..MaxAwaits]
      /\ UNCHANGED <<family, close, resuming, deletions, arrived>>
  BY SourceAssumption DEF AwaitNext, SInv, BaseType
<1>2. UNCHANGED <<owner, stop_requested>>
  BY ZenonT(60) DEF AwaitNext
<1>3. CASE Returns /\ UNCHANGED <<pending, unseen>>
  BY <1>1, <1>2, <1>3, ReturnsKeeps
<1>4. CASE Returns /\ ConsumesPending
  BY <1>1, <1>2, <1>4, ReturnsKeeps DEF ConsumesPending
<1>5. CASE /\ close.phase = "open" /\ slot = None /\ Claims(t) /\ UNCHANGED <<pending, unseen>>
           /\ \/ family \in {"signal", "fs_event"} /\ pending = NoEvent /\ native' = native
              \/ family = "poll" /\ native' = "armed"
              \/ family = "process" /\ native = "armed" /\ native' = native
  <2>1. unseen \in Seq(Notes)
    BY NotificationFacts DEF SInv, BaseType
  <2>2. unseen = <<>>
    BY <1>5, <2>1, SummaryNone DEF SInv, Events
  <2>3. QED
    BY <1>1, <1>2, <1>5, <2>2, ClaimsKeeps
<1>6. QED
  BY <1>3, <1>4, <1>5
     DEF AwaitNext, PersistentNext, PollNext, ProcessWait, Exited, IsClosing

-----------------------------------------------------------------------------
(* Deliveries.                                                             *)

\* The consumer is unregistered and runs on top of the caller.
LEMMA DeliversFacts ==
  ASSUME SInv, slot # None, NEW tasks \in [Tasks -> {"ready", "running", "waiting", "closing"}],
         NEW below \in Seq(Frames), IsInjective(below), <<"run", slot>> \notin On(below),
         Delivers(slot, tasks, below)
  PROVE  /\ slot \in Tasks /\ registrations' = <<>>
         /\ task' \in [Tasks -> {"ready", "running", "waiting", "closing"}]
         /\ \A u \in Tasks : task'[u] = IF u = slot THEN "running" ELSE tasks[u]
         /\ stack' \in Seq(Frames) /\ IsInjective(stack')
         /\ On(stack') = On(below) \cup {<<"run", slot>>}
<1>1. slot \in Tasks /\ registrations = <<slot>>
  BY DEF SInv, BaseType, Consumer
<1>2. registrations' = <<>>
  BY <1>1, UnregisterOnly DEF Delivers
<1>3. /\ stack' \in Seq(Frames) /\ IsInjective(stack')
      /\ On(stack') = On(below) \cup {<<"run", slot>>}
  <2>1. stack' = <<<<"run", slot>>>> \o below /\ <<"run", slot>> \in Frames
    BY <1>1, FrameFacts DEF Delivers
  <2>2. QED
    BY <2>1, PushCall, ZenonT(60)
<1>4. QED
  BY <1>1, <1>2, <1>3, ZenonT(60) DEF Delivers

LEMMA NotifyKeeps == ASSUME SInv, NEW event \in Notifications, Notify(event) PROVE SInv'
<1>1. /\ family # "process" /\ stack = <<>> /\ native = "armed" /\ close.phase = "open"
      /\ arrived' \in 0..MaxEvents /\ native' = IF family = "poll" THEN "idle" ELSE native
      /\ UNCHANGED <<family, awaits, close, resuming, deletions>>
  BY SourceAssumption DEF Notify, NativeAfterDelivery, IsOpen, SInv, BaseType
<1>2. UNCHANGED <<owner, stop_requested>>
  BY ZenonT(60) DEF Notify
<1>3. On(stack) = {} /\ stack \in Seq(Frames) /\ IsInjective(stack)
  BY <1>1, OneCall, FrameFacts, ZenonT(60) DEF SInv, BaseType, Calls
<1>4. CASE slot # None
  <2>1. slot' = None /\ Delivers(slot, task, <<>>) /\ UNCHANGED <<pending, unseen>>
    BY <1>4 DEF Notify, SlotAfterDelivery
  <2>2. /\ slot \in Tasks /\ registrations' = <<>>
        /\ task' \in [Tasks -> {"ready", "running", "waiting", "closing"}]
        /\ \A u \in Tasks : task'[u] = IF u = slot THEN "running" ELSE task[u]
        /\ stack' \in Seq(Frames) /\ IsInjective(stack') /\ On(stack') = {<<"run", slot>>}
    BY <1>1, <1>3, <1>4, <2>1, DeliversFacts, ZenonT(60) DEF SInv, BaseType
  <2>3. BaseType'
    BY <1>1, <2>1, <2>2 DEF SInv, BaseType, Notifications
  <2>4. Flags'
    BY <1>1, <1>2, <1>3, <2>2, FrameFacts, FlagsKept DEF SInv
  <2>5. Calls'
    BY <1>1, <1>3, <2>2, FrameFacts, ZenonT(60) DEF SInv, Calls
  <2>6. Handle'
    BY <1>1, <1>2, <2>2, FrameFacts DEF SInv, Handle
  <2>7. Waiters'
    BY <1>1, <1>3, <2>2, FrameFacts DEF SInv, Waiters, Consumer
  <2>8. Consumer'
    BY <1>1, <2>1, <2>2, SourceAssumption DEF SInv, Consumer, BaseType
  <2>9. Deleted' /\ Events'
    BY <1>1, <1>2, <1>3, <2>1, <2>2, FrameFacts DEF SInv, Deleted, Events
  <2>10. QED
    BY <2>3, <2>4, <2>5, <2>6, <2>7, <2>8, <2>9, ZenonT(60) DEF SInv
<1>5. CASE slot = None
  <2>1. family \in {"signal", "fs_event"}
    BY <1>1, <1>5 DEF SInv, BaseType, Consumer
  <2>2. /\ pending' = Merge(pending, event) /\ unseen' = Append(unseen, event) /\ native' = native
        /\ UNCHANGED <<slot, registrations, task, stack>>
    BY <1>1, <1>5, <2>1 DEF Notify
  <2>3. unseen \in Seq(Notes) /\ event \in Notes /\ unseen' \in Seq(Notifications)
    BY <2>2, NotificationFacts DEF SInv, BaseType
  <2>4. HasFirst(unseen') /\ Summary(unseen') = pending' /\ pending' \in Outcomes
    BY <1>1, <2>2, <2>3, SummaryAppend, MergeType DEF SInv, Events, BaseType
  <2>5. BaseType'
    BY <1>1, <2>2, <2>3, <2>4 DEF SInv, BaseType, Notifications
  <2>6. Flags'
    BY <1>1, <1>2, <2>2, FlagsKept DEF SInv
  <2>7. Events'
    BY <1>5, <2>1, <2>2, <2>4, <1>1 DEF Events
  <2>8. Calls' /\ Handle' /\ Waiters' /\ Consumer' /\ Deleted'
    BY <1>1, <1>2, <2>2 DEF SInv, Calls, Handle, Waiters, Consumer, Deleted
  <2>9. QED
    BY <2>5, <2>6, <2>7, <2>8, ZenonT(60) DEF SInv
<1>6. QED
  BY <1>4, <1>5

LEMMA ProcessExitsKeeps == ASSUME SInv, ProcessExits PROVE SInv'
<1>1. /\ family = "process" /\ stack = <<>> /\ native = "armed" /\ close.phase = "open"
      /\ arrived = 0 /\ arrived' \in 0..MaxEvents /\ unseen = <<>>
      /\ pending' = Bare("ok") /\ unseen' = <<Bare("ok")>> /\ slot' = None
      /\ UNCHANGED <<family, awaits, resuming, deletions>>
  BY SourceAssumption DEF ProcessExits, SInv, Events, Consumer, SlotAfterDelivery
<1>2. UNCHANGED <<owner, stop_requested>>
  BY ZenonT(60) DEF ProcessExits
<1>3. On(stack) = {} /\ stack \in Seq(Frames) /\ IsInjective(stack) /\ close \in CloseStates(Tasks)
  BY <1>1, OneCall, FrameFacts, ZenonT(60) DEF SInv, BaseType, Calls
<1>4. /\ close' \in CloseStates(Tasks) /\ close'.phase \in {"open", "closing"}
      /\ close'.waiters = close.waiters /\ close'.callback_waiter = close.callback_waiter
      /\ close'.phase = "open" => native' = "idle"
      /\ close'.phase = "closing" => native' = "closing"
  BY <1>1, <1>3, CloseFacts DEF ProcessExits
<1>5. /\ close'.completion_active = close.completion_active
      /\ close'.owner_released = close.owner_released
  BY <1>3, CloseFacts, ZenonT(60) DEF ProcessExits
<1>6. /\ registrations' = <<>> /\ task' \in [Tasks -> {"ready", "running", "waiting", "closing"}]
      /\ \A u \in Tasks : task'[u] = IF u = slot THEN "running" ELSE task[u]
      /\ stack' \in Seq(Frames) /\ IsInjective(stack')
      /\ On(stack') = {<<"run", u>> : u \in {slot} \ {None}}
  <2>1. CASE slot # None
    <3>1. Delivers(slot, task, <<>>)
      BY <2>1 DEF ProcessExits
    <3>2. /\ slot \in Tasks /\ registrations' = <<>>
          /\ task' \in [Tasks -> {"ready", "running", "waiting", "closing"}]
          /\ \A u \in Tasks : task'[u] = IF u = slot THEN "running" ELSE task[u]
          /\ stack' \in Seq(Frames) /\ IsInjective(stack') /\ On(stack') = {<<"run", slot>>}
      BY <1>1, <1>3, <2>1, <3>1, DeliversFacts, ZenonT(60) DEF SInv, BaseType
    <3>3. QED
      BY <2>1, <3>2
  <2>2. CASE slot = None
    BY <1>3, <2>2, SourceAssumption DEF ProcessExits, SInv, Consumer, BaseType
  <2>3. QED
    BY <2>1, <2>2
<1>7. /\ \A t \in Tasks : <<"run", t>> \in On(stack') <=> t = slot
      /\ Quiesce \notin On(stack') /\ Complete \notin On(stack') /\ Stop \notin On(stack')
  BY <1>6, FrameFacts, SourceAssumption
<1>8. BaseType'
  <2>1. pending' \in Outcomes /\ unseen' \in Seq(Notifications) /\ native' \in {"idle", "closing"}
    <3>1. Bare("ok") \in Outcomes /\ Bare("ok") \in Notifications
      BY <1>1 DEF Outcomes, Notifications, Bare
    <3>2. QED
      BY <1>1, <1>4, <3>1
  <2>2. Notifications' = Notifications
    BY <1>1 DEF Notifications
  <2>3. QED
    BY <1>1, <1>4, <1>6, <2>1, <2>2 DEF SInv, BaseType
<1>9. Flags'
  BY <1>2, <1>3, <1>5, <1>7, FlagsKept, ZenonT(60) DEF SInv
<1>10. Calls'
  BY <1>1, <1>3, <1>6, <1>7, ZenonT(60) DEF SInv, Calls
<1>11. Handle'
  BY <1>1, <1>4 DEF Handle
<1>12. Waiters'
  BY <1>1, <1>3, <1>4, <1>6 DEF SInv, Waiters, Consumer
<1>13. Consumer'
  BY <1>1, <1>4, <1>6, SourceAssumption DEF SInv, Consumer
<1>14. Deleted'
  BY <1>1, <1>7 DEF SInv, Deleted
<1>15. Events'
  <2>1. unseen' = Append(<<>>, Bare("ok")) /\ <<>> \in Seq(Notes) /\ Bare("ok") \in Notes
    BY <1>1 DEF Notes, Bare, Outcome, Failure
  <2>2. HasFirst(unseen') /\ Summary(unseen') = Merge(NoEvent, Bare("ok"))
    BY <2>1, SummaryAppend, SummaryEmpty, ZenonT(60)
  <2>3. Merge(NoEvent, Bare("ok")) = Bare("ok")
    BY DEF Merge, NoEvent, Bare, Outcome, Failure
  <2>4. QED
    BY <1>1, <1>4, <2>2, <2>3 DEF Events
<1>16. QED
  BY <1>8, <1>9, <1>10, <1>11, <1>12, <1>13, <1>14, <1>15, ZenonT(60) DEF SInv

-----------------------------------------------------------------------------
(* Close.                                                                  *)

\* The beginning of a close, by request_close, close() or the destructor: each
\* leaves the record, the tasks and the calls below it in a state of its own.
LEMMA BeginKeeps ==
  ASSUME SInv, owner, close.phase = "open", MayClose,
         NEW state \in CloseStates(Tasks), state.phase = "open", state.callback_waiter = <<>>,
         IsInjective(state.waiters), state.completion_active = close.completion_active,
         owner' \in BOOLEAN, state.owner_released <=> ~owner',
         NEW tasks \in [Tasks -> {"ready", "running", "waiting", "closing"}],
         \A t \in Tasks : tasks[t] = "waiting" <=> slot = t,
         \A t \in Tasks : tasks[t] = "closing" <=> t \in On(state.waiters),
         NEW below \in Seq(Frames), IsInjective(below),
         \A t \in Tasks : <<"run", t>> \in On(below) <=> tasks[t] = "running",
         \A f \in {Quiesce, Complete, Stop} : f \in On(below) <=> f \in On(stack),
         BeginsClose(state, tasks, below), awaits' \in [Tasks -> 0..MaxAwaits],
         UNCHANGED <<family, stop_requested, resuming, deletions, pending, arrived, unseen>>
  PROVE  SInv'
<1>1. Quiesce \notin On(stack) /\ Complete \notin On(stack) /\ resuming = <<>> /\ deletions = 0
  <2>1. Quiesce \notin On(stack) /\ Complete \notin On(stack)
    BY DEF SInv, Calls
  <2>2. resuming = <<>>
    BY <2>1 DEF SInv, Waiters
  <2>3. deletions = 0
    BY DEF SInv, Deleted
  <2>4. QED
    BY <2>1, <2>2, <2>3
<1>2. Quiesce \notin On(below) /\ Complete \notin On(below)
  BY <1>1, ZenonT(60)
<1>3. /\ close' = Begun(state) /\ close' \in CloseStates(Tasks) /\ close'.phase = "closing"
      /\ close'.waiters = state.waiters /\ close'.callback_waiter = <<>>
  <2>1. close' = Begun(state)
    BY DEF BeginsClose, SourceCloses, ProcessCloses
  <2>2. QED
    BY <2>1, CloseFacts, ZenonT(60)
<1>4. /\ close'.completion_active = close.completion_active
      /\ close'.owner_released = state.owner_released
  BY <1>3, CloseFacts, ZenonT(60)
<1>5. /\ slot' = None /\ registrations' = <<>>
      /\ task' \in [Tasks -> {"ready", "running", "waiting", "closing"}]
      /\ \A t \in Tasks : task'[t] = IF t = slot THEN "running" ELSE tasks[t]
      /\ stack' \in Seq(Frames) /\ IsInjective(stack')
      /\ \A t \in Tasks : <<"run", t>> \in On(stack') <=> <<"run", t>> \in On(below) \/ t = slot
      /\ Quiesce \in On(stack') <=> family # "process"
      /\ Complete \notin On(stack') /\ (Stop \in On(stack') <=> Stop \in On(stack))
      /\ native' = IF family = "process" THEN "closing" ELSE "idle"
  <2>1. CASE family = "process"
    <3>1. /\ task' = tasks /\ stack' = below /\ native' = "closing"
          /\ UNCHANGED <<slot, registrations>>
      BY <2>1 DEF BeginsClose, ProcessCloses
    <3>2. slot = None /\ registrations = <<>>
      BY <2>1 DEF SInv, Consumer, MayClose, Exited
    <3>3. QED
      BY <1>2, <2>1, <3>1, <3>2, SourceAssumption
  <2>2. CASE family # "process"
    <3> DEFINE q == <<Quiesce>> \o below
    <3>1. q \in Seq(Frames) /\ IsInjective(q) /\ On(q) = On(below) \cup {Quiesce}
      BY <1>2, EnterFrame, FrameFacts
    <3>2. slot' = None /\ native' = "idle"
      BY <2>2 DEF BeginsClose, SourceCloses
    <3>3. CASE slot # None
      <4>1. Delivers(slot, tasks, q)
        BY <2>2, <3>3 DEF BeginsClose, SourceCloses, Quiesce
      <4> HIDE DEF q
      <4>2. slot \in Tasks /\ <<"run", slot>> \notin On(q)
        BY <3>1, <3>3, FrameFacts DEF SInv, BaseType
      <4>3. /\ registrations' = <<>>
            /\ task' \in [Tasks -> {"ready", "running", "waiting", "closing"}]
            /\ \A u \in Tasks : task'[u] = IF u = slot THEN "running" ELSE tasks[u]
            /\ stack' \in Seq(Frames) /\ IsInjective(stack')
            /\ On(stack') = On(q) \cup {<<"run", slot>>}
        BY <3>1, <3>3, <4>1, <4>2, DeliversFacts, ZenonT(60)
      <4>4. QED
        BY <1>2, <2>2, <3>1, <3>2, <4>2, <4>3, FrameFacts
    <3>4. CASE slot = None
      <4>1. task' = tasks /\ stack' = q /\ registrations' = registrations
        BY <2>2, <3>4 DEF BeginsClose, SourceCloses, Quiesce
      <4> HIDE DEF q
      <4>2. registrations = <<>>
        BY <3>4 DEF SInv, Consumer
      <4>3. QED
        BY <1>2, <2>2, <3>1, <3>2, <3>4, <4>1, <4>2, FrameFacts, SourceAssumption
    <3>5. QED
      BY <3>3, <3>4
  <2>3. QED
    BY <2>1, <2>2
<1>6. BaseType'
  BY <1>3, <1>5 DEF SInv, BaseType, Notifications
<1>7. Flags'
  BY <1>1, <1>4, <1>5, ZenonT(60) DEF SInv, Flags
<1>8. Calls'
  BY <1>3, <1>5 DEF Calls
<1>9. Handle'
  BY <1>3, <1>5 DEF Handle
<1>10. Waiters'
  BY <1>1, <1>3, <1>5, OneCall, ZenonT(60) DEF SInv, Waiters
<1>11. Consumer'
  BY <1>3, <1>5, SourceAssumption DEF Consumer
<1>12. Deleted' /\ Events'
  BY <1>1, <1>3, <1>5 DEF SInv, Deleted, Events
<1>13. QED
  BY <1>6, <1>7, <1>8, <1>9, <1>10, <1>11, <1>12, ZenonT(60) DEF SInv

LEMMA RequestCloseKeeps == ASSUME SInv, RequestClose PROVE SInv'
<1>1. /\ close.phase = "open" /\ MayClose /\ BeginsClose(close, task, stack)
      /\ UNCHANGED <<family, awaits, resuming, deletions, pending, arrived, unseen>>
  BY DEF RequestClose, IsOpen, eventVars
<1>2. owner /\ UNCHANGED <<owner, stop_requested>>
  BY ZenonT(60) DEF RequestClose
<1>3. resuming = <<>> /\ On(resuming) = {} /\ close.callback_waiter = <<>> /\ IsInjective(close.waiters)
  BY <1>1, OneCall, ZenonT(60) DEF SInv, Calls, Waiters
<1>4. \A t \in Tasks : task[t] = "closing" <=> t \in On(close.waiters)
  BY <1>3 DEF SInv, Waiters
<1>5. owner' \in BOOLEAN /\ (close.owner_released <=> ~owner')
  BY <1>2, ZenonT(60) DEF SInv, Flags
<1>6. /\ \A t \in Tasks : task[t] = "waiting" <=> slot = t
      /\ \A t \in Tasks : <<"run", t>> \in On(stack) <=> task[t] = "running"
      /\ IsInjective(stack)
  BY DEF SInv, Consumer, Calls
<1>7. /\ close \in CloseStates(Tasks) /\ stack \in Seq(Frames)
      /\ task \in [Tasks -> {"ready", "running", "waiting", "closing"}]
      /\ awaits' \in [Tasks -> 0..MaxAwaits]
  BY <1>1 DEF SInv, BaseType
<1>8. QED
  BY <1>1, <1>2, <1>3, <1>4, <1>5, <1>6, <1>7, BeginKeeps

\* A task that awaits the close: it leaves its call and is on the list.
LEMMA AwaitCloseKeeps == ASSUME SInv, NEW t \in Tasks, AwaitClose(t) PROVE SInv'
<1>1. /\ Top("run", t) /\ awaits' \in [Tasks -> 0..MaxAwaits]
      /\ UNCHANGED <<family, resuming, deletions, pending, arrived, unseen>>
  BY SourceAssumption DEF AwaitClose, SInv, BaseType, eventVars
<1>2. owner /\ UNCHANGED <<owner, stop_requested>>
  BY ZenonT(60) DEF AwaitClose
<1>3. /\ <<"run", t>> \in On(stack) /\ Tail(stack) \in Seq(Frames) /\ IsInjective(Tail(stack))
      /\ On(Tail(stack)) = On(stack) \ {<<"run", t>>}
  BY <1>1, TopFacts
<1>4. /\ task[t] = "running" /\ close \in CloseStates(Tasks)
      /\ task \in [Tasks -> {"ready", "running", "waiting", "closing"}]
      /\ close.callback_waiter = <<>> /\ close.waiters \in Seq(Tasks) /\ t \notin On(close.waiters)
      /\ IsInjective(close.waiters)
  BY <1>3, CloseFacts, ZenonT(60) DEF SInv, BaseType, Calls, Waiters
<1> DEFINE state == WithWaiter(close, t)
           tasks == [task EXCEPT ![t] = "closing"]
<1>5. /\ state \in CloseStates(Tasks) /\ state.phase = close.phase
      /\ state.callback_waiter = <<>>
      /\ IsInjective(state.waiters) /\ On(state.waiters) = On(close.waiters) \cup {t}
  BY <1>4, NewWaiterFacts
<1>6. /\ state.owner_released = close.owner_released
      /\ state.completion_active = close.completion_active
  BY <1>4, WaiterFacts, ZenonT(60)
<1>7. /\ tasks \in [Tasks -> {"ready", "running", "waiting", "closing"}]
      /\ \A u \in Tasks : tasks[u] = IF u = t THEN "closing" ELSE task[u]
  BY <1>4
<1> HIDE DEF state, tasks
<1>8. CASE UNCHANGED <<task, stack, registrations, close, native, slot>>
  <2>1. UNCHANGED <<task, stack, registrations, close, native, slot>>
    BY <1>8
  <2>2. BaseType'
    BY <1>1, <2>1 DEF SInv, BaseType, Notifications
  <2>3. Flags'
    BY <1>2, <2>1, FlagsKept DEF SInv
  <2>4. Calls' /\ Handle' /\ Waiters' /\ Consumer' /\ Deleted' /\ Events'
    BY <1>1, <1>2, <2>1 DEF SInv, Calls, Handle, Waiters, Consumer, Deleted, Events
  <2>5. QED
    BY <2>2, <2>3, <2>4, ZenonT(60) DEF SInv
<1>9. CASE /\ close.phase = "closing" /\ close' = state /\ task' = tasks /\ stack' = Tail(stack)
           /\ UNCHANGED <<registrations, native, slot>>
  <2>1. /\ close.phase = "closing" /\ close' = state /\ task' = tasks /\ stack' = Tail(stack)
        /\ UNCHANGED <<registrations, native, slot>>
    BY <1>9
  <2>2. BaseType'
    BY <1>1, <1>3, <1>5, <1>7, <2>1 DEF SInv, BaseType, Notifications
  <2>3. Flags'
    BY <1>2, <1>3, <1>6, <2>1, FrameFacts, FlagsKept DEF SInv
  <2>4. Calls'
    BY <1>1, <1>3, <1>4, <1>5, <1>7, <2>1, FrameFacts DEF SInv, Calls
  <2>5. Handle'
    BY <1>1, <1>3, <1>5, <2>1, FrameFacts DEF SInv, Handle
  <2>6. Waiters'
    BY <1>1, <1>3, <1>5, <1>7, <2>1, FrameFacts, ZenonT(60) DEF SInv, Waiters
  <2>7. Consumer'
    BY <1>1, <1>4, <1>5, <1>7, <2>1 DEF SInv, Consumer
  <2>8. Deleted' /\ Events'
    BY <1>1, <1>2, <1>3, <1>5, <2>1, FrameFacts DEF SInv, Deleted, Events
  <2>9. QED
    BY <2>2, <2>3, <2>4, <2>5, <2>6, <2>7, <2>8, ZenonT(60) DEF SInv
<1>10. CASE close.phase = "open" /\ MayClose /\ BeginsClose(state, tasks, Tail(stack))
  <2>1. close.phase = "open" /\ MayClose /\ BeginsClose(state, tasks, Tail(stack))
    BY <1>10
  <2>2. resuming = <<>> /\ On(resuming) = {}
    BY <2>1, OneCall, ZenonT(60) DEF SInv, Calls, Waiters
  <2>3. \A u \in Tasks : tasks[u] = "closing" <=> u \in On(state.waiters)
    BY <1>5, <1>7, <2>2 DEF SInv, Waiters
  <2>4. owner' \in BOOLEAN /\ (state.owner_released <=> ~owner')
    BY <1>2, <1>6, ZenonT(60) DEF SInv, Flags
  <2>5. /\ \A u \in Tasks : tasks[u] = "waiting" <=> slot = u
        /\ \A u \in Tasks : <<"run", u>> \in On(Tail(stack)) <=> tasks[u] = "running"
        /\ \A f \in {Quiesce, Complete, Stop} : f \in On(Tail(stack)) <=> f \in On(stack)
    BY <1>3, <1>4, <1>7, FrameFacts DEF SInv, Consumer, Calls
  <2>6. QED
    BY <1>1, <1>2, <1>3, <1>5, <1>6, <1>7, <2>1, <2>3, <2>4, <2>5, BeginKeeps, ZenonT(60)
<1>11. QED
  BY <1>8, <1>9, <1>10 DEF AwaitClose, IsOpen, state, tasks

LEMMA QuiesceReturnsKeeps == ASSUME SInv, QuiesceReturns PROVE SInv'
<1>1. /\ Top("quiesce", None) /\ native' = "closing" /\ stack' = Tail(stack)
      /\ pending' \in {NoEvent, pending}
      /\ UNCHANGED <<family, task, awaits, registrations, close, slot, resuming, deletions, arrived,
                     unseen>>
  BY DEF QuiesceReturns, taskVars, cancelVars
<1>2. UNCHANGED <<owner, stop_requested>>
  BY ZenonT(60) DEF QuiesceReturns, cancelVars
<1>3. /\ Quiesce \in On(stack) /\ stack' \in Seq(Frames) /\ IsInjective(stack')
      /\ On(stack') = On(stack) \ {Quiesce}
  BY <1>1, TopFacts DEF Quiesce
<1>4. close.phase = "closing" /\ native = "idle" /\ family # "process"
  BY <1>3 DEF SInv, Calls
<1>5. BaseType'
  <2>1. NoEvent \in Outcomes
    BY DEF NoEvent, Outcomes
  <2>2. QED
    BY <1>1, <1>3, <2>1 DEF SInv, BaseType, Notifications
<1>6. Flags'
  BY <1>1, <1>2, <1>3, FrameFacts, FlagsKept DEF SInv
<1>7. Calls'
  BY <1>1, <1>3, FrameFacts DEF SInv, Calls
<1>8. Handle'
  BY <1>1, <1>4 DEF Handle
<1>9. Waiters'
  BY <1>1, <1>3, FrameFacts DEF SInv, Waiters
<1>10. Consumer'
  BY <1>1, <1>4 DEF SInv, Consumer
<1>11. Deleted' /\ Events'
  BY <1>1, <1>2, <1>3, <1>4, FrameFacts DEF SInv, Deleted, Events
<1>12. QED
  BY <1>5, <1>6, <1>7, <1>8, <1>9, <1>10, <1>11, ZenonT(60) DEF SInv

\* The owner of a state that does not begin to close here: its close has begun, or
\* waits for the exit of the process.
LEMMA ReleaseKeeps ==
  ASSUME SInv, owner, Complete \in On(stack) => family \in ReleasedInCompletion, owner' = FALSE,
         close' = OwnerReleased(close),
         deletions' = deletions + (IF DestroysNow(OwnerReleased(close)) THEN 1 ELSE 0),
         UNCHANGED <<family, stop_requested, awaits, resuming, pending, arrived, unseen, stack, task,
                     registrations, native, slot>>
  PROVE  SInv'
<1>1. /\ close \in CloseStates(Tasks) /\ close' \in CloseStates(Tasks) /\ close'.phase = close.phase
      /\ close'.waiters = close.waiters /\ close'.callback_waiter = close.callback_waiter
  BY ReleasedFacts, ZenonT(60) DEF SInv, BaseType
<1>2. close'.completion_active = close.completion_active /\ close'.owner_released
  BY <1>1, ReleasedFacts, ZenonT(60)
<1>3. BaseType'
  BY <1>1 DEF SInv, BaseType, Notifications
<1>4. Flags'
  BY <1>2, ZenonT(60) DEF SInv, Flags
<1>5. Calls' /\ Handle' /\ Waiters' /\ Consumer' /\ Events'
  BY <1>1 DEF SInv, Calls, Handle, Waiters, Consumer, Events
<1>6. Deleted'
  <2>1. deletions = 0
    BY DEF SInv, Deleted
  <2>2. DestroysNow(OwnerReleased(close)) =>
          close.phase = "closed" /\ (Complete \in On(stack) => family = "process")
    <3>1. Complete \in On(stack) <=> close'.completion_active
      BY <1>2, ZenonT(60) DEF SInv, Flags
    <3>2. DestroysNow(close') => close'.phase = "closed" /\ (family # "process" => ~close'.completion_active)
      BY ZenonT(60) DEF DestroysNow, IsClosed, CanDestroyNow
    <3>3. QED
      BY <1>1, <3>1, <3>2, ZenonT(60)
  <2>3. CASE DestroysNow(OwnerReleased(close))
    BY <1>1, <2>1, <2>2, <2>3 DEF Deleted
  <2>4. CASE ~DestroysNow(OwnerReleased(close))
    BY <2>1, <2>4 DEF Deleted
  <2>5. QED
    BY <2>3, <2>4
<1>7. QED
  BY <1>3, <1>4, <1>5, <1>6, ZenonT(60) DEF SInv

LEMMA DestroyOwnerKeeps == ASSUME SInv, DestroyOwner PROVE SInv'
<1>1. UNCHANGED <<family, awaits, resuming, pending, arrived, unseen>>
  BY DEF DestroyOwner, eventVars
<1>2. owner /\ owner' = FALSE /\ stop_requested' = stop_requested
  BY ZenonT(60) DEF DestroyOwner
<1>3. close \in CloseStates(Tasks) /\ stack \in Seq(Frames)
  BY DEF SInv, BaseType
<1>4. CASE close.phase = "open" /\ MayClose
  <2>1. BeginsClose(OwnerReleased(close), task, stack) /\ deletions' = deletions
    BY <1>4 DEF DestroyOwner, IsOpen
  <2>2. resuming = <<>> /\ On(resuming) = {}
    BY <1>4, OneCall, ZenonT(60) DEF SInv, Calls, Waiters
  <2>3. /\ OwnerReleased(close) \in CloseStates(Tasks) /\ OwnerReleased(close).phase = "open"
        /\ OwnerReleased(close).callback_waiter = <<>>
        /\ OwnerReleased(close).waiters = close.waiters
    BY <1>3, <1>4, ReleasedFacts, ZenonT(60) DEF SInv, Waiters
  <2>4. /\ OwnerReleased(close).owner_released
        /\ OwnerReleased(close).completion_active = close.completion_active
    BY <1>3, ReleasedFacts, ZenonT(60)
  <2>5. owner' \in BOOLEAN /\ (OwnerReleased(close).owner_released <=> ~owner')
    BY <1>2, <2>4, ZenonT(60)
  <2>6. /\ \A t \in Tasks : task[t] = "closing" <=> t \in On(OwnerReleased(close).waiters)
        /\ IsInjective(OwnerReleased(close).waiters)
    BY <2>2, <2>3, ZenonT(60) DEF SInv, Waiters
  <2>7. /\ \A t \in Tasks : task[t] = "waiting" <=> slot = t
        /\ \A t \in Tasks : <<"run", t>> \in On(stack) <=> task[t] = "running"
        /\ IsInjective(stack)
    BY DEF SInv, Consumer, Calls
  <2>8. /\ task \in [Tasks -> {"ready", "running", "waiting", "closing"}]
        /\ awaits' \in [Tasks -> 0..MaxAwaits]
    BY <1>1 DEF SInv, BaseType
  <2>9. QED
    BY <1>1, <1>2, <1>3, <1>4, <2>1, <2>3, <2>4, <2>5, <2>6, <2>7, <2>8, BeginKeeps, ZenonT(60)
<1>5. CASE ~(close.phase = "open" /\ MayClose)
  <2>1. /\ close' = OwnerReleased(close)
        /\ deletions' = deletions + (IF DestroysNow(OwnerReleased(close)) THEN 1 ELSE 0)
        /\ UNCHANGED <<stack, task, registrations, native, slot>>
    BY <1>5 DEF DestroyOwner, IsOpen
  <2>2. Complete \in On(stack) => family \in ReleasedInCompletion
    BY <1>3, RangeIsOn DEF DestroyOwner, OnStack, Complete
  <2>3. QED
    BY <1>1, <1>2, <2>1, <2>2, ReleaseKeeps, ZenonT(60)
<1>6. QED
  BY <1>4, <1>5

LEMMA OnCloseKeeps == ASSUME SInv, OnClose PROVE SInv'
<1>1. /\ stack = <<>> /\ native = "closing" /\ native' = "closed" /\ close' = Completing(close)
      /\ resuming' = DetachedWaiters(close) /\ stack' = <<Complete>>
      /\ UNCHANGED <<family, task, awaits, registrations, slot, deletions, pending, arrived, unseen>>
  BY DEF OnClose, taskVars, cancelVars, eventVars, Complete
<1>2. UNCHANGED <<owner, stop_requested>>
  BY ZenonT(60) DEF OnClose, cancelVars
<1>3. On(stack) = {} /\ stack' \in Seq(Frames) /\ IsInjective(stack') /\ On(stack') = {Complete}
  BY <1>1, FrameFacts, OneCall
<1>4. /\ close \in CloseStates(Tasks) /\ close.callback_waiter = <<>> /\ close.waiters \in Seq(Tasks)
      /\ resuming = <<>> /\ IsInjective(close.waiters)
  BY <1>3, CloseFacts, ZenonT(60) DEF SInv, BaseType, Waiters
<1>5. /\ close' \in CloseStates(Tasks) /\ close'.phase = "closed" /\ close'.waiters = <<>>
      /\ close'.callback_waiter = <<>> /\ resuming' = close.waiters
  BY <1>1, <1>4, CompletionFacts
<1>6. close'.completion_active /\ close'.owner_released = close.owner_released
  BY <1>1, <1>4, CompletionFacts, ZenonT(60)
<1>7. slot = None /\ deletions = 0
  BY <1>1 DEF SInv, Handle, Consumer, Deleted
<1>8. BaseType'
  BY <1>1, <1>3, <1>4, <1>5 DEF SInv, BaseType, Notifications
<1>9. Flags'
  BY <1>2, <1>3, <1>6, FrameFacts, ZenonT(60) DEF SInv, Flags
<1>10. Calls'
  BY <1>1, <1>3, <1>5, FrameFacts DEF SInv, Calls
<1>11. Handle'
  BY <1>1, <1>5 DEF Handle
<1>12. Waiters'
  <2>1. On(resuming) = {} /\ On(close'.waiters) = {} /\ IsInjective(close'.waiters)
    BY <1>4, <1>5, OneCall, ZenonT(60)
  <2>2. QED
    BY <1>1, <1>3, <1>4, <1>5, <2>1 DEF SInv, Waiters
<1>13. Consumer' /\ Deleted' /\ Events'
  BY <1>1, <1>2, <1>3, <1>5, <1>7, SourceAssumption DEF SInv, Consumer, Deleted, Events
<1>14. QED
  BY <1>8, <1>9, <1>10, <1>11, <1>12, <1>13, ZenonT(60) DEF SInv

LEMMA CompleteNextKeeps == ASSUME SInv, CompleteNext PROVE SInv'
<1> DEFINE h == Head(resuming)
<1>1. /\ Top("complete", None) /\ resuming # <<>> /\ task' = [task EXCEPT ![h] = "running"]
      /\ UNCHANGED <<family, awaits, registrations, close, slot, native, deletions, pending, arrived,
                     unseen>>
  BY DEF CompleteNext, cancelVars, eventVars
<1>2. UNCHANGED <<owner, stop_requested>>
  BY ZenonT(60) DEF CompleteNext, cancelVars
<1>3. Complete \in On(stack) /\ stack \in Seq(Frames) /\ IsInjective(stack)
  BY <1>1, TopFacts DEF SInv, BaseType, Calls, Complete
<1>4. /\ resuming \in Seq(Tasks) /\ h \in Tasks /\ h \in On(resuming) /\ resuming' \in Seq(Tasks)
      /\ IsInjective(resuming') /\ On(resuming') = On(resuming) \ {h}
  BY <1>1, PopFacts DEF CompleteNext, SInv, BaseType, Waiters
<1>17. stack' = <<<<"run", h>>>> \o stack
  BY DEF CompleteNext
<1> HIDE DEF h
<1>5. close.phase = "closed" /\ close.waiters = <<>> /\ On(close.waiters) = {}
  BY <1>3, OneCall, ZenonT(60) DEF SInv, Calls, Waiters
<1>6. task[h] = "closing" /\ \A u \in Tasks : task'[u] = IF u = h THEN "running" ELSE task[u]
  BY <1>1, <1>4 DEF SInv, BaseType, Waiters
<1>7. <<"run", h>> \notin On(stack)
  BY <1>4, <1>6 DEF SInv, Calls
<1>8. /\ stack' \in Seq(Frames) /\ IsInjective(stack') /\ On(stack') = On(stack) \cup {<<"run", h>>}
  BY <1>3, <1>4, <1>7, <1>17, EnterFrame, FrameFacts, ZenonT(60)
<1>9. BaseType'
  BY <1>1, <1>4, <1>8 DEF SInv, BaseType, Notifications
<1>10. Flags'
  BY <1>1, <1>2, <1>8, FrameFacts, FlagsKept DEF SInv
<1>11. Calls'
  BY <1>1, <1>4, <1>6, <1>8, FrameFacts DEF SInv, Calls
<1>12. Handle'
  BY <1>1, <1>2, <1>8, FrameFacts DEF SInv, Handle
<1>13. Waiters'
  BY <1>1, <1>3, <1>4, <1>5, <1>6, <1>8 DEF SInv, Waiters
<1>14. Consumer'
  BY <1>1, <1>5, <1>6 DEF SInv, Consumer
<1>15. Deleted' /\ Events'
  BY <1>1, <1>2, <1>8, FrameFacts DEF SInv, Deleted, Events
<1>16. QED
  BY <1>9, <1>10, <1>11, <1>12, <1>13, <1>14, <1>15, ZenonT(60) DEF SInv

LEMMA CompleteReturnsKeeps == ASSUME SInv, CompleteReturns PROVE SInv'
<1>1. /\ Top("complete", None) /\ resuming = <<>> /\ close' = Completed(close) /\ stack' = Tail(stack)
      /\ deletions' = deletions + (IF DeletesState(close) THEN 1 ELSE 0)
      /\ UNCHANGED <<family, task, awaits, registrations, slot, native, resuming, pending, arrived,
                     unseen>>
  BY DEF CompleteReturns, taskVars, cancelVars, eventVars
<1>2. UNCHANGED <<owner, stop_requested>>
  BY ZenonT(60) DEF CompleteReturns, cancelVars
<1>3. /\ Complete \in On(stack) /\ stack' \in Seq(Frames) /\ IsInjective(stack')
      /\ On(stack') = On(stack) \ {Complete}
  BY <1>1, TopFacts DEF Complete
<1>4. close \in CloseStates(Tasks) /\ close.phase = "closed"
  BY <1>3 DEF SInv, BaseType, Calls
<1>5. /\ close' \in CloseStates(Tasks) /\ close'.phase = "closed"
      /\ close'.waiters = close.waiters /\ close'.callback_waiter = close.callback_waiter
  BY <1>1, <1>4, CompletionFacts
<1>6. close'.owner_released = close.owner_released /\ ~close'.completion_active
  BY <1>1, <1>4, CompletionFacts, ZenonT(60)
<1>7. BaseType'
  BY <1>1, <1>3, <1>5 DEF SInv, BaseType, Notifications
<1>8. Flags'
  BY <1>2, <1>3, <1>6, FrameFacts, ZenonT(60) DEF SInv, Flags
<1>9. Calls'
  BY <1>1, <1>3, <1>4, <1>5, FrameFacts DEF SInv, Calls
<1>10. Handle'
  BY <1>1, <1>4, <1>5 DEF SInv, Handle
<1>11. Waiters' /\ Consumer'
  BY <1>1, <1>3, <1>4, <1>5, FrameFacts DEF SInv, Waiters, Consumer
<1>12. Deleted'
  <2>1. DeletesState(close) => ~owner'
    BY <1>2, ZenonT(60) DEF SInv, Flags, DeletesState
  <2>2. Complete \notin On(stack')
    BY <1>3
  <2>3. CASE DeletesState(close)
    <3>1. /\ deletions' = deletions + 1 /\ deletions \in {0, 1}
          /\ deletions = 1 => family = "process" /\ "process" \in ReleasedInCompletion
      BY <1>1, <1>3, <2>3 DEF SInv, Deleted
    <3>2. /\ deletions' \in {1, 2}
          /\ deletions' = 2 => family' = "process" /\ "process" \in ReleasedInCompletion
      BY <1>1, <3>1
    <3>3. close'.phase = "closed" /\ ~owner'
      BY <1>5, <2>1, <2>3, ZenonT(60)
    <3>4. QED
      BY <2>2, <3>2, <3>3 DEF Deleted
  <2>4. CASE ~DeletesState(close)
    BY <1>1, <1>2, <1>3, <1>5, <2>2, <2>4 DEF SInv, Deleted
  <2>5. QED
    BY <2>3, <2>4
<1>13. Events'
  BY <1>1, <1>4, <1>5 DEF SInv, Events
<1>14. QED
  BY <1>7, <1>8, <1>9, <1>10, <1>11, <1>12, <1>13, ZenonT(60) DEF SInv

-----------------------------------------------------------------------------
(* Cooperative stop.                                                       *)

LEMMA RequestStopKeeps == ASSUME SInv, RequestStop PROVE SInv'
<1>1. /\ stack' = <<Stop>> \o stack
      /\ UNCHANGED <<family, task, awaits, registrations, close, slot, native, resuming, deletions,
                     pending, arrived, unseen>>
  BY DEF RequestStop, taskVars, eventVars, Stop
<1>2. ~stop_requested /\ stop_requested' = TRUE /\ owner' = owner
  BY ZenonT(60) DEF RequestStop
<1>3. Stop \notin On(stack)
  BY <1>2, ZenonT(60) DEF SInv, Flags
<1>4. stack' \in Seq(Frames) /\ IsInjective(stack') /\ On(stack') = On(stack) \cup {Stop}
  BY <1>1, <1>3, EnterFrame, FrameFacts DEF SInv, BaseType, Calls
<1>5. BaseType'
  BY <1>1, <1>4 DEF SInv, BaseType, Notifications
<1>6. Flags'
  <2>1. Complete \in On(stack') <=> Complete \in On(stack)
    BY <1>4, FrameFacts
  <2>2. QED
    BY <1>1, <1>2, <2>1, ZenonT(60) DEF SInv, Flags
<1>7. Calls' /\ Handle'
  BY <1>1, <1>2, <1>4, FrameFacts DEF SInv, Calls, Handle
<1>8. Waiters' /\ Consumer'
  BY <1>1, <1>4, FrameFacts DEF SInv, Waiters, Consumer
<1>9. Deleted' /\ Events'
  BY <1>1, <1>2, <1>4, FrameFacts DEF SInv, Deleted, Events
<1>10. QED
  BY <1>5, <1>6, <1>7, <1>8, <1>9, ZenonT(60) DEF SInv

LEMMA StopNextKeeps == ASSUME SInv, StopNext PROVE SInv'
<1>1. /\ slot' = None /\ slot # None /\ Delivers(slot, task, stack)
      /\ native' = IF family = "poll" THEN "idle" ELSE native
      /\ UNCHANGED <<family, awaits, close, resuming, deletions, pending, arrived, unseen>>
  BY DEF StopNext, NativeAfterDelivery, eventVars, SInv, Consumer
<1>2. UNCHANGED <<owner, stop_requested>>
  BY ZenonT(60) DEF StopNext
<1>3. /\ slot \in Tasks /\ task[slot] = "waiting" /\ close.phase = "open"
      /\ task \in [Tasks -> {"ready", "running", "waiting", "closing"}]
      /\ stack \in Seq(Frames) /\ IsInjective(stack)
  BY <1>1 DEF SInv, BaseType, Consumer, Calls
<1>4. <<"run", slot>> \notin On(stack) /\ Quiesce \notin On(stack)
  BY <1>3 DEF SInv, Calls
<1>5. /\ registrations' = <<>> /\ task' \in [Tasks -> {"ready", "running", "waiting", "closing"}]
      /\ \A u \in Tasks : task'[u] = IF u = slot THEN "running" ELSE task[u]
      /\ stack' \in Seq(Frames) /\ IsInjective(stack')
      /\ On(stack') = On(stack) \cup {<<"run", slot>>}
  BY <1>1, <1>3, <1>4, DeliversFacts, ZenonT(60)
<1>6. BaseType'
  BY <1>1, <1>5 DEF SInv, BaseType, Notifications
<1>7. Flags'
  BY <1>1, <1>2, <1>5, FrameFacts, FlagsKept DEF SInv
<1>8. Calls'
  BY <1>1, <1>3, <1>4, <1>5, FrameFacts DEF SInv, Calls
<1>9. Handle'
  BY <1>1, <1>2, <1>3, <1>5, FrameFacts DEF SInv, Handle
<1>10. Waiters'
  BY <1>1, <1>3, <1>5, FrameFacts DEF SInv, Waiters
<1>11. Consumer'
  BY <1>1, <1>3, <1>5, SourceAssumption DEF SInv, Consumer
<1>12. Deleted' /\ Events'
  BY <1>1, <1>2, <1>5, FrameFacts DEF SInv, Deleted, Events
<1>13. QED
  BY <1>6, <1>7, <1>8, <1>9, <1>10, <1>11, <1>12, ZenonT(60) DEF SInv

LEMMA StopReturnsKeeps == ASSUME SInv, StopReturns PROVE SInv'
<1>1. /\ Top("stop", None) /\ stack' = Tail(stack)
      /\ UNCHANGED <<family, task, awaits, registrations, close, slot, native, resuming, deletions,
                     pending, arrived, unseen>>
  BY DEF StopReturns, taskVars, cancelVars, eventVars
<1>2. UNCHANGED <<owner, stop_requested>>
  BY ZenonT(60) DEF StopReturns, cancelVars
<1>3. /\ stack' \in Seq(Frames) /\ IsInjective(stack') /\ On(stack') = On(stack) \ {Stop}
  BY <1>1, TopFacts, ZenonT(60) DEF Stop
<1>4. BaseType'
  BY <1>1, <1>3 DEF SInv, BaseType, Notifications
<1>5. Flags'
  BY <1>1, <1>2, <1>3, FrameFacts, FlagsKept DEF SInv
<1>6. Calls' /\ Handle'
  BY <1>1, <1>2, <1>3, FrameFacts DEF SInv, Calls, Handle
<1>7. Waiters' /\ Consumer'
  BY <1>1, <1>3, FrameFacts DEF SInv, Waiters, Consumer
<1>8. Deleted' /\ Events'
  BY <1>1, <1>2, <1>3, FrameFacts, ZenonT(60) DEF SInv, Deleted, Events
<1>9. QED
  BY <1>4, <1>5, <1>6, <1>7, <1>8, ZenonT(60) DEF SInv

-----------------------------------------------------------------------------

LEMMA InitSInv == Init => SInv
<1> SUFFICES ASSUME Init PROVE SInv
  OBVIOUS
<1>1. /\ family \in Families /\ stack = <<>> /\ task = [t \in Tasks |-> "ready"]
      /\ awaits = [t \in Tasks |-> 0] /\ registrations = <<>> /\ slot = None /\ pending = NoEvent
      /\ resuming = <<>> /\ deletions = 0 /\ arrived = 0 /\ unseen = <<>>
      /\ native \in {"armed", "idle", "closing"}
      /\ family = "poll" => native = "idle"
  BY DEF Init
<1>2. On(stack) = {} /\ stack \in Seq(Frames) /\ IsInjective(stack) /\ IsInjective(resuming)
  BY <1>1, OneCall, FrameFacts, ZenonT(60)
<1>3. OpenState \in CloseStates(Tasks)
  <2>1. <<>> \in Seq(Tasks)
    OBVIOUS
  <2>2. QED
    BY <2>1, ZenonT(60) DEF OpenState, CloseStates
<1>4. /\ close \in CloseStates(Tasks) /\ close.waiters = <<>> /\ close.callback_waiter = <<>>
      /\ close.phase \in {"open", "closing"}
  <2>1. OpenState.waiters = <<>> /\ OpenState.callback_waiter = <<>> /\ OpenState.phase = "open"
    BY DEF OpenState
  <2>2. OwnerReleased(OpenState) \in CloseStates(Tasks)
    BY <1>3, ReleasedFacts, ZenonT(60)
  <2>3. CASE close = OpenState
    BY <1>3, <2>1, <2>3
  <2>4. CASE close = OwnerReleased(OpenState)
    BY <1>3, <2>1, <2>4, ReleasedFacts, ZenonT(60)
  <2>5. CASE close = Begun(OwnerReleased(OpenState))
    <3>1. /\ OwnerReleased(OpenState).waiters = <<>>
          /\ OwnerReleased(OpenState).callback_waiter = <<>>
      BY <1>3, <2>1, ReleasedFacts, ZenonT(60)
    <3>2. QED
      BY <2>2, <2>5, <3>1, CloseFacts
  <2>6. QED
    BY <2>3, <2>4, <2>5 DEF Init
<1>5. /\ close.phase = "open" => native \in {"armed", "idle"} \/ (native = "closing" /\ family = "process")
      /\ close.phase = "closing" => native = "closing" /\ family \notin {"poll", "process"}
      /\ family \in {"signal", "fs_event"} => (native = "armed" <=> close.phase = "open")
  <2>1. /\ OpenState.phase = "open" /\ OwnerReleased(OpenState).phase = "open"
        /\ Begun(OwnerReleased(OpenState)).phase = "closing"
    BY <1>3, ReleasedFacts, CloseFacts DEF OpenState
  <2>2. QED
    BY <2>1 DEF Init
<1>6. /\ stop_requested = FALSE /\ owner \in BOOLEAN /\ ~close.completion_active
      /\ close.owner_released <=> ~owner
      /\ native = "closing" => ~owner
  <2>1. ~OpenState.completion_active /\ ~OpenState.owner_released
    BY ZenonT(60) DEF OpenState
  <2>2. ~OwnerReleased(OpenState).completion_active /\ OwnerReleased(OpenState).owner_released
    BY <1>3, <2>1, ReleasedFacts, ZenonT(60)
  <2>3. /\ ~Begun(OwnerReleased(OpenState)).completion_active
        /\ Begun(OwnerReleased(OpenState)).owner_released
    <3> DEFINE r == OwnerReleased(OpenState)
    <3>1. r \in CloseStates(Tasks)
      BY <1>3, ReleasedFacts, ZenonT(60)
    <3>2. ~r.completion_active /\ r.owner_released
      BY <2>2
    <3> HIDE DEF r
    <3>3. ~Begun(r).completion_active /\ Begun(r).owner_released
      BY <3>1, <3>2, CloseFacts
    <3>4. QED
      BY <3>3 DEF r
  <2>4. CASE close = OpenState /\ owner = TRUE /\ native \in {"idle", "armed"}
    BY <2>1, <2>4, ZenonT(60) DEF Init
  <2>5. CASE close = OwnerReleased(OpenState) /\ owner = FALSE
    BY <2>2, <2>5, ZenonT(60) DEF Init
  <2>6. CASE close = Begun(OwnerReleased(OpenState)) /\ owner = FALSE
    BY <2>3, <2>6, ZenonT(60) DEF Init
  <2>7. QED
    BY <2>4, <2>5, <2>6, ZenonT(60) DEF Init
<1>7. BaseType
  <2>1. NoEvent \in Outcomes
    BY DEF NoEvent, Outcomes
  <2>2. QED
    BY <1>1, <1>2, <1>4, <2>1, SourceAssumption DEF BaseType
<1>8. Flags
  BY <1>2, <1>6, ZenonT(60) DEF Flags
<1>9. Calls /\ Waiters
  BY <1>1, <1>2, <1>4, OneCall DEF Calls, Waiters
<1>10. Handle
  BY <1>1, <1>4, <1>5, <1>6 DEF Handle
<1>11. Consumer
  BY <1>1, <1>4, <1>5, SourceAssumption DEF Consumer
<1>12. Deleted /\ Events
  BY <1>1, <1>2, SummaryEmpty DEF Deleted, Events
<1>13. QED
  BY <1>7, <1>8, <1>9, <1>10, <1>11, <1>12, ZenonT(60) DEF SInv

LEMMA StutterKeeps == ASSUME SInv, UNCHANGED vars PROVE SInv'
<1>1. UNCHANGED <<family, stack, task, awaits, registrations, close, slot, native, resuming,
                  deletions, pending, arrived, unseen>>
  BY DEF vars, taskVars, cancelVars, eventVars
<1>2. UNCHANGED <<owner, stop_requested>>
  BY ZenonT(60) DEF vars, cancelVars
<1>3. BaseType'
  BY <1>1 DEF SInv, BaseType, Notifications
<1>4. Flags'
  BY <1>1, <1>2, FlagsKept DEF SInv
<1>5. Calls' /\ Handle' /\ Waiters' /\ Consumer' /\ Deleted' /\ Events'
  BY <1>1, <1>2 DEF SInv, Calls, Handle, Waiters, Consumer, Deleted, Events
<1>6. QED
  BY <1>3, <1>4, <1>5, ZenonT(60) DEF SInv

LEMMA NextSInv == SInv /\ [Next]_vars => SInv'
<1> SUFFICES ASSUME SInv, [Next]_vars PROVE SInv'
  OBVIOUS
<1>1. ASSUME NEW t \in Tasks, Scheduled(t) PROVE SInv'
  BY <1>1, ScheduledKeeps
<1>2. ASSUME NEW t \in Tasks, Suspends(t) PROVE SInv'
  BY <1>2, SuspendsKeeps
<1>3. ASSUME NEW t \in Tasks, AwaitNext(t) PROVE SInv'
  BY <1>3, AwaitNextKeeps
<1>4. ASSUME NEW t \in Tasks, AwaitClose(t) PROVE SInv'
  BY <1>4, AwaitCloseKeeps
<1>5. CASE ProcessExits
  BY <1>5, ProcessExitsKeeps
<1>6. ASSUME NEW event \in Notifications, Notify(event) PROVE SInv'
  BY <1>6, NotifyKeeps
<1>7. CASE RequestClose
  BY <1>7, RequestCloseKeeps
<1>8. CASE QuiesceReturns
  BY <1>8, QuiesceReturnsKeeps
<1>9. CASE DestroyOwner
  BY <1>9, DestroyOwnerKeeps
<1>10. CASE OnClose
  BY <1>10, OnCloseKeeps
<1>11. CASE CompleteNext
  BY <1>11, CompleteNextKeeps
<1>12. CASE CompleteReturns
  BY <1>12, CompleteReturnsKeeps
<1>13. CASE RequestStop
  BY <1>13, RequestStopKeeps
<1>14. CASE StopNext
  BY <1>14, StopNextKeeps
<1>15. CASE StopReturns
  BY <1>15, StopReturnsKeeps
<1>16. CASE UNCHANGED vars
  BY <1>16, StutterKeeps
<1>17. QED
  BY <1>1, <1>2, <1>3, <1>4, <1>5, <1>6, <1>7, <1>8, <1>9, <1>10, <1>11, <1>12, <1>13, <1>14,
     <1>15, <1>16, ZenonT(60) DEF Next

LEMMA SInvariance == Spec => []SInv
BY InitSInv, NextSInv, PTL DEF Spec

\* The family is one the module was given.
LEMMA FamilyKept == Spec => [](family \in Families)
<1>1. Init => family \in Families
  BY DEF Init
<1>2. family \in Families /\ [Next]_vars => (family \in Families)'
  BY ZenonT(60) DEF Next, vars, Scheduled, Suspends, AwaitNext, AwaitClose, ProcessExits, Notify, RequestClose,
         QuiesceReturns, DestroyOwner, OnClose, CompleteNext, CompleteReturns, RequestStop, StopNext,
         StopReturns
<1>3. QED
  BY <1>1, <1>2, PTL DEF Spec

-----------------------------------------------------------------------------
(* Theorems.                                                               *)

\* Nothing that arrives without a consumer is lost: what deliver_signal,
\* deliver_event and on_exit have coalesced is what a consumer is owed, and no
\* consumer waits in next() or wait() while there is something.
THEOREM NothingIsLost == Spec => []UnseenIsPending
<1>1. SInv => UnseenIsPending
  BY DEF SInv, Events, UnseenIsPending, IsOpen
<1>2. QED
  BY <1>1, SInvariance, PTL

\* The consumer slot, the waiting task and the stop callback are one and the same
\* through every re-entrant resumption of next_awaiter, and a closing source has
\* none.
THEOREM SlotIsAccounted == Spec => []SlotAccounted
<1>1. SInv /\ family \in Families => SlotAccounted
  <2> SUFFICES ASSUME SInv, family \in Families PROVE SlotAccounted
    OBVIOUS
  <2>2. stop_requested \in BOOLEAN /\ owner \in BOOLEAN
    BY ZenonT(60) DEF SInv, Flags
  <2>3. TypeOK
    BY <2>2, ZenonT(60) DEF SInv, BaseType, Deleted, TypeOK
  <2>4. QED
    BY <2>3, ZenonT(60) DEF SInv, Consumer, SlotAccounted, IsOpen
<1>2. QED
  BY <1>1, SInvariance, FamilyKept, PTL

\* uv_poll_stop, uv_signal_stop and uv_fs_event_stop are called exactly when the
\* watcher has nobody to notify, and a process is not closed before on_exit.
THEOREM WatcherIsUseful == Spec => []ArmedWhenUseful
<1>1. SInv => ArmedWhenUseful
  BY DEF SInv, BaseType, Consumer, ArmedWhenUseful, IsOpen
<1>2. QED
  BY <1>1, SInvariance, PTL

\* release_owner and complete() delete the state once between them, with the
\* handle closed and with no call or task left that would use it, as long as the
\* code that the close of a process resumes does not destroy the process.
THEOREM DeletedOnce ==
  ASSUME "process" \notin ReleasedInCompletion PROVE Spec => []NoUseAfterDelete
<1>1. SInv => NoUseAfterDelete
  <2> SUFFICES ASSUME SInv, deletions > 0 PROVE NoUseAfterDelete
    BY DEF NoUseAfterDelete
  <2>2. close.phase = "closed" /\ ~owner /\ deletions = 1 /\ Complete \notin On(stack)
    BY DEF SInv, Deleted
  <2>3. native = "closed" /\ Quiesce \notin On(stack)
    BY <2>2 DEF SInv, Handle, Calls
  <2>4. Range(stack) = On(stack)
    BY RangeIsOn DEF SInv, BaseType
  <2>5. close.waiters = <<>> /\ resuming = <<>> /\ slot = None
    BY <2>2 DEF SInv, Waiters, Consumer
  <2>6. \A t \in Tasks : task[t] \notin {"waiting", "closing"}
    BY <2>5, OneCall, SourceAssumption, ZenonT(60) DEF SInv, Waiters, Consumer
  <2>7. QED
    BY <2>2, <2>3, <2>4, <2>6, ZenonT(60) DEF NoUseAfterDelete, OnStack, Quiesce, Complete
<1>2. QED
  BY <1>1, SInvariance, PTL

=============================================================================
