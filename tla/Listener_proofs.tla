-------------------------- MODULE Listener_proofs --------------------------
(***************************************************************************)
(* Proofs about Listener for every finite set of tasks and every number of *)
(* awaits.                                                                 *)
(***************************************************************************)
EXTENDS Listener, StackLemmas

\* Time limits of the backends, in seconds; what is assumed of the constants.
USE SMTT(60), ZenonT(60), ListenerAssumption

TaskStates == {"ready", "running", "accepting", "closing"}
ChildStates == {"none", "provisional", "closing"}

\* The types, without the Boolean variables and the number of children.
Base ==
  /\ stack \in Seq(Frames)
  /\ task \in [Tasks -> TaskStates]
  /\ awaits \in [Tasks -> 0..MaxAwaits]
  /\ registrations \in Seq(Tasks)
  /\ close \in CloseStates(Tasks)
  /\ slot \in Tasks \cup {None}
  /\ child \in [Tasks -> ChildStates]
  /\ native \in {"listening", "closing", "closed"}
  /\ resuming \in Seq(Tasks)

\* The frames of complete() and of request_stop.
Complete == <<"complete", None>>
Stop == <<"stop", None>>

\* The flags of the close record and of the stop follow the stack and the owner.
Flags ==
  /\ stop_requested \in BOOLEAN /\ owner \in BOOLEAN
  /\ Complete \in On(stack) <=> close.completion_active
  /\ Stop \in On(stack) => stop_requested
  /\ close.owner_released <=> ~owner

\* Who waits for the close is on its list, or on the one that complete() detached.
Waiters ==
  /\ close.callback_waiter = <<>>
  /\ IsInjective(close.waiters) /\ IsInjective(resuming)
  /\ close.waiters # <<>> => close.phase = "closing"
  /\ resuming # <<>> => Complete \in On(stack)
  /\ \A t \in Tasks : task[t] = "closing" <=> t \in On(close.waiters) \cup On(resuming)

Booleans == unaccepted \in BOOLEAN /\ terminated \in BOOLEAN

\* Each call is entered once, and at most one is the close of a child.
Calls ==
  /\ IsInjective(stack)
  /\ \A t \in Tasks : <<"run", t>> \in On(stack) <=> task[t] = "running"
  /\ Complete \in On(stack) => close.phase = "closed"
  /\ \A t, u \in Tasks : <<"child", t>> \in On(stack) /\ <<"child", u>> \in On(stack) => t = u

\* The native handle is where the close is, which the owner begins at the latest.
Handle ==
  /\ close.phase = "open" <=> native = "listening"
  /\ close.phase = "closing" <=> native = "closing"
  /\ ~owner => close.phase # "open"

\* The accept slot, its stop callback, and the children of suspended accepts.
Consumer ==
  /\ \A t \in Tasks : child[t] = "provisional" <=> slot = t
  /\ \A t \in Tasks : task[t] = "accepting" <=> child[t] # "none"
  /\ registrations = IF slot = None THEN <<>> ELSE <<slot>>
  /\ slot # None => close.phase = "open"

\* The state is deleted once, when the close is over and nobody has the listener.
Deleted ==
  /\ deletions \in {0, 1}
  /\ deletions > 0 => close.phase = "closed" /\ ~owner /\ Complete \notin On(stack)

\* The accepts that have a child, and whether the close of one runs.
Live(c) == {t \in Tasks : c[t] # "none"}
Running(s) == IF \E t \in Tasks : <<"child", t>> \in On(s) THEN 1 ELSE 0

Children == children = Cardinality(Live(child)) + Running(stack)

\* What the proof has to know about counting; LiveFacts below is that it is so.
LiveCount ==
  /\ Cardinality({}) = 0
  /\ \A c \in [Tasks -> ChildStates] : Cardinality(Live(c)) \in Nat
  /\ \A c, d \in [Tasks -> ChildStates], t \in Tasks :
       (\A u \in Tasks \ {t} : d[u] = c[u]) =>
         /\ c[t] = "none" /\ d[t] # "none" => Cardinality(Live(d)) = Cardinality(Live(c)) + 1
         /\ c[t] # "none" /\ d[t] = "none" => Cardinality(Live(d)) = Cardinality(Live(c)) - 1

\* The inductive invariant.
IInv ==
  /\ Base /\ Booleans /\ Flags /\ Calls /\ Handle /\ Waiters /\ Consumer /\ Deleted
  /\ Children

\* The flags do not change while the stack keeps the two frames they follow.
LEMMA FlagsKept ==
  ASSUME Flags, UNCHANGED <<owner, stop_requested>>,
         close'.completion_active = close.completion_active,
         close'.owner_released = close.owner_released,
         Complete \in On(stack') <=> Complete \in On(stack),
         Stop \in On(stack') => Stop \in On(stack)
  PROVE  Flags'
BY ZenonT(60) DEF Flags

\* The frames are told apart by what runs in them.
LEMMA FrameFacts ==
  /\ \A t \in Tasks : <<"run", t>> \in Frames /\ <<"child", t>> \in Frames
  /\ Complete \in Frames /\ Stop \in Frames
  /\ \A t, u : <<"run", t>> # <<"child", u>>
  /\ \A t : <<"run", t>> \notin {Complete, Stop} /\ <<"child", t>> \notin {Complete, Stop}
  /\ \A t, u : (<<"run", t>> = <<"run", u>> \/ <<"child", t>> = <<"child", u>>) => t = u
  /\ Complete # Stop
BY DEF Frames, Complete, Stop

LEMMA EnterFrame ==
  \A f \in Frames, s \in Seq(Frames) :
    IsInjective(s) /\ f \notin On(s) =>
      /\ <<f>> \o s \in Seq(Frames) /\ IsInjective(<<f>> \o s)
      /\ On(<<f>> \o s) = On(s) \cup {f}
BY PushCall

\* What leaving the call on top of the stack does.
LEMMA TopFacts ==
  ASSUME IInv, NEW f, NEW x, Top(f, x)
  PROVE  /\ stack # <<>> /\ <<f, x>> \in On(stack)
         /\ Tail(stack) \in Seq(Frames) /\ IsInjective(Tail(stack))
         /\ On(Tail(stack)) = On(stack) \ {<<f, x>>}
<1>1. stack \in Seq(Frames) /\ IsInjective(stack) /\ stack # <<>> /\ Head(stack) = <<f, x>>
  BY DEF IInv, Base, Calls, Top
<1>2. QED
  BY <1>1, PopCall

\* The count of children after a step, from what the step does to its two parts.
LEMMA ChildrenNext ==
  ASSUME children' = Cardinality(Live(child')) + Running(stack') PROVE Children'
BY DEF Children, Live, Running

LEMMA RunningType == \A s : Running(s) \in {0, 1}
BY ZenonT(60) DEF Running

\* A frame of a task or of the listener that comes or goes.
LEMMA RunningKept ==
  ASSUME NEW r, NEW s, NEW f,
         On(r) = On(s) \cup {f} \/ On(r) = On(s) \ {f}, \A t \in Tasks : f # <<"child", t>>
  PROVE  Running(r) = Running(s)
BY ZenonT(60) DEF Running

-----------------------------------------------------------------------------
(* Tasks and accepts.                                                      *)

LEMMA ScheduledKeeps == ASSUME IInv, NEW t \in Tasks, Scheduled(t) PROVE IInv'
<1>1. /\ stack = <<>> /\ task[t] = "ready" /\ task' = [task EXCEPT ![t] = "running"]
      /\ stack' = <<<<"run", t>>>>
      /\ UNCHANGED <<awaits, registrations, close, slot, child, children, native, resuming,
                     deletions>>
  BY DEF Scheduled, InPoll, cancelVars, acceptVars, lifeVars
<1>2. UNCHANGED <<owner, stop_requested, unaccepted, terminated>>
  BY ZenonT(60) DEF Scheduled, cancelVars, lifeVars
<1>3. On(stack) = {} /\ stack' \in Seq(Frames) /\ IsInjective(stack') /\ On(stack') = {<<"run", t>>}
  BY <1>1, FrameFacts, OneCall, ZenonT(60)
<1>4. \A u \in Tasks : task'[u] = IF u = t THEN "running" ELSE task[u]
  BY <1>1 DEF IInv, Base
<1>11. Base'
  BY <1>1, <1>3 DEF IInv, Base, TaskStates
<1>5. Booleans' /\ Flags'
  <2>1. Flags'
    BY <1>1, <1>2, <1>3, FrameFacts, FlagsKept DEF IInv
  <2>2. QED
    BY <1>2, <2>1, ZenonT(60) DEF IInv, Booleans
<1>6. Calls'
  BY <1>1, <1>3, <1>4, FrameFacts, ZenonT(60) DEF IInv, Calls
<1>7. Handle' /\ Deleted'
  BY <1>1, <1>2, <1>3, FrameFacts DEF IInv, Handle, Deleted
<1>8. Waiters' /\ Consumer'
  BY <1>1, <1>3, <1>4, FrameFacts DEF IInv, Waiters, Consumer
<1>9. Children'
  <2>1. Running(stack') = Running(stack)
    BY <1>3, FrameFacts, RunningKept
  <2>2. QED
    BY <1>1, <2>1, ChildrenNext DEF IInv, Children
<1>10. QED
  BY <1>5, <1>6, <1>7, <1>8, <1>9, <1>11, ZenonT(60) DEF IInv

LEMMA SuspendsKeeps == ASSUME IInv, NEW t \in Tasks, Suspends(t) PROVE IInv'
<1>1. /\ Top("run", t) /\ task' = [task EXCEPT ![t] = "ready"] /\ stack' = Tail(stack)
      /\ UNCHANGED <<awaits, registrations, close, slot, child, children, native, resuming,
                     deletions>>
  BY DEF Suspends, cancelVars, acceptVars, lifeVars
<1>2. UNCHANGED <<owner, stop_requested, unaccepted, terminated>>
  BY ZenonT(60) DEF Suspends, cancelVars, lifeVars
<1>3. /\ <<"run", t>> \in On(stack) /\ stack' \in Seq(Frames) /\ IsInjective(stack')
      /\ On(stack') = On(stack) \ {<<"run", t>>}
  BY <1>1, TopFacts
<1>4. task[t] = "running" /\ \A u \in Tasks : task'[u] = IF u = t THEN "ready" ELSE task[u]
  BY <1>1, <1>3 DEF IInv, Base, Calls
<1>11. Base'
  BY <1>1, <1>3 DEF IInv, Base, TaskStates
<1>5. Booleans' /\ Flags'
  <2>1. Flags'
    BY <1>1, <1>2, <1>3, FrameFacts, FlagsKept DEF IInv
  <2>2. QED
    BY <1>2, <2>1, ZenonT(60) DEF IInv, Booleans
<1>6. Calls'
  BY <1>1, <1>3, <1>4, FrameFacts DEF IInv, Calls
<1>7. Handle' /\ Deleted'
  BY <1>1, <1>2, <1>3, FrameFacts DEF IInv, Handle, Deleted
<1>8. Waiters' /\ Consumer'
  BY <1>1, <1>3, <1>4, FrameFacts DEF IInv, Waiters, Consumer
<1>9. Children'
  <2>1. Running(stack') = Running(stack)
    BY <1>3, FrameFacts, RunningKept
  <2>2. QED
    BY <1>1, <2>1, ChildrenNext DEF IInv, Children
<1>10. QED
  BY <1>5, <1>6, <1>7, <1>8, <1>9, <1>11, ZenonT(60) DEF IInv

\* A call of accept() or close() that ends at once.
LEMMA ReturnsKeeps ==
  ASSUME IInv, awaits' \in [Tasks -> 0..MaxAwaits],
         UNCHANGED <<stack, task, registrations, close, slot, child, children, native, resuming,
                     deletions>>,
         UNCHANGED <<owner, stop_requested, unaccepted, terminated>>
  PROVE  IInv'
<1>1. Base'
  BY DEF IInv, Base
<1>2. Booleans' /\ Flags'
  <2>1. Flags'
    BY FlagsKept DEF IInv
  <2>2. QED
    BY <2>1, ZenonT(60) DEF IInv, Booleans
<1>3. Calls' /\ Handle' /\ Waiters' /\ Consumer' /\ Deleted'
  BY DEF IInv, Calls, Handle, Waiters, Consumer, Deleted
<1>4. Children'
  BY ChildrenNext DEF IInv, Children
<1>5. QED
  BY <1>1, <1>2, <1>3, <1>4, ZenonT(60) DEF IInv

LEMMA AwaitAcceptKeeps ==
  ASSUME LiveCount, IInv, NEW t \in Tasks, AwaitAccept(t)
  PROVE  IInv'
<1>1. /\ Top("run", t) /\ awaits' \in [Tasks -> 0..MaxAwaits]
      /\ UNCHANGED <<close, native, resuming, deletions>>
  BY DEF AwaitAccept, Awaits, lifeVars, IInv, Base
<1>2. UNCHANGED <<owner, stop_requested, unaccepted, terminated>>
  BY ZenonT(60) DEF AwaitAccept, lifeVars
<1>3. CASE Returns /\ UNCHANGED <<registrations, acceptVars>>
  <2>1. UNCHANGED <<stack, task, registrations, slot, child, children>>
    BY <1>3 DEF Returns, acceptVars
  <2>2. QED
    BY <1>1, <1>2, <2>1, ReturnsKeeps
<1>4. CASE /\ CanAccept /\ SuspendsIn(t, "accepting") /\ slot' = t
           /\ child' = [child EXCEPT ![t] = "provisional"] /\ children' = children + 1
           /\ registrations' = Registered(registrations, t)
  <2>1. /\ slot = None /\ slot' = t /\ t # None /\ close.phase = "open"
        /\ task' = [task EXCEPT ![t] = "accepting"] /\ stack' = Tail(stack)
        /\ child' = [child EXCEPT ![t] = "provisional"] /\ children' = children + 1
    BY <1>4 DEF CanAccept, SuspendsIn, IsClosing
  <2>12. registrations' = <<t>>
    BY <1>4, <2>1 DEF Registered, IInv, Consumer
  <2>2. /\ <<"run", t>> \in On(stack) /\ stack' \in Seq(Frames) /\ IsInjective(stack')
        /\ On(stack') = On(stack) \ {<<"run", t>>}
    BY <1>1, <2>1, TopFacts
  <2>3. /\ task[t] = "running" /\ child[t] = "none" /\ child \in [Tasks -> ChildStates]
        /\ \A u \in Tasks : /\ task'[u] = IF u = t THEN "accepting" ELSE task[u]
                            /\ child'[u] = IF u = t THEN "provisional" ELSE child[u]
    BY <2>1, <2>2 DEF IInv, Base, Calls, Consumer
  <2>4. Base'
    BY <1>1, <2>1, <2>2, <2>12 DEF IInv, Base, TaskStates, ChildStates
  <2>5. Booleans' /\ Flags'
    <3>1. Flags'
      BY <1>1, <1>2, <2>2, FrameFacts, FlagsKept DEF IInv
    <3>2. QED
      BY <1>2, <3>1, ZenonT(60) DEF IInv, Booleans
  <2>6. Calls'
    BY <1>1, <2>1, <2>2, <2>3, FrameFacts DEF IInv, Calls
  <2>7. Handle' /\ Deleted'
    BY <1>1, <1>2, <2>2, FrameFacts DEF IInv, Handle, Deleted
  <2>8. Waiters'
    BY <1>1, <2>2, <2>3, FrameFacts, ZenonT(60) DEF IInv, Waiters
  <2>9. Consumer'
    BY <1>1, <2>1, <2>3, <2>12 DEF IInv, Consumer
  <2>10. Children'
    <3>1. /\ Cardinality(Live(child')) = Cardinality(Live(child)) + 1
          /\ Cardinality(Live(child)) \in Nat
      <4>1. /\ child' \in [Tasks -> ChildStates] /\ child'[t] # "none"
            /\ \A u \in Tasks \ {t} : child'[u] = child[u]
        BY <2>3, <2>4 DEF Base
      <4>2. QED
        BY <2>3, <4>1, ZenonT(60) DEF IInv, Base, LiveCount
    <3>2. Running(stack') = Running(stack) /\ Running(stack) \in {0, 1}
      BY <2>2, FrameFacts, RunningKept, RunningType, ZenonT(60)
    <3>3. QED
      BY <2>1, <3>1, <3>2, ChildrenNext DEF IInv, Children
  <2>11. QED
    BY <2>4, <2>5, <2>6, <2>7, <2>8, <2>9, <2>10, ZenonT(60) DEF IInv
<1>5. QED
  BY <1>3, <1>4, ZenonT(60) DEF AwaitAccept

\* quiesce: the slot slot is left empty, and its child closing.
LEMMA QuiesceFacts ==
  ASSUME IInv, Quiesce
  PROVE  /\ slot' = None /\ registrations' = <<>> /\ child' \in [Tasks -> ChildStates]
         /\ \A u \in Tasks : child'[u] = IF u = slot THEN "closing" ELSE child[u]
         /\ Live(child') = Live(child)
<1>1. CASE slot = None
  BY <1>1 DEF Quiesce, IInv, Base, Consumer
<1>2. CASE slot # None
  <2>1. slot \in Tasks /\ registrations = <<slot>> /\ child \in [Tasks -> ChildStates]
    BY <1>2 DEF IInv, Base, Consumer
  <2>2. slot' = None /\ registrations' = Unregistered(registrations, slot)
    BY <1>2 DEF Quiesce
  <2>3. child' = [child EXCEPT ![slot] = "closing"]
    BY <1>2 DEF Quiesce, CloseUntransferred
  <2>4. registrations' = <<>>
    BY <2>1, <2>2, UnregisterOnly
  <2>5. /\ child' \in [Tasks -> ChildStates] /\ child[slot] # "none"
        /\ \A u \in Tasks : child'[u] = IF u = slot THEN "closing" ELSE child[u]
    BY <2>1, <2>3 DEF ChildStates, IInv, Consumer
  <2>6. Live(child') = Live(child)
    BY <2>1, <2>5 DEF Live
  <2>7. QED
    BY <2>2, <2>4, <2>5, <2>6, ZenonT(60)
<1>3. QED
  BY <1>1, <1>2

LEMMA IgnoredKeeps == ASSUME IInv, OnConnectionIgnored PROVE IInv'
<1>1. UNCHANGED <<stack, task, awaits, registrations, close, slot, child, children, native, resuming,
                  deletions>>
  BY DEF OnConnectionIgnored, taskVars, cancelVars, acceptVars
<1>2. UNCHANGED <<owner, stop_requested, terminated>> /\ unaccepted' = TRUE
  BY ZenonT(60) DEF OnConnectionIgnored, cancelVars
<1>3. Base'
  BY <1>1 DEF IInv, Base
<1>4. Booleans' /\ Flags'
  <2>1. Flags'
    BY <1>1, <1>2, FlagsKept DEF IInv
  <2>2. QED
    BY <1>2, <2>1, ZenonT(60) DEF IInv, Booleans
<1>5. Calls' /\ Handle' /\ Waiters' /\ Consumer' /\ Deleted'
  BY <1>1, <1>2 DEF IInv, Calls, Handle, Waiters, Consumer, Deleted
<1>6. Children'
  BY <1>1, ChildrenNext DEF IInv, Children
<1>7. QED
  BY <1>3, <1>4, <1>5, <1>6, ZenonT(60) DEF IInv

\* A step that closes the child of the slot and resumes nobody.
LEMMA FailsKeeps ==
  ASSUME IInv, Quiesce,
         UNCHANGED <<stack, task, awaits, close, children, native, resuming, deletions>>,
         UNCHANGED <<owner, stop_requested, unaccepted, terminated>>
  PROVE  IInv'
<1>1. /\ slot' = None /\ registrations' = <<>> /\ child' \in [Tasks -> ChildStates]
      /\ \A u \in Tasks : child'[u] = IF u = slot THEN "closing" ELSE child[u]
      /\ Live(child') = Live(child)
  BY QuiesceFacts
<1>2. Base'
  BY <1>1 DEF IInv, Base
<1>3. Booleans' /\ Flags'
  <2>1. Flags'
    BY FlagsKept DEF IInv
  <2>2. QED
    BY <2>1, ZenonT(60) DEF IInv, Booleans
<1>4. Calls' /\ Handle' /\ Waiters' /\ Deleted'
  BY DEF IInv, Calls, Handle, Waiters, Deleted
<1>5. Consumer'
  BY <1>1 DEF IInv, Consumer
<1>6. Children'
  BY <1>1, ChildrenNext DEF IInv, Children
<1>7. QED
  BY <1>2, <1>3, <1>4, <1>5, <1>6, ZenonT(60) DEF IInv

LEMMA OnConnectionKeeps ==
  ASSUME LiveCount, IInv, NEW accepted \in BOOLEAN, OnConnection(accepted)
  PROVE  IInv'
<1>1. /\ stack = <<>> /\ native = "listening" /\ slot # None /\ slot' = None
      /\ registrations' = Unregistered(registrations, slot)
      /\ UNCHANGED <<awaits, close, native, resuming, deletions>>
  BY DEF OnConnection, InPoll, lifeVars
<1>2. UNCHANGED <<owner, stop_requested, unaccepted, terminated>>
  BY ZenonT(60) DEF OnConnection, lifeVars
<1>3. CASE ~accepted
  <2>1. child' = CloseUntransferred(slot) /\ UNCHANGED <<children, task, stack>>
    BY <1>3 DEF OnConnection
  <2>2. Quiesce
    BY <1>1, <2>1 DEF Quiesce
  <2>3. QED
    BY <1>1, <1>2, <2>1, <2>2, FailsKeeps
<1>4. CASE accepted
  <2>1. /\ child' = [child EXCEPT ![slot] = "none"] /\ children' = children - 1
        /\ task' = [task EXCEPT ![slot] = "running"] /\ stack' = <<<<"run", slot>>>>
    BY <1>4 DEF OnConnection
  <2>2. /\ slot \in Tasks /\ registrations = <<slot>> /\ child[slot] = "provisional"
        /\ task[slot] = "accepting" /\ child \in [Tasks -> ChildStates]
    BY <1>1 DEF IInv, Base, Consumer
  <2>3. registrations' = <<>>
    BY <1>1, <2>2, UnregisterOnly
  <2>4. /\ On(stack) = {} /\ stack' \in Seq(Frames) /\ IsInjective(stack')
        /\ On(stack') = {<<"run", slot>>}
    BY <1>1, <2>1, <2>2, FrameFacts, OneCall, ZenonT(60)
  <2>5. \A u \in Tasks : /\ task'[u] = IF u = slot THEN "running" ELSE task[u]
                         /\ child'[u] = IF u = slot THEN "none" ELSE child[u]
    BY <2>1, <2>2 DEF IInv, Base
  <2>6. Base'
    BY <1>1, <2>1, <2>2, <2>3, <2>4 DEF IInv, Base, TaskStates, ChildStates
  <2>7. Booleans' /\ Flags'
    <3>1. Flags'
      BY <1>1, <1>2, <2>4, FrameFacts, FlagsKept DEF IInv
    <3>2. QED
      BY <1>2, <3>1, ZenonT(60) DEF IInv, Booleans
  <2>8. Calls'
    BY <1>1, <2>2, <2>4, <2>5, FrameFacts, ZenonT(60) DEF IInv, Calls
  <2>9. Handle' /\ Deleted'
    BY <1>1, <1>2, <2>4, FrameFacts DEF IInv, Handle, Deleted
  <2>10. Waiters'
    BY <1>1, <2>2, <2>4, <2>5, FrameFacts DEF IInv, Waiters
  <2>11. Consumer'
    BY <1>1, <2>2, <2>3, <2>5 DEF IInv, Consumer
  <2>12. Children'
    <3>1. /\ Cardinality(Live(child')) = Cardinality(Live(child)) - 1
          /\ Cardinality(Live(child)) \in Nat
      <4>1. /\ child' \in [Tasks -> ChildStates] /\ child'[slot] = "none" /\ child[slot] # "none"
            /\ \A u \in Tasks \ {slot} : child'[u] = child[u]
        BY <2>2, <2>5, <2>6 DEF Base
      <4>2. QED
        BY <2>2, <4>1, ZenonT(60) DEF IInv, Base, LiveCount
    <3>2. Running(stack') = 0 /\ Running(stack) = 0
      BY <2>4, FrameFacts DEF Running
    <3>3. QED
      BY <2>1, <3>1, <3>2, ChildrenNext DEF IInv, Children
  <2>13. QED
    BY <2>6, <2>7, <2>8, <2>9, <2>10, <2>11, <2>12, ZenonT(60) DEF IInv
<1>5. QED
  BY <1>3, <1>4

LEMMA ChildClosedKeeps ==
  ASSUME LiveCount, IInv, NEW t \in Tasks, ChildClosed(t) PROVE IInv'
<1>1. /\ stack = <<>> /\ child[t] = "closing" /\ child' = [child EXCEPT ![t] = "none"]
      /\ task' = [task EXCEPT ![t] = "running"] /\ stack' = <<<<"run", t>>, <<"child", t>>>>
      /\ UNCHANGED <<awaits, registrations, close, slot, children, native, resuming, deletions>>
  BY DEF ChildClosed, InPoll, cancelVars, lifeVars
<1>2. UNCHANGED <<owner, stop_requested, unaccepted, terminated>>
  BY ZenonT(60) DEF ChildClosed, cancelVars, lifeVars
<1>3. /\ On(stack) = {} /\ stack' \in Seq(Frames) /\ IsInjective(stack')
      /\ On(stack') = {<<"run", t>>, <<"child", t>>}
  <2>1. On(stack) = {}
    BY <1>1, EmptyFacts
  <2>2. /\ <<<<"child", t>>>> \in Seq(Frames) /\ IsInjective(<<<<"child", t>>>>)
        /\ On(<<<<"child", t>>>>) = {<<"child", t>>}
    BY FrameFacts, OneCall, ZenonT(60)
  <2>3. stack' = <<<<"run", t>>>> \o <<<<"child", t>>>>
    BY <1>1
  <2>4. /\ stack' \in Seq(Frames) /\ IsInjective(stack')
        /\ On(stack') = {<<"child", t>>} \cup {<<"run", t>>}
    BY <2>2, <2>3, FrameFacts, EnterFrame, ZenonT(60)
  <2>5. QED
    BY <2>1, <2>4
<1>4. /\ task[t] = "accepting" /\ slot # t
      /\ \A u \in Tasks : /\ task'[u] = IF u = t THEN "running" ELSE task[u]
                          /\ child'[u] = IF u = t THEN "none" ELSE child[u]
  BY <1>1 DEF IInv, Base, Consumer
<1>5. Base'
  BY <1>1, <1>3 DEF IInv, Base, TaskStates, ChildStates
<1>6. Booleans' /\ Flags'
  <2>1. Flags'
    BY <1>1, <1>2, <1>3, FrameFacts, FlagsKept DEF IInv
  <2>2. QED
    BY <1>2, <2>1, ZenonT(60) DEF IInv, Booleans
<1>7. Calls'
  BY <1>1, <1>3, <1>4, FrameFacts DEF IInv, Calls
<1>8. Handle' /\ Deleted'
  BY <1>1, <1>2, <1>3, FrameFacts DEF IInv, Handle, Deleted
<1>9. Waiters'
  BY <1>1, <1>3, <1>4, FrameFacts DEF IInv, Waiters
<1>10. Consumer'
  BY <1>1, <1>4 DEF IInv, Consumer
<1>11. Children'
  <2>1. /\ Cardinality(Live(child')) = Cardinality(Live(child)) - 1
        /\ Cardinality(Live(child)) \in Nat
    <3>1. /\ child \in [Tasks -> ChildStates] /\ child' \in [Tasks -> ChildStates]
          /\ child'[t] = "none" /\ child[t] # "none" /\ \A u \in Tasks \ {t} : child'[u] = child[u]
      BY <1>1, <1>4, <1>5 DEF IInv, Base
    <3>2. QED
      BY <3>1, ZenonT(60) DEF IInv, Base, LiveCount
  <2>2. Running(stack') = 1 /\ Running(stack) = 0
    BY <1>3, FrameFacts DEF Running
  <2>3. QED
    BY <1>1, <2>1, <2>2, ChildrenNext DEF IInv, Children
<1>12. QED
  BY <1>5, <1>6, <1>7, <1>8, <1>9, <1>10, <1>11, ZenonT(60) DEF IInv

LEMMA ChildReturnsKeeps ==
  ASSUME LiveCount, IInv, NEW t \in Tasks, ChildReturns(t) PROVE IInv'
<1>1. /\ Top("child", t) /\ children' = children - 1 /\ stack' = Tail(stack)
      /\ UNCHANGED <<task, awaits, registrations, close, slot, child, native, resuming, deletions>>
  BY DEF ChildReturns, taskVars, cancelVars, lifeVars
<1>2. UNCHANGED <<owner, stop_requested, unaccepted, terminated>>
  BY ZenonT(60) DEF ChildReturns, cancelVars, lifeVars
<1>3. /\ <<"child", t>> \in On(stack) /\ stack' \in Seq(Frames) /\ IsInjective(stack')
      /\ On(stack') = On(stack) \ {<<"child", t>>}
  BY <1>1, TopFacts
<1>4. Base'
  BY <1>1, <1>3 DEF IInv, Base
<1>5. Booleans' /\ Flags'
  <2>1. Flags'
    BY <1>1, <1>2, <1>3, FrameFacts, FlagsKept DEF IInv
  <2>2. QED
    BY <1>2, <2>1, ZenonT(60) DEF IInv, Booleans
<1>6. Calls'
  BY <1>1, <1>3, FrameFacts DEF IInv, Calls
<1>7. Handle' /\ Deleted'
  BY <1>1, <1>2, <1>3, FrameFacts DEF IInv, Handle, Deleted
<1>8. Waiters' /\ Consumer'
  BY <1>1, <1>3, FrameFacts DEF IInv, Waiters, Consumer
<1>9. Children'
  <2>1. Running(stack) = 1 /\ Running(stack') = 0
    BY <1>3, ZenonT(60) DEF Running, IInv, Calls
  <2>2. Cardinality(Live(child)) \in Nat
    BY DEF IInv, Base, LiveCount
  <2>3. QED
    BY <1>1, <2>1, <2>2, ChildrenNext DEF IInv, Children
<1>10. QED
  BY <1>4, <1>5, <1>6, <1>7, <1>8, <1>9, ZenonT(60) DEF IInv

-----------------------------------------------------------------------------
(* Close of the listener.                                                  *)

LEMMA BegunFacts ==
  \A c \in CloseStates(Tasks) :
    /\ Begun(c) \in CloseStates(Tasks) /\ Begun(c).phase = "closing"
    /\ Begun(c).waiters = c.waiters /\ Begun(c).callback_waiter = c.callback_waiter
BY CloseFacts

\* The beginning of a close, by request_close, close() or the destructor.
LEMMA BeginKeeps ==
  ASSUME IInv, close.phase = "open",
         NEW state \in CloseStates(Tasks), state.callback_waiter = <<>>,
         IsInjective(state.waiters), state.completion_active = close.completion_active,
         owner' \in BOOLEAN, state.owner_released <=> ~owner',
         task' \in [Tasks -> TaskStates], awaits' \in [Tasks -> 0..MaxAwaits],
         \A t \in Tasks : task'[t] = "accepting" <=> task[t] = "accepting",
         \A t \in Tasks : task'[t] = "closing" <=> t \in On(state.waiters),
         stack' \in Seq(Frames), IsInjective(stack'),
         \A t \in Tasks : <<"run", t>> \in On(stack') <=> task'[t] = "running",
         \A t \in Tasks : <<"child", t>> \in On(stack') <=> <<"child", t>> \in On(stack),
         \A f \in {Complete, Stop} : f \in On(stack') <=> f \in On(stack),
         BeginsClose(state), UNCHANGED <<children, resuming, deletions>>,
         UNCHANGED <<stop_requested, unaccepted, terminated>>
  PROVE  IInv'
<1>1. /\ slot' = None /\ registrations' = <<>> /\ child' \in [Tasks -> ChildStates]
      /\ \A u \in Tasks : child'[u] = IF u = slot THEN "closing" ELSE child[u]
      /\ Live(child') = Live(child)
  BY QuiesceFacts DEF BeginsClose
<1>2. /\ close' = Begun(state) /\ native' = "closing" /\ close' \in CloseStates(Tasks)
      /\ close'.phase = "closing" /\ close'.waiters = state.waiters
      /\ close'.callback_waiter = <<>>
  <2>1. close' = Begun(state) /\ native' = "closing"
    BY DEF BeginsClose
  <2>2. /\ Begun(state) \in CloseStates(Tasks) /\ Begun(state).phase = "closing"
        /\ Begun(state).waiters = state.waiters
        /\ Begun(state).callback_waiter = state.callback_waiter
    BY BegunFacts, ZenonT(60)
  <2>3. QED
    BY <2>1, <2>2, ZenonT(60)
<1>3. /\ close'.completion_active = close.completion_active
      /\ close'.owner_released = state.owner_released
  <2>1. /\ Begun(state).completion_active = state.completion_active
        /\ Begun(state).owner_released = state.owner_released
    BY CloseFacts
  <2>2. QED
    BY <1>2, <2>1, ZenonT(60)
<1>4. Complete \notin On(stack) /\ Complete \notin On(stack') /\ resuming = <<>> /\ deletions = 0
  <2>1. Complete \notin On(stack)
    BY DEF IInv, Calls
  <2>2. deletions = 0 /\ resuming = <<>>
    BY <2>1 DEF IInv, Deleted, Waiters
  <2>3. QED
    BY <2>1, <2>2, ZenonT(60)
<1>5. Base'
  BY <1>1, <1>2 DEF IInv, Base
<1>6. Booleans' /\ Flags'
  <2>1. Booleans'
    BY ZenonT(60) DEF IInv, Booleans
  <2>2. Flags'
    BY <1>3, ZenonT(60) DEF IInv, Flags
  <2>3. QED
    BY <2>1, <2>2
<1>7. Calls'
  BY <1>4 DEF IInv, Calls
<1>8. Handle' /\ Deleted'
  BY <1>2, <1>4 DEF Handle, Deleted
<1>9. Waiters'
  BY <1>2, <1>4, EmptyFacts DEF Waiters
<1>10. Consumer'
  <2>1. \A t \in Tasks : child'[t] = "provisional" <=> slot' = t
    BY <1>1 DEF IInv, Consumer
  <2>2. \A t \in Tasks : task'[t] = "accepting" <=> child'[t] # "none"
    BY <1>1 DEF IInv, Consumer
  <2>3. QED
    BY <1>1, <2>1, <2>2 DEF Consumer
<1>11. Children'
  <2>1. Running(stack') = Running(stack)
    BY ZenonT(60) DEF Running
  <2>2. QED
    BY <1>1, <2>1, ChildrenNext DEF IInv, Children
<1>12. QED
  BY <1>5, <1>6, <1>7, <1>8, <1>9, <1>10, <1>11, ZenonT(60) DEF IInv

\* What is known of a listener whose close has not begun.
LEMMA OpenFacts ==
  ASSUME IInv, close.phase = "open"
  PROVE  /\ close \in CloseStates(Tasks) /\ close.callback_waiter = <<>> /\ IsInjective(close.waiters)
         /\ task \in [Tasks -> TaskStates] /\ awaits \in [Tasks -> 0..MaxAwaits]
         /\ stack \in Seq(Frames) /\ IsInjective(stack)
         /\ \A t \in Tasks : task[t] = "closing" <=> t \in On(close.waiters)
         /\ \A t \in Tasks : <<"run", t>> \in On(stack) <=> task[t] = "running"
<1>1. resuming = <<>>
  BY DEF IInv, Calls, Waiters
<1>2. On(resuming) = {}
  BY <1>1, EmptyFacts
<1>3. QED
  BY <1>2, ZenonT(60) DEF IInv, Base, Calls, Waiters

LEMMA RequestCloseKeeps ==
  ASSUME IInv, RequestClose
  PROVE  IInv'
<1>1. /\ close.phase = "open" /\ BeginsClose(close)
      /\ UNCHANGED <<stack, task, awaits, children, resuming, deletions>>
  BY DEF RequestClose, IsOpen, taskVars
<1>2. UNCHANGED <<owner, stop_requested, unaccepted, terminated>>
  BY ZenonT(60) DEF RequestClose
<1>3. owner' \in BOOLEAN /\ (close.owner_released <=> ~owner')
  BY <1>2, ZenonT(60) DEF IInv, Flags
<1>4. /\ close \in CloseStates(Tasks) /\ close.callback_waiter = <<>> /\ IsInjective(close.waiters)
      /\ task' \in [Tasks -> TaskStates] /\ awaits' \in [Tasks -> 0..MaxAwaits]
      /\ stack' \in Seq(Frames) /\ IsInjective(stack')
      /\ \A t \in Tasks : task'[t] = "closing" <=> t \in On(close.waiters)
      /\ \A t \in Tasks : <<"run", t>> \in On(stack') <=> task'[t] = "running"
  BY <1>1, OpenFacts
<1>5. QED
  BY <1>1, <1>2, <1>3, <1>4, BeginKeeps

\* A coroutine that joins the waiters of the close.
LEMMA NewWaiter ==
  \A c \in CloseStates(Tasks), t \in Tasks :
    IsInjective(c.waiters) /\ t \notin On(c.waiters) =>
      /\ WithWaiter(c, t) \in CloseStates(Tasks) /\ WithWaiter(c, t).phase = c.phase
      /\ WithWaiter(c, t).callback_waiter = c.callback_waiter
      /\ IsInjective(WithWaiter(c, t).waiters)
      /\ On(WithWaiter(c, t).waiters) = On(c.waiters) \cup {t}
BY NewWaiterFacts

LEMMA AwaitCloseKeeps ==
  ASSUME IInv, NEW t \in Tasks, AwaitClose(t)
  PROVE  IInv'
<1>1. /\ Top("run", t) /\ awaits' \in [Tasks -> 0..MaxAwaits]
      /\ UNCHANGED <<children, resuming, deletions>>
  BY DEF AwaitClose, Awaits, IInv, Base
<1>2. UNCHANGED <<owner, stop_requested, unaccepted, terminated>>
  BY ZenonT(60) DEF AwaitClose
<1>3. /\ <<"run", t>> \in On(stack) /\ Tail(stack) \in Seq(Frames) /\ IsInjective(Tail(stack))
      /\ On(Tail(stack)) = On(stack) \ {<<"run", t>>}
  BY <1>1, TopFacts
<1>4. /\ task[t] = "running" /\ close \in CloseStates(Tasks) /\ task \in [Tasks -> TaskStates]
      /\ close.callback_waiter = <<>> /\ t \notin On(close.waiters) /\ IsInjective(close.waiters)
  BY <1>3, ZenonT(60) DEF IInv, Base, Calls, Waiters
<1> DEFINE state == WithWaiter(close, t)
           tasks == [task EXCEPT ![t] = "closing"]
<1>5. /\ state \in CloseStates(Tasks) /\ state.phase = close.phase
      /\ state.callback_waiter = <<>>
      /\ IsInjective(state.waiters) /\ On(state.waiters) = On(close.waiters) \cup {t}
  <2>1. /\ state \in CloseStates(Tasks) /\ state.phase = close.phase
        /\ state.callback_waiter = close.callback_waiter
        /\ IsInjective(state.waiters) /\ On(state.waiters) = On(close.waiters) \cup {t}
    BY <1>4, NewWaiter, ZenonT(60)
  <2> HIDE DEF state
  <2>2. QED
    BY <1>4, <2>1, ZenonT(60)
<1>6. /\ state.owner_released = close.owner_released
      /\ state.completion_active = close.completion_active
  BY <1>4, WaiterFacts
<1>7. /\ tasks \in [Tasks -> TaskStates]
      /\ \A u \in Tasks : tasks[u] = IF u = t THEN "closing" ELSE task[u]
  BY <1>4 DEF TaskStates
<1>8. \/ UNCHANGED <<task, stack, close, native, registrations, slot, child>>
      \/ /\ close.phase = "closing" /\ close' = state /\ task' = tasks /\ stack' = Tail(stack)
         /\ UNCHANGED <<native, registrations, slot, child>>
      \/ /\ close.phase = "open" /\ BeginsClose(state) /\ task' = tasks /\ stack' = Tail(stack)
  BY DEF AwaitClose, Returns, SuspendsIn, IsOpen
<1> HIDE DEF state, tasks
<1>9. CASE UNCHANGED <<task, stack, close, native, registrations, slot, child>>
  BY <1>1, <1>2, <1>9, ReturnsKeeps
<1>10. CASE /\ close.phase = "closing" /\ close' = state /\ task' = tasks /\ stack' = Tail(stack)
            /\ UNCHANGED <<native, registrations, slot, child>>
  <2>1. /\ close.phase = "closing" /\ close' = state /\ task' = tasks /\ stack' = Tail(stack)
        /\ UNCHANGED <<native, registrations, slot, child>>
    BY <1>10
  <2>2. Base'
    BY <1>1, <1>3, <1>5, <1>7, <2>1 DEF IInv, Base
  <2>3. Booleans' /\ Flags'
    <3>1. Flags'
      BY <1>2, <1>3, <1>6, <2>1, FrameFacts, FlagsKept DEF IInv
    <3>2. QED
      BY <1>2, <3>1, ZenonT(60) DEF IInv, Booleans
  <2>4. Calls'
    BY <1>3, <1>5, <1>7, <2>1, FrameFacts DEF IInv, Calls
  <2>5. Handle' /\ Deleted'
    BY <1>1, <1>2, <1>3, <1>5, <2>1, FrameFacts DEF IInv, Handle, Deleted
  <2>6. Waiters'
    BY <1>1, <1>3, <1>5, <1>7, <2>1, FrameFacts, ZenonT(60) DEF IInv, Waiters
  <2>7. Consumer'
    BY <1>4, <1>5, <1>7, <2>1 DEF IInv, Consumer
  <2>8. Children'
    <3>1. Running(stack') = Running(stack)
      BY <1>3, <2>1, FrameFacts, RunningKept
    <3>2. QED
      BY <1>1, <2>1, <3>1, ChildrenNext DEF IInv, Children
  <2>9. QED
    BY <2>2, <2>3, <2>4, <2>5, <2>6, <2>7, <2>8, ZenonT(60) DEF IInv
<1>11. CASE close.phase = "open" /\ BeginsClose(state) /\ task' = tasks /\ stack' = Tail(stack)
  <2>1. close.phase = "open" /\ BeginsClose(state) /\ task' = tasks /\ stack' = Tail(stack)
    BY <1>11
  <2>2. owner' \in BOOLEAN /\ (state.owner_released <=> ~owner')
    BY <1>2, <1>6, ZenonT(60) DEF IInv, Flags
  <2>3. /\ \A u \in Tasks : task[u] = "closing" <=> u \in On(close.waiters)
        /\ \A u \in Tasks : <<"run", u>> \in On(stack) <=> task[u] = "running"
    BY <2>1, OpenFacts
  <2>4. /\ \A u \in Tasks : task'[u] = "accepting" <=> task[u] = "accepting"
        /\ \A u \in Tasks : task'[u] = "closing" <=> u \in On(state.waiters)
        /\ \A u \in Tasks : <<"run", u>> \in On(stack') <=> task'[u] = "running"
    BY <1>3, <1>4, <1>5, <1>7, <2>1, <2>3, FrameFacts
  <2>5. /\ \A u \in Tasks : <<"child", u>> \in On(stack') <=> <<"child", u>> \in On(stack)
        /\ \A f \in {Complete, Stop} : f \in On(stack') <=> f \in On(stack)
    BY <1>3, <2>1, FrameFacts
  <2>6. /\ task' \in [Tasks -> TaskStates] /\ stack' \in Seq(Frames) /\ IsInjective(stack')
    BY <1>3, <1>7, <2>1
  <2>7. QED
    BY <1>1, <1>2, <1>5, <1>6, <2>1, <2>2, <2>4, <2>5, <2>6, BeginKeeps
<1>12. QED
  BY <1>8, <1>9, <1>10, <1>11

LEMMA DestroyOwnerKeeps ==
  ASSUME IInv, DestroyOwner
  PROVE  IInv'
<1>1. UNCHANGED <<stack, task, awaits, children, resuming>>
  BY DEF DestroyOwner, taskVars
<1>2. owner /\ UNCHANGED <<stop_requested, unaccepted>>
  BY ZenonT(60) DEF DestroyOwner
<1>3. CASE slot # None
  <2>1. UNCHANGED <<close, native, deletions, registrations, slot, child>>
    BY <1>3 DEF DestroyOwner
  <2>2. terminated' = TRUE /\ owner' = owner
    BY <1>3, ZenonT(60) DEF DestroyOwner
  <2>3. Base'
    BY <1>1, <2>1 DEF IInv, Base
  <2>4. Booleans' /\ Flags'
    <3>1. Flags'
      BY <1>1, <1>2, <2>1, <2>2, FlagsKept DEF IInv
    <3>2. QED
      BY <1>2, <2>2, <3>1, ZenonT(60) DEF IInv, Booleans
  <2>5. Calls' /\ Handle' /\ Waiters' /\ Consumer' /\ Deleted'
    BY <1>1, <2>1, <2>2 DEF IInv, Calls, Handle, Waiters, Consumer, Deleted
  <2>6. Children'
    BY <1>1, <2>1, ChildrenNext DEF IInv, Children
  <2>7. QED
    BY <2>3, <2>4, <2>5, <2>6, ZenonT(60) DEF IInv
<1>4. CASE slot = None /\ close.phase = "open"
  <2>1. BeginsClose(OwnerReleased(close)) /\ deletions' = deletions
    BY <1>4 DEF DestroyOwner, IsOpen
  <2>2. owner' = FALSE /\ terminated' = terminated
    BY <1>4, ZenonT(60) DEF DestroyOwner
  <2>3. /\ close \in CloseStates(Tasks) /\ close.callback_waiter = <<>> /\ IsInjective(close.waiters)
        /\ task' \in [Tasks -> TaskStates] /\ awaits' \in [Tasks -> 0..MaxAwaits]
        /\ stack' \in Seq(Frames) /\ IsInjective(stack')
        /\ \A t \in Tasks : task'[t] = "closing" <=> t \in On(close.waiters)
        /\ \A t \in Tasks : <<"run", t>> \in On(stack') <=> task'[t] = "running"
    BY <1>1, <1>4, OpenFacts
  <2>4. /\ OwnerReleased(close) \in CloseStates(Tasks)
        /\ OwnerReleased(close).callback_waiter = <<>>
        /\ OwnerReleased(close).waiters = close.waiters
    BY <2>3, ReleasedFacts, ZenonT(60)
  <2>5. /\ OwnerReleased(close).owner_released
        /\ OwnerReleased(close).completion_active = close.completion_active
    BY <2>3, ReleasedFacts, ZenonT(60)
  <2>6. owner' \in BOOLEAN /\ (OwnerReleased(close).owner_released <=> ~owner')
    BY <2>2, <2>5, ZenonT(60)
  <2>7. QED
    BY <1>1, <1>2, <1>4, <2>1, <2>2, <2>3, <2>4, <2>5, <2>6, BeginKeeps
<1>5. CASE slot = None /\ close.phase # "open"
  <2>1. /\ close' = OwnerReleased(close) /\ UNCHANGED <<native, registrations, slot, child>>
        /\ deletions' = deletions + (IF CanDestroyNow(OwnerReleased(close)) THEN 1 ELSE 0)
    BY <1>5 DEF DestroyOwner, IsOpen
  <2>2. owner' = FALSE /\ terminated' = terminated
    BY <1>5, ZenonT(60) DEF DestroyOwner
  <2>3. /\ close \in CloseStates(Tasks) /\ close' \in CloseStates(Tasks)
        /\ close'.phase = close.phase /\ close'.waiters = close.waiters
        /\ close'.callback_waiter = close.callback_waiter
    BY <2>1, ReleasedFacts, ZenonT(60) DEF IInv, Base
  <2>4. close'.completion_active = close.completion_active /\ close'.owner_released
    BY <2>1, <2>3, ReleasedFacts, ZenonT(60)
  <2>5. Base'
    BY <1>1, <2>1, <2>3 DEF IInv, Base
  <2>6. Booleans' /\ Flags'
    <3>1. Booleans'
      BY <1>2, <2>2, ZenonT(60) DEF IInv, Booleans
    <3>2. Flags'
      BY <1>1, <1>2, <2>2, <2>4, ZenonT(60) DEF IInv, Flags
    <3>3. QED
      BY <3>1, <3>2
  <2>7. Calls' /\ Handle' /\ Waiters' /\ Consumer'
    BY <1>1, <1>5, <2>1, <2>3 DEF IInv, Calls, Handle, Waiters, Consumer
  <2>8. Deleted'
    <3>1. deletions = 0
      BY <1>2 DEF IInv, Deleted
    <3>2. CanDestroyNow(close') => close'.phase = "closed" /\ ~close'.completion_active
      BY ZenonT(60) DEF CanDestroyNow
    <3>3. CanDestroyNow(close') => close'.phase = "closed" /\ Complete \notin On(stack')
      BY <1>1, <2>4, <3>2, ZenonT(60) DEF IInv, Flags
    <3>4. QED
      BY <2>1, <2>2, <3>1, <3>3 DEF Deleted
  <2>9. Children'
    BY <1>1, <2>1, ChildrenNext DEF IInv, Children
  <2>10. QED
    BY <2>5, <2>6, <2>7, <2>8, <2>9, ZenonT(60) DEF IInv
<1>6. QED
  BY <1>3, <1>4, <1>5

LEMMA OnCloseKeeps == ASSUME IInv, OnClose PROVE IInv'
<1>1. /\ stack = <<>> /\ native = "closing" /\ native' = "closed" /\ close' = Completing(close)
      /\ resuming' = DetachedWaiters(close) /\ stack' = <<Complete>>
      /\ UNCHANGED <<task, awaits, registrations, slot, child, children, deletions>>
  BY DEF OnClose, InPoll, taskVars, cancelVars, acceptVars, Complete
<1>2. UNCHANGED <<owner, stop_requested, unaccepted, terminated>>
  BY ZenonT(60) DEF OnClose, cancelVars
<1>3. /\ On(stack) = {} /\ stack' \in Seq(Frames) /\ IsInjective(stack')
      /\ On(stack') = {Complete}
  BY <1>1, FrameFacts, OneCall, ZenonT(60)
<1>4. /\ close \in CloseStates(Tasks) /\ close.callback_waiter = <<>> /\ close.waiters \in Seq(Tasks)
      /\ resuming = <<>> /\ IsInjective(close.waiters)
  BY <1>3, CloseFacts, ZenonT(60) DEF IInv, Base, Waiters
<1>5. /\ close' \in CloseStates(Tasks) /\ close'.phase = "closed" /\ close'.waiters = <<>>
      /\ close'.callback_waiter = <<>> /\ resuming' = close.waiters
  <2>1. /\ Completing(close) \in CloseStates(Tasks) /\ Completing(close).phase = "closed"
        /\ Completing(close).waiters = <<>> /\ Completing(close).callback_waiter = <<>>
    BY <1>4, CompletionFacts
  <2>2. DetachedWaiters(close) = close.waiters
    BY <1>4 DEF DetachedWaiters
  <2>3. QED
    BY <1>1, <2>1, <2>2, ZenonT(60)
<1>6. close'.completion_active /\ close'.owner_released = close.owner_released
  BY <1>1, <1>4, CompletionFacts, ZenonT(60)
<1>7. slot = None /\ deletions = 0 /\ close.phase = "closing"
  BY <1>1 DEF IInv, Handle, Consumer, Deleted
<1>8. Base'
  BY <1>1, <1>3, <1>4, <1>5 DEF IInv, Base
<1>9. Booleans' /\ Flags'
  <2>1. Booleans'
    BY <1>2, ZenonT(60) DEF IInv, Booleans
  <2>2. Flags'
    BY <1>2, <1>3, <1>6, FrameFacts, ZenonT(60) DEF IInv, Flags
  <2>3. QED
    BY <2>1, <2>2
<1>10. Calls'
  BY <1>1, <1>3, <1>5, FrameFacts DEF IInv, Calls
<1>11. Handle' /\ Deleted'
  BY <1>1, <1>5, <1>7 DEF Handle, Deleted
<1>12. Waiters'
  <2>1. On(resuming) = {} /\ On(close'.waiters) = {} /\ IsInjective(close'.waiters)
    BY <1>4, <1>5, EmptyFacts, ZenonT(60)
  <2>2. QED
    BY <1>1, <1>3, <1>4, <1>5, <2>1 DEF IInv, Waiters
<1>13. Consumer'
  BY <1>1, <1>7 DEF IInv, Consumer
<1>14. Children'
  <2>1. Running(stack') = Running(stack)
    BY <1>3, FrameFacts, RunningKept
  <2>2. QED
    BY <1>1, <2>1, ChildrenNext DEF IInv, Children
<1>15. QED
  BY <1>8, <1>9, <1>10, <1>11, <1>12, <1>13, <1>14, ZenonT(60) DEF IInv

LEMMA CompleteNextKeeps == ASSUME IInv, CompleteNext PROVE IInv'
<1> DEFINE h == Head(resuming)
<1>1. /\ Top("complete", None) /\ resuming # <<>> /\ task' = [task EXCEPT ![h] = "running"]
      /\ stack' = <<<<"run", h>>>> \o stack /\ resuming' = Tail(resuming)
      /\ UNCHANGED <<awaits, registrations, close, slot, child, children, native, deletions>>
  BY DEF CompleteNext, cancelVars, acceptVars
<1>2. UNCHANGED <<owner, stop_requested, unaccepted, terminated>>
  BY ZenonT(60) DEF CompleteNext, cancelVars
<1>3. Complete \in On(stack) /\ stack \in Seq(Frames) /\ IsInjective(stack)
  BY <1>1, TopFacts DEF IInv, Base, Calls, Complete
<1>4. /\ resuming \in Seq(Tasks) /\ h \in Tasks /\ h \in On(resuming) /\ resuming' \in Seq(Tasks)
      /\ IsInjective(resuming') /\ On(resuming') = On(resuming) \ {h}
  BY <1>1, PopFacts DEF IInv, Base, Waiters
<1> HIDE DEF h
<1>5. close.phase = "closed" /\ close.waiters = <<>> /\ On(close.waiters) = {}
  BY <1>3, EmptyFacts, ZenonT(60) DEF IInv, Calls, Waiters
<1>6. task[h] = "closing" /\ \A u \in Tasks : task'[u] = IF u = h THEN "running" ELSE task[u]
  BY <1>1, <1>4 DEF IInv, Base, Waiters
<1>7. <<"run", h>> \notin On(stack)
  BY <1>4, <1>6 DEF IInv, Calls
<1>8. /\ stack' \in Seq(Frames) /\ IsInjective(stack') /\ On(stack') = On(stack) \cup {<<"run", h>>}
  BY <1>1, <1>3, <1>4, <1>7, EnterFrame, FrameFacts, ZenonT(60)
<1>9. Base'
  BY <1>1, <1>4, <1>8 DEF IInv, Base, TaskStates
<1>10. Booleans' /\ Flags'
  <2>1. Flags'
    BY <1>1, <1>2, <1>8, FrameFacts, FlagsKept, ZenonT(60) DEF IInv
  <2>2. QED
    BY <1>2, <2>1, ZenonT(60) DEF IInv, Booleans
<1>11. Calls'
  BY <1>1, <1>4, <1>6, <1>8, FrameFacts, ZenonT(60) DEF IInv, Calls
<1>12. Handle' /\ Deleted'
  BY <1>1, <1>2, <1>8, FrameFacts, ZenonT(60) DEF IInv, Handle, Deleted
<1>13. Waiters'
  <2>1. close' = close /\ Complete \in On(stack')
    BY <1>1, <1>3, <1>8, ZenonT(60)
  <2>2. \A u \in Tasks : task'[u] = "closing" <=> u \in On(close'.waiters) \cup On(resuming')
    <3>1. \A u \in Tasks : task[u] = "closing" <=> u \in On(close.waiters) \cup On(resuming)
      BY ZenonT(60) DEF IInv, Waiters
    <3>2. QED
      BY <1>4, <1>5, <1>6, <2>1, <3>1
  <2>3. QED
    BY <1>4, <1>5, <2>1, <2>2, ZenonT(60) DEF IInv, Waiters
<1>14. Consumer'
  BY <1>1, <1>6 DEF IInv, Consumer
<1>15. Children'
  <2>1. Running(stack') = Running(stack)
    BY <1>8, FrameFacts, RunningKept, ZenonT(60)
  <2>2. QED
    BY <1>1, <2>1, ChildrenNext DEF IInv, Children
<1>16. QED
  BY <1>9, <1>10, <1>11, <1>12, <1>13, <1>14, <1>15, ZenonT(60) DEF IInv

LEMMA CompleteReturnsKeeps == ASSUME IInv, CompleteReturns PROVE IInv'
<1>1. /\ Top("complete", None) /\ resuming = <<>> /\ close' = Completed(close)
      /\ stack' = Tail(stack)
      /\ deletions' = deletions + (IF DeletesState(close) THEN 1 ELSE 0)
      /\ UNCHANGED <<task, awaits, registrations, slot, child, children, native, resuming>>
  BY DEF CompleteReturns, taskVars, cancelVars, acceptVars
<1>2. UNCHANGED <<owner, stop_requested, unaccepted, terminated>>
  BY ZenonT(60) DEF CompleteReturns, cancelVars
<1>3. /\ Complete \in On(stack) /\ stack' \in Seq(Frames) /\ IsInjective(stack')
      /\ On(stack') = On(stack) \ {Complete}
  BY <1>1, TopFacts DEF Complete
<1>4. close \in CloseStates(Tasks) /\ close.phase = "closed" /\ deletions = 0
  BY <1>3 DEF IInv, Base, Calls, Deleted
<1>5. /\ close' \in CloseStates(Tasks) /\ close'.phase = "closed"
      /\ close'.waiters = close.waiters /\ close'.callback_waiter = close.callback_waiter
  BY <1>1, <1>4, CompletionFacts
<1>6. close'.owner_released = close.owner_released /\ ~close'.completion_active
  BY <1>1, <1>4, CompletionFacts, ZenonT(60)
<1>7. Base'
  BY <1>1, <1>3, <1>5 DEF IInv, Base
<1>8. Booleans' /\ Flags'
  <2>1. Booleans'
    BY <1>2, ZenonT(60) DEF IInv, Booleans
  <2>2. Flags'
    BY <1>2, <1>3, <1>6, FrameFacts, ZenonT(60) DEF IInv, Flags
  <2>3. QED
    BY <2>1, <2>2
<1>9. Calls'
  BY <1>1, <1>3, <1>5, FrameFacts, ZenonT(60) DEF IInv, Calls
<1>10. Handle'
  BY <1>1, <1>4, <1>5 DEF IInv, Handle
<1>11. Waiters' /\ Consumer'
  BY <1>1, <1>3, <1>4, <1>5, FrameFacts DEF IInv, Waiters, Consumer
<1>12. Deleted'
  <2>1. DeletesState(close) => ~owner'
    BY <1>2, ZenonT(60) DEF IInv, Flags, DeletesState
  <2>2. QED
    BY <1>1, <1>3, <1>4, <1>5, <2>1 DEF Deleted
<1>13. Children'
  <2>1. Running(stack') = Running(stack)
    BY <1>3, FrameFacts, RunningKept
  <2>2. QED
    BY <1>1, <2>1, ChildrenNext DEF IInv, Children
<1>14. QED
  BY <1>7, <1>8, <1>9, <1>10, <1>11, <1>12, <1>13, ZenonT(60) DEF IInv

LEMMA RequestStopKeeps == ASSUME IInv, RequestStop PROVE IInv'
<1>1. /\ stack' = <<Stop>> \o stack
      /\ UNCHANGED <<task, awaits, registrations, close, slot, child, children, native, resuming,
                     deletions>>
  BY DEF RequestStop, taskVars, acceptVars, lifeVars, Stop
<1>2. ~stop_requested /\ stop_requested' = TRUE /\ UNCHANGED <<owner, unaccepted, terminated>>
  BY ZenonT(60) DEF RequestStop, lifeVars
<1>3. Stop \notin On(stack)
  BY <1>2, ZenonT(60) DEF IInv, Flags
<1>4. stack' \in Seq(Frames) /\ IsInjective(stack') /\ On(stack') = On(stack) \cup {Stop}
  BY <1>1, <1>3, EnterFrame, FrameFacts DEF IInv, Base, Calls
<1>5. Base'
  BY <1>1, <1>4 DEF IInv, Base
<1>6. Booleans' /\ Flags'
  <2>1. Complete \in On(stack') <=> Complete \in On(stack)
    BY <1>4, FrameFacts
  <2>2. Booleans'
    BY <1>2, ZenonT(60) DEF IInv, Booleans
  <2>3. Flags'
    BY <1>1, <1>2, <2>1, ZenonT(60) DEF IInv, Flags
  <2>4. QED
    BY <2>2, <2>3
<1>7. Calls' /\ Handle'
  BY <1>1, <1>2, <1>4, FrameFacts DEF IInv, Calls, Handle
<1>8. Waiters' /\ Consumer' /\ Deleted'
  BY <1>1, <1>2, <1>4, FrameFacts DEF IInv, Waiters, Consumer, Deleted
<1>9. Children'
  <2>1. Running(stack') = Running(stack)
    BY <1>4, FrameFacts, RunningKept
  <2>2. QED
    BY <1>1, <2>1, ChildrenNext DEF IInv, Children
<1>10. QED
  BY <1>5, <1>6, <1>7, <1>8, <1>9, ZenonT(60) DEF IInv

LEMMA StopNextKeeps ==
  ASSUME IInv, StopNext
  PROVE  IInv'
<1>1. Quiesce /\ UNCHANGED <<stack, task, awaits, close, children, native, resuming, deletions>>
  <2>1. registrations = <<slot>>
    BY DEF StopNext, IInv, Consumer
  <2>2. HeadRegistration(registrations) = slot
    BY <2>1 DEF HeadRegistration
  <2>3. QED
    BY <2>2 DEF StopNext, taskVars, lifeVars
<1>2. UNCHANGED <<owner, stop_requested, unaccepted, terminated>>
  BY ZenonT(60) DEF StopNext, lifeVars
<1>3. QED
  BY <1>1, <1>2, FailsKeeps

LEMMA StopReturnsKeeps == ASSUME IInv, StopReturns PROVE IInv'
<1>1. /\ Top("stop", None) /\ stack' = Tail(stack)
      /\ UNCHANGED <<task, awaits, registrations, close, slot, child, children, native, resuming,
                     deletions>>
  BY DEF StopReturns, taskVars, cancelVars, acceptVars, lifeVars
<1>2. UNCHANGED <<owner, stop_requested, unaccepted, terminated>>
  BY ZenonT(60) DEF StopReturns, cancelVars, lifeVars
<1>3. stack' \in Seq(Frames) /\ IsInjective(stack') /\ On(stack') = On(stack) \ {Stop}
  BY <1>1, TopFacts, ZenonT(60) DEF Stop
<1>4. Base'
  BY <1>1, <1>3 DEF IInv, Base
<1>5. Booleans' /\ Flags'
  <2>1. Flags'
    BY <1>1, <1>2, <1>3, FrameFacts, FlagsKept DEF IInv
  <2>2. QED
    BY <1>2, <2>1, ZenonT(60) DEF IInv, Booleans
<1>6. Calls' /\ Handle' /\ Deleted'
  BY <1>1, <1>2, <1>3, FrameFacts DEF IInv, Calls, Handle, Deleted
<1>7. Waiters' /\ Consumer'
  BY <1>1, <1>3, FrameFacts DEF IInv, Waiters, Consumer
<1>8. Children'
  <2>1. Running(stack') = Running(stack)
    BY <1>3, FrameFacts, RunningKept
  <2>2. QED
    BY <1>1, <2>1, ChildrenNext DEF IInv, Children
<1>9. QED
  BY <1>4, <1>5, <1>6, <1>7, <1>8, ZenonT(60) DEF IInv

-----------------------------------------------------------------------------
(* The invariant.                                                          *)

\* Initially, whether make_state listens or its bind or listen failed.
LEMMA InitIInv == ASSUME LiveCount PROVE Init => IInv
<1> SUFFICES ASSUME Init PROVE IInv
  OBVIOUS
<1>1. /\ stack = <<>> /\ task = [t \in Tasks |-> "ready"] /\ awaits = [t \in Tasks |-> 0]
      /\ registrations = <<>> /\ slot = None /\ child = [t \in Tasks |-> "none"] /\ children = 0
      /\ resuming = <<>> /\ deletions = 0
  BY DEF Init
<1>2. stop_requested = FALSE /\ unaccepted = FALSE /\ terminated = FALSE
  BY ZenonT(60) DEF Init
<1>3. On(<<>>) = {} /\ IsInjective(<<>>)
  BY EmptyFacts
<1>5. \/ close = OpenState /\ native = "listening" /\ owner = TRUE
      \/ close = Begun(OwnerReleased(OpenState)) /\ native = "closing" /\ owner = FALSE
  BY ZenonT(60) DEF Init
<1>6. /\ close \in CloseStates(Tasks) /\ close.waiters = <<>> /\ close.callback_waiter = <<>>
      /\ close.phase = IF native = "listening" THEN "open" ELSE "closing"
      /\ native \in {"listening", "closing"}
  BY <1>5, OpenStateFacts, AbandonedFacts
<1>7. ~close.completion_active /\ owner \in BOOLEAN /\ (close.owner_released <=> ~owner)
  <2>1. CASE close = OpenState /\ owner = TRUE
    BY <2>1, OpenStateFacts, ZenonT(60)
  <2>2. CASE close = Begun(OwnerReleased(OpenState)) /\ owner = FALSE
    BY <2>2, OpenStateFacts, AbandonedFacts, ZenonT(60)
  <2>3. QED
    BY <1>5, <2>1, <2>2, ZenonT(60)
<1>8. ~owner => native # "listening"
  BY <1>5, ZenonT(60)
<1>9. Base
  BY <1>1, <1>6 DEF Base, TaskStates, ChildStates
<1>10. Booleans /\ Flags
  BY <1>1, <1>2, <1>3, <1>7, ZenonT(60) DEF Booleans, Flags
<1>11. Calls /\ Waiters
  BY <1>1, <1>3, <1>6 DEF Calls, Waiters
<1>12. Handle
  BY <1>6, <1>8 DEF Handle
<1>13. Consumer /\ Deleted
  BY <1>1 DEF Consumer, Deleted
<1>14. Children
  <2>1. Live(child) = {} /\ Running(stack) = 0
    BY <1>1, <1>3, ZenonT(60) DEF Live, Running
  <2>2. Cardinality(Live(child)) = 0
    BY <2>1, ZenonT(60) DEF LiveCount
  <2>3. QED
    BY <1>1, <2>1, <2>2 DEF Children
<1>15. QED
  BY <1>9, <1>10, <1>11, <1>12, <1>13, <1>14, ZenonT(60) DEF IInv

\* One case for each disjunct of Next.
LEMMA NextIInv == ASSUME LiveCount PROVE IInv /\ [Next]_vars => IInv'
<1> SUFFICES ASSUME IInv, [Next]_vars PROVE IInv'
  OBVIOUS
<1>1. ASSUME NEW t \in Tasks,
             \/ Scheduled(t) \/ Suspends(t) \/ AwaitAccept(t) \/ ChildClosed(t)
             \/ ChildReturns(t) \/ AwaitClose(t)
      PROVE  IInv'
  BY <1>1, ScheduledKeeps, SuspendsKeeps, AwaitAcceptKeeps, ChildClosedKeeps,
     ChildReturnsKeeps, AwaitCloseKeeps, ZenonT(60)
<1>2. ASSUME NEW accepted \in BOOLEAN, OnConnection(accepted) PROVE IInv'
  BY <1>2, OnConnectionKeeps, ZenonT(60)
<1>3. CASE OnConnectionIgnored \/ RequestClose \/ DestroyOwner
  BY <1>3, IgnoredKeeps, RequestCloseKeeps, DestroyOwnerKeeps, ZenonT(60)
<1>4. CASE OnClose \/ CompleteNext \/ CompleteReturns
  BY <1>4, OnCloseKeeps, CompleteNextKeeps, CompleteReturnsKeeps, ZenonT(60)
<1>5. CASE RequestStop \/ StopNext \/ StopReturns
  BY <1>5, RequestStopKeeps, StopNextKeeps, StopReturnsKeeps, ZenonT(60)
<1>6. CASE UNCHANGED vars
  <2>1. /\ awaits' = awaits
        /\ UNCHANGED <<stack, task, registrations, close, slot, child, children, native, resuming,
                       deletions>>
    BY <1>6 DEF vars, taskVars, cancelVars, acceptVars, lifeVars
  <2>2. UNCHANGED <<owner, stop_requested, unaccepted, terminated>>
    BY <1>6, ZenonT(60) DEF vars, cancelVars, lifeVars
  <2>3. awaits' \in [Tasks -> 0..MaxAwaits]
    BY <2>1 DEF IInv, Base
  <2>4. QED
    BY <2>1, <2>2, <2>3, ReturnsKeeps
<1>7. QED
  BY <1>1, <1>2, <1>3, <1>4, <1>5, <1>6, ZenonT(60) DEF Next

-----------------------------------------------------------------------------
(* Counting the children.                                                  *)

Finite == INSTANCE FiniteSetTheorems

\* The library counts as FiniteSets does.
LEMMA SameCardinality ==
  \A S : /\ Finite!Cardinality(S) = Cardinality(S)
         /\ Finite!IsFiniteSet(S) <=> IsFiniteSet(S)
BY ZenonT(60) DEF Finite!Cardinality, Cardinality, Finite!IsFiniteSet, IsFiniteSet

LEMMA SmallSets == Cardinality({}) = 0 /\ \A x : Cardinality({x}) = 1
<1>1. Finite!Cardinality({}) = 0 /\ \A x : Finite!Cardinality({x}) = 1
  BY Finite!FS_EmptySet, Finite!FS_Singleton, ZenonT(60)
<1>2. QED
  BY <1>1, SameCardinality, ZenonT(60)

LEMMA FiniteSubsets ==
  ASSUME NEW S, IsFiniteSet(S)
  PROVE  /\ Cardinality(S) \in Nat /\ (Cardinality(S) = 0 <=> S = {})
         /\ \A T \in SUBSET S : IsFiniteSet(T) /\ Cardinality(T) <= Cardinality(S)
<1>1. Finite!IsFiniteSet(S)
  BY SameCardinality, ZenonT(60)
<1>2. Finite!Cardinality(S) \in Nat /\ (Finite!Cardinality(S) = 0 <=> S = {})
  BY <1>1, Finite!FS_EmptySet, Finite!FS_CardinalityType, ZenonT(60)
<1>3. \A T \in SUBSET S :
        Finite!IsFiniteSet(T) /\ Finite!Cardinality(T) <= Finite!Cardinality(S)
  BY <1>1, Finite!FS_Subset, ZenonT(60)
<1>4. QED
  BY <1>2, <1>3, SameCardinality, ZenonT(60)

LEMMA OneMoreOrLess ==
  ASSUME NEW S, IsFiniteSet(S), NEW x
  PROVE  /\ x \notin S => Cardinality(S \cup {x}) = Cardinality(S) + 1
         /\ x \in S => Cardinality(S \ {x}) = Cardinality(S) - 1
<1>1. Finite!IsFiniteSet(S)
  BY SameCardinality, ZenonT(60)
<1>2. /\ x \notin S => Finite!Cardinality(S \cup {x}) = Finite!Cardinality(S) + 1
      /\ x \in S => Finite!Cardinality(S \ {x}) = Finite!Cardinality(S) - 1
  BY <1>1, Finite!FS_AddElement, Finite!FS_RemoveElement, ZenonT(60)
<1>3. QED
  BY <1>2, SameCardinality, ZenonT(60)

LEMMA LiveType ==
  ASSUME NEW c
  PROVE  /\ IsFiniteSet(Live(c)) /\ Cardinality(Live(c)) \in Nat /\ Cardinality(Tasks) \in Nat
         /\ Cardinality(Live(c)) <= Cardinality(Tasks)
<1>1. Live(c) \in SUBSET Tasks
  BY DEF Live
<1>2. QED
  BY <1>1, FiniteSubsets

\* How the number of live children changes with one of them.
LEMMA LiveStep ==
  ASSUME NEW c \in [Tasks -> ChildStates], NEW d \in [Tasks -> ChildStates],
         NEW t \in Tasks, \A u \in Tasks \ {t} : d[u] = c[u]
  PROVE  /\ Cardinality(Live(c)) \in Nat
         /\ c[t] = "none" /\ d[t] # "none" => Cardinality(Live(d)) = Cardinality(Live(c)) + 1
         /\ c[t] # "none" /\ d[t] = "none" => Cardinality(Live(d)) = Cardinality(Live(c)) - 1
<1>1. /\ c[t] = "none" /\ d[t] # "none" => t \notin Live(c) /\ Live(d) = Live(c) \cup {t}
      /\ c[t] # "none" /\ d[t] = "none" => t \in Live(c) /\ Live(d) = Live(c) \ {t}
  BY DEF Live
<1>2. IsFiniteSet(Live(c)) /\ Cardinality(Live(c)) \in Nat
  BY LiveType
<1>3. /\ t \notin Live(c) => Cardinality(Live(c) \cup {t}) = Cardinality(Live(c)) + 1
      /\ t \in Live(c) => Cardinality(Live(c) \ {t}) = Cardinality(Live(c)) - 1
  BY <1>2, OneMoreOrLess, ZenonT(60)
<1>4. QED
  BY <1>1, <1>2, <1>3, ZenonT(60)

\* Counting is what the lemmas above assume.
LEMMA LiveFacts == LiveCount
<1>1. Cardinality({}) = 0
  BY SmallSets
<1>2. \A c : Cardinality(Live(c)) \in Nat
  BY LiveType
<1>3. QED
  BY <1>1, <1>2, LiveStep DEF LiveCount

\* Every step of accept, close, cancellation and destruction keeps the call stack, the
\* slot, the close record, the owner and the number of children in agreement.
THEOREM ListenerInvariance == Spec => []IInv
<1>1. IInv /\ [Next]_vars => IInv'
  BY LiveFacts, NextIInv
<1>2. Init => IInv
  BY LiveFacts, InitIInv
<1>3. QED
  BY <1>1, <1>2, PTL DEF Spec

\* Once request_close, close() or the destructor begins the close of a listener its
\* accept slot is empty, through every re-entrant resumption; and release_owner and
\* complete() delete its state only after uv_close has finished, with no owner, no
\* running completion and no task that waits for the close.
THEOREM ListenerDeletedLast == Spec => []NoUseAfterClose
<1>1. IInv => NoUseAfterClose
  <2> SUFFICES ASSUME IInv PROVE NoUseAfterClose
    OBVIOUS
  <2>1. IsClosing(close) => slot = None
    BY DEF IInv, Consumer, IsClosing
  <2>2. ASSUME deletions > 0
        PROVE  /\ native = "closed" /\ ~owner /\ ~OnStack("complete", None)
               /\ \A t \in Tasks : task[t] # "closing"
    <3>1. close.phase = "closed" /\ ~owner /\ Complete \notin On(stack)
      BY <2>2 DEF IInv, Deleted
    <3>2. native = "closed" /\ close.waiters = <<>> /\ resuming = <<>>
      BY <3>1 DEF IInv, Base, Handle, Waiters
    <3>3. \A t \in Tasks : task[t] # "closing"
      BY <3>2, EmptyFacts, ZenonT(60) DEF IInv, Waiters
    <3>4. Range(stack) = On(stack)
      BY RangeIsOn DEF IInv, Base
    <3>5. QED
      BY <3>1, <3>2, <3>3, <3>4, ZenonT(60) DEF OnStack, Complete
  <2>3. QED
    BY <2>1, <2>2, ZenonT(60) DEF NoUseAfterClose
<1>2. QED
  BY <1>1, ListenerInvariance, PTL

\* The child that accept_awaiter makes before a peer exists is neither leaked nor
\* deleted twice: it is transferred by on_connection, or deleted by its own close,
\* and the ones that are left belong to suspended accepts and to running callbacks.
THEOREM ChildrenAreAccounted == Spec => []ChildrenAccounted
<1>1. IInv => ChildrenAccounted
  <2> SUFFICES ASSUME IInv PROVE ChildrenAccounted
    OBVIOUS
  <2> DEFINE frames == {i \in 1..Len(stack) : stack[i][1] = "child"}
  <2>1. stack \in Seq(Frames) /\ IsInjective(stack)
    BY DEF IInv, Base, Calls
  <2>2. Cardinality(frames) = Running(stack)
    <3>1. ASSUME NEW i \in frames PROVE \E t \in Tasks : stack[i] = <<"child", t>>
      <4>1. stack[i] \in Frames /\ stack[i][1] = "child"
        BY <2>1
      <4>2. QED
        BY <4>1 DEF Frames
    <3>2. CASE \E t \in Tasks : <<"child", t>> \in On(stack)
      <4>1. PICK t \in Tasks : <<"child", t>> \in On(stack)
        BY <3>2
      <4>2. PICK k \in 1..Len(stack) : stack[k] = <<"child", t>>
        BY <4>1 DEF On
      <4>3. k \in frames
        BY <4>2
      <4>4. ASSUME NEW i \in frames PROVE i = k
        <5>1. PICK u \in Tasks : stack[i] = <<"child", u>>
          BY <3>1
        <5>2. i \in 1..Len(stack) /\ <<"child", u>> \in On(stack)
          BY <5>1 DEF On
        <5>3. stack[i] = stack[k]
          BY <4>1, <4>2, <5>1, <5>2 DEF IInv, Calls
        <5>4. QED
          BY <2>1, <4>2, <5>2, <5>3 DEF IsInjective
      <4>5. frames = {k}
        BY <4>3, <4>4
      <4>6. QED
        BY <3>2, <4>5, SmallSets, ZenonT(60) DEF Running
    <3>3. CASE ~\E t \in Tasks : <<"child", t>> \in On(stack)
      <4>1. frames = {}
        BY <3>1, <3>3 DEF On
      <4>2. QED
        BY <3>3, <4>1, SmallSets DEF Running
    <3>4. QED
      BY <3>2, <3>3, ZenonT(60)
  <2>3. children = Cardinality(Live(child)) + Cardinality(frames)
    BY <2>2 DEF IInv, Children
  <2>4. children \in 0..(2 * Cardinality(Tasks))
    <3>1. /\ Cardinality(Live(child)) \in Nat /\ Cardinality(Tasks) \in Nat
          /\ Cardinality(Live(child)) <= Cardinality(Tasks)
      BY LiveType
    <3>2. CASE Running(stack) = 0
      BY <3>1, <3>2 DEF IInv, Children
    <3>3. CASE Running(stack) # 0
      <4>1. Running(stack) = 1 /\ Tasks # {}
        BY <3>3, ZenonT(60) DEF Running
      <4>2. Cardinality(Tasks) # 0
        BY <4>1, FiniteSubsets
      <4>3. QED
        BY <3>1, <4>1, <4>2 DEF IInv, Children
    <3>4. QED
      BY <3>2, <3>3
  <2>5. TypeOK
    <3>1. /\ stop_requested \in BOOLEAN /\ owner \in BOOLEAN /\ unaccepted \in BOOLEAN
          /\ terminated \in BOOLEAN
      BY ZenonT(60) DEF IInv, Flags, Booleans
    <3>3. deletions \in 0..1
      BY DEF IInv, Deleted
    <3>4. /\ stack \in Seq(Frames) /\ awaits \in [Tasks -> 0..MaxAwaits]
          /\ task \in [Tasks -> {"ready", "running", "accepting", "closing"}]
          /\ registrations \in Seq(Tasks) /\ close \in CloseStates(Tasks)
          /\ slot \in Tasks \cup {None} /\ child \in [Tasks -> {"none", "provisional", "closing"}]
          /\ native \in {"listening", "closing", "closed"} /\ resuming \in Seq(Tasks)
      BY DEF IInv, Base, TaskStates, ChildStates
    <3>5. QED
      BY <2>4, <3>1, <3>3, <3>4, ZenonT(60) DEF TypeOK
  <2>6. QED
    BY <2>3, <2>5, ZenonT(60) DEF ChildrenAccounted, Live
<1>2. QED
  BY <1>1, ListenerInvariance, PTL

=============================================================================
