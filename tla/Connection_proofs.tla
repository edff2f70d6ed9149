------------------------- MODULE Connection_proofs -------------------------
(***************************************************************************)
(* Proofs about Connection for every set of families and tasks and for all *)
(* bounds.                                                                 *)
(***************************************************************************)
EXTENDS Connection, StackLemmas

\* Time limits of the backends, in seconds.
USE SMTT(60), ZenonT(60)

Complete == <<"complete", None>>
Stop == <<"stop", None>>
Operations == {"ready", "running", "connecting", "reading", "receiving", "discarding", "writing",
               "exporting", "closing"}

\* The types, without the Boolean variables.
BaseType ==
  /\ stack \in Seq(Frames)
  /\ task \in [Tasks -> Operations]
  /\ awaits \in [Tasks -> 0..MaxAwaits]
  /\ registrations \in Seq(Tasks)
  /\ close \in CloseStates(Tasks)
  /\ active_read \in Tasks \cup {None}
  /\ native \in {"none", "connecting", "open", "closing", "closed"}
  /\ owner \in {"nobody", "awaiter", "user", "released"}
  /\ connect \in {"none", "pending", "ok", "failed"}
  /\ resuming \in Seq(Tasks)
  /\ deletions \in 0..2

\* The flags of the cancellation, of the close and of the two machines.
Flags ==
  /\ stop_requested \in BOOLEAN /\ terminated \in BOOLEAN
  /\ Complete \in On(stack) <=> close.completion_active
  /\ Stop \in On(stack) => stop_requested
  /\ close.owner_released <=> owner = "released"

\* The flags of the operations.
Slots ==
  /\ write_active \in BOOLEAN /\ export_active \in BOOLEAN /\ reading \in BOOLEAN
  /\ incoming \in BOOLEAN /\ forced \in BOOLEAN
  /\ reading <=> active_read # None
  /\ Occupied(write_active, "writing") /\ Occupied(export_active, "exporting")
  /\ Occupied(incoming, "discarding")

\* Each call is entered once.
Calls ==
  /\ IsInjective(stack)
  /\ \A t \in Tasks : <<"run", t>> \in On(stack) <=> task[t] = "running"
  /\ Complete \in On(stack) => close.phase = "closed"

\* Where the native handle is agrees with the close, the owner and the connect.
Handle ==
  /\ native \in {"none", "connecting", "open"} <=> close.phase = "open"
  /\ native = "closing" <=> close.phase = "closing"
  /\ native = "none" <=> owner = "nobody"
  /\ native = "connecting" <=> owner = "awaiter"
  /\ native = "connecting" <=> connect = "pending"
  /\ native = "none" => connect = "none"
  /\ connect = "failed" => owner = "released"
  /\ owner = "released" => close.phase # "open"

\* Who waits for the native handle: a task that connects, until the connect
\* succeeds or the handle closed, and whoever awaits the close.
Waiters ==
  /\ IsInjective(close.waiters) /\ IsInjective(resuming)
  /\ close.callback_waiter # <<>> =>
       /\ connect = "failed" /\ close.phase = "closing"
       /\ \E t \in Tasks : close.callback_waiter = <<t>> /\ task[t] = "connecting"
  /\ connect = "failed" => close.waiters = <<>>
  /\ connect = "failed" /\ close.phase = "closing" => close.callback_waiter # <<>>
  /\ close.waiters # <<>> => close.phase = "closing"
  /\ resuming # <<>> => Complete \in On(stack)
  /\ \A t \in Tasks : t \in On(close.waiters) => task[t] = "closing"
  /\ \A t \in Tasks : t \in On(resuming) => task[t] \in {"connecting", "closing"}
  /\ \A t \in Tasks : task[t] = "closing" => t \in On(close.waiters) \cup On(resuming)
  /\ \A t \in Tasks : task[t] = "connecting" =>
       \/ native = "connecting"
       \/ close.callback_waiter = <<t>>
       \/ t \in On(resuming)
  /\ \A t, u \in Tasks : task[t] = "connecting" /\ task[u] = "connecting" => t = u

\* The operations and the handle they need.
Work ==
  /\ \A t \in Tasks : task[t] \in {"reading", "receiving"} <=> active_read = t
  /\ registrations = IF active_read = None THEN <<>> ELSE <<active_read>>
  /\ active_read # None => native = "open"
  /\ export_active => native = "open" /\ family = "tcp"
  /\ write_active => native = "open" \/ (native = "closing" /\ forced)
  /\ incoming => close.phase # "open"
  /\ \A t \in Tasks : task[t] = "receiving" => family = "pipe"

Deleted ==
  deletions > 0 =>
    /\ deletions = 1 /\ close.phase = "closed" /\ owner = "released" /\ Complete \notin On(stack)

CInv == BaseType /\ Flags /\ Slots /\ Calls /\ Handle /\ Waiters /\ Work /\ Deleted

-----------------------------------------------------------------------------
(* Frames, tasks and flags.                                                *)

LEMMA FrameFacts ==
  /\ \A t \in Tasks : <<"run", t>> \in Frames
  /\ Complete \in Frames /\ Stop \in Frames /\ Complete # Stop
  /\ \A t : <<"run", t>> \notin {Complete, Stop}
  /\ \A t, u : <<"run", t>> = <<"run", u>> => t = u
BY DEF Frames, Complete, Stop

LEMMA EnterFrame ==
  \A f \in Frames, s \in Seq(Frames) :
    IsInjective(s) /\ f \notin On(s) =>
      /\ <<f>> \o s \in Seq(Frames) /\ IsInjective(<<f>> \o s)
      /\ On(<<f>> \o s) = On(s) \cup {f}
BY PushCall

\* Leaving the top of the stack.
LEMMA TopFacts ==
  ASSUME CInv, NEW f, NEW x, stack # <<>>, Head(stack) = <<f, x>>
  PROVE  /\ <<f, x>> \in On(stack) /\ Tail(stack) \in Seq(Frames) /\ IsInjective(Tail(stack))
         /\ On(Tail(stack)) = On(stack) \ {<<f, x>>}
<1>1. stack \in Seq(Frames) /\ IsInjective(stack)
  BY DEF CInv, BaseType, Calls
<1>2. QED
  BY <1>1, PopCall

\* The step keeps the calls and the tasks that run in agreement, and neither enters
\* nor leaves complete() or request_stop.
Tracks ==
  /\ stack' \in Seq(Frames) /\ IsInjective(stack')
  /\ Complete \in On(stack') <=> Complete \in On(stack)
  /\ Stop \in On(stack') <=> Stop \in On(stack)
  /\ task' \in [Tasks -> Operations]
  /\ \A u \in Tasks : <<"run", u>> \in On(stack') <=> task'[u] = "running"

\* The step also takes task t, and no other, to the operation.
Moves(t, operation) ==
  /\ Tracks
  /\ \A u \in Tasks : task'[u] = IF u = t THEN operation ELSE task[u]

\* A task that is suspended from the top of the stack, and one that is resumed.
LEMMA SuspendMoves ==
  ASSUME CInv, NEW t \in Tasks, NEW operation \in Operations \ {"running"}, Top("run", t),
         SuspendsIn(t, operation)
  PROVE  Moves(t, operation) /\ task[t] = "running"
<1>1. /\ stack # <<>> /\ Head(stack) = <<"run", t>> /\ stack' = Tail(stack)
      /\ task' = [task EXCEPT ![t] = operation] /\ task \in [Tasks -> Operations]
  BY DEF Top, SuspendsIn, CInv, BaseType
<1>2. /\ <<"run", t>> \in On(stack) /\ stack' \in Seq(Frames) /\ IsInjective(stack')
      /\ On(stack') = On(stack) \ {<<"run", t>>}
  BY <1>1, TopFacts
<1>3. task[t] = "running"
  BY <1>2 DEF CInv, Calls
<1>4. \A u \in Tasks : task'[u] = IF u = t THEN operation ELSE task[u]
  BY <1>1
<1>5. \A u \in Tasks : <<"run", u>> \in On(stack') <=> task'[u] = "running"
  BY <1>2, <1>4, FrameFacts DEF CInv, Calls
<1>6. QED
  BY <1>1, <1>2, <1>3, <1>4, <1>5, FrameFacts DEF Moves, Tracks

LEMMA ResumeMoves ==
  ASSUME CInv, NEW t \in Tasks, task[t] # "running", Resumes(t)
  PROVE  Moves(t, "running")
<1>1. task' = [task EXCEPT ![t] = "running"] /\ task \in [Tasks -> Operations]
  BY DEF Resumes, CInv, BaseType
<1>2. stack \in Seq(Frames) /\ IsInjective(stack) /\ <<"run", t>> \notin On(stack)
  BY DEF CInv, BaseType, Calls
<1>3. stack' = <<<<"run", t>>>> \o stack
  BY DEF Resumes
<1>4. /\ stack' \in Seq(Frames) /\ IsInjective(stack')
      /\ On(stack') = On(stack) \cup {<<"run", t>>}
  BY <1>2, <1>3, EnterFrame, FrameFacts, ZenonT(60)
<1>5. \A u \in Tasks : task'[u] = IF u = t THEN "running" ELSE task[u]
  BY <1>1
<1>6. \A u \in Tasks : <<"run", u>> \in On(stack') <=> task'[u] = "running"
  BY <1>4, <1>5, FrameFacts DEF CInv, Calls
<1>7. task' \in [Tasks -> Operations]
  BY <1>1 DEF Operations
<1>8. QED
  BY <1>4, <1>5, <1>6, <1>7, FrameFacts DEF Moves, Tracks

\* Steps that are not about the flags.
LEMMA FlagsKept ==
  ASSUME Flags, UNCHANGED <<stop_requested, terminated>>,
         close'.completion_active = close.completion_active,
         close'.owner_released <=> owner' = "released",
         Complete \in On(stack') <=> Complete \in On(stack), Stop \in On(stack') => Stop \in On(stack)
  PROVE  Flags'
BY ZenonT(60) DEF Flags

\* A step of the operations: it moves one task, and the life of the handle goes on.
LEMMA WorkStep ==
  ASSUME CInv, NEW t \in Tasks, NEW operation \in Operations, Moves(t, operation),
         {task[t], operation} \cap {"connecting", "closing"} = {},
         awaits' \in [Tasks -> 0..MaxAwaits], registrations' \in Seq(Tasks),
         active_read' \in Tasks \cup {None},
         UNCHANGED <<close, native, owner, connect, resuming, deletions>>,
         UNCHANGED <<stop_requested, terminated>>,
         Slots', Work'
  PROVE  CInv'
<1>1. /\ stack' \in Seq(Frames) /\ IsInjective(stack') /\ task' \in [Tasks -> Operations]
      /\ \A u \in Tasks : task'[u] = IF u = t THEN operation ELSE task[u]
      /\ \A u \in Tasks : <<"run", u>> \in On(stack') <=> task'[u] = "running"
  BY DEF Moves, Tracks
<1>2. /\ Complete \in On(stack') <=> Complete \in On(stack)
      /\ Stop \in On(stack') <=> Stop \in On(stack)
  BY ZenonT(60) DEF Moves, Tracks
<1>3. BaseType'
  BY <1>1 DEF CInv, BaseType
<1>4. Flags'
  BY <1>2, ZenonT(60) DEF CInv, Flags
<1>5. Calls'
  BY <1>1, <1>2 DEF CInv, Calls
<1>6. Handle'
  BY DEF CInv, Handle
<1>7. Waiters'
  <2>1. \A u \in Tasks : /\ task'[u] = "connecting" <=> task[u] = "connecting"
                         /\ task'[u] = "closing" <=> task[u] = "closing"
    BY <1>1, ZenonT(60)
  <2>2. QED
    BY <1>2, <2>1, ZenonT(60) DEF CInv, Waiters
<1>8. Deleted'
  BY <1>2 DEF CInv, Deleted
<1>9. QED
  BY <1>3, <1>4, <1>5, <1>6, <1>7, <1>8, ZenonT(60) DEF CInv

\* The flags of the operations when a task that is in none of them moves.
LEMMA SlotsKept ==
  ASSUME Slots, UNCHANGED <<write_active, export_active, incoming>>,
         reading' \in BOOLEAN, forced' \in BOOLEAN, reading' <=> active_read' # None,
         NEW t \in Tasks, NEW operation, Moves(t, operation),
         {task[t], operation} \cap {"writing", "exporting", "discarding"} = {}
  PROVE  Slots'
<1>1. \A u \in Tasks : /\ task'[u] = "writing" <=> task[u] = "writing"
                       /\ task'[u] = "exporting" <=> task[u] = "exporting"
                       /\ task'[u] = "discarding" <=> task[u] = "discarding"
  BY ZenonT(60) DEF Moves
<1>2. Occupied(write_active, "writing")'
  BY <1>1, ZenonT(60) DEF Slots, Occupied
<1>3. Occupied(export_active, "exporting")'
  BY <1>1, ZenonT(60) DEF Slots, Occupied
<1>4. Occupied(incoming, "discarding")'
  BY <1>1, ZenonT(60) DEF Slots, Occupied
<1>5. QED
  BY <1>2, <1>3, <1>4, ZenonT(60) DEF Slots

-----------------------------------------------------------------------------
(* Tasks.                                                                  *)

LEMMA ScheduledKeeps == ASSUME CInv, NEW t \in Tasks, Scheduled(t), Fixed PROVE CInv'
<1>1. /\ task[t] = "ready" /\ stack = <<>> /\ Resumes(t)
      /\ UNCHANGED <<family, awaits, registrations, active_read, close, native, owner, connect,
                     resuming, deletions>>
  BY DEF Scheduled, InPoll, Resumes, Fixed, cancelVars, ioVars, lifeVars
<1>2. UNCHANGED <<stop_requested, terminated, write_active, export_active, reading, incoming, forced>>
  BY ZenonT(60) DEF Scheduled, cancelVars, ioVars, lifeVars
<1>3. Moves(t, "running")
  BY <1>1, ResumeMoves
<1>4. Slots'
  BY <1>1, <1>2, <1>3, SlotsKept DEF CInv, Slots
<1>5. Work'
  BY <1>1, <1>2, <1>3 DEF CInv, Work, Moves
<1>6. QED
  BY <1>1, <1>2, <1>3, <1>4, <1>5, WorkStep DEF Operations, CInv, BaseType

LEMMA SuspendsKeeps == ASSUME CInv, NEW t \in Tasks, Suspends(t), Fixed PROVE CInv'
<1>1. /\ Top("run", t) /\ SuspendsIn(t, "ready")
      /\ UNCHANGED <<family, awaits, registrations, active_read, close, native, owner, connect,
                     resuming, deletions>>
  BY DEF Suspends, SuspendsIn, Fixed, cancelVars, ioVars, lifeVars
<1>2. UNCHANGED <<stop_requested, terminated, write_active, export_active, reading, incoming, forced>>
  BY ZenonT(60) DEF Suspends, cancelVars, ioVars, lifeVars
<1>3. Moves(t, "ready") /\ task[t] = "running"
  BY <1>1, SuspendMoves DEF Operations
<1>4. Slots'
  BY <1>1, <1>2, <1>3, SlotsKept DEF CInv, Slots
<1>5. Work'
  BY <1>1, <1>2, <1>3 DEF CInv, Work, Moves
<1>6. QED
  BY <1>1, <1>2, <1>3, <1>4, <1>5, WorkStep DEF Operations, CInv, BaseType

\* An operation that ends at once.
LEMMA ReturnsKeeps ==
  ASSUME CInv, NEW t \in Tasks, Awaits(t), Returns,
         UNCHANGED <<family, cancelVars, ioVars, lifeVars>>
  PROVE  CInv'
<1>1. UNCHANGED <<family, stack, task, registrations, active_read, close, native, owner, connect,
                  resuming, deletions>>
  BY DEF Returns, cancelVars, ioVars, lifeVars
<1>2. UNCHANGED <<stop_requested, terminated, write_active, export_active, reading, incoming, forced>>
  BY ZenonT(60) DEF cancelVars, ioVars, lifeVars
<1>3. awaits' \in [Tasks -> 0..MaxAwaits]
  BY ConnectionAssumption DEF Awaits, CInv, BaseType
<1>4. BaseType'
  BY <1>1, <1>3 DEF CInv, BaseType
<1>5. Flags' /\ Slots'
  BY <1>1, <1>2, ZenonT(60) DEF CInv, Flags, Slots, Occupied
<1>6. Calls' /\ Handle' /\ Waiters' /\ Deleted'
  BY <1>1 DEF CInv, Calls, Handle, Waiters, Deleted
<1>7. Work'
  BY <1>1, <1>2 DEF CInv, Work
<1>8. QED
  BY <1>4, <1>5, <1>6, <1>7, ZenonT(60) DEF CInv

\* What an await counts and where the task is.
LEMMA AwaitFacts ==
  ASSUME CInv, NEW t \in Tasks, Awaits(t)
  PROVE  Top("run", t) /\ awaits' \in [Tasks -> 0..MaxAwaits]
BY ConnectionAssumption DEF Awaits, CInv, BaseType

-----------------------------------------------------------------------------
(* Reading and writing.                                                    *)

LEMMA AwaitReadKeeps ==
  ASSUME CInv, NEW t \in Tasks, NEW operation \in {"reading", "receiving"},
         operation = "receiving" => family = "pipe", AwaitRead(t, operation), Fixed
  PROVE  CInv'
<1>1. CASE Returns /\ UNCHANGED <<active_read, reading, registrations>>
  BY <1>1, ReturnsKeeps DEF AwaitRead, Fixed, cancelVars, ioVars, lifeVars
<1>2. CASE /\ ~IsClosing(close) /\ active_read = None /\ SuspendsIn(t, operation)
           /\ active_read' = t /\ reading' = TRUE
           /\ registrations' = Registered(registrations, t)
  <2>1. /\ close.phase = "open" /\ owner = "user" /\ active_read = None /\ active_read' = t
        /\ t # None /\ SuspendsIn(t, operation) /\ registrations' = <<t>>
        /\ UNCHANGED <<family, close, native, owner, connect, resuming, deletions>>
    BY <1>2, ConnectionAssumption
       DEF AwaitRead, IsClosing, Fixed, lifeVars, CInv, Work, Registered
  <2>2. /\ UNCHANGED <<stop_requested, terminated, write_active, export_active, incoming, forced>>
        /\ reading' = TRUE
    BY <1>2, ZenonT(60) DEF AwaitRead, lifeVars
  <2>3. Top("run", t) /\ awaits' \in [Tasks -> 0..MaxAwaits]
    BY AwaitFacts DEF AwaitRead
  <2>4. Moves(t, operation) /\ task[t] = "running"
    BY <2>1, <2>3, SuspendMoves DEF Operations
  <2>5. Slots'
    <3>1. reading' \in BOOLEAN /\ forced' \in BOOLEAN /\ (reading' <=> active_read' # None)
      BY <2>1, <2>2, ZenonT(60) DEF CInv, Slots
    <3>2. QED
      BY <2>2, <2>4, <3>1, SlotsKept DEF CInv
  <2>6. native = "open"
    BY <2>1 DEF CInv, BaseType, Handle
  <2>7. Work'
    BY <2>1, <2>2, <2>4, <2>6, ConnectionAssumption DEF CInv, Work, Moves
  <2>8. QED
    BY <2>1, <2>2, <2>3, <2>4, <2>5, <2>7, WorkStep DEF Operations
<1>3. QED
  BY <1>1, <1>2, ZenonT(60) DEF AwaitRead

\* The slot of the reader is given up.
LEMMA ReleaseFacts ==
  ASSUME CInv, active_read # None, ReleaseSlots
  PROVE  /\ active_read \in Tasks /\ task[active_read] \in {"reading", "receiving"}
         /\ native = "open" /\ registrations' = <<>> /\ active_read' = None
BY UnregisterOnly DEF ReleaseSlots, CInv, BaseType, Work

\* A reader that resumes, from on_read, on_receive or a stop request.
LEMMA ReadEndsKeeps ==
  ASSUME CInv, active_read # None, ReleaseSlots, Resumes(active_read),
         UNCHANGED <<family, awaits, stop_requested, write_active, export_active, incoming, forced,
                     lifeVars>>
  PROVE  CInv'
<1> DEFINE t == active_read
<1>1. /\ t \in Tasks /\ task[t] \in {"reading", "receiving"} /\ registrations' = <<>>
      /\ active_read' = None
  BY ReleaseFacts
<1>2. UNCHANGED <<family, awaits, close, native, owner, connect, resuming, deletions>>
  BY DEF lifeVars
<1>3. /\ UNCHANGED <<stop_requested, terminated, write_active, export_active, incoming, forced>>
      /\ reading' = FALSE
  BY ZenonT(60) DEF lifeVars, ReleaseSlots
<1>4. Moves(t, "running")
  BY <1>1, ResumeMoves
<1>5. Slots'
  <2>1. reading' \in BOOLEAN /\ forced' \in BOOLEAN /\ (reading' <=> active_read' # None)
    BY <1>1, <1>3, ZenonT(60) DEF CInv, Slots
  <2>2. QED
    BY <1>1, <1>3, <1>4, <2>1, SlotsKept DEF CInv
<1>6. Work'
  BY <1>1, <1>2, <1>3, <1>4, ConnectionAssumption DEF CInv, Work, Moves
<1>7. QED
  BY <1>1, <1>2, <1>3, <1>4, <1>5, <1>6, WorkStep DEF Operations, CInv, BaseType

LEMMA AwaitWriteKeeps == ASSUME CInv, NEW t \in Tasks, AwaitWrite(t), Fixed PROVE CInv'
<1>1. CASE Returns /\ write_active' = write_active
  <2>1. UNCHANGED <<family, cancelVars, ioVars, lifeVars>>
    BY <1>1, ZenonT(60) DEF AwaitWrite, Fixed, ioVars
  <2>2. QED
    BY <1>1, <2>1, ReturnsKeeps, ZenonT(60) DEF AwaitWrite
<1>2. CASE CanWrite /\ SuspendsIn(t, "writing") /\ write_active' = TRUE
  <2>1. /\ close.phase = "open" /\ owner = "user" /\ SuspendsIn(t, "writing")
        /\ UNCHANGED <<family, registrations, active_read, close, native, owner, connect, resuming,
                       deletions>>
    BY <1>2 DEF AwaitWrite, CanWrite, IsClosing, Fixed, cancelVars, lifeVars
  <2>2. /\ UNCHANGED <<stop_requested, terminated, export_active, reading, incoming, forced>>
        /\ ~write_active /\ write_active' = TRUE
    BY <1>2, ZenonT(60) DEF AwaitWrite, CanWrite, cancelVars, lifeVars
  <2>3. Top("run", t) /\ awaits' \in [Tasks -> 0..MaxAwaits]
    BY AwaitFacts DEF AwaitWrite
  <2>4. Moves(t, "writing") /\ task[t] = "running"
    BY <2>1, <2>3, SuspendMoves DEF Operations
  <2>5. Slots'
    <3>1. \A u \in Tasks : /\ task'[u] = "writing" <=> u = t \/ task[u] = "writing"
                           /\ task'[u] = "exporting" <=> task[u] = "exporting"
                           /\ task'[u] = "discarding" <=> task[u] = "discarding"
      BY <2>4 DEF Moves
    <3>2. Occupied(write_active, "writing")'
      BY <2>2, <3>1, ZenonT(60) DEF CInv, Slots, Occupied
    <3>3. Occupied(export_active, "exporting")' /\ Occupied(incoming, "discarding")'
      BY <2>2, <3>1, ZenonT(60) DEF CInv, Slots, Occupied
    <3>4. QED
      BY <2>1, <2>2, <3>2, <3>3, ZenonT(60) DEF CInv, Slots
  <2>6. native = "open"
    BY <2>1 DEF CInv, BaseType, Handle
  <2>7. Work'
    BY <2>1, <2>2, <2>4, <2>6 DEF CInv, Work, Moves
  <2>8. QED
    BY <2>1, <2>2, <2>3, <2>4, <2>5, <2>7, WorkStep DEF Operations, CInv, BaseType
<1>3. QED
  BY <1>1, <1>2, ZenonT(60) DEF AwaitWrite

LEMMA WriteEndsKeeps == ASSUME CInv, NEW t \in Tasks, WriteEnds(t), Fixed PROVE CInv'
<1>1. /\ task[t] = "writing" /\ Resumes(t)
      /\ UNCHANGED <<family, awaits, registrations, active_read, close, native, owner, connect,
                     resuming, deletions>>
  BY DEF WriteEnds, Fixed, cancelVars, lifeVars
<1>2. /\ UNCHANGED <<stop_requested, terminated, export_active, reading, incoming, forced>>
      /\ write_active' = FALSE
  BY ZenonT(60) DEF WriteEnds, cancelVars, lifeVars
<1>3. Moves(t, "running")
  BY <1>1, ResumeMoves
<1>4. Slots'
  <2>1. \A u \in Tasks : /\ task'[u] = "writing" <=> u # t /\ task[u] = "writing"
                         /\ task'[u] = "exporting" <=> task[u] = "exporting"
                         /\ task'[u] = "discarding" <=> task[u] = "discarding"
    BY <1>1, <1>3 DEF Moves
  <2>2. Occupied(write_active, "writing")'
    BY <1>1, <1>2, <2>1, ZenonT(60) DEF CInv, Slots, Occupied
  <2>3. Occupied(export_active, "exporting")' /\ Occupied(incoming, "discarding")'
    BY <1>2, <2>1, ZenonT(60) DEF CInv, Slots, Occupied
  <2>4. QED
    BY <1>1, <1>2, <2>2, <2>3, ZenonT(60) DEF CInv, Slots
<1>5. Work'
  BY <1>1, <1>2, <1>3 DEF CInv, Work, Moves
<1>6. QED
  BY <1>1, <1>2, <1>3, <1>4, <1>5, WorkStep DEF Operations, CInv, BaseType

LEMMA AwaitExportKeeps == ASSUME CInv, NEW t \in Tasks, AwaitExport(t), Fixed PROVE CInv'
<1>1. CASE Returns /\ export_active' = export_active
  <2>1. UNCHANGED <<family, cancelVars, ioVars, lifeVars>>
    BY <1>1, ZenonT(60) DEF AwaitExport, Fixed, ioVars
  <2>2. QED
    BY <1>1, <2>1, ReturnsKeeps, ZenonT(60) DEF AwaitExport
<1>2. CASE CanExport /\ SuspendsIn(t, "exporting") /\ export_active' = TRUE
  <2>1. /\ close.phase = "open" /\ owner = "user" /\ family = "tcp" /\ SuspendsIn(t, "exporting")
        /\ UNCHANGED <<family, registrations, active_read, close, native, owner, connect, resuming,
                       deletions>>
    BY <1>2 DEF AwaitExport, CanExport, IsClosing, Fixed, cancelVars, lifeVars
  <2>2. /\ UNCHANGED <<stop_requested, terminated, write_active, reading, incoming, forced>>
        /\ ~export_active /\ export_active' = TRUE
    BY <1>2, ZenonT(60) DEF AwaitExport, CanExport, cancelVars, lifeVars
  <2>3. Top("run", t) /\ awaits' \in [Tasks -> 0..MaxAwaits]
    BY AwaitFacts DEF AwaitExport
  <2>4. Moves(t, "exporting") /\ task[t] = "running"
    BY <2>1, <2>3, SuspendMoves DEF Operations
  <2>5. Slots'
    <3>1. \A u \in Tasks : /\ task'[u] = "exporting" <=> u = t \/ task[u] = "exporting"
                           /\ task'[u] = "writing" <=> task[u] = "writing"
                           /\ task'[u] = "discarding" <=> task[u] = "discarding"
      BY <2>4 DEF Moves
    <3>2. Occupied(export_active, "exporting")'
      BY <2>2, <3>1, ZenonT(60) DEF CInv, Slots, Occupied
    <3>3. Occupied(write_active, "writing")' /\ Occupied(incoming, "discarding")'
      BY <2>2, <3>1, ZenonT(60) DEF CInv, Slots, Occupied
    <3>4. QED
      BY <2>1, <2>2, <3>2, <3>3, ZenonT(60) DEF CInv, Slots
  <2>6. native = "open"
    BY <2>1 DEF CInv, BaseType, Handle
  <2>7. Work'
    BY <2>1, <2>2, <2>4, <2>6 DEF CInv, Work, Moves
  <2>8. QED
    BY <2>1, <2>2, <2>3, <2>4, <2>5, <2>7, WorkStep DEF Operations, CInv, BaseType
<1>3. QED
  BY <1>1, <1>2, ZenonT(60) DEF AwaitExport

LEMMA ExportReturnsKeeps == ASSUME CInv, NEW t \in Tasks, ExportReturns(t), Fixed PROVE CInv'
<1>1. /\ task[t] = "exporting" /\ Resumes(t)
      /\ UNCHANGED <<family, awaits, registrations, active_read, close, native, owner, connect,
                     resuming, deletions>>
  BY DEF ExportReturns, Fixed, cancelVars, lifeVars
<1>2. /\ UNCHANGED <<stop_requested, terminated, write_active, reading, incoming, forced>>
      /\ export_active' = FALSE
  BY ZenonT(60) DEF ExportReturns, cancelVars, lifeVars
<1>3. Moves(t, "running")
  BY <1>1, ResumeMoves
<1>4. Slots'
  <2>1. \A u \in Tasks : /\ task'[u] = "exporting" <=> u # t /\ task[u] = "exporting"
                         /\ task'[u] = "writing" <=> task[u] = "writing"
                         /\ task'[u] = "discarding" <=> task[u] = "discarding"
    BY <1>1, <1>3 DEF Moves
  <2>2. Occupied(export_active, "exporting")'
    BY <1>1, <1>2, <2>1, ZenonT(60) DEF CInv, Slots, Occupied
  <2>3. Occupied(write_active, "writing")' /\ Occupied(incoming, "discarding")'
    BY <1>2, <2>1, ZenonT(60) DEF CInv, Slots, Occupied
  <2>4. QED
    BY <1>1, <1>2, <2>2, <2>3, ZenonT(60) DEF CInv, Slots
<1>5. Work'
  BY <1>1, <1>2, <1>3 DEF CInv, Work, Moves
<1>6. QED
  BY <1>1, <1>2, <1>3, <1>4, <1>5, WorkStep DEF Operations, CInv, BaseType

LEMMA IncomingClosedKeeps == ASSUME CInv, NEW t \in Tasks, IncomingClosed(t), Fixed PROVE CInv'
<1>1. /\ task[t] = "discarding" /\ Resumes(t)
      /\ UNCHANGED <<family, awaits, registrations, active_read, close, native, owner, connect,
                     resuming, deletions>>
  BY DEF IncomingClosed, Fixed, cancelVars, lifeVars
<1>2. /\ UNCHANGED <<stop_requested, terminated, write_active, export_active, reading, forced>>
      /\ incoming' = FALSE
  BY ZenonT(60) DEF IncomingClosed, cancelVars, lifeVars
<1>3. Moves(t, "running")
  BY <1>1, ResumeMoves
<1>4. Slots'
  <2>1. \A u \in Tasks : /\ task'[u] = "writing" <=> task[u] = "writing"
                         /\ task'[u] = "exporting" <=> task[u] = "exporting"
                         /\ task'[u] = "discarding" <=> u # t /\ task[u] = "discarding"
    BY <1>1, <1>3 DEF Moves
  <2>2. Occupied(incoming, "discarding")'
    BY <1>1, <1>2, <2>1, ZenonT(60) DEF CInv, Slots, Occupied
  <2>3. Occupied(write_active, "writing")' /\ Occupied(export_active, "exporting")'
    BY <1>2, <2>1, ZenonT(60) DEF CInv, Slots, Occupied
  <2>4. QED
    BY <1>1, <1>2, <2>2, <2>3, ZenonT(60) DEF CInv, Slots
<1>5. Work'
  BY <1>1, <1>2, <1>3 DEF CInv, Work, Moves
<1>6. QED
  BY <1>1, <1>2, <1>3, <1>4, <1>5, WorkStep DEF Operations, CInv, BaseType

-----------------------------------------------------------------------------
(* The beginning of a close.                                               *)

\* Nobody waits for the close of an open handle.
LEMMA OpenFacts ==
  ASSUME CInv, close.phase = "open"
  PROVE  /\ close \in CloseStates(Tasks) /\ close.waiters = <<>> /\ close.callback_waiter = <<>>
         /\ resuming = <<>> /\ Complete \notin On(stack) /\ deletions = 0
         /\ \A t \in Tasks : task[t] # "closing"
         /\ native # "connecting" => \A t \in Tasks : task[t] # "connecting"
<1>1. close \in CloseStates(Tasks) /\ Complete \notin On(stack)
  BY DEF CInv, BaseType, Calls
<1>2. close.waiters = <<>> /\ close.callback_waiter = <<>> /\ resuming = <<>>
  BY <1>1 DEF CInv, Waiters
<1>3. On(close.waiters) = {} /\ On(resuming) = {}
  BY <1>2, EmptyFacts, ZenonT(60)
<1>4. deletions = 0
  BY DEF CInv, BaseType, Deleted
<1>5. \A t \in Tasks : close.callback_waiter # <<t>>
  BY <1>2
<1>6. QED
  BY <1>1, <1>2, <1>3, <1>4, <1>5, ZenonT(60) DEF CInv, Waiters

\* A close that begins with the waiters and the owner it is given.
LEMMA CloseBegins ==
  ASSUME CInv, close.phase = "open", close' \in CloseStates(Tasks), close'.phase = "closing",
         close'.completion_active = close.completion_active,
         close'.owner_released <=> owner' = "released",
         native' = "closing", owner' \in {"user", "released"}, connect' \in {"none", "ok", "failed"},
         connect' = "failed" => owner' = "released",
         Tracks, awaits' \in [Tasks -> 0..MaxAwaits], registrations' \in Seq(Tasks),
         active_read' \in Tasks \cup {None},
         UNCHANGED <<resuming, deletions>>, UNCHANGED <<stop_requested, terminated>>,
         IsInjective(close'.waiters), connect' = "failed" => close'.waiters = <<>>,
         \A u \in Tasks : task'[u] = "closing" <=> u \in On(close'.waiters),
         \/ /\ connect' = "failed"
            /\ \E t \in Tasks : /\ close'.callback_waiter = <<t>>
                                /\ \A u \in Tasks : task'[u] = "connecting" <=> u = t
         \/ /\ connect' # "failed" /\ close'.callback_waiter = <<>>
            /\ \A u \in Tasks : task'[u] # "connecting",
         Slots', Work'
  PROVE  CInv'
<1>1. resuming' = <<>> /\ Complete \notin On(stack') /\ deletions' = 0
  BY OpenFacts, ZenonT(60) DEF Tracks
<1>2. BaseType'
  BY DEF CInv, BaseType, Tracks
<1>3. Flags'
  BY ZenonT(60) DEF CInv, Flags, Tracks
<1>4. Calls'
  BY <1>1 DEF Tracks, Calls
<1>5. Handle'
  BY DEF Handle
<1>6. Waiters'
  <2>1. IsInjective(resuming') /\ On(resuming') = {}
    BY <1>1, EmptyFacts, ZenonT(60)
  <2>2. CASE connect' # "failed"
    BY <1>1, <2>1, <2>2 DEF Waiters
  <2>3. CASE connect' = "failed"
    <3>1. PICK t \in Tasks : /\ close'.callback_waiter = <<t>>
                             /\ \A u \in Tasks : task'[u] = "connecting" <=> u = t
      BY <2>3
    <3>2. close'.callback_waiter # <<>> /\ close'.waiters = <<>> /\ On(close'.waiters) = {}
      BY <2>3, <3>1, EmptyFacts
    <3>3. QED
      BY <1>1, <2>1, <2>3, <3>1, <3>2, ZenonT(60) DEF Waiters
  <2>4. QED
    BY <2>2, <2>3
<1>7. Deleted'
  BY <1>1 DEF Deleted
<1>8. QED
  BY <1>2, <1>3, <1>4, <1>5, <1>6, <1>7, ZenonT(60) DEF CInv

\* Steps that leave the tasks where they are.
LEMMA StillTracks == ASSUME CInv, UNCHANGED <<stack, task>> PROVE Tracks
BY DEF CInv, BaseType, Calls, Tracks

LEMMA SlotsStill ==
  ASSUME CInv, task' = task, active_read' = active_read,
         UNCHANGED <<write_active, export_active, reading, incoming, forced>>
  PROVE  Slots'
BY ZenonT(60) DEF CInv, Slots, Occupied

LEMMA ConnectFailsKeeps ==
  ASSUME CInv, NEW t \in Tasks, native \in {"none", "connecting"}, ConnectFails(t),
         Moves(t, "connecting"),
         \/ native = "none" /\ task[t] = "running"
         \/ native = "connecting" /\ task[t] = "connecting",
         awaits' \in [Tasks -> 0..MaxAwaits],
         UNCHANGED <<family, cancelVars, ioVars>>
  PROVE  CInv'
<1>1. /\ close.phase = "open" /\ native' = "closing" /\ owner' = "released" /\ connect' = "failed"
      /\ UNCHANGED <<family, registrations, active_read, resuming, deletions>>
  BY DEF CInv, Handle, ConnectFails, cancelVars, ioVars
<1>2. UNCHANGED <<stop_requested, terminated, write_active, export_active, reading, incoming, forced>>
  BY ZenonT(60) DEF ConnectFails, cancelVars, ioVars
<1>3. close \in CloseStates(Tasks) /\ close.waiters = <<>>
  BY <1>1, OpenFacts
<1> DEFINE b == Begun(OwnerReleased(close))
<1>6. close' = WithCallbackWaiter(b, t)
  BY DEF ConnectFails
<1>7. b \in CloseStates(Tasks) /\ b.waiters = <<>> /\ b.phase = "closing"
  BY <1>3, AbandonedFacts
<1>8. b.owner_released /\ b.completion_active = close.completion_active
  BY <1>3, AbandonedFacts, ZenonT(60)
<1> HIDE DEF b
<1>9. /\ close' \in CloseStates(Tasks) /\ close'.phase = "closing" /\ close'.waiters = <<>>
      /\ close'.callback_waiter = <<t>>
  BY <1>6, <1>7, CallbackFacts
<1>10. close'.owner_released /\ close'.completion_active = close.completion_active
  <2>1. /\ WithCallbackWaiter(b, t).owner_released = b.owner_released
        /\ WithCallbackWaiter(b, t).completion_active = b.completion_active
    BY <1>7, CallbackFacts
  <2>2. QED
    BY <1>6, <1>8, <2>1, ZenonT(60)
<1>11. Tracks /\ \A u \in Tasks : task'[u] = IF u = t THEN "connecting" ELSE task[u]
  BY DEF Moves
<1>12. \A u \in Tasks : task'[u] = "connecting" <=> u = t
  <2>1. CASE native = "none"
    BY <1>1, <1>11, <2>1, OpenFacts
  <2>2. CASE native = "connecting"
    BY <1>11, <2>2 DEF CInv, Waiters
  <2>3. QED
    BY <2>1, <2>2
<1>13. IsInjective(close'.waiters) /\ \A u \in Tasks : task'[u] = "closing" <=> u \in On(close'.waiters)
  BY <1>1, <1>9, <1>11, OpenFacts, EmptyFacts
<1>14. Slots'
  <2>1. reading' \in BOOLEAN /\ forced' \in BOOLEAN /\ (reading' <=> active_read' # None)
    BY <1>1, <1>2, ZenonT(60) DEF CInv, Slots
  <2>2. QED
    BY <1>2, <2>1, SlotsKept DEF CInv
<1>15. Work'
  BY <1>1, <1>2, <1>9, <1>11 DEF CInv, Work
<1>16. registrations' \in Seq(Tasks) /\ active_read' \in Tasks \cup {None}
  BY <1>1 DEF CInv, BaseType
<1>17. /\ close'.owner_released <=> owner' = "released"
  BY <1>1, <1>10, ZenonT(60)
<1>18. QED
  BY <1>1, <1>2, <1>9, <1>10, <1>11, <1>12, <1>13, <1>14, <1>15, <1>16, <1>17, CloseBegins

-----------------------------------------------------------------------------
(* Connecting.                                                             *)

\* A step of a handle that is open or being connected and stays so.
LEMMA OpenStep ==
  ASSUME CInv, close.phase = "open", close' = close, Handle', Slots', Work', Tracks,
         native' \in {"connecting", "open"}, owner' \in {"awaiter", "user"},
         connect' \in {"none", "pending", "ok"},
         awaits' \in [Tasks -> 0..MaxAwaits], registrations' \in Seq(Tasks),
         active_read' \in Tasks \cup {None}, owner # "released",
         UNCHANGED <<resuming, deletions>>, UNCHANGED <<stop_requested, terminated>>,
         \A u \in Tasks : task'[u] # "closing",
         native' # "connecting" => \A u \in Tasks : task'[u] # "connecting",
         \A u, v \in Tasks : task'[u] = "connecting" /\ task'[v] = "connecting" => u = v
  PROVE  CInv'
<1>1. /\ close.waiters = <<>> /\ close.callback_waiter = <<>> /\ resuming = <<>>
      /\ Complete \notin On(stack) /\ deletions = 0
  BY OpenFacts
<1>2. BaseType'
  BY DEF CInv, BaseType, Tracks
<1>3. Flags'
  <2>1. owner' # "released"
    OBVIOUS
  <2>2. QED
    BY <2>1, ZenonT(60) DEF CInv, Flags, Tracks
<1>4. Calls'
  BY <1>1 DEF Tracks, Calls
<1>5. Waiters'
  <2>1. IsInjective(<<>>) /\ On(<<>>) = {}
    BY EmptyFacts
  <2>2. connect' # "failed"
    OBVIOUS
  <2>3. QED
    BY <1>1, <2>1, <2>2 DEF Waiters
<1>6. Deleted'
  BY <1>1 DEF Deleted
<1>7. QED
  BY <1>2, <1>3, <1>4, <1>5, <1>6, ZenonT(60) DEF CInv

LEMMA ConnectKeeps == ASSUME CInv, NEW t \in Tasks, Connect(t), Fixed PROVE CInv'
<1>1. /\ Top("run", t) /\ awaits' \in [Tasks -> 0..MaxAwaits] /\ owner = "nobody" /\ native = "none"
      /\ close.phase = "open"
      /\ UNCHANGED <<family, registrations, active_read>>
  BY AwaitFacts DEF Connect, Fixed, cancelVars, ioVars, CInv, Handle
<1>2. UNCHANGED <<stop_requested, write_active, export_active, reading, incoming, forced>>
  BY ZenonT(60) DEF Connect, cancelVars, ioVars
<1>3. CASE Returns /\ UNCHANGED lifeVars
  BY <1>3, ReturnsKeeps, ZenonT(60) DEF Connect, Fixed
<1>4. CASE SuspendsIn(t, "connecting") /\ ConnectFails(t)
  <2>1. Moves(t, "connecting") /\ task[t] = "running"
    BY <1>1, <1>4, SuspendMoves DEF Operations
  <2>2. UNCHANGED <<family, cancelVars, ioVars>>
    BY ZenonT(60) DEF Connect, Fixed
  <2>3. QED
    BY <1>1, <1>4, <2>1, <2>2, ConnectFailsKeeps, ZenonT(60)
<1>5. CASE /\ SuspendsIn(t, "connecting")
           /\ owner' = "awaiter" /\ native' = "connecting" /\ connect' = "pending"
           /\ UNCHANGED <<close, resuming, deletions, terminated>>
  <2>1. /\ owner' = "awaiter" /\ native' = "connecting" /\ connect' = "pending"
        /\ UNCHANGED <<close, resuming, deletions>>
    BY <1>5
  <2>2. Moves(t, "connecting") /\ task[t] = "running"
    BY <1>1, <1>5, SuspendMoves DEF Operations
  <2>3. UNCHANGED <<stop_requested, terminated>>
    BY <1>2, <1>5, ZenonT(60)
  <2>4. Tracks /\ \A u \in Tasks : task'[u] = IF u = t THEN "connecting" ELSE task[u]
    BY <2>2 DEF Moves
  <2>5. Slots'
    <3>1. reading' \in BOOLEAN /\ forced' \in BOOLEAN /\ (reading' <=> active_read' # None)
      BY <1>1, <1>2, ZenonT(60) DEF CInv, Slots
    <3>2. QED
      BY <1>2, <2>2, <3>1, SlotsKept DEF CInv
  <2>6. Work'
    BY <1>1, <1>2, <2>1, <2>2, <2>4 DEF CInv, Work
  <2>7. Handle'
    BY <1>1, <2>1 DEF Handle
  <2>8. \A u \in Tasks : task'[u] # "closing" /\ (task'[u] = "connecting" => u = t)
    BY <1>1, <2>4, OpenFacts
  <2>9. registrations' \in Seq(Tasks) /\ active_read' \in Tasks \cup {None}
    BY <1>1 DEF CInv, BaseType
  <2>10. QED
    BY <1>1, <2>1, <2>3, <2>4, <2>5, <2>6, <2>7, <2>8, <2>9, OpenStep
<1>6. QED
  BY <1>3, <1>4, <1>5 DEF Connect

LEMMA OnConnectKeeps == ASSUME CInv, NEW t \in Tasks, OnConnect(t), Fixed PROVE CInv'
<1>1. /\ native = "connecting" /\ task[t] = "connecting" /\ close.phase = "open"
      /\ owner = "awaiter" /\ UNCHANGED <<family, awaits, registrations, active_read>>
  BY DEF OnConnect, Fixed, cancelVars, ioVars, CInv, Handle
<1>2. UNCHANGED <<stop_requested, write_active, export_active, reading, incoming, forced>>
  BY ZenonT(60) DEF OnConnect, cancelVars, ioVars
<1>3. awaits' \in [Tasks -> 0..MaxAwaits]
  BY <1>1 DEF CInv, BaseType
<1>4. CASE Returns /\ ConnectFails(t)
  <2>1. Tracks /\ task' = task
    BY <1>4, StillTracks DEF Returns
  <2>2. Moves(t, "connecting")
    BY <1>1, <2>1 DEF Moves
  <2>3. UNCHANGED <<family, cancelVars, ioVars>>
    BY ZenonT(60) DEF OnConnect, Fixed
  <2>4. QED
    BY <1>1, <1>3, <1>4, <2>2, <2>3, ConnectFailsKeeps, ZenonT(60)
<1>5. CASE /\ Resumes(t) /\ owner' = "user" /\ native' = "open" /\ connect' = "ok"
           /\ UNCHANGED <<close, resuming, deletions, terminated>>
  <2>1. /\ owner' = "user" /\ native' = "open" /\ connect' = "ok"
        /\ UNCHANGED <<close, resuming, deletions>>
    BY <1>5
  <2>2. Moves(t, "running")
    BY <1>1, <1>5, ResumeMoves
  <2>3. UNCHANGED <<stop_requested, terminated>>
    BY <1>2, <1>5, ZenonT(60)
  <2>4. Tracks /\ \A u \in Tasks : task'[u] = IF u = t THEN "running" ELSE task[u]
    BY <2>2 DEF Moves
  <2>5. Slots'
    <3>1. reading' \in BOOLEAN /\ forced' \in BOOLEAN /\ (reading' <=> active_read' # None)
      BY <1>1, <1>2, ZenonT(60) DEF CInv, Slots
    <3>2. QED
      BY <1>1, <1>2, <2>2, <3>1, SlotsKept DEF CInv
  <2>6. Work'
    BY <1>1, <1>2, <2>1, <2>4 DEF CInv, Work
  <2>7. Handle'
    BY <1>1, <2>1 DEF Handle
  <2>8. \A u \in Tasks : task'[u] # "closing" /\ task'[u] # "connecting"
    BY <1>1, <2>4, OpenFacts DEF CInv, Waiters
  <2>9. registrations' \in Seq(Tasks) /\ active_read' \in Tasks \cup {None}
    BY <1>1 DEF CInv, BaseType
  <2>10. QED
    BY <1>1, <1>3, <2>1, <2>3, <2>4, <2>5, <2>6, <2>7, <2>8, <2>9, OpenStep
<1>6. QED
  BY <1>4, <1>5 DEF OnConnect

LEMMA BindKeeps == ASSUME CInv, Bind, Fixed PROVE CInv'
<1>1. /\ owner = "nobody" /\ native = "none" /\ close.phase = "open" /\ connect = "none"
      /\ UNCHANGED <<family, stack, task, awaits, registrations, active_read, connect, resuming,
                     deletions>>
  BY DEF Bind, Fixed, taskVars, cancelVars, ioVars, CInv, Handle
<1>2. UNCHANGED <<stop_requested, terminated, write_active, export_active, reading, incoming, forced>>
  BY ZenonT(60) DEF Bind, cancelVars, ioVars
<1>3. Tracks
  BY <1>1, StillTracks
<1>4. Slots'
  BY <1>1, <1>2, SlotsStill
<1>5. \A u \in Tasks : task'[u] # "closing" /\ task'[u] # "connecting"
  BY <1>1, OpenFacts
<1>6. /\ awaits' \in [Tasks -> 0..MaxAwaits] /\ registrations' \in Seq(Tasks)
      /\ active_read' \in Tasks \cup {None}
  BY <1>1 DEF CInv, BaseType
<1>7. CASE owner' = "user" /\ native' = "open" /\ close' = close
  <2>1. Work'
    BY <1>1, <1>2, <1>7 DEF CInv, Work
  <2>2. Handle'
    BY <1>1, <1>7 DEF Handle
  <2>3. QED
    BY <1>1, <1>2, <1>3, <1>4, <1>5, <1>6, <1>7, <2>1, <2>2, OpenStep
<1>8. CASE owner' = "released" /\ native' = "closing" /\ close' = Begun(OwnerReleased(close))
  <2>1. close \in CloseStates(Tasks) /\ close.waiters = <<>> /\ close.callback_waiter = <<>>
    BY <1>1, OpenFacts
  <2>2. /\ close' \in CloseStates(Tasks) /\ close'.phase = "closing" /\ close'.waiters = <<>>
        /\ close'.callback_waiter = <<>>
    BY <1>8, <2>1, AbandonedFacts
  <2>3. /\ close'.completion_active = close.completion_active
        /\ close'.owner_released <=> owner' = "released"
    BY <1>8, <2>1, AbandonedFacts, ZenonT(60)
  <2>4. /\ IsInjective(close'.waiters)
        /\ \A u \in Tasks : task'[u] = "closing" <=> u \in On(close'.waiters)
    BY <1>5, <2>2, EmptyFacts
  <2>5. Work'
    BY <1>1, <1>2, <1>8, <2>2 DEF CInv, Work
  <2>6. QED
    BY <1>1, <1>2, <1>3, <1>4, <1>5, <1>6, <1>8, <2>2, <2>3, <2>4, <2>5, CloseBegins
<1>9. QED
  BY <1>1, <1>7, <1>8, ZenonT(60) DEF Bind

-----------------------------------------------------------------------------
(* Close.                                                                  *)

\* Without an active operation nothing that needs the open handle is under way.
LEMMA IdleFacts ==
  ASSUME CInv, ~HasActiveOperation
  PROVE  active_read = None /\ ~write_active /\ ~export_active
BY ZenonT(60) DEF HasActiveOperation

LEMMA RequestCloseKeeps == ASSUME CInv, RequestClose, Fixed PROVE CInv'
<1>1. /\ owner = "user" /\ close.phase = "open" /\ close' = Begun(close) /\ native' = "closing"
      /\ UNCHANGED <<family, stack, task, awaits, registrations, active_read, owner, connect,
                     resuming, deletions>>
  BY DEF RequestClose, IsOpen, Fixed, taskVars, cancelVars, ioVars
<1>2. UNCHANGED <<stop_requested, terminated, write_active, export_active, reading, incoming, forced>>
  BY ZenonT(60) DEF RequestClose, cancelVars, ioVars
<1>3. active_read = None /\ ~write_active /\ ~export_active
  BY IdleFacts DEF RequestClose
<1>4. Tracks /\ Slots'
  BY <1>1, <1>2, StillTracks, SlotsStill
<1>5. native # "connecting" /\ connect \in {"none", "ok"}
  BY <1>1 DEF CInv, BaseType, Handle
<1>6. \A u \in Tasks : task'[u] # "closing" /\ task'[u] # "connecting"
  BY <1>1, <1>5, OpenFacts
<1>7. /\ awaits' \in [Tasks -> 0..MaxAwaits] /\ registrations' \in Seq(Tasks)
      /\ active_read' \in Tasks \cup {None}
  BY <1>1 DEF CInv, BaseType
<1>8. close \in CloseStates(Tasks) /\ close.waiters = <<>> /\ close.callback_waiter = <<>>
  BY <1>1, OpenFacts
<1>9. /\ close' \in CloseStates(Tasks) /\ close'.phase = "closing" /\ close'.waiters = <<>>
      /\ close'.callback_waiter = <<>>
  BY <1>1, <1>8, CloseFacts
<1>10. /\ close'.completion_active = close.completion_active
       /\ close'.owner_released <=> owner' = "released"
  <2>1. /\ close'.completion_active = close.completion_active
        /\ close'.owner_released = close.owner_released
    BY <1>1, <1>8, CloseFacts
  <2>2. QED
    BY <1>1, <2>1, ZenonT(60) DEF CInv, Flags
<1>11. /\ IsInjective(close'.waiters)
       /\ \A u \in Tasks : task'[u] = "closing" <=> u \in On(close'.waiters)
  BY <1>6, <1>9, EmptyFacts
<1>12. Work'
  BY <1>1, <1>2, <1>3, <1>9 DEF CInv, Work
<1>13. QED
  BY <1>1, <1>2, <1>4, <1>5, <1>6, <1>7, <1>9, <1>10, <1>11, <1>12, CloseBegins

\* The record of a close that a new waiter joins.
LEMMA JoinFacts ==
  ASSUME CInv, NEW t \in Tasks, task[t] = "running", close' = Begun(WithWaiter(close, t)),
         owner' = owner
  PROVE  /\ close' \in CloseStates(Tasks) /\ close'.phase = "closing"
         /\ close'.callback_waiter = close.callback_waiter
         /\ IsInjective(close'.waiters) /\ On(close'.waiters) = On(close.waiters) \cup {t}
         /\ close'.completion_active = close.completion_active
         /\ close'.owner_released <=> owner' = "released"
<1> DEFINE w == WithWaiter(close, t)
<1>1. /\ close \in CloseStates(Tasks) /\ IsInjective(close.waiters) /\ t \notin On(close.waiters)
  BY DEF CInv, BaseType, Waiters
<1>2. /\ w \in CloseStates(Tasks) /\ w.callback_waiter = close.callback_waiter
      /\ IsInjective(w.waiters) /\ On(w.waiters) = On(close.waiters) \cup {t}
  BY <1>1, NewWaiterFacts
<1>3. w.owner_released = close.owner_released /\ w.completion_active = close.completion_active
  BY <1>1, WaiterFacts
<1>4. close' = Begun(w)
  OBVIOUS
<1> HIDE DEF w
<1>5. /\ close' \in CloseStates(Tasks) /\ close'.phase = "closing" /\ close'.waiters = w.waiters
      /\ close'.callback_waiter = w.callback_waiter
      /\ close'.owner_released = w.owner_released
      /\ close'.completion_active = w.completion_active
  BY <1>2, <1>4, CloseFacts
<1>6. close'.owner_released <=> owner' = "released"
  BY <1>3, <1>5, ZenonT(60) DEF CInv, Flags
<1>7. QED
  BY <1>2, <1>3, <1>5, <1>6, ZenonT(60)

LEMMA AwaitCloseKeeps == ASSUME CInv, NEW t \in Tasks, AwaitClose(t), Fixed PROVE CInv'
<1>1. CASE Returns /\ UNCHANGED <<close, native>>
  <2>1. UNCHANGED <<family, cancelVars, ioVars, lifeVars>>
    BY <1>1, ZenonT(60) DEF AwaitClose, Fixed, lifeVars
  <2>2. QED
    BY <1>1, <2>1, ReturnsKeeps, ZenonT(60) DEF AwaitClose
<1>2. CASE /\ ~IsClosed(close) /\ ~HasActiveOperation /\ SuspendsIn(t, "closing")
           /\ close' = Begun(WithWaiter(close, t)) /\ native' = "closing"
  <2>1. /\ owner = "user" /\ close.phase # "closed" /\ SuspendsIn(t, "closing")
        /\ close' = Begun(WithWaiter(close, t)) /\ native' = "closing"
        /\ UNCHANGED <<family, registrations, active_read, owner, connect, resuming, deletions>>
    BY <1>2 DEF AwaitClose, IsClosed, Fixed, cancelVars, ioVars
  <2>2. UNCHANGED <<stop_requested, terminated, write_active, export_active, reading, incoming, forced>>
    BY ZenonT(60) DEF AwaitClose, cancelVars, ioVars
  <2>3. active_read = None /\ ~write_active /\ ~export_active
    BY <1>2, IdleFacts
  <2>4. Top("run", t) /\ awaits' \in [Tasks -> 0..MaxAwaits]
    BY AwaitFacts DEF AwaitClose
  <2>5. Moves(t, "closing") /\ task[t] = "running"
    BY <2>1, <2>4, SuspendMoves DEF Operations
  <2>6. Tracks /\ \A u \in Tasks : task'[u] = IF u = t THEN "closing" ELSE task[u]
    BY <2>5 DEF Moves
  <2>7. /\ close' \in CloseStates(Tasks) /\ close'.phase = "closing"
        /\ close'.callback_waiter = close.callback_waiter
        /\ IsInjective(close'.waiters) /\ On(close'.waiters) = On(close.waiters) \cup {t}
    BY <2>1, <2>5, JoinFacts
  <2>8. /\ close'.completion_active = close.completion_active
        /\ close'.owner_released <=> owner' = "released"
    BY <2>1, <2>5, JoinFacts, ZenonT(60)
  <2>9. Slots'
    <3>1. reading' \in BOOLEAN /\ forced' \in BOOLEAN /\ (reading' <=> active_read' # None)
      BY <2>1, <2>2, ZenonT(60) DEF CInv, Slots
    <3>2. QED
      BY <2>2, <2>5, <3>1, SlotsKept DEF CInv
  <2>10. Work'
    BY <2>1, <2>2, <2>3, <2>5, <2>6, <2>7 DEF CInv, Work
  <2>11. registrations' \in Seq(Tasks) /\ active_read' \in Tasks \cup {None}
    BY <2>1 DEF CInv, BaseType
  <2>12. connect \in {"none", "ok"} /\ native # "connecting"
    BY <2>1, ZenonT(60) DEF CInv, BaseType, Handle
  <2>13. CASE close.phase = "open"
    <3>1. On(close.waiters) = {} /\ close.callback_waiter = <<>>
      BY <2>13, OpenFacts, EmptyFacts, SMTT(60)
    <3>2. \A u \in Tasks : /\ task'[u] = "closing" <=> u \in On(close'.waiters)
                           /\ task'[u] # "connecting"
      BY <2>6, <2>7, <2>12, <2>13, <3>1, OpenFacts
    <3>3. QED
      BY <2>1, <2>2, <2>4, <2>6, <2>7, <2>8, <2>9, <2>10, <2>11, <2>12, <2>13, <3>1, <3>2,
         CloseBegins, ZenonT(60)
  <2>14. CASE close.phase = "closing"
    <3>1. Complete \notin On(stack) /\ resuming = <<>> /\ deletions = 0
      BY <2>14 DEF CInv, Calls, Waiters, Deleted, BaseType
    <3>2. BaseType'
      BY <2>1, <2>4, <2>6, <2>7, <2>11 DEF CInv, BaseType, Tracks
    <3>3. Flags'
      BY <2>2, <2>6, <2>8, ZenonT(60) DEF CInv, Flags, Tracks
    <3>4. Calls'
      BY <2>6, <3>1 DEF Tracks, Calls
    <3>5. Handle'
      BY <2>1, <2>7, <2>12, <2>14, ZenonT(60) DEF CInv, Handle
    <3>6. Waiters'
      <4>1. \A u \in Tasks : task'[u] = "connecting" <=> task[u] = "connecting"
        BY <2>5, <2>6, ZenonT(60)
      <4>2. \A u \in Tasks : task'[u] = "closing" <=> u \in On(close'.waiters)
        BY <2>6, <2>7, <3>1, EmptyFacts DEF CInv, Waiters
      <4>3. On(resuming') = {} /\ IsInjective(resuming') /\ resuming' = <<>>
        BY <2>1, <3>1, EmptyFacts
      <4>4. close.callback_waiter = <<>> /\ \A u \in Tasks : task[u] # "connecting"
        <5>1. close.callback_waiter = <<>>
          BY <2>12 DEF CInv, Waiters
        <5>2. On(resuming) = {} /\ \A u \in Tasks : close.callback_waiter # <<u>>
          BY <3>1, <5>1, EmptyFacts
        <5>3. QED
          BY <2>12, <5>1, <5>2, ZenonT(60) DEF CInv, Waiters
      <4>5. QED
        BY <2>1, <2>7, <2>12, <4>1, <4>2, <4>3, <4>4, ZenonT(60) DEF Waiters
    <3>7. Deleted'
      BY <2>1, <3>1 DEF Deleted
    <3>8. QED
      BY <2>9, <2>10, <3>2, <3>3, <3>4, <3>5, <3>6, <3>7, ZenonT(60) DEF CInv
  <2>15. close.phase \in {"open", "closing", "closed"}
    BY CloseFacts, ZenonT(60) DEF CInv, BaseType
  <2>16. QED
    BY <2>1, <2>13, <2>14, <2>15
<1>3. QED
  BY <1>1, <1>2, ZenonT(60) DEF AwaitClose

LEMMA ResetKeeps == ASSUME CInv, Reset, Fixed PROVE CInv'
<1>1. /\ owner = "user"
      /\ UNCHANGED <<family, stack, task, awaits, registrations, active_read, connect, resuming>>
  BY DEF Reset, Fixed, taskVars, cancelVars, ioVars
<1>2. UNCHANGED <<stop_requested, write_active, export_active, reading, incoming, forced>>
  BY ZenonT(60) DEF Reset, cancelVars, ioVars
<1>3. Tracks /\ Slots'
  BY <1>1, <1>2, StillTracks, SlotsStill
<1>4. /\ awaits' \in [Tasks -> 0..MaxAwaits] /\ registrations' \in Seq(Tasks)
      /\ active_read' \in Tasks \cup {None}
  BY <1>1 DEF CInv, BaseType
<1>5. /\ close \in CloseStates(Tasks) /\ native # "connecting" /\ native # "none" /\ deletions = 0
      /\ connect \in {"none", "ok"}
  BY <1>1 DEF CInv, BaseType, Handle, Deleted
<1>6. CASE terminated' = TRUE /\ UNCHANGED <<close, native, owner, deletions>>
  <2>1. BaseType' /\ Calls' /\ Handle' /\ Waiters' /\ Deleted'
    BY <1>1, <1>6 DEF CInv, BaseType, Calls, Handle, Waiters, Deleted
  <2>2. Flags'
    BY <1>1, <1>2, <1>6, ZenonT(60) DEF CInv, Flags
  <2>3. Work'
    BY <1>1, <1>2, <1>6, ZenonT(60) DEF CInv, Work
  <2>4. QED
    BY <1>3, <2>1, <2>2, <2>3, ZenonT(60) DEF CInv
<1>7. CASE /\ ~HasActiveOperation /\ IsOpen(close) /\ owner' = "released"
           /\ close' = Begun(OwnerReleased(close)) /\ native' = "closing"
           /\ UNCHANGED deletions /\ UNCHANGED terminated
  <2>1. active_read = None /\ ~write_active /\ ~export_active
    BY <1>7, IdleFacts
  <2>2. close.phase = "open" /\ close.waiters = <<>> /\ close.callback_waiter = <<>>
    BY <1>7, OpenFacts, SMTT(60) DEF IsOpen
  <2>3. /\ close' \in CloseStates(Tasks) /\ close'.phase = "closing" /\ close'.waiters = <<>>
        /\ close'.callback_waiter = <<>>
    BY <1>5, <1>7, <2>2, AbandonedFacts
  <2>4. /\ close'.completion_active = close.completion_active
        /\ close'.owner_released <=> owner' = "released"
    BY <1>5, <1>7, AbandonedFacts, ZenonT(60)
  <2>5. \A u \in Tasks : task'[u] # "closing" /\ task'[u] # "connecting"
    BY <1>1, <1>5, <2>2, OpenFacts, ZenonT(60)
  <2>6. /\ IsInjective(close'.waiters)
        /\ \A u \in Tasks : task'[u] = "closing" <=> u \in On(close'.waiters)
    BY <2>3, <2>5, EmptyFacts
  <2>7. Work'
    BY <1>1, <1>2, <1>7, <2>1, <2>3, ZenonT(60) DEF CInv, Work
  <2>8. UNCHANGED <<stop_requested, terminated>> /\ UNCHANGED <<resuming, deletions>>
    BY <1>1, <1>2, <1>7, ZenonT(60)
  <2>9. QED
    BY <1>1, <1>3, <1>4, <1>5, <1>7, <2>2, <2>3, <2>4, <2>5, <2>6, <2>7, <2>8, CloseBegins, ZenonT(60)
<1>8. CASE /\ ~HasActiveOperation /\ ~IsOpen(close) /\ owner' = "released"
           /\ close' = OwnerReleased(close)
           /\ deletions' = deletions + (IF CanDestroyNow(OwnerReleased(close)) THEN 1 ELSE 0)
           /\ UNCHANGED native /\ UNCHANGED terminated
  <2>1. /\ close' \in CloseStates(Tasks) /\ close'.phase = close.phase
        /\ close'.waiters = close.waiters /\ close'.callback_waiter = close.callback_waiter
    BY <1>5, <1>8, ReleasedFacts
  <2>2. close'.completion_active = close.completion_active /\ close'.owner_released
    BY <1>5, <1>8, ReleasedFacts, ZenonT(60)
  <2>3. close.phase # "open" /\ native' = native /\ owner' = "released"
    BY <1>8 DEF IsOpen
  <2>4. deletions' \in 0..1 /\ (deletions' > 0 => CanDestroyNow(close'))
    BY <1>5, <1>8
  <2>5. CanDestroyNow(close') => close.phase = "closed" /\ Complete \notin On(stack)
    BY <2>1, <2>2, ZenonT(60) DEF CanDestroyNow, CInv, Flags
  <2>6. BaseType'
    BY <1>1, <2>1, <2>3, <2>4 DEF CInv, BaseType
  <2>7. Flags'
    BY <1>1, <1>2, <1>8, <2>2, ZenonT(60) DEF CInv, Flags
  <2>8. Calls'
    BY <1>1, <2>1, ZenonT(60) DEF CInv, Calls
  <2>9. Handle'
    BY <1>1, <1>5, <2>1, <2>3, SMTT(60) DEF CInv, Handle
  <2>10. Waiters'
    BY <1>1, <2>1, <2>3, ZenonT(60) DEF CInv, Waiters
  <2>11. Work'
    BY <1>1, <1>2, <2>1, <2>3, ZenonT(60) DEF CInv, Work
  <2>12. Deleted'
    BY <1>1, <2>1, <2>3, <2>4, <2>5 DEF Deleted
  <2>13. QED
    BY <1>3, <2>6, <2>7, <2>8, <2>9, <2>10, <2>11, <2>12, ZenonT(60) DEF CInv
<1>9. QED
  BY <1>6, <1>7, <1>8, ZenonT(60) DEF Reset

\* Those that waited for the close, one way or the other, are the ones resumed.
LEMMA DetachedFacts ==
  ASSUME CInv
  PROVE  /\ DetachedWaiters(close) \in Seq(Tasks) /\ IsInjective(DetachedWaiters(close))
         /\ On(DetachedWaiters(close)) = On(close.waiters) \cup On(close.callback_waiter)
<1>1. close \in CloseStates(Tasks) /\ close.waiters \in Seq(Tasks) /\ IsInjective(close.waiters)
  BY CloseFacts DEF CInv, BaseType, Waiters
<1>2. CASE close.callback_waiter = <<>>
  <2>1. DetachedWaiters(close) = close.waiters
    BY <1>1, <1>2, CompletionFacts, ZenonT(60)
  <2>2. On(close.callback_waiter) = {}
    BY <1>2, EmptyFacts
  <2>3. QED
    BY <1>1, <2>1, <2>2
<1>3. CASE close.callback_waiter # <<>>
  <2>1. PICK t \in Tasks : close.callback_waiter = <<t>> /\ close.waiters = <<>>
    BY <1>3 DEF CInv, Waiters
  <2>2. DetachedWaiters(close) = <<t>>
    BY <2>1 DEF DetachedWaiters
  <2>3. <<t>> \in Seq(Tasks) /\ IsInjective(<<t>>) /\ On(<<>>) = {}
    BY OneCall
  <2>4. QED
    BY <2>1, <2>2, <2>3
<1>4. QED
  BY <1>2, <1>3

LEMMA OnCloseKeeps == ASSUME CInv, OnClose, Fixed PROVE CInv'
<1>1. /\ stack = <<>> /\ native = "closing" /\ native' = "closed" /\ close' = Completing(close)
      /\ resuming' = DetachedWaiters(close) /\ stack' = <<Complete>>
      /\ UNCHANGED <<family, task, awaits, registrations, active_read, owner, connect, deletions>>
  BY DEF OnClose, InPoll, Complete, Fixed, taskVars, cancelVars, ioVars
<1>2. /\ UNCHANGED <<stop_requested, terminated, write_active, export_active, reading, incoming, forced>>
      /\ ~write_active
  BY ZenonT(60) DEF OnClose, cancelVars, ioVars
<1>3. close.phase = "closing" /\ close \in CloseStates(Tasks)
  BY <1>1 DEF CInv, BaseType, Handle
<1>4. /\ close' \in CloseStates(Tasks) /\ close'.phase = "closed" /\ close'.waiters = <<>>
      /\ close'.callback_waiter = <<>>
  BY <1>1, <1>3, CompletionFacts
<1>5. close'.owner_released = close.owner_released /\ close'.completion_active
  BY <1>1, <1>3, CompletionFacts, ZenonT(60)
<1>6. /\ stack' \in Seq(Frames) /\ IsInjective(stack') /\ On(stack') = {Complete} /\ On(stack) = {}
  BY <1>1, FrameFacts, OneCall, ZenonT(60)
<1>7. /\ resuming' \in Seq(Tasks) /\ IsInjective(resuming')
      /\ On(resuming') = On(close.waiters) \cup On(close.callback_waiter)
  BY <1>1, DetachedFacts
<1>8. \A t \in Tasks : task[t] # "running"
  BY <1>6 DEF CInv, Calls
<1>9. BaseType'
  BY <1>1, <1>4, <1>6, <1>7 DEF CInv, BaseType
<1>10. Flags'
  <2>1. Complete \in On(stack') /\ Stop \notin On(stack')
    BY <1>6, FrameFacts
  <2>2. QED
    BY <1>1, <1>2, <1>5, <2>1, ZenonT(60) DEF CInv, Flags
<1>11. Slots'
  BY <1>1, <1>2, SlotsStill
<1>12. Calls'
  BY <1>1, <1>4, <1>6, <1>8, FrameFacts DEF Calls
<1>13. Handle'
  BY <1>1, <1>3, <1>4 DEF CInv, Handle
<1>14. Waiters'
  <2>1. resuming = <<>> /\ On(resuming) = {} /\ On(close'.waiters) = {} /\ IsInjective(close'.waiters)
    BY <1>4, <1>6, EmptyFacts DEF CInv, Waiters
  <2>2. \A t \in Tasks : close.callback_waiter = <<t>> => On(close.callback_waiter) = {t}
    BY OneCall
  <2>3. \A t \in Tasks : t \in On(resuming') => task'[t] \in {"connecting", "closing"}
    <3>1. SUFFICES ASSUME NEW t \in Tasks, t \in On(close.callback_waiter)
                   PROVE  task[t] = "connecting"
      BY <1>1, <1>7 DEF CInv, Waiters
    <3>2. close.callback_waiter # <<>>
      BY <3>1, EmptyFacts
    <3>3. QED
      BY <2>2, <3>1, <3>2 DEF CInv, Waiters
  <2>4. \A t \in Tasks : task'[t] \in {"connecting", "closing"} => t \in On(resuming')
    <3>1. SUFFICES ASSUME NEW t \in Tasks, task[t] \in {"connecting", "closing"}
                   PROVE  t \in On(resuming')
      BY <1>1
    <3>2. CASE task[t] = "closing"
      BY <1>7, <2>1, <3>2 DEF CInv, Waiters
    <3>3. CASE task[t] = "connecting"
      <4>1. native # "connecting"
        BY <1>1
      <4>2. close.callback_waiter = <<t>>
        BY <2>1, <3>3, <4>1, ZenonT(60) DEF CInv, Waiters
      <4>3. QED
        BY <1>7, <2>2, <4>2
    <3>4. QED
      BY <3>1, <3>2, <3>3
  <2>5. Complete \in On(stack')
    BY <1>6
  <2>6. \A t, u \in Tasks : task'[t] = "connecting" /\ task'[u] = "connecting" => t = u
    BY <1>1, ZenonT(60) DEF CInv, Waiters
  <2>7. QED
    BY <1>4, <1>7, <2>1, <2>3, <2>4, <2>5, <2>6, SMTT(60) DEF Waiters
<1>15. Work'
  BY <1>1, <1>2, <1>4, ZenonT(60) DEF CInv, Work
<1>16. Deleted'
  BY <1>1, <1>3 DEF CInv, Deleted
<1>17. QED
  BY <1>9, <1>10, <1>11, <1>12, <1>13, <1>14, <1>15, <1>16, ZenonT(60) DEF CInv

LEMMA CompleteNextKeeps == ASSUME CInv, CompleteNext, Fixed PROVE CInv'
<1> DEFINE t == Head(resuming)
<1>1. /\ stack # <<>> /\ Head(stack) = Complete /\ resuming # <<>> /\ Resumes(t)
      /\ resuming' = Tail(resuming)
      /\ UNCHANGED <<family, awaits, registrations, active_read, close, native, owner, connect,
                     deletions>>
  BY DEF CompleteNext, Top, Complete, Fixed, cancelVars, ioVars
<1>2. UNCHANGED <<stop_requested, terminated, write_active, export_active, reading, incoming, forced>>
  BY ZenonT(60) DEF CompleteNext, cancelVars, ioVars
<1>3. Complete \in On(stack)
  BY <1>1, TopFacts DEF Complete
<1>4. /\ t \in Tasks /\ t \in On(resuming) /\ resuming' \in Seq(Tasks) /\ IsInjective(resuming')
      /\ On(resuming') = On(resuming) \ {t}
  BY <1>1, PopFacts DEF CInv, BaseType, Waiters
<1>5. task[t] \in {"connecting", "closing"}
  BY <1>4 DEF CInv, Waiters
<1>6. Moves(t, "running")
  BY <1>1, <1>4, <1>5, ResumeMoves
<1>7. Tracks /\ \A u \in Tasks : task'[u] = IF u = t THEN "running" ELSE task[u]
  BY <1>6 DEF Moves
<1>8. close.phase = "closed" /\ native \notin {"connecting", "closing"}
  BY <1>3 DEF CInv, Calls, Handle
<1> HIDE DEF t
<1>9. BaseType'
  BY <1>1, <1>4, <1>7 DEF CInv, BaseType, Tracks
<1>10. Flags'
  BY <1>1, <1>2, <1>7, ZenonT(60) DEF CInv, Flags, Tracks
<1>11. Slots'
  <2>1. reading' \in BOOLEAN /\ forced' \in BOOLEAN /\ (reading' <=> active_read' # None)
    BY <1>1, <1>2, ZenonT(60) DEF CInv, Slots
  <2>2. QED
    BY <1>2, <1>4, <1>5, <1>6, <2>1, SlotsKept DEF CInv
<1>12. Calls' /\ Handle'
  BY <1>1, <1>7, <1>8, SMTT(60) DEF CInv, Tracks, Calls, Handle
<1>13. Waiters'
  <2>1. close.waiters = <<>> /\ close.callback_waiter = <<>> /\ On(close.waiters) = {}
        /\ IsInjective(close.waiters)
    BY <1>8, EmptyFacts DEF CInv, Waiters
  <2>2. \A u \in Tasks : task[u] \in {"connecting", "closing"} => u \in On(resuming)
    <3>1. \A u \in Tasks : close.callback_waiter # <<u>>
      BY <2>1
    <3>2. QED
      BY <1>8, <2>1, <3>1 DEF CInv, Waiters
  <2>3. \A u \in Tasks : task'[u] \in {"connecting", "closing"} <=> u \in On(resuming')
    BY <1>4, <1>7, <2>2 DEF CInv, Waiters
  <2>4. \A u, v \in Tasks : task'[u] = "connecting" /\ task'[v] = "connecting" => u = v
    BY <1>7 DEF CInv, Waiters
  <2>5. Complete \in On(stack')
    BY <1>3, <1>7 DEF Tracks
  <2>6. QED
    BY <1>1, <1>4, <1>8, <2>1, <2>3, <2>4, <2>5, SMTT(60) DEF Waiters
<1>14. Work'
  BY <1>1, <1>2, <1>4, <1>5, <1>7 DEF CInv, Work
<1>15. Deleted'
  BY <1>1, <1>3 DEF CInv, Deleted
<1>16. QED
  BY <1>9, <1>10, <1>11, <1>12, <1>13, <1>14, <1>15, ZenonT(60) DEF CInv

LEMMA CompleteReturnsKeeps == ASSUME CInv, CompleteReturns, Fixed PROVE CInv'
<1>1. /\ stack # <<>> /\ Head(stack) = Complete /\ resuming = <<>> /\ stack' = Tail(stack)
      /\ close' = Completed(close)
      /\ UNCHANGED <<family, task, awaits, registrations, active_read, native, owner, connect,
                     resuming>>
  BY DEF CompleteReturns, Top, Complete, Fixed, taskVars, cancelVars, ioVars
<1>2. UNCHANGED <<stop_requested, terminated, write_active, export_active, reading, incoming, forced>>
  BY ZenonT(60) DEF CompleteReturns, cancelVars, ioVars
<1>3. /\ Complete \in On(stack) /\ stack' \in Seq(Frames) /\ IsInjective(stack')
      /\ On(stack') = On(stack) \ {Complete}
  BY <1>1, TopFacts DEF Complete
<1>4. /\ close \in CloseStates(Tasks) /\ close.phase = "closed" /\ deletions = 0
  BY <1>3 DEF CInv, BaseType, Calls, Deleted
<1>5. /\ close' \in CloseStates(Tasks) /\ close'.phase = close.phase
      /\ close'.waiters = close.waiters /\ close'.callback_waiter = close.callback_waiter
  BY <1>1, <1>4, CompletionFacts
<1>6. close'.owner_released = close.owner_released /\ ~close'.completion_active
  BY <1>1, <1>4, CompletionFacts, ZenonT(60)
<1>7. deletions' \in 0..1 /\ (deletions' > 0 => DeletesState(close))
  BY <1>4 DEF CompleteReturns
<1>8. DeletesState(close) => owner = "released"
  BY ZenonT(60) DEF DeletesState, CInv, Flags
<1>9. BaseType'
  BY <1>1, <1>3, <1>5, <1>7 DEF CInv, BaseType
<1>10. Flags'
  <2>1. Complete \notin On(stack') /\ (Stop \in On(stack') => Stop \in On(stack))
    BY <1>3
  <2>2. QED
    BY <1>1, <1>2, <1>6, <2>1, ZenonT(60) DEF CInv, Flags
<1>11. Slots'
  BY <1>1, <1>2, SlotsStill
<1>12. Calls'
  BY <1>1, <1>3, <1>5, FrameFacts DEF CInv, Calls
<1>13. Handle'
  BY <1>1, <1>5, ZenonT(60) DEF CInv, Handle
<1>14. Waiters'
  BY <1>1, <1>5, ZenonT(60) DEF CInv, Waiters
<1>15. Work'
  BY <1>1, <1>2, <1>5, ZenonT(60) DEF CInv, Work
<1>16. Deleted'
  BY <1>1, <1>3, <1>4, <1>5, <1>7, <1>8 DEF Deleted
<1>17. QED
  BY <1>9, <1>10, <1>11, <1>12, <1>13, <1>14, <1>15, <1>16, ZenonT(60) DEF CInv

-----------------------------------------------------------------------------
(* Cooperative stop.                                                       *)

\* Entering or leaving request_stop.
LEMMA StopStep ==
  ASSUME CInv, stack' \in Seq(Frames), IsInjective(stack'),
         \/ On(stack') = On(stack) \cup {Stop} /\ stop_requested' = TRUE
         \/ On(stack') = On(stack) \ {Stop} /\ stop_requested' = stop_requested,
         UNCHANGED <<family, taskVars, registrations, ioVars, lifeVars>>
  PROVE  CInv'
<1>1. UNCHANGED <<family, task, awaits, registrations, active_read, close, native, owner, connect,
                  resuming, deletions>>
  BY DEF taskVars, ioVars, lifeVars
<1>2. UNCHANGED <<terminated, write_active, export_active, reading, incoming, forced>>
  BY ZenonT(60) DEF ioVars, lifeVars
<1>3. /\ Complete \in On(stack') <=> Complete \in On(stack)
      /\ \A t \in Tasks : <<"run", t>> \in On(stack') <=> <<"run", t>> \in On(stack)
      /\ Stop \in On(stack') => stop_requested' = TRUE
  BY FrameFacts
<1>4. BaseType'
  BY <1>1 DEF CInv, BaseType
<1>5. Flags'
  BY <1>1, <1>2, <1>3, ZenonT(60) DEF CInv, Flags
<1>6. Slots'
  BY <1>1, <1>2, SlotsStill, ZenonT(60)
<1>7. Calls' /\ Handle' /\ Waiters' /\ Deleted'
  BY <1>1, <1>3, ZenonT(60) DEF CInv, Calls, Handle, Waiters, Deleted
<1>8. Work'
  BY <1>1, <1>2 DEF CInv, Work
<1>9. QED
  BY <1>4, <1>5, <1>6, <1>7, <1>8, ZenonT(60) DEF CInv

LEMMA RequestStopKeeps == ASSUME CInv, RequestStop, Fixed PROVE CInv'
<1>1. Stop \notin On(stack)
  BY ZenonT(60) DEF RequestStop, CInv, Flags
<1>2. stack \in Seq(Frames) /\ IsInjective(stack)
  BY DEF CInv, BaseType, Calls
<1>3. stack' = <<Stop>> \o stack
  BY DEF RequestStop, Stop
<1>4. /\ stack' \in Seq(Frames) /\ IsInjective(stack') /\ On(stack') = On(stack) \cup {Stop}
  BY <1>1, <1>2, <1>3, EnterFrame, FrameFacts, ZenonT(60)
<1>5. /\ UNCHANGED <<family, taskVars, registrations, ioVars, lifeVars>>
      /\ stop_requested' = TRUE
  BY ZenonT(60) DEF RequestStop, Fixed
<1>6. QED
  BY <1>4, <1>5, StopStep, ZenonT(60)

LEMMA StopReadingKeeps == ASSUME CInv, StopReading, Fixed PROVE CInv'
<1>1. active_read # None /\ HeadRegistration(registrations) = active_read
  <2>1. active_read # None /\ registrations = <<active_read>>
    BY DEF StopReading, CInv, Work
  <2>2. QED
    BY <2>1 DEF HeadRegistration
<1>2. UNCHANGED <<family, awaits, stop_requested, write_active, export_active, incoming, forced,
                  lifeVars>>
  BY ZenonT(60) DEF StopReading, Fixed
<1>3. QED
  BY <1>1, <1>2, ReadEndsKeeps, ZenonT(60) DEF StopReading

LEMMA StopReturnsKeeps == ASSUME CInv, StopReturns, Fixed PROVE CInv'
<1>1. stack # <<>> /\ Head(stack) = <<"stop", None>> /\ stack' = Tail(stack)
  BY DEF StopReturns, Top
<1>2. /\ stack' \in Seq(Frames) /\ IsInjective(stack') /\ On(stack') = On(stack) \ {Stop}
  BY <1>1, TopFacts, ZenonT(60) DEF Stop
<1>3. /\ UNCHANGED <<family, taskVars, registrations, ioVars, lifeVars>>
      /\ stop_requested' = stop_requested
  BY ZenonT(60) DEF StopReturns, Fixed, cancelVars
<1>4. QED
  BY <1>2, <1>3, StopStep, ZenonT(60)

\* A reader that is called, and resumes.
LEMMA ReaderCalled == ASSUME CInv, ReadEnds, Fixed PROVE CInv'
<1>1. active_read # None
  BY ZenonT(60) DEF ReadEnds, CInv, Slots
<1>2. UNCHANGED <<family, awaits, stop_requested, write_active, export_active, incoming, forced,
                  lifeVars>>
  BY ZenonT(60) DEF ReadEnds, Fixed
<1>3. QED
  BY <1>1, <1>2, ReadEndsKeeps, ZenonT(60) DEF ReadEnds

LEMMA ReceiveFailsKeeps ==
  ASSUME CInv, NEW unusable \in BOOLEAN, ReceiveFails(unusable), Fixed
  PROVE  CInv'
<1> DEFINE t == active_read
           operation == IF unusable THEN "running" ELSE "discarding"
<1>1. /\ native = "open" /\ task[t] = "receiving" /\ ReleaseSlots
      /\ close' = Begun(close) /\ native' = "closing"
      /\ UNCHANGED <<family, awaits, owner, connect, resuming, deletions>>
  BY DEF ReceiveFails, ForceClose, Fixed
<1>2. /\ UNCHANGED <<stop_requested, terminated, write_active, export_active>>
      /\ forced' = TRUE /\ incoming' = ~unusable /\ reading' = FALSE /\ reading
  BY ZenonT(60) DEF ReceiveFails, ForceClose, ReleaseSlots
<1>3. t # None
  BY <1>2, ZenonT(60) DEF CInv, Slots
<1>4. t \in Tasks /\ registrations' = <<>> /\ active_read' = None
  BY <1>1, <1>3, ReleaseFacts
<1>5. /\ close.phase = "open" /\ owner = "user" /\ connect \in {"none", "ok"} /\ family = "pipe"
  BY <1>1, <1>4 DEF CInv, BaseType, Handle, Work
<1>6. ~incoming /\ ~export_active
  BY <1>5 DEF CInv, Work
<1>7. Moves(t, operation)
  <2>1. CASE unusable
    <3>1. Resumes(t)
      BY <2>1 DEF ReceiveFails
    <3>2. Moves(t, "running")
      BY <1>1, <1>4, <3>1, ResumeMoves
    <3>3. QED
      BY <2>1, <3>2
  <2>2. CASE ~unusable
    <3>1. task' = [task EXCEPT ![t] = "discarding"] /\ stack' = stack
      BY <2>2 DEF ReceiveFails, DiscardIncoming
    <3>2. Moves(t, "discarding")
      BY <1>1, <1>4, <3>1 DEF CInv, BaseType, Calls, Moves, Tracks, Operations
    <3>3. QED
      BY <2>2, <3>2
  <2>3. QED
    BY <2>1, <2>2
<1>8. Tracks /\ \A u \in Tasks : task'[u] = IF u = t THEN operation ELSE task[u]
  BY <1>7, ZenonT(60) DEF Moves
<1>9. \A u \in Tasks : task'[u] # "closing" /\ task'[u] # "connecting"
  BY <1>1, <1>5, <1>8, OpenFacts
<1>10. close \in CloseStates(Tasks) /\ close.waiters = <<>> /\ close.callback_waiter = <<>>
  BY <1>5, OpenFacts
<1>11. /\ close' \in CloseStates(Tasks) /\ close'.phase = "closing" /\ close'.waiters = <<>>
       /\ close'.callback_waiter = <<>>
       /\ close'.completion_active = close.completion_active
       /\ close'.owner_released = close.owner_released
  BY <1>1, <1>10, CloseFacts
<1>12. close'.owner_released <=> owner' = "released"
  BY <1>1, <1>11, ZenonT(60) DEF CInv, Flags
<1>13. /\ IsInjective(close'.waiters)
       /\ \A u \in Tasks : task'[u] = "closing" <=> u \in On(close'.waiters)
  BY <1>9, <1>11, EmptyFacts
<1>14. Slots'
  <2>1. \A u \in Tasks : /\ task'[u] = "writing" <=> task[u] = "writing"
                         /\ task'[u] = "exporting" <=> task[u] = "exporting"
    BY <1>1, <1>8
  <2>2. Occupied(write_active, "writing")' /\ Occupied(export_active, "exporting")'
    BY <1>2, <2>1, ZenonT(60) DEF CInv, Slots, Occupied
  <2>3. \A u \in Tasks : task[u] # "discarding"
    BY <1>6, ZenonT(60) DEF CInv, Slots, Occupied
  <2>4. \A u \in Tasks : task'[u] = "discarding" <=> u = t /\ ~unusable
    BY <1>8, <2>3
  <2>5. Occupied(incoming, "discarding")'
    BY <1>2, <1>4, <2>4, ZenonT(60) DEF Occupied
  <2>6. QED
    BY <1>2, <1>4, <2>2, <2>5, ZenonT(60) DEF CInv, Slots
<1>15. Work'
  <2>1. \A u \in Tasks : task'[u] \notin {"reading", "receiving"}
    BY <1>8 DEF CInv, Work
  <2>2. \A u \in Tasks : u # None
    BY ConnectionAssumption
  <2>3. QED
    BY <1>1, <1>2, <1>4, <1>6, <1>11, <2>1, <2>2 DEF Work
<1>16. /\ awaits' \in [Tasks -> 0..MaxAwaits] /\ registrations' \in Seq(Tasks)
       /\ active_read' \in Tasks \cup {None}
  BY <1>1, <1>4 DEF CInv, BaseType
<1> HIDE DEF t, operation
<1>17. QED
  BY <1>1, <1>2, <1>5, <1>8, <1>9, <1>11, <1>12, <1>13, <1>14, <1>15, <1>16, CloseBegins

-----------------------------------------------------------------------------
(* The invariant.                                                          *)

LEMMA InitCInv == ASSUME Init PROVE CInv
<1>1. /\ stack = <<>> /\ task = [t \in Tasks |-> "ready"] /\ awaits = [t \in Tasks |-> 0]
      /\ registrations = <<>> /\ close = OpenState /\ active_read = None /\ connect = "none"
      /\ resuming = <<>> /\ deletions = 0
      /\ \/ native = "none" /\ owner = "nobody"
         \/ native = "open" /\ owner = "user"
  BY ZenonT(60) DEF Init
<1>2. /\ stop_requested = FALSE /\ write_active = FALSE /\ export_active = FALSE
      /\ reading = FALSE /\ incoming = FALSE /\ forced = FALSE /\ terminated = FALSE
  BY ZenonT(60) DEF Init
<1>3. /\ close.phase = "open" /\ close.waiters = <<>> /\ close.callback_waiter = <<>>
      /\ close \in CloseStates(Tasks)
  BY <1>1, OpenStateFacts, ZenonT(60)
<1>4. ~close.owner_released /\ ~close.completion_active
  BY <1>1, OpenStateFacts, ZenonT(60)
<1>5. On(stack) = {} /\ IsInjective(<<>>) /\ On(<<>>) = {}
  BY <1>1, EmptyFacts
<1>6. \A t \in Tasks : task[t] = "ready"
  BY <1>1
<1>7. BaseType
  BY <1>1, <1>3, ConnectionAssumption DEF BaseType, Operations
<1>8. Flags
  <2>1. owner # "released"
    BY <1>1
  <2>2. QED
    BY <1>2, <1>4, <1>5, <2>1, ZenonT(60) DEF Flags
<1>9. Slots
  <2>1. \A t \in Tasks : task[t] \notin {"writing", "exporting", "discarding"}
    BY <1>6
  <2>2. /\ Occupied(write_active, "writing") /\ Occupied(export_active, "exporting")
        /\ Occupied(incoming, "discarding")
    BY <1>2, <2>1, ZenonT(60) DEF Occupied
  <2>3. QED
    BY <1>1, <1>2, <2>2, ZenonT(60) DEF Slots
<1>10. Calls
  BY <1>1, <1>5, <1>6 DEF Calls
<1>11. Handle
  BY <1>1, <1>3 DEF Handle
<1>12. Waiters
  BY <1>1, <1>3, <1>5, <1>6 DEF Waiters
<1>13. Work
  BY <1>1, <1>2, <1>6, ConnectionAssumption DEF Work
<1>14. Deleted
  BY <1>1 DEF Deleted
<1>15. QED
  BY <1>7, <1>8, <1>9, <1>10, <1>11, <1>12, <1>13, <1>14, ZenonT(60) DEF CInv

LEMMA StutterKeeps == ASSUME CInv, UNCHANGED vars PROVE CInv'
<1>1. UNCHANGED <<family, stack, task, awaits, registrations, active_read, close, native, owner,
                  connect, resuming, deletions>>
  BY DEF vars, taskVars, cancelVars, ioVars, lifeVars
<1>2. UNCHANGED <<stop_requested, terminated, write_active, export_active, reading, incoming, forced>>
  BY ZenonT(60) DEF vars, cancelVars, ioVars, lifeVars
<1>3. BaseType' /\ Calls' /\ Handle' /\ Waiters' /\ Deleted'
  BY <1>1, ZenonT(60) DEF CInv, BaseType, Calls, Handle, Waiters, Deleted
<1>4. Flags'
  BY <1>1, <1>2, ZenonT(60) DEF CInv, Flags
<1>5. Slots'
  BY <1>1, <1>2, SlotsStill
<1>6. Work'
  BY <1>1, <1>2 DEF CInv, Work
<1>7. QED
  BY <1>3, <1>4, <1>5, <1>6, ZenonT(60) DEF CInv

LEMMA NextCInv == ASSUME CInv, Next, Fixed PROVE CInv'
<1>1. CASE \E t \in Tasks :
             \/ Scheduled(t) \/ Suspends(t)
             \/ TcpConnect(t) \/ PipeConnect(t) \/ OnConnect(t)
             \/ ReadSome(t) \/ RecvFrom(t) \/ ReceiveHandle(t) \/ IncomingClosed(t)
             \/ Write(t) \/ SendTo(t) \/ OnWrite(t) \/ OnSend(t)
             \/ AwaitExport(t) \/ ExportReturns(t)
             \/ AwaitClose(t)
  <2>1. PICK t \in Tasks :
             \/ Scheduled(t) \/ Suspends(t)
             \/ TcpConnect(t) \/ PipeConnect(t) \/ OnConnect(t)
             \/ ReadSome(t) \/ RecvFrom(t) \/ ReceiveHandle(t) \/ IncomingClosed(t)
             \/ Write(t) \/ SendTo(t) \/ OnWrite(t) \/ OnSend(t)
             \/ AwaitExport(t) \/ ExportReturns(t)
             \/ AwaitClose(t)
    BY <1>1
  <2>2. CASE Scheduled(t) \/ Suspends(t)
    BY <2>2, ScheduledKeeps, SuspendsKeeps, ZenonT(60)
  <2>3. CASE TcpConnect(t) \/ PipeConnect(t) \/ OnConnect(t)
    BY <2>3, ConnectKeeps, OnConnectKeeps, ZenonT(60) DEF TcpConnect, PipeConnect
  <2>4. CASE ReadSome(t) \/ RecvFrom(t)
    <3>1. AwaitRead(t, "reading")
      BY <2>4, ZenonT(60) DEF ReadSome, RecvFrom
    <3>2. QED
      BY <3>1, AwaitReadKeeps
  <2>5. CASE ReceiveHandle(t)
    <3>1. AwaitRead(t, "receiving") /\ family = "pipe"
      BY <2>5, ZenonT(60) DEF ReceiveHandle
    <3>2. QED
      BY <3>1, AwaitReadKeeps
  <2>6. CASE Write(t) \/ SendTo(t) \/ OnWrite(t) \/ OnSend(t)
    BY <2>6, AwaitWriteKeeps, WriteEndsKeeps, ZenonT(60) DEF Write, SendTo, OnWrite, OnSend
  <2>7. CASE AwaitExport(t) \/ ExportReturns(t)
    BY <2>7, AwaitExportKeeps, ExportReturnsKeeps, ZenonT(60)
  <2>8. CASE IncomingClosed(t) \/ AwaitClose(t)
    BY <2>8, IncomingClosedKeeps, AwaitCloseKeeps, ZenonT(60)
  <2>9. QED
    BY <2>1, <2>2, <2>3, <2>4, <2>5, <2>6, <2>7, <2>8, ZenonT(60)
<1>2. CASE OnRead \/ OnReceive \/ HandlesReceived
  BY <1>2, ReaderCalled, ZenonT(60) DEF OnRead, OnReceive, HandlesReceived
<1>3. CASE \E unusable \in BOOLEAN : ReceiveFails(unusable)
  BY <1>3, ReceiveFailsKeeps, ZenonT(60)
<1>4. CASE Bind \/ RequestClose
  BY <1>4, BindKeeps, RequestCloseKeeps, ZenonT(60)
<1>5. CASE DestroyTcp \/ DestroyPipe \/ DestroyUdp
  BY <1>5, ResetKeeps, ZenonT(60) DEF DestroyTcp, DestroyPipe, DestroyUdp
<1>6. CASE OnClose \/ CompleteNext \/ CompleteReturns
  BY <1>6, OnCloseKeeps, CompleteNextKeeps, CompleteReturnsKeeps, ZenonT(60)
<1>7. CASE RequestStop \/ StopReturns
  BY <1>7, RequestStopKeeps, StopReturnsKeeps, ZenonT(60)
<1>8. CASE StopRead \/ StopRecvFrom
  BY <1>8, StopReadingKeeps, ZenonT(60) DEF StopRead, StopRecvFrom
<1>9. QED
  BY <1>1, <1>2, <1>3, <1>4, <1>5, <1>6, <1>7, <1>8, ZenonT(60) DEF Next

\* The invariant holds in every reachable state.
THEOREM CInvariance == Spec => []CInv
<1>1. Init => CInv
  BY InitCInv
<1>2. CInv /\ [Next /\ Fixed]_vars => CInv'
  BY NextCInv, StutterKeeps
<1>3. QED
  BY <1>1, <1>2, PTL DEF Spec

\* No read, receive or export is ever suspended on a handle that closes, and a write
\* only under the close that a failed receive forces on its pipe.
THEOREM NoOperationIsLeft == Spec => []NoOperationWhileClosing
<1>1. CInv => NoOperationWhileClosing
  <2>1. SUFFICES ASSUME CInv, close.phase # "open", NEW t \in Tasks
                 PROVE  /\ task[t] \notin {"reading", "receiving", "exporting"}
                        /\ task[t] = "writing" => forced /\ native = "closing"
    BY ZenonT(60) DEF NoOperationWhileClosing, IsClosing
  <2>2. native # "open"
    BY <2>1 DEF CInv, Handle
  <2>3. active_read = None /\ ~export_active /\ (write_active => native = "closing" /\ forced)
    BY <2>1, <2>2 DEF CInv, Work
  <2>4. task[t] # "exporting" /\ (task[t] = "writing" => native = "closing" /\ forced)
    BY <2>1, <2>3, ZenonT(60) DEF CInv, Slots, Occupied
  <2>5. task[t] \notin {"reading", "receiving"}
    BY <2>1, <2>3, ConnectionAssumption DEF CInv, Work
  <2>6. QED
    BY <2>4, <2>5
<1>2. QED
  BY <1>1, CInvariance, PTL

\* Each of the read, write and export slots holds exactly the operation suspended in
\* it, and the stop callback on the list is the reader's.
THEOREM SlotsAreAccounted == Spec => []SlotsAccounted
<1>1. CInv => SlotsAccounted
  <2>1. SUFFICES ASSUME CInv PROVE SlotsAccounted
    OBVIOUS
  <2>2. {write_active, export_active, reading, incoming, forced, terminated} \subseteq BOOLEAN
    BY <2>1, ZenonT(60) DEF CInv, Flags, Slots
  <2>3. TypeOK
    <3>1. stop_requested \in BOOLEAN
      BY <2>1, ZenonT(60) DEF CInv, Flags
    <3>2. QED
      BY <2>1, <2>2, <3>1, ZenonT(60) DEF TypeOK, CInv, BaseType, Operations
  <2>4. /\ \A t \in Tasks : task[t] \in {"reading", "receiving"} <=> active_read = t
        /\ registrations = IF active_read = None THEN <<>> ELSE <<active_read>>
    BY <2>1 DEF CInv, Work
  <2>5. /\ reading <=> active_read # None
        /\ Occupied(write_active, "writing") /\ Occupied(export_active, "exporting")
    BY <2>1, ZenonT(60) DEF CInv, Slots
  <2>6. QED
    BY <2>3, <2>4, <2>5, ZenonT(60) DEF SlotsAccounted
<1>2. QED
  BY <1>1, CInvariance, PTL

\* A task learns that its connect failed, or that a received connection was refused,
\* only from the close callback of the handle made for it, and is not forgotten.
THEOREM FailureWaitsForClose == Spec => []FailureIsClosedFirst
<1>1. CInv => FailureIsClosedFirst
  <2>1. SUFFICES ASSUME CInv PROVE FailureIsClosedFirst
    OBVIOUS
  <2>2. incoming <=> \E t \in Tasks : task[t] = "discarding"
    BY <2>1, ZenonT(60) DEF CInv, Slots, Occupied
  <2>3. ASSUME connect = "failed", native # "closed"
        PROVE  \E t \in Tasks : task[t] = "connecting" /\ close.callback_waiter = <<t>>
    <3>1. close.phase = "closing"
      BY <2>1, <2>3 DEF CInv, BaseType, Handle
    <3>2. QED
      BY <2>1, <2>3, <3>1, ZenonT(60) DEF CInv, Waiters
  <2>4. QED
    BY <2>2, <2>3, ZenonT(60) DEF FailureIsClosedFirst
<1>2. QED
  BY <1>1, CInvariance, PTL

\* However the close, the owner's destruction and the tasks interleave, the state is
\* deleted at most once, after the native close, and nothing uses it then.
THEOREM StateDeletedOnce == Spec => []NoUseAfterDelete
<1>1. CInv => NoUseAfterDelete
  <2>1. SUFFICES ASSUME CInv, deletions > 0
                 PROVE  /\ deletions = 1 /\ native = "closed" /\ owner = "released"
                        /\ Complete \notin On(stack)
                        /\ \A t \in Tasks : task[t] \in {"ready", "running", "discarding"}
    <3>1. CInv => Range(stack) = On(stack)
      BY RangeIsOn DEF CInv, BaseType
    <3>2. QED
      BY <3>1, ZenonT(60) DEF NoUseAfterDelete, OnStack, Complete
  <2>2. /\ deletions = 1 /\ close.phase = "closed" /\ owner = "released"
        /\ Complete \notin On(stack) /\ native = "closed"
    BY <2>1, SMTT(60) DEF CInv, BaseType, Deleted, Handle
  <2>3. close.callback_waiter = <<>> /\ close.waiters = <<>> /\ resuming = <<>>
    BY <2>1, <2>2 DEF CInv, Waiters
  <2>4. /\ On(close.waiters) = {} /\ On(resuming) = {}
        /\ \A t \in Tasks : close.callback_waiter # <<t>>
    BY <2>3, EmptyFacts
  <2>5. native # "connecting"
    BY <2>2
  <2>6. \A t \in Tasks : task[t] \notin {"connecting", "closing"}
    BY <2>1, <2>4, <2>5 DEF CInv, Waiters
  <2>7. active_read = None /\ ~export_active /\ ~write_active
    BY <2>1, <2>2 DEF CInv, Work
  <2>8. \A t \in Tasks : task[t] # "exporting" /\ task[t] # "writing"
    BY <2>1, <2>7, ZenonT(60) DEF CInv, Slots, Occupied
  <2>9. \A t \in Tasks : task[t] \notin {"reading", "receiving"}
    BY <2>1, <2>7, ConnectionAssumption DEF CInv, Work
  <2>10. \A t \in Tasks : task[t] \in Operations
    BY <2>1 DEF CInv, BaseType
  <2>11. QED
    BY <2>2, <2>6, <2>8, <2>9, <2>10 DEF Operations
<1>2. QED
  BY <1>1, CInvariance, PTL

=============================================================================
