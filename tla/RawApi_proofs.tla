--------------------------- MODULE RawApi_proofs ---------------------------
(***************************************************************************)
(* Proofs about the raw layer: the handle, the request and the thread, for *)
(* every set of kinds and families and for all bounds.                     *)
(***************************************************************************)
EXTENDS RawApi, TLAPS

\* Time limits of the backends, in seconds.
USE SMTT(60), ZenonT(60)

-----------------------------------------------------------------------------
(* The handle.                                                             *)

Slots == [callback : 0..MaxStarts, generation : Nat]

Frames ==
  [op : {"none", "deliver", "terminal", "alloc", "read", "chunk"},
   cb : 0..MaxStarts, for : 0..MaxStarts, delivery : Slots]

HandleTypes ==
  /\ kind \in AllKinds
  /\ phase \in {"blank", "open", "closing", "closed"}
  /\ sub \in 0..MaxStarts /\ starts \in 0..MaxStarts
  /\ static \in 0..MaxStarts /\ lent \in 0..MaxStarts
  /\ slot \in Slots /\ pending \in Slots /\ running \in Frames
  /\ storage \in {"owned", "detached", "deleted"}

Flags == armed \in BOOLEAN /\ once \in BOOLEAN

\* How far a handle is: one that was not initialized has nothing, an active one is
\* open and has an accepted subscription, a closed one has no callback and no loan.
Stages ==
  /\ phase = "blank" => /\ ~armed /\ sub = 0 /\ starts = 0 /\ static = 0 /\ lent = 0
                        /\ slot = EmptySlot /\ pending = EmptySlot /\ running = Idle
                        /\ storage = "owned"
  /\ armed => phase = "open" /\ sub # 0
  /\ phase = "closed" => running = Idle /\ pending = EmptySlot /\ lent = 0
  /\ storage # "owned" => kind = "process" /\ slot.callback = 0 /\ static = 0
  /\ storage = "deleted" => phase = "closed"

\* Only a reader lends buffers, only the others have compile-time callbacks and
\* notifications.
Roles ==
  /\ kind \notin Readers => /\ pending = EmptySlot /\ lent = 0
                            /\ running.op \notin {"alloc", "read", "chunk"}
  /\ kind \in Readers => static = 0 /\ running.op \notin {"deliver", "terminal"}
  /\ kind \in Readers /\ armed => slot.generation > 0
  /\ pending.callback = 0 => pending = EmptySlot
  /\ kind = "process" => running.op \in {"none", "terminal"}
  /\ kind = "stream" => running.op # "chunk"
  /\ kind = "stream" /\ pending.callback # 0 => lent = pending.callback

\* A subscription d that was taken out of the slot is not newer than the slot; if it
\* is as new, its callable is that of the subscription in force, which then is active.
Checked(d) ==
  /\ d.generation <= slot.generation
  /\ d.callback # 0 /\ d.generation = slot.generation => d.callback = sub /\ armed /\ static = 0

\* The one subscription in force is in one place, and a handle at rest keeps none.
Placed ==
  /\ slot.callback \in {0, sub} /\ static \in {0, sub}
  /\ static # 0 => slot.callback = 0
  /\ ~armed => slot.callback = 0
  /\ armed /\ storage = "owned" => Reachable(sub)

\* What the frame of a running callback says.
FrameOK ==
  /\ running.op = "none" => running = Idle
  /\ running.op # "none" => running.cb = running.for /\ running.cb # 0
  /\ running.op = "deliver" => running.delivery.callback \in {0, running.cb}
  /\ running.op = "terminal" => running.delivery = EmptySlot
  /\ running.op \in {"alloc", "read", "chunk"} =>
       running.delivery.callback = running.cb /\ pending = EmptySlot
  /\ running.op \in {"alloc", "read"} => lent = 0
  /\ running.op = "chunk" => lent = running.cb
  /\ running.op = "none" /\ lent # 0 => pending.callback = lent

HInv ==
  /\ HandleTypes /\ Flags /\ Stages /\ Roles /\ Placed /\ FrameOK
  /\ Checked(pending) /\ Checked(running.delivery)

LEMMA OpenedKeeps == ASSUME HInv, Opened PROVE HInv'
<1>1. Flags'
  BY ZenonT(60) DEF HInv, Flags, Opened, subVars
<1>2. HandleTypes' /\ Stages' /\ Roles' /\ Placed' /\ FrameOK'
  BY HandleAssumption
     DEF HInv, HandleTypes, Stages, Roles, Placed, FrameOK, Checked, Reachable, Readers, Slots,
         Frames, Idle, Frame, EmptySlot, Opened, subVars, loanVars
<1>3. Checked(pending)' /\ Checked(running.delivery)'
  BY HandleAssumption
     DEF HInv, HandleTypes, Stages, Roles, Placed, FrameOK, Checked, Reachable, Readers, Slots,
         Frames, Idle, Frame, EmptySlot, Opened, subVars, loanVars
<1>4. QED
  BY <1>1, <1>2, <1>3 DEF HInv

LEMMA InitAsyncKeeps == ASSUME HInv, NEW b \in BOOLEAN, InitAsync(b) PROVE HInv'
<1>1. Flags'
  BY ZenonT(60) DEF HInv, Flags, InitAsync
<1>2. HandleTypes' /\ Stages' /\ Roles' /\ Placed' /\ FrameOK'
  BY HandleAssumption
     DEF HInv, HandleTypes, Stages, Roles, Placed, FrameOK, Checked, Reachable, Readers, Slots,
         Frames, Idle, Frame, EmptySlot, InitAsync, loanVars, Replaced
<1>3. Checked(pending)' /\ Checked(running.delivery)'
  BY HandleAssumption
     DEF HInv, HandleTypes, Stages, Roles, Placed, FrameOK, Checked, Reachable, Readers, Slots,
         Frames, Idle, Frame, EmptySlot, InitAsync, loanVars, Replaced
<1>4. QED
  BY <1>1, <1>2, <1>3 DEF HInv

LEMMA SubscribeKeeps == ASSUME HInv, NEW b \in BOOLEAN, NEW c \in BOOLEAN,
    NEW o \in {"ok", "idle", "kept", "stopped"}, kind \in Watchers, Subscribe(b, c, o) PROVE HInv'
<1>1. Flags'
  BY ZenonT(60) DEF HInv, Flags, Subscribe, ArmedAfter
<1>2. HandleTypes' /\ Stages' /\ Roles' /\ Placed' /\ FrameOK'
  BY HandleAssumption
     DEF HInv, HandleTypes, Stages, Roles, Placed, FrameOK, Checked, Reachable, Readers, Slots,
         Frames, Idle, Frame, EmptySlot, Subscribe, ArmedAfter, Watchers, Numbered, Accepted,
         CommitStart, loanVars, Replaced
<1>3. Checked(pending)' /\ Checked(running.delivery)'
  BY HandleAssumption
     DEF HInv, HandleTypes, Stages, Roles, Placed, FrameOK, Checked, Reachable, Readers, Slots,
         Frames, Idle, Frame, EmptySlot, Subscribe, ArmedAfter, Watchers, Numbered, Accepted,
         CommitStart, loanVars, Replaced
<1>4. QED
  BY <1>1, <1>2, <1>3 DEF HInv

LEMMA ReselectKeeps == ASSUME HInv, NEW b \in BOOLEAN, kind \in Watchers, Reselect(b) PROVE HInv'
<1>1. Flags'
  BY ZenonT(60) DEF HInv, Flags, Reselect
<1>2. HandleTypes' /\ Stages' /\ Roles' /\ Placed' /\ FrameOK'
  BY HandleAssumption
     DEF HInv, HandleTypes, Stages, Roles, Placed, FrameOK, Checked, Reachable, Readers, Slots,
         Frames, Idle, Frame, EmptySlot, Reselect, Watchers, Numbered, loanVars, Replaced
<1>3. Checked(pending)' /\ Checked(running.delivery)'
  BY HandleAssumption
     DEF HInv, HandleTypes, Stages, Roles, Placed, FrameOK, Checked, Reachable, Readers, Slots,
         Frames, Idle, Frame, EmptySlot, Reselect, Watchers, Numbered, loanVars, Replaced
<1>4. QED
  BY <1>1, <1>2, <1>3 DEF HInv

LEMMA SetRepeatKeeps == ASSUME HInv, NEW b \in BOOLEAN, SetRepeat(b) PROVE HInv'
<1>1. Flags'
  BY ZenonT(60) DEF HInv, Flags, SetRepeat
<1>2. HandleTypes' /\ Stages' /\ Roles' /\ Placed' /\ FrameOK'
  BY HandleAssumption
     DEF HInv, HandleTypes, Stages, Roles, Placed, FrameOK, Checked, Reachable, Readers, Slots,
         Frames, Idle, Frame, EmptySlot, SetRepeat, loanVars
<1>3. Checked(pending)' /\ Checked(running.delivery)'
  BY HandleAssumption
     DEF HInv, HandleTypes, Stages, Roles, Placed, FrameOK, Checked, Reachable, Readers, Slots,
         Frames, Idle, Frame, EmptySlot, SetRepeat, loanVars
<1>4. QED
  BY <1>1, <1>2, <1>3 DEF HInv

LEMMA AgainKeeps == ASSUME HInv, Again PROVE HInv'
<1>1. Flags'
  BY ZenonT(60) DEF HInv, Flags, Again, subVars
<1>2. HandleTypes' /\ Stages' /\ Roles' /\ Placed' /\ FrameOK'
  BY HandleAssumption
     DEF HInv, HandleTypes, Stages, Roles, Placed, FrameOK, Checked, Reachable, Readers, Slots,
         Frames, Idle, Frame, EmptySlot, Again, CanAgain, subVars, loanVars
<1>3. Checked(pending)' /\ Checked(running.delivery)'
  BY HandleAssumption
     DEF HInv, HandleTypes, Stages, Roles, Placed, FrameOK, Checked, Reachable, Readers, Slots,
         Frames, Idle, Frame, EmptySlot, Again, CanAgain, subVars, loanVars
<1>4. QED
  BY <1>1, <1>2, <1>3 DEF HInv

LEMMA StopKeeps == ASSUME HInv, StopReading PROVE HInv'
<1>1. Flags'
  BY ZenonT(60) DEF HInv, Flags, StopReading
<1>2. HandleTypes' /\ Stages' /\ Roles' /\ Placed' /\ FrameOK'
  BY HandleAssumption
     DEF HInv, HandleTypes, Stages, Roles, Placed, FrameOK, Checked, Reachable, Readers, Slots,
         Frames, Idle, Frame, EmptySlot, StopReading, loanVars, Replaced
<1>3. Checked(pending)' /\ Checked(running.delivery)'
  BY HandleAssumption
     DEF HInv, HandleTypes, Stages, Roles, Placed, FrameOK, Checked, Reachable, Readers, Slots,
         Frames, Idle, Frame, EmptySlot, StopReading, loanVars, Replaced
<1>4. QED
  BY <1>1, <1>2, <1>3 DEF HInv

LEMMA StartReadKeeps == ASSUME HInv, NEW b \in BOOLEAN, StartRead(b) PROVE HInv'
<1>1. Flags'
  BY ZenonT(60) DEF HInv, Flags, StartRead
<1>2. HandleTypes' /\ Stages' /\ Roles' /\ Placed' /\ FrameOK'
  BY HandleAssumption
     DEF HInv, HandleTypes, Stages, Roles, Placed, FrameOK, Checked, Reachable, Readers, Slots,
         Frames, Idle, Frame, EmptySlot, StartRead, Stopped, Numbered, loanVars, Replaced
<1>3. Checked(pending)' /\ Checked(running.delivery)'
  BY HandleAssumption
     DEF HInv, HandleTypes, Stages, Roles, Placed, FrameOK, Checked, Reachable, Readers, Slots,
         Frames, Idle, Frame, EmptySlot, StartRead, Stopped, Numbered, loanVars, Replaced
<1>4. QED
  BY <1>1, <1>2, <1>3 DEF HInv

LEMMA StartReceiveKeeps == ASSUME HInv, NEW b \in BOOLEAN, StartReceive(b) PROVE HInv'
<1>1. Flags'
  BY ZenonT(60) DEF HInv, Flags, StartReceive
<1>2. HandleTypes' /\ Stages' /\ Roles' /\ Placed' /\ FrameOK'
  BY HandleAssumption
     DEF HInv, HandleTypes, Stages, Roles, Placed, FrameOK, Checked, Reachable, Readers, Slots,
         Frames, Idle, Frame, EmptySlot, StartReceive, Stopped, Numbered, loanVars, Replaced
<1>3. Checked(pending)' /\ Checked(running.delivery)'
  BY HandleAssumption
     DEF HInv, HandleTypes, Stages, Roles, Placed, FrameOK, Checked, Reachable, Readers, Slots,
         Frames, Idle, Frame, EmptySlot, StartReceive, Stopped, Numbered, loanVars, Replaced
<1>4. QED
  BY <1>1, <1>2, <1>3 DEF HInv

LEMMA DeliverKeeps == ASSUME HInv, kind \in Watchers, Deliver PROVE HInv'
<1>1. Flags'
  BY ZenonT(60) DEF HInv, Flags, Deliver, subVars
<1>2. HandleTypes' /\ Stages' /\ Roles' /\ Placed' /\ FrameOK'
  BY HandleAssumption
     DEF HInv, HandleTypes, Stages, Roles, Placed, FrameOK, Checked, Reachable, Readers, Slots,
         Frames, Idle, Frame, EmptySlot, Deliver, Watchers, InLoop, Running, Notified, subVars,
         loanVars, CheckedOut
<1>3. Checked(pending)' /\ Checked(running.delivery)'
  BY HandleAssumption
     DEF HInv, HandleTypes, Stages, Roles, Placed, FrameOK, Checked, Reachable, Readers, Slots,
         Frames, Idle, Frame, EmptySlot, Deliver, Watchers, InLoop, Running, Notified, subVars,
         loanVars, CheckedOut
<1>4. QED
  BY <1>1, <1>2, <1>3 DEF HInv

LEMMA DeliverTerminalKeeps == ASSUME HInv, kind \in Watchers, DeliverTerminal PROVE HInv'
<1>1. Flags'
  BY ZenonT(60) DEF HInv, Flags, DeliverTerminal, ArmedDuringLast
<1>2. HandleTypes' /\ Stages' /\ Roles' /\ Placed' /\ FrameOK'
  BY HandleAssumption
     DEF HInv, HandleTypes, Stages, Roles, Placed, FrameOK, Checked, Reachable, Readers, Slots,
         Frames, Idle, Frame, EmptySlot, DeliverTerminal, ArmedDuringLast, Watchers, InLoop,
         Running, Notified, loanVars, Taken, Replaced
<1>3. Checked(pending)' /\ Checked(running.delivery)'
  BY HandleAssumption
     DEF HInv, HandleTypes, Stages, Roles, Placed, FrameOK, Checked, Reachable, Readers, Slots,
         Frames, Idle, Frame, EmptySlot, DeliverTerminal, ArmedDuringLast, Watchers, InLoop,
         Running, Notified, loanVars, Taken, Replaced
<1>4. QED
  BY <1>1, <1>2, <1>3 DEF HInv

LEMMA CallbackReturnsKeeps == ASSUME HInv, CallbackReturns PROVE HInv'
<1>1. Flags'
  BY ZenonT(60) DEF HInv, Flags, CallbackReturns, subVars
<1>2. HandleTypes' /\ Stages' /\ Roles' /\ FrameOK'
  BY HandleAssumption
     DEF HInv, HandleTypes, Stages, Roles, Placed, FrameOK, Checked, Readers, Slots, Frames, Idle,
         Frame, EmptySlot, CallbackReturns, subVars, loanVars, RestoredSlot
<1>3. Checked(pending)' /\ Checked(running.delivery)'
  BY HandleAssumption
     DEF HInv, HandleTypes, Stages, Roles, FrameOK, Checked, Slots, Frames, Idle, Frame,
         EmptySlot, CallbackReturns, subVars, loanVars, RestoredSlot
<1>4. Placed'
  <2>1. UNCHANGED <<armed, storage, sub, static, pending>>
    BY DEF CallbackReturns, subVars, loanVars
  <2>2. CASE /\ running.op = "deliver" /\ running.cb = running.delivery.callback
             /\ slot.generation = running.delivery.generation
    <3>1. running.delivery.callback = sub /\ armed /\ static = 0
      BY <2>2 DEF HInv, FrameOK, Checked
    <3>2. slot'.callback = sub
      BY <2>2, <3>1 DEF CallbackReturns, RestoredSlot, HInv, HandleTypes, Slots
    <3>3. QED
      BY <2>1, <3>1, <3>2 DEF Placed, Reachable
  <2>3. CASE ~(/\ running.op = "deliver" /\ running.cb = running.delivery.callback
               /\ slot.generation = running.delivery.generation)
    <3>1. slot' = slot
      BY <2>3 DEF CallbackReturns, RestoredSlot
    <3>2. armed => ~(running.delivery.callback = sub /\ running.delivery.generation = slot.generation)
      BY <2>3 DEF CallbackReturns, HInv, FrameOK, Stages, EmptySlot
    <3>3. QED
      BY <2>1, <3>1, <3>2 DEF HInv, Placed, Reachable
  <2>4. QED
    BY <2>2, <2>3
<1>5. QED
  BY <1>1, <1>2, <1>3, <1>4 DEF HInv

LEMMA LendKeeps == ASSUME HInv, kind \in Readers, Lend PROVE HInv'
<1>1. Flags'
  BY ZenonT(60) DEF HInv, Flags, Lend, subVars
<1>2. HandleTypes' /\ Stages' /\ Roles' /\ Placed' /\ FrameOK'
  BY HandleAssumption
     DEF HInv, HandleTypes, Stages, Roles, Placed, FrameOK, Checked, Reachable, Readers, Slots,
         Frames, Idle, Frame, EmptySlot, Lend, InLoop, Running, subVars, RestoredSlot, CheckedOut
<1>3. Checked(pending)' /\ Checked(running.delivery)'
  BY HandleAssumption
     DEF HInv, HandleTypes, Stages, Roles, Placed, FrameOK, Checked, Reachable, Readers, Slots,
         Frames, Idle, Frame, EmptySlot, Lend, InLoop, Running, subVars, RestoredSlot, CheckedOut
<1>4. QED
  BY <1>1, <1>2, <1>3 DEF HInv

LEMMA AllocReturnsKeeps == ASSUME HInv, AllocReturns PROVE HInv'
<1>1. Flags'
  BY ZenonT(60) DEF HInv, Flags, AllocReturns, subVars
<1>2. HandleTypes' /\ Stages' /\ Roles' /\ Placed' /\ FrameOK'
  BY HandleAssumption
     DEF HInv, HandleTypes, Stages, Roles, Placed, FrameOK, Checked, Reachable, Readers, Slots,
         Frames, Idle, Frame, EmptySlot, AllocReturns, subVars
<1>3. Checked(pending)' /\ Checked(running.delivery)'
  BY HandleAssumption
     DEF HInv, HandleTypes, Stages, Roles, Placed, FrameOK, Checked, Reachable, Readers, Slots,
         Frames, Idle, Frame, EmptySlot, AllocReturns, subVars
<1>4. QED
  BY <1>1, <1>2, <1>3 DEF HInv

LEMMA ReadKeeps == ASSUME HInv, NEW o \in {"data", "error", "chunk"}, kind \in Readers,
    kind = "stream" => o # "chunk", Read(o) PROVE HInv'
<1>1. Flags'
  BY ZenonT(60) DEF HInv, Flags, Read, subVars
<1>2. /\ running = Idle /\ static = 0
      /\ UNCHANGED <<kind, phase, sub, starts, static, storage>>
      /\ pending' = EmptySlot /\ lent' = IF o = "chunk" THEN lent ELSE 0
      /\ o = "chunk" => lent # 0
  BY DEF HInv, Roles, Read, NativeRead, InLoop, Running, subVars
<1>3. armed' <=> armed /\ o # "error"
  BY ZenonT(60) DEF Read
<1>4. \/ pending.callback # 0 /\ Lender = pending /\ (lent # 0 => lent = pending.callback)
      \/ /\ lent = 0 /\ armed /\ kind = "stream" /\ o = "error" /\ sub # 0
         /\ slot.callback = sub /\ Lender = slot /\ pending.callback = 0
  BY <1>2 DEF HInv, Stages, Roles, Placed, FrameOK, Reachable, Read, NativeRead, Lender, Readers,
              Idle, Frame, EmptySlot
<1>5. slot' = [callback |-> IF o = "error" THEN 0 ELSE slot.callback,
               generation |-> IF o = "error" THEN slot.generation + 1 ELSE slot.generation]
  BY <1>4 DEF HInv, HandleTypes, Slots, Read, CheckedOut, Replaced
<1>6. /\ Lender \in Slots /\ Lender.callback # 0 /\ Lender.generation <= slot.generation
      /\ Lender.callback = IF lent # 0 THEN lent ELSE sub
  BY <1>4 DEF HInv, HandleTypes, Checked, Slots, Read, NativeRead, Roles
<1>7. running' = [op |-> IF o = "chunk" THEN "chunk" ELSE "read", cb |-> Lender.callback,
                  for |-> Lender.callback, delivery |-> Lender]
  BY <1>6 DEF Read, Frame
<1>8. HandleTypes'
  BY <1>2, <1>5, <1>6, <1>7, HandleAssumption DEF HInv, HandleTypes, Slots, Frames, EmptySlot
<1>9. Stages'
  BY <1>2, <1>3, <1>4, <1>5 DEF HInv, Stages, EmptySlot, Readers
<1>10. Roles'
  BY <1>2, <1>3, <1>5, <1>7 DEF HInv, HandleTypes, Slots, Roles, EmptySlot, Readers
<1>11. FrameOK'
  BY <1>2, <1>6, <1>7 DEF HInv, FrameOK, EmptySlot
<1>12. Placed'
  BY <1>2, <1>3, <1>4, <1>5, <1>7 DEF HInv, Placed, Reachable, EmptySlot, Idle, Frame, Stages
<1>13. Checked(pending)' /\ Checked(running.delivery)'
  BY <1>2, <1>3, <1>4, <1>5, <1>6, <1>7 DEF HInv, HandleTypes, Checked, EmptySlot, Slots
<1>14. QED
  BY <1>1, <1>8, <1>9, <1>10, <1>11, <1>12, <1>13 DEF HInv

LEMMA ReadReturnsKeeps == ASSUME HInv, ReadReturns PROVE HInv'
<1>1. Flags'
  BY ZenonT(60) DEF HInv, Flags, ReadReturns, subVars
<1>2. HandleTypes' /\ Stages' /\ Roles' /\ Placed' /\ FrameOK'
  BY HandleAssumption
     DEF HInv, HandleTypes, Stages, Roles, Placed, FrameOK, Checked, Reachable, Readers, Slots,
         Frames, Idle, Frame, EmptySlot, ReadReturns, subVars, RestoredSlot
<1>3. Checked(pending)' /\ Checked(running.delivery)'
  BY HandleAssumption
     DEF HInv, HandleTypes, Stages, Roles, Placed, FrameOK, Checked, Reachable, Readers, Slots,
         Frames, Idle, Frame, EmptySlot, ReadReturns, subVars, RestoredSlot
<1>4. QED
  BY <1>1, <1>2, <1>3 DEF HInv

LEMMA LoanDroppedKeeps == ASSUME HInv, LoanDropped PROVE HInv'
<1>1. Flags'
  BY ZenonT(60) DEF HInv, Flags, LoanDropped, subVars
<1>2. HandleTypes' /\ Stages' /\ Roles' /\ Placed' /\ FrameOK'
  BY HandleAssumption
     DEF HInv, HandleTypes, Stages, Roles, Placed, FrameOK, Checked, Reachable, Readers, Slots,
         Frames, Idle, Frame, EmptySlot, LoanDropped, InLoop, Running, subVars
<1>3. Checked(pending)' /\ Checked(running.delivery)'
  BY HandleAssumption
     DEF HInv, HandleTypes, Stages, Roles, Placed, FrameOK, Checked, Reachable, Readers, Slots,
         Frames, Idle, Frame, EmptySlot, LoanDropped, InLoop, Running, subVars
<1>4. QED
  BY <1>1, <1>2, <1>3 DEF HInv

LEMMA SpawnKeeps ==
  ASSUME HInv, NEW b \in BOOLEAN, NEW c \in BOOLEAN, NEW o \in SpawnOutcomes, Spawn(b, c, o)
  PROVE  HInv'
<1>1. Flags'
  BY ZenonT(60) DEF HInv, Flags, Spawn
<1>2. armed' <=> o # "failed"
  BY ZenonT(60) DEF Spawn
<1>3. /\ phase = "blank" /\ kind = "process" /\ sub = 0 /\ static = 0 /\ slot = EmptySlot
      /\ pending = EmptySlot /\ running = Idle /\ lent = 0 /\ storage = "owned"
      /\ UNCHANGED <<kind, pending, lent, running>> /\ starts' \in 0..MaxStarts
      /\ sub' = IF o = "failed" THEN 0 ELSE 1
  BY HandleAssumption DEF HInv, HandleTypes, Stages, Spawn, Numbered, loanVars
<1>4. \/ /\ storage' = "detached" /\ phase' \in {"open", "closing"} /\ slot' = EmptySlot
         /\ static' = 0 /\ (phase' = "closing" => o # "started") /\ o # "ok"
      \/ /\ storage' = "owned" /\ phase' = "open" /\ o = "failed" /\ slot' = EmptySlot /\ static' = 0
      \/ /\ storage' = "owned" /\ phase' = "open" /\ o # "failed"
         /\ \/ slot' = EmptySlot /\ static' = 1
            \/ slot' = [callback |-> 1, generation |-> 1] /\ static' = 0
  BY <1>3 DEF Spawn, ClosesFailed, Replaced, EmptySlot
<1>5. HandleTypes'
  BY <1>3, <1>4, HandleAssumption DEF HInv, HandleTypes, Slots, EmptySlot
<1>6. Stages'
  BY <1>2, <1>3, <1>4 DEF Stages, SpawnOutcomes, EmptySlot
<1>7. Roles' /\ FrameOK'
  BY <1>3 DEF HInv, Roles, FrameOK, Readers, EmptySlot
<1>8. Placed'
  BY <1>2, <1>3, <1>4 DEF Placed, Reachable, EmptySlot, SpawnOutcomes
<1>9. Checked(pending)' /\ Checked(running.delivery)'
  BY <1>3, <1>4 DEF Checked, EmptySlot, Idle, Frame
<1>10. QED
  BY <1>1, <1>5, <1>6, <1>7, <1>8, <1>9 DEF HInv

LEMMA ExitKeeps == ASSUME HInv, Exit PROVE HInv'
<1>1. Flags'
  BY ZenonT(60) DEF HInv, Flags, Exit
<1>2. HandleTypes' /\ Stages' /\ Roles' /\ FrameOK'
  BY HandleAssumption
     DEF HInv, HandleTypes, Stages, Roles, Placed, FrameOK, Reachable, Readers, Slots, Frames,
         Idle, Frame, EmptySlot, Exit, InLoop, Running, loanVars, Taken, Replaced
<1>3. Placed'
  BY DEF HInv, HandleTypes, Stages, Placed, Exit, Taken, Replaced
<1>4. Checked(pending)' /\ Checked(running.delivery)'
  BY DEF HInv, HandleTypes, Stages, Roles, Checked, Slots, Frames, Idle, Frame, EmptySlot, Exit,
         InLoop, Running, loanVars, Taken, Replaced, Readers
<1>5. QED
  BY <1>1, <1>2, <1>3, <1>4 DEF HInv

LEMMA BeginCloseKeeps == ASSUME HInv, BeginClose PROVE HInv'
<1>1. Flags'
  BY ZenonT(60) DEF HInv, Flags, BeginClose
<1>2. HandleTypes' /\ Stages' /\ Roles' /\ Placed' /\ FrameOK'
  BY HandleAssumption
     DEF HInv, HandleTypes, Stages, Roles, Placed, FrameOK, Checked, Reachable, Readers, Slots,
         Frames, Idle, Frame, EmptySlot, BeginClose, loanVars, Replaced
<1>3. Checked(pending)' /\ Checked(running.delivery)'
  BY HandleAssumption
     DEF HInv, HandleTypes, Stages, Roles, Placed, FrameOK, Checked, Reachable, Readers, Slots,
         Frames, Idle, Frame, EmptySlot, BeginClose, loanVars, Replaced
<1>4. QED
  BY <1>1, <1>2, <1>3 DEF HInv

LEMMA EndCloseKeeps == ASSUME HInv, EndClose,
    storage' = IF storage = "detached" THEN "deleted" ELSE storage PROVE HInv'
<1>1. Flags'
  BY ZenonT(60) DEF HInv, Flags, EndClose, subVars
<1>2. HandleTypes' /\ Stages' /\ Roles' /\ Placed' /\ FrameOK'
  BY HandleAssumption
     DEF HInv, HandleTypes, Stages, Roles, Placed, FrameOK, Checked, Reachable, Readers, Slots,
         Frames, Idle, Frame, EmptySlot, EndClose, InLoop, Running, subVars
<1>3. Checked(pending)' /\ Checked(running.delivery)'
  BY HandleAssumption
     DEF HInv, HandleTypes, Stages, Roles, Placed, FrameOK, Checked, Reachable, Readers, Slots,
         Frames, Idle, Frame, EmptySlot, EndClose, InLoop, Running, subVars
<1>4. QED
  BY <1>1, <1>2, <1>3 DEF HInv

LEMMA HInvInit == ASSUME NEW k \in AllKinds, HInit(k) PROVE HInv
<1>1. Flags
  BY ZenonT(60) DEF HInit, Flags
<1>2. QED
  BY <1>1, HandleAssumption
     DEF HInit, HInv, HandleTypes, Stages, Roles, Placed, FrameOK, Checked, Slots, Frames, Idle,
         Frame, EmptySlot

LEMMA HInvNext == ASSUME HInv, [HNext]_hVars PROVE HInv'
<1>1. CASE InitWatcher \/ InitPoll \/ InitStream \/ InitUdp
  BY <1>1, OpenedKeeps DEF InitWatcher, InitPoll, InitStream, InitUdp
<1>2. ASSUME NEW b \in BOOLEAN,
             InitAsync(b) \/ StartLoopWatcher(b) \/ SetCallback(b) \/ SetRepeat(b)
      PROVE  HInv'
  BY <1>2, ZenonT(60), InitAsyncKeeps, SubscribeKeeps, ReselectKeeps, SetRepeatKeeps
     DEF StartLoopWatcher, SetCallback, Watchers
<1>3. ASSUME NEW b \in BOOLEAN, NEW c \in BOOLEAN, StartTimer(b, c) PROVE HInv'
  BY <1>3, SubscribeKeeps DEF StartTimer, Watchers
<1>4. ASSUME NEW b \in BOOLEAN, NEW o \in {"ok", "idle", "kept", "stopped"},
             \/ \E c \in BOOLEAN : StartSignal(b, c, o)
             \/ StartPoll(b, o) \/ StartFsEvent(b, o) \/ StartFsPoll(b, o) \/ Listen(b, o)
      PROVE  HInv'
  BY <1>4, ZenonT(60), SubscribeKeeps, ReselectKeeps
     DEF StartSignal, StartPoll, StartFsEvent, StartFsPoll, Listen, Watchers
<1>5. CASE Again \/ Stop \/ ReadStop \/ ReceiveStop
  BY <1>5, AgainKeeps, StopKeeps DEF Stop, ReadStop, ReceiveStop
<1>6. ASSUME NEW b \in BOOLEAN, StartRead(b) \/ StartReceive(b) PROVE HInv'
  BY <1>6, StartReadKeeps, StartReceiveKeeps
<1>7. CASE TimerExpires \/ SignalRaised \/ FsPollReports \/ LoopWatcherRuns \/ AsyncWakes
  BY <1>7, DeliverKeeps, DeliverTerminalKeeps
     DEF TimerExpires, SignalRaised, FsPollReports, LoopWatcherRuns, AsyncWakes, Watchers
<1>8. ASSUME NEW b \in BOOLEAN, PollReports(b) \/ FsEventReports(b) \/ ConnectionArrives(b)
      PROVE  HInv'
  BY <1>8, DeliverKeeps, DeliverTerminalKeeps
     DEF PollReports, FsEventReports, ConnectionArrives, Watchers
<1>9. CASE CallbackReturns
  BY <1>9, CallbackReturnsKeeps
<1>10. CASE StreamAlloc \/ UdpAlloc \/ AllocReturns \/ ReadReturns \/ LoanDropped
  BY <1>10, LendKeeps, AllocReturnsKeeps, ReadReturnsKeeps, LoanDroppedKeeps
     DEF StreamAlloc, UdpAlloc, Readers
<1>11. ASSUME NEW o \in {"data", "error", "chunk"}, StreamRead(o) \/ UdpReceive(o) PROVE HInv'
  BY <1>11, ReadKeeps DEF StreamRead, UdpReceive, Readers
<1>12. ASSUME NEW b \in BOOLEAN, NEW c \in BOOLEAN, NEW o \in SpawnOutcomes, Spawn(b, c, o)
       PROVE  HInv'
  BY <1>12, SpawnKeeps
<1>13. CASE Exit
  BY <1>13, ExitKeeps
<1>14. CASE CloseWatcher \/ CloseAsync \/ CloseStream \/ CloseReset \/ CloseUdp \/ CloseProcess
  BY <1>14, BeginCloseKeeps
     DEF CloseWatcher, CloseAsync, CloseStream, CloseReset, CloseUdp, CloseProcess
<1>15. CASE WatcherClosed \/ StreamClosed \/ UdpClosed \/ ProcessClosed
  <2>1. EndClose /\ storage' = IF storage = "detached" THEN "deleted" ELSE storage
    BY <1>15 DEF WatcherClosed, StreamClosed, UdpClosed, ProcessClosed, HInv, Stages, Watchers
  <2>2. QED
    BY <2>1, EndCloseKeeps
<1>16. CASE UNCHANGED hVars
  <2>1. Flags'
    BY <1>16, ZenonT(60) DEF hVars, subVars, HInv, Flags
  <2>2. QED
    BY <1>16, <2>1
       DEF hVars, subVars, loanVars, HInv, HandleTypes, Stages, Roles, Placed, FrameOK, Checked,
           Reachable, Slots, Frames, Idle, Frame, EmptySlot
<1>17. QED
  BY <1>1, <1>2, <1>3, <1>4, <1>5, <1>6, <1>7, <1>8, <1>9, <1>10, <1>11, <1>12, <1>13, <1>14,
     <1>15, <1>16, ZenonT(60) DEF HNext

\* The invariants of the handle follow.
LEMMA HInvImplies ==
  HInv => DeliversCurrentSubscription /\ CapturesReleased /\ LoansPaired
<1>1. SUFFICES ASSUME HInv
               PROVE  DeliversCurrentSubscription /\ CapturesReleased /\ LoansPaired
  OBVIOUS
<1>2. DeliversCurrentSubscription /\ LoansPaired
  BY <1>1 DEF HInv, HandleTypes, Frames, Placed, FrameOK, Roles,
     DeliversCurrentSubscription, LoansPaired
<1>3. /\ kind = "process" /\ phase \in {"closing", "closed"} /\ storage # "owned" => ~armed
      /\ storage = "deleted" => phase = "closed"
  BY <1>1 DEF HInv, Stages
<1>4. HandleTypeOK
  <2>1. armed \in BOOLEAN /\ once \in BOOLEAN
    BY <1>1, ZenonT(60) DEF HInv, Flags
  <2>2. QED
    BY <1>1, <2>1 DEF HInv, HandleTypes, HandleTypeOK, Slots, Frames
<1>5. CapturesReleased
  BY <1>1, <1>3, <1>4
     DEF HInv, Stages, Placed, Checked, CapturesReleased, EmptySlot
<1>6. QED
  BY <1>2, <1>5

-----------------------------------------------------------------------------
(* The request.                                                            *)

RequestTypes ==
  /\ family \in AllFamilies
  /\ number \in 0..MaxSubmits /\ call \in {0, number}
  /\ flight \in {"idle", "entering", "queued", "working", "worked", "cancelled"}
  /\ op \in Operations \cup {"none"}
  /\ work \in 0..MaxSubmits /\ after \in 0..MaxSubmits
  /\ memory \in {"none", "live", "deleted"}
  /\ dir \in {"none", "user", "request"}
  /\ frame = [n |-> frame.n, result |-> frame.result] /\ frame.n \in 0..MaxSubmits
  /\ called \in [1..MaxSubmits -> Nat]

\* The callables of the submission in flight, before and after its submitting call
\* returned.
InFlight ==
  /\ flight = "entering" => call # 0
  /\ flight = "idle" => call = 0 /\ op = "none" /\ work = 0 /\ after = 0 /\ ~busy
  /\ flight # "idle" => /\ number # 0 /\ memory = "live"
                        /\ IF PublishesFirst \/ call = 0
                             THEN after = number /\ (busy <=> ~Filesystem)
                             ELSE after = 0 /\ ~busy
  /\ family # "work" => work = 0
  /\ family = "work" /\ flight \in {"entering", "queued"} => work = number
  /\ family = "work" /\ flight = "working" => ran = number

CompletedOnce ==
  \A n \in 1..MaxSubmits :
    /\ called[n] <= 1
    /\ n > number \/ (n = number /\ flight # "idle") => called[n] = 0

\* A result that reads the request keeps it from being submitted again.
Owned ==
  /\ ResultsOwned
  /\ frame # NoFrame /\ ReadsRequest(frame.result) => flight = "idle" /\ family = "fs"
  /\ op = "closedir" => family = "fs"
  /\ dir = "request" => call = 0
  /\ family # "fs" => dir = "none"
  /\ family = "owned" /\ flight # "worked" => held = "number"

RInv == RequestTypes /\ busy \in BOOLEAN /\ InFlight /\ CompletedOnce /\ Owned

LEMMA RInvInit == ASSUME NEW f \in AllFamilies, RInit(f) PROVE RInv
<1>1. busy \in BOOLEAN
  BY ZenonT(60) DEF RInit
<1>2. QED
  BY <1>1, RequestAssumption
     DEF RInit, RInv, RequestTypes, InFlight, CompletedOnce, Owned, ResultsOwned, NoFrame

\* The callables of a submission that may be refused are in place, or still empty.
LEMMA SubmitKeeps ==
  ASSUME RInv, NEW o \in Operations, o = "closedir" => family = "fs", Submit(o) PROVE RInv'
<1>1. /\ flight = "idle" /\ call = 0 /\ ~busy /\ after = 0 /\ work = 0 /\ op = "none"
      /\ family = "fs" => held = "number"
  BY DEF RInv, RequestTypes, InFlight, Submit, LoopFree, CanSubmit, Filesystem, AllFamilies
<1>2. /\ number' = number + 1 /\ number' \in 1..MaxSubmits /\ call' = number'
      /\ flight' = "entering" /\ op' = o /\ memory' = "live"
      /\ UNCHANGED <<family, held, dir, frame, ran, called>>
  BY RequestAssumption DEF RInv, RequestTypes, Submit, records
<1>3. CASE PublishesFirst
  <2>1. after' = number' /\ work' = IF family = "work" THEN number' ELSE 0
    BY <1>3 DEF Submit
  <2>2. busy' <=> family = "work"
    BY <1>3, ZenonT(60) DEF Submit
  <2>3. busy' \in BOOLEAN
    BY <2>2, ZenonT(60)
  <2>4. QED
    BY <1>1, <1>2, <1>3, <2>1, <2>2, <2>3, RequestAssumption
       DEF RInv, RequestTypes, InFlight, CompletedOnce, Owned, ResultsOwned, PublishesFirst,
           Filesystem, ReadsRequest
<1>4. CASE ~PublishesFirst
  <2>1. UNCHANGED <<busy, work, after>>
    BY <1>4 DEF Submit, slots
  <2>2. busy' \in BOOLEAN
    BY <2>1, ZenonT(60) DEF RInv
  <2>3. QED
    BY <1>1, <1>2, <1>4, <2>1, <2>2, RequestAssumption
       DEF RInv, RequestTypes, InFlight, CompletedOnce, Owned, ResultsOwned, PublishesFirst,
           Filesystem, ReadsRequest
<1>5. QED
  BY <1>3, <1>4

LEMMA NativeAcceptsKeeps == ASSUME RInv, NativeAccepts PROVE RInv'
<1>1. busy' \in BOOLEAN
  BY ZenonT(60) DEF RInv, NativeAccepts, slots
<1>2. QED
  BY <1>1, RequestAssumption
     DEF RInv, RequestTypes, InFlight, CompletedOnce, Owned, ResultsOwned, PublishesFirst,
         Filesystem, NativeAccepts, slots, records

LEMMA NativeRefusesKeeps == ASSUME RInv, NativeRefuses PROVE RInv'
<1>1. busy' \in BOOLEAN
  BY ZenonT(60) DEF RInv, NativeRefuses, slots
<1>2. QED
  BY <1>1, RequestAssumption
     DEF RInv, RequestTypes, InFlight, CompletedOnce, Owned, ResultsOwned, PublishesFirst,
         Filesystem, NativeRefuses, DirectoryAfter, slots, records

LEMMA SubmitReturnsKeeps == ASSUME RInv, SubmitReturns PROVE RInv'
<1>1. busy' \in BOOLEAN
  BY ZenonT(60) DEF RInv, SubmitReturns, slots
<1>2. QED
  BY <1>1, RequestAssumption
     DEF RInv, RequestTypes, InFlight, CompletedOnce, Owned, ResultsOwned, PublishesFirst,
         Filesystem, SubmitReturns, DirectoryAfter, slots, records

LEMMA CancelKeeps == ASSUME RInv, Cancel PROVE RInv'
<1>1. busy' \in BOOLEAN
  BY ZenonT(60) DEF RInv, Cancel, slots
<1>2. QED
  BY <1>1, RequestAssumption
     DEF RInv, RequestTypes, InFlight, CompletedOnce, Owned, ResultsOwned, PublishesFirst,
         Filesystem, Cancel, slots, records

LEMMA WorkerStartsKeeps == ASSUME RInv, WorkerStarts PROVE RInv'
<1>1. busy' \in BOOLEAN
  BY ZenonT(60) DEF RInv, WorkerStarts, slots
<1>2. QED
  BY <1>1, RequestAssumption
     DEF RInv, RequestTypes, InFlight, CompletedOnce, Owned, ResultsOwned, PublishesFirst,
         Filesystem, WorkerStarts, LoopFree

LEMMA WorkerEndsKeeps == ASSUME RInv, NEW b \in BOOLEAN, WorkerEnds(b) PROVE RInv'
<1>1. busy' \in BOOLEAN
  BY ZenonT(60) DEF RInv, WorkerEnds, slots
<1>2. QED
  BY <1>1, RequestAssumption
     DEF RInv, RequestTypes, InFlight, CompletedOnce, Owned, ResultsOwned, PublishesFirst,
         Filesystem, WorkerEnds, slots, records

LEMMA DeliveryReturnsKeeps == ASSUME RInv, DeliveryReturns PROVE RInv'
<1>1. busy' \in BOOLEAN
  BY ZenonT(60) DEF RInv, DeliveryReturns, slots
<1>2. QED
  BY <1>1, RequestAssumption
     DEF RInv, RequestTypes, InFlight, CompletedOnce, Owned, ResultsOwned, PublishesFirst,
         Filesystem, DeliveryReturns, slots, records, NoFrame, ReadsRequest

LEMMA CleanupKeeps == ASSUME RInv, Cleanup PROVE RInv'
<1>1. busy' \in BOOLEAN
  BY ZenonT(60) DEF RInv, Cleanup, slots
<1>2. QED
  BY <1>1, RequestAssumption
     DEF RInv, RequestTypes, InFlight, CompletedOnce, Owned, ResultsOwned, PublishesFirst,
         Filesystem, Cleanup, slots, records, NoFrame, ReadsRequest

LEMMA DestroyKeeps == ASSUME RInv, Destroy PROVE RInv'
<1>1. busy' \in BOOLEAN
  BY ZenonT(60) DEF RInv, Destroy, slots
<1>2. QED
  BY <1>1, RequestAssumption
     DEF RInv, RequestTypes, InFlight, CompletedOnce, Owned, ResultsOwned, PublishesFirst,
         Filesystem, Destroy, slots, records, ReadsRequest

\* A completion takes the callables out and gives the result away.
LEMMA HandKeeps ==
  ASSUME RInv, NEW r, Hand(r), memory' \in {"live", "deleted"},
         ReadsRequest(r) => memory' = "live" /\ held' = r /\ family = "fs",
         memory' = "deleted" \/ family = "owned" => held' = "number",
         dir' \in {"none", "user", "request"}, dir' # "request", family # "fs" => dir' = "none"
  PROVE  RInv'
<1>1. /\ call = 0 /\ flight \in {"worked", "cancelled"} /\ after = number /\ number \in 1..MaxSubmits
  BY DEF RInv, RequestTypes, InFlight, Hand, Deliverable, LoopFree
<1>2. /\ flight' = "idle" /\ op' = "none" /\ frame' = [n |-> number, result |-> r]
      /\ called' = [called EXCEPT ![number] = called[number] + 1]
      /\ ~busy' /\ work' = 0 /\ after' = 0 /\ UNCHANGED <<family, number, call, ran>>
  BY <1>1 DEF Hand
<1>3. busy' \in BOOLEAN
  BY ZenonT(60) DEF Hand
<1>4. CompletedOnce' /\ called' \in [1..MaxSubmits -> Nat]
  BY <1>1, <1>2 DEF RInv, RequestTypes, CompletedOnce
<1>5. RequestTypes' /\ InFlight'
  BY <1>1, <1>2, <1>4, RequestAssumption DEF RInv, RequestTypes, InFlight
<1>6. Owned'
  BY <1>1, <1>2 DEF Owned, ResultsOwned, RInv
<1>7. QED
  BY <1>3, <1>4, <1>5, <1>6 DEF RInv

LEMMA CompleteKeeps == ASSUME RInv, Complete PROVE RInv'
<1>1. memory = "live" /\ flight # "idle"
  BY DEF RInv, InFlight, Complete, StreamCompletes, RandomCompletes, GetaddrinfoCompletes,
         GetnameinfoCompletes, PoolCompletes, WorkCompletes, RawCompletes, OwnedCompletes, Hand,
         Deliverable
<1>2. CASE RawCompletes
  <2>1. /\ family = "fs" /\ Hand(held) /\ memory' = memory /\ dir' = DirectoryDelivered
        /\ held' = IF held = "directory" THEN "number" ELSE held
    BY <1>2 DEF RawCompletes
  <2>2. dir' \in {"none", "user"}
    BY <2>1 DEF DirectoryDelivered, RInv, RequestTypes, Owned, ResultsOwned
  <2>3. QED
    BY <1>1, <2>1, <2>2, HandKeeps DEF ReadsRequest
<1>3. CASE OwnedCompletes
  <2>1. /\ family = "owned" /\ Hand("number") /\ memory' = "deleted" /\ held' = "number"
        /\ dir' = "none"
    BY <1>3 DEF OwnedCompletes, Copied, RInv, Owned
  <2>2. QED
    BY <2>1, HandKeeps DEF ReadsRequest
<1>4. CASE \/ StreamCompletes \/ RandomCompletes \/ GetaddrinfoCompletes
          \/ GetnameinfoCompletes \/ WorkCompletes
  <2>1. /\ family \notin {"fs", "owned"} /\ Hand("number") /\ UNCHANGED <<memory, held, dir>>
    BY <1>4 DEF StreamCompletes, RandomCompletes, GetaddrinfoCompletes, GetnameinfoCompletes,
                PoolCompletes, WorkCompletes
  <2>2. dir' = "none"
    BY <2>1 DEF RInv, Owned
  <2>3. QED
    BY <1>1, <2>1, <2>2, HandKeeps DEF ReadsRequest
<1>5. QED
  BY <1>2, <1>3, <1>4 DEF Complete

LEMMA RInvNext == ASSUME RInv, [RNext]_rVars PROVE RInv'
<1>1. CASE Write \/ WriteWithHandle \/ Shutdown \/ TcpConnect \/ PipeConnect \/ Send
  BY <1>1, SubmitKeeps DEF Write, WriteWithHandle, Shutdown, TcpConnect, PipeConnect, Send,
     SubmitStream, Operations, StreamOperations
<1>2. CASE SubmitRandom \/ SubmitGetaddrinfo \/ SubmitGetnameinfo \/ SubmitWork
  BY <1>2, SubmitKeeps
     DEF SubmitRandom, SubmitGetaddrinfo, SubmitGetnameinfo, SubmitPool, SubmitWork, Operations,
         PoolOperations
<1>3. ASSUME NEW o \in RawOperations, SubmitRaw(o) PROVE RInv'
  BY <1>3, SubmitKeeps DEF SubmitRaw, Operations
<1>4. ASSUME NEW o \in OwnedOperations, SubmitOwned(o) PROVE RInv'
  <2>1. o # "closedir"
    BY DEF OwnedOperations, OwnedFile, OwnedPaths, OwnedStatus, OwnedTimes, OwnedSync,
       OwnedQueries
  <2>2. QED
    BY <1>4, <2>1, SubmitKeeps DEF SubmitOwned, Operations
<1>5. CASE NativeAccepts \/ NativeRefuses \/ SubmitReturns \/ Cancel
  BY <1>5, NativeAcceptsKeeps, NativeRefusesKeeps, SubmitReturnsKeeps, CancelKeeps
<1>6. CASE WorkerStarts \/ \E b \in BOOLEAN : WorkerEnds(b)
  BY <1>6, WorkerStartsKeeps, WorkerEndsKeeps, ZenonT(60)
<1>7. CASE Complete \/ DeliveryReturns \/ Cleanup \/ Destroy
  BY <1>7, CompleteKeeps, DeliveryReturnsKeeps, CleanupKeeps, DestroyKeeps
<1>8. CASE UNCHANGED rVars
  <2>1. busy' \in BOOLEAN
    BY <1>8, ZenonT(60) DEF rVars, slots, RInv
  <2>2. QED
    BY <1>8, <2>1
       DEF rVars, slots, records, RInv, RequestTypes, InFlight, CompletedOnce, Owned,
           ResultsOwned, PublishesFirst, Filesystem
<1>9. QED
  BY <1>1, <1>2, <1>3, <1>4, <1>5, <1>6, <1>7, <1>8, ZenonT(60) DEF RNext

\* The invariants of the request follow.
LEMMA RInvImplies == RInv => CallableMatchesFlight /\ ResultsOwned
<1>1. SUFFICES ASSUME RInv PROVE CallableMatchesFlight /\ ResultsOwned
  OBVIOUS
<1>2. busy \in BOOLEAN
  BY <1>1, ZenonT(60) DEF RInv
<1>3. RequestTypeOK
  BY <1>1, <1>2, RequestAssumption DEF RInv, RequestTypes, RequestTypeOK
<1>4. ASSUME flight \notin {"idle", "entering"}, LoopFree
      PROVE  after = number /\ busy = ~Filesystem /\ memory = "live"
  <2>1. after = number /\ memory = "live" /\ (busy <=> ~Filesystem)
    BY <1>1, <1>4 DEF RInv, InFlight, LoopFree
  <2>2. busy = ~Filesystem
    BY <1>2, <2>1, ZenonT(60)
  <2>3. QED
    BY <2>1, <2>2
<1>5. CallableMatchesFlight
  BY <1>1, <1>3, <1>4 DEF RInv, InFlight, CompletedOnce, CallableMatchesFlight
<1>6. QED
  BY <1>1, <1>5 DEF RInv, Owned

-----------------------------------------------------------------------------
(* The thread.                                                             *)

TTypeOK ==
  /\ made \in 0..MaxThreads
  /\ starting \in 0..MaxThreads /\ handle \in 0..MaxThreads
  /\ joinable \in BOOLEAN
  /\ live \in SUBSET (1..MaxThreads)
  /\ freed \in [1..MaxThreads -> Nat]

\* Only starts that happened have a thread or freed their state, and a start that is
\* still inside uv_thread_create is the last one.
TInv ==
  /\ TTypeOK
  /\ live \subseteq 1..made
  /\ \A n \in 1..MaxThreads : n > made => freed[n] = 0
  /\ starting # 0 => handle = made /\ ~joinable
  /\ ThreadStateFreedOnce

LEMMA TInvInit == TInit => TInv
<1>1. SUFFICES ASSUME TInit PROVE TInv
  OBVIOUS
<1>2. freed \in [1..MaxThreads -> Nat] /\ \A n \in 1..MaxThreads : freed[n] = 0
  BY <1>1 DEF TInit
<1>3. TTypeOK
  <2>1. 0 \in 0..MaxThreads
    BY ThreadAssumption
  <2>2. made = 0 /\ starting = 0 /\ handle = 0 /\ joinable = FALSE /\ live = {}
    BY <1>1 DEF TInit
  <2>3. QED
    BY <1>2, <2>1, <2>2, ZenonT(60) DEF TTypeOK
<1>4. ThreadStateFreedOnce
  BY <1>1 DEF TInit, ThreadStateFreedOnce
<1>5. QED
  BY <1>1, <1>2, <1>3, <1>4 DEF TInit, TInv

LEMMA TInvNext == TInv /\ [TNext]_tVars => TInv'
<1>1. SUFFICES ASSUME TInv, [TNext]_tVars PROVE TInv'
  OBVIOUS
<1> USE <1>1, ThreadAssumption
<1>2. CASE ThreadStart
  <2>1. /\ made' = made + 1 /\ made' \in 1..MaxThreads /\ handle' = made' /\ starting' = made'
        /\ live' = live \cup {made'} /\ UNCHANGED <<joinable, freed>> /\ ~joinable
    BY <1>2 DEF ThreadStart, TInv, TTypeOK
  <2>2. TTypeOK' /\ live' \subseteq 1..made'
    BY <2>1 DEF TInv, TTypeOK
  <2>3. \A n \in 1..MaxThreads : n > made' => freed'[n] = 0
    BY <2>1 DEF TInv, TTypeOK
  <2>4. ThreadStateFreedOnce'
    BY <2>1 DEF TInv, TTypeOK, ThreadStateFreedOnce
  <2>5. QED
    BY <2>1, <2>2, <2>3, <2>4 DEF TInv
<1>3. CASE ThreadStartFails
  <2>1. /\ made' = made + 1 /\ made' \in 1..MaxThreads /\ starting = 0 /\ ~joinable
        /\ freed' = [freed EXCEPT ![made'] = @ + 1]
        /\ UNCHANGED <<starting, kept, joinable, handle, live>>
    BY <1>3 DEF ThreadStartFails, Free, TInv, TTypeOK
  <2>2. freed[made'] = 0 /\ made' \notin live
    BY <2>1 DEF TInv, TTypeOK
  <2>3. TTypeOK' /\ live' \subseteq 1..made'
    BY <2>1 DEF TInv, TTypeOK
  <2>4. \A n \in 1..MaxThreads : freed'[n] = IF n = made' THEN 1 ELSE freed[n]
    BY <2>1, <2>2 DEF TInv, TTypeOK
  <2>5. \A n \in 1..MaxThreads : n > made' => freed'[n] = 0
    BY <2>1, <2>4 DEF TInv, TTypeOK
  <2>6. ThreadStateFreedOnce'
    BY <2>1, <2>2, <2>4 DEF TInv, TTypeOK, ThreadStateFreedOnce
  <2>7. QED
    BY <2>1, <2>3, <2>5, <2>6 DEF TInv
<1>4. CASE ThreadStarted
  BY <1>4 DEF ThreadStarted, KeptAfter, TInv, TTypeOK, ThreadStateFreedOnce
<1>5. ASSUME NEW m \in 1..MaxThreads, ThreadEnds(m) PROVE TInv'
  <2>1. /\ m \in live /\ live' = live \ {m} /\ freed' = [freed EXCEPT ![m] = @ + 1]
        /\ UNCHANGED <<made, starting, kept, joinable, handle>>
    BY <1>5 DEF ThreadEnds, Free
  <2>2. freed[m] = 0 /\ m \in 1..made
    BY <2>1 DEF TInv, ThreadStateFreedOnce
  <2>3. \A n \in 1..MaxThreads : freed'[n] = IF n = m THEN 1 ELSE freed[n]
    BY <2>1, <2>2 DEF TInv, TTypeOK
  <2>4. TTypeOK' /\ live' \subseteq 1..made'
    BY <2>1 DEF TInv, TTypeOK
  <2>5. \A n \in 1..MaxThreads : n > made' => freed'[n] = 0
    BY <2>1, <2>2, <2>3 DEF TInv, TTypeOK
  <2>6. ThreadStateFreedOnce'
    BY <2>1, <2>3 DEF TInv, TTypeOK, ThreadStateFreedOnce
  <2>7. QED
    BY <2>1, <2>4, <2>5, <2>6 DEF TInv
<1>6. CASE Join \/ Detach
  <2>1. joinable' = FALSE /\ UNCHANGED <<made, starting, kept, handle, live, freed>>
    BY <1>6 DEF Join, Detach
  <2>2. TTypeOK' /\ ThreadStateFreedOnce'
    BY <2>1, ZenonT(60) DEF TInv, TTypeOK, ThreadStateFreedOnce
  <2>3. QED
    BY <2>1, <2>2 DEF TInv
<1>7. CASE UNCHANGED tVars
  BY <1>7 DEF tVars, TInv, TTypeOK, ThreadStateFreedOnce
<1>8. QED
  BY <1>2, <1>3, <1>4, <1>5, <1>6, <1>7 DEF TNext

-----------------------------------------------------------------------------
(* The raw layer.                                                          *)

RawInv == HInv /\ RInv /\ TInv

LEMMA RawInvInit == Init => RawInv
<1>1. SUFFICES ASSUME Init PROVE RawInv
  OBVIOUS
<1>2. HInv
  <2>1. PICK k \in AllKinds : HInit(k)
    BY <1>1, HandleAssumption DEF Init, AllKinds, Watchers
  <2>2. QED
    BY <2>1, HInvInit
<1>3. RInv
  <2>1. PICK f \in AllFamilies : RInit(f)
    BY <1>1, RequestAssumption DEF Init, AllFamilies
  <2>2. QED
    BY <2>1, RInvInit
<1>4. TInv
  BY <1>1, TInvInit DEF Init
<1>5. QED
  BY <1>2, <1>3, <1>4 DEF RawInv

LEMMA RawInvNext == RawInv /\ [Next]_vars => RawInv'
<1>1. SUFFICES ASSUME RawInv, [Next]_vars PROVE RawInv'
  OBVIOUS
<1>2. [HNext]_hVars /\ [RNext]_rVars /\ [TNext]_tVars
  BY <1>1, ZenonT(60) DEF Next, HandleStep, RequestStep, ThreadStep, vars
<1>3. QED
  BY <1>1, <1>2, HInvNext, RInvNext, TInvNext, ZenonT(60) DEF RawInv

LEMMA RawInvariance == Spec => []RawInv
BY RawInvInit, RawInvNext, PTL DEF Spec

\* A notification of any handle calls the subscription that libuv delivers for, and an
\* active handle can find its callable again, however callbacks start, restart, stop
\* and close the handle that called them.
THEOREM SubscriptionsDelivered == Spec => []DeliversCurrentSubscription
BY RawInvariance, HInvImplies, PTL DEF RawInv

\* A handle that is not active keeps no callable: not in its slot, and not in a
\* delivery that would put it back.  The storage of a spawn that threw lives until the
\* close callback, and its close waits for the exit of a child that was started.
THEOREM CapturesAreReleased == Spec => []CapturesReleased
BY RawInvariance, HInvImplies, PTL DEF RawInv

\* A lent buffer goes back to the reader whose allocator lent it.
THEOREM LoansArePaired == Spec => []LoansPaired
BY RawInvariance, HInvImplies, PTL DEF RawInv

\* The flags and callables of a request object match where libuv has its native
\* request, whichever thread is ahead, and no submission completes twice.
THEOREM CallablesMatch == Spec => []CallableMatchesFlight
BY RawInvariance, RInvImplies, PTL DEF RawInv

\* A result that reads a filesystem request is read while the request exists and was
\* not cleaned up.
THEOREM ResultsAreOwned == Spec => []ResultsOwned
BY RawInvariance, RInvImplies, PTL DEF RawInv

\* However often a thread object is started, joined and detached, the heap state of
\* each start is deleted once, and never while its thread runs.
THEOREM FreedOnce == Spec => []ThreadStateFreedOnce
<1>1. RawInv => ThreadStateFreedOnce
  BY DEF RawInv, TInv
<1>2. QED
  BY RawInvariance, <1>1, PTL

=============================================================================
