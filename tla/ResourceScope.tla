--------------------------- MODULE ResourceScope ---------------------------
(***************************************************************************)
(* uv::co::resource_scope (include/uvpp/co/resource_scope.hpp) with the    *)
(* owners it adopts: connections and sockets, listeners, and the file of   *)
(* FsFile.  finish() closes them one after another in two phases; it can   *)
(* be interrupted by an owner that is still in use or by a failing close,  *)
(* and awaited again.                                                      *)
(*                                                                         *)
(* A listener or a connection is reduced to what the scope sees of it: is  *)
(* an operation active, how far is its close.  Their own modules are       *)
(* Listener and Connection.                                                *)
(***************************************************************************)
EXTENDS FsFile

CONSTANT MaxOwned  \* bound: owners adopted

VARIABLES
  resources,  \* resources_: the records, in the order of adoption
  state,      \* cleanup_state: "open", "active", "interrupted", "finished", or "destroyed"
  finisher    \* the task inside finish(), or None

scopeVars == <<resources, state, finisher>>
vars == <<FileVars, scopeVars>>

\* A record: the slot is empty once "held" is false; "view" is whether the access
\* token still leads to the owner; a file record also has released_.
Kinds == {"listener", "connection", "file"}
Record(kind, native) ==
  [kind |-> kind, held |-> TRUE, view |-> TRUE, active |-> FALSE, native |-> native]

TypeOK ==
  /\ task \in [Tasks -> {"ready", "running", "opening", "resolving", "reading", "writing",
                         "closing", "finishing"}]
  /\ request \in [Tasks -> RequestStates] /\ file \in FileStates
  /\ \A i \in 1..Len(resources) :
       resources[i] \in [kind : Kinds, held : BOOLEAN, view : BOOLEAN, active : BOOLEAN,
                         native : {"open", "closing", "closed"}]
  /\ state \in {"open", "active", "interrupted", "finished", "destroyed"}
  /\ finisher \in Tasks \cup {None}

Init ==
  /\ FileInit
  /\ resources = <<>> /\ state = "open" /\ finisher = None

\* User code, as opposed to finish_impl, is on top of the stack.
OutsideFinish == UserRuns /\ (stack # <<>> => Head(stack)[2] # finisher)

-----------------------------------------------------------------------------
(* Adoption and use through views.                                         *)

\* own() of a connection, a UDP socket or a listener, whose close may have begun.
Own(kind, native) ==
  /\ OutsideFinish /\ state = "open" /\ Len(resources) < MaxOwned
  /\ resources' = Append(resources, Record(kind, native))
  /\ UNCHANGED <<FileVars, state, finisher>>

\* own() of the file.
OwnFile ==
  /\ OutsideFinish /\ state = "open" /\ Len(resources) < MaxOwned
  /\ owner = "user"
  /\ owner' = "scope"
  /\ resources' = Append(resources, Record("file", "open"))
  /\ UNCHANGED <<stack, task, cancelVars, request, file, close_waiters, resuming, fd,
                 state, finisher>>

\* A task starts an operation through a view, which fails once the view is
\* invalid or the owner is closing; the operation settles later.
Borrow(i) ==
  /\ OutsideFinish /\ resources[i].kind # "file"
  /\ resources[i].view /\ resources[i].native = "open" /\ ~resources[i].active
  /\ resources' = [resources EXCEPT ![i].active = TRUE]
  /\ UNCHANGED <<FileVars, state, finisher>>

Settle(i) ==
  /\ InPoll /\ resources[i].active
  /\ resources' = [resources EXCEPT ![i].active = FALSE]
  /\ UNCHANGED <<FileVars, state, finisher>>

-----------------------------------------------------------------------------
(* finish().                                                               *)

Held(S) == {i \in 1..Len(resources) : resources[i].held /\ resources[i].kind \in S}
First(S) == CHOOSE i \in S : \A j \in S : i <= j

\* The record finish_impl comes to next: all listeners before anything else, in
\* the order of adoption; empty slots are skipped.
Current_AdoptionOrder == First(Held(Kinds))
Current ==
  IF Held({"listener"}) # {} THEN First(Held({"listener"}))
                             ELSE First(Held({"connection", "file"}))

FinishRuns(t) == Top("run", t) /\ finisher = t /\ state = "active"

\* finish_impl up to its loop: refuse a second cleanup, ignore a finished scope.
Finish(t) ==
  /\ Top("run", t) /\ finisher # t /\ state # "destroyed"
  /\ IF state \in {"active", "finished"}
       THEN UNCHANGED <<state, finisher>>
       ELSE state' = "active" /\ finisher' = t
  /\ UNCHANGED <<stack, task, cancelVars, request, fileVars, fd, resources>>

\* The exception leaves finish_impl.
Interrupted == state' = "interrupted" /\ finisher' = None
Continues == UNCHANGED <<state, finisher>>

\* The record of a listener or connection: refuse one in use, join or start its
\* close, or release it if it is closed.  Closing a listener ends its accept.
InUse(i) == resources[i].kind = "connection" /\ resources[i].active

FinishRecord(t) ==
  /\ FinishRuns(t) /\ Held(Kinds) # {} /\ resources[Current].kind # "file"
  /\ LET r == resources[Current] IN
       \/ /\ InUse(Current)
          /\ Interrupted /\ Returns /\ UNCHANGED resources
       \/ /\ ~InUse(Current) /\ r.native # "closed"
          /\ resources' = [resources EXCEPT ![Current].native = "closing",
                                            ![Current].active = FALSE]
          /\ SuspendsIn(t, "finishing") /\ Continues
       \/ /\ ~InUse(Current) /\ r.native = "closed"
          /\ resources' = [resources EXCEPT ![Current].held = FALSE, ![Current].view = FALSE]
          /\ Returns /\ Continues
  /\ UNCHANGED <<cancelVars, request, fileVars, fd>>

\* The close callback of an owner, which the scope or its user before closed,
\* resumes finish_impl if it waits for it.
OwnerClosed(i) ==
  /\ InPoll /\ resources[i].native = "closing"
  /\ resources' = [resources EXCEPT ![i].native = "closed"]
  /\ IF finisher # None /\ task[finisher] = "finishing" /\ Current = i
       THEN Resumes(finisher) ELSE UNCHANGED <<task, stack>>
  /\ UNCHANGED <<cancelVars, request, fileVars, fd, state, finisher>>

\* file_record::finish before its co_await: released by an earlier attempt, in
\* use, or closed through FsFile.  A refused submission leaves the file open, and
\* destroying its owner then terminates.
FinishFile(t) ==
  /\ FinishRuns(t) /\ Held(Kinds) # {} /\ resources[Current].kind = "file"
  /\ resources[Current].view /\ ~file.close_complete
  /\ \/ /\ HasActiveOperation
        /\ Interrupted /\ Returns
        /\ UNCHANGED <<file, close_waiters, request>>
     \/ /\ ~HasActiveOperation
        /\ CloseSuspends(t) /\ Continues
  /\ UNCHANGED <<cancelVars, resuming, owner, fd, resources>>

\* file_record::finish after its co_await: views are invalidated and the owner
\* destroyed before a close error is rethrown.

ReleaseFile_KeepsView ==
  /\ owner' = "released"
  /\ IF file.close_status = "ok"
       THEN /\ resources' = [resources EXCEPT ![Current].held = FALSE]
            /\ Continues
       ELSE Interrupted /\ UNCHANGED resources

ReleaseFile ==
  /\ owner' = "released"
  /\ IF file.close_status = "ok"
       THEN /\ resources' = [resources EXCEPT ![Current].view = FALSE, ![Current].held = FALSE]
            /\ Continues
       ELSE /\ resources' = [resources EXCEPT ![Current].view = FALSE]
            /\ Interrupted

FinishedFile(t) ==
  /\ FinishRuns(t) /\ Held(Kinds) # {} /\ resources[Current].kind = "file"
  /\ resources[Current].view /\ file.close_complete
  /\ ReleaseFile
  /\ UNCHANGED <<stack, task, cancelVars, request, file, close_waiters, resuming, fd>>

\* A record whose released_ is set is retired by the next attempt.
SkipsReleasedFile(t) ==
  /\ FinishRuns(t) /\ Held(Kinds) # {} /\ resources[Current].kind = "file"
  /\ ~resources[Current].view
  /\ resources' = [resources EXCEPT ![Current].held = FALSE]
  /\ UNCHANGED <<FileVars, state, finisher>>

Finished(t) ==
  /\ FinishRuns(t) /\ Held(Kinds) = {}
  /\ resources' = <<>> /\ state' = "finished" /\ finisher' = None
  /\ UNCHANGED FileVars

\* ~resource_scope: nothing may be left in it.
DestroyScope ==
  /\ OutsideFinish /\ state # "destroyed" /\ resources = <<>>
  /\ state' = "destroyed"
  /\ UNCHANGED <<FileVars, resources, finisher>>

-----------------------------------------------------------------------------

FinishActs(t) ==
  \/ FinishRecord(t) \/ FinishFile(t) \/ FinishedFile(t) \/ SkipsReleasedFile(t) \/ Finished(t)

Next ==
  \/ \E t \in Tasks \ {finisher} : TaskActs(t) /\ UNCHANGED scopeVars
  \/ OutsideFinish /\ UserActs /\ UNCHANGED scopeVars
  \/ LoopActs /\ UNCHANGED scopeVars
  \/ PoolActs /\ UNCHANGED scopeVars
  \/ \E kind \in Kinds \ {"file"}, native \in {"open", "closing"} : Own(kind, native)
  \/ OwnFile
  \/ \E i \in 1..Len(resources) : Borrow(i) \/ Settle(i) \/ OwnerClosed(i)
  \/ \E t \in Tasks : Finish(t) \/ FinishActs(t)
  \/ DestroyScope

Spec == Init /\ [][Next]_vars

\* Code that runs comes back, although it may call finish() before it does; the
\* pool serves its queue; every iteration of the loop runs the callbacks that are
\* due, for each task.
LoopDriven ==
  /\ SF_vars(\E t \in Tasks \ {finisher} : Suspends(t) /\ UNCHANGED scopeVars)
  /\ \A t \in Tasks :
       /\ WF_vars(\E answer \in Answered : PoolAnswers(t, answer) /\ UNCHANGED scopeVars)
       /\ SF_vars(\/ (Completes(t) \/ OnCloseComplete(t)) /\ UNCHANGED scopeVars
                  \/ finisher = t /\ \E i \in 1..Len(resources) : OwnerClosed(i))
  /\ WF_vars(\/ (CompleteNext \/ CompleteReturns \/ StopNext \/ StopReturns) /\ UNCHANGED scopeVars
             \/ \E t \in Tasks : FinishActs(t))

FairSpec == Spec /\ LoopDriven

-----------------------------------------------------------------------------
(* Properties.                                                             *)

\* Admission stops first: finish() begins to close a connection, a socket or the
\* file only when every listener is closed and released, on the first attempt and
\* on every later one.  An attempt fails only because an owner is in use, which its
\* user can end, or because the file's close failed, and then the file is given up:
\* the same failure never meets the next attempt.
FinishAttempts ==
  /\ [][\/ owner = "scope" /\ ~file.close_active /\ file'.close_active
        \/ \E i \in 1..Len(resources) :
             /\ resources' # <<>>
             /\ resources[i].kind = "connection"
             /\ resources[i].native = "open" /\ resources'[i].native = "closing"
        => Held({"listener"}) = {}]_vars
  /\ [][state = "active" /\ state' = "interrupted" =>
          InUse(Current) \/ HasActiveOperation \/ (owner = "scope" /\ owner' = "released")]_vars

\* The scope destroys an owner only after its native close: an empty slot, or a
\* file record whose view was invalidated, has nothing open or in use behind it,
\* and a finished scope leaves no descriptor open.
ReleasedAfterClose ==
  /\ \A i \in 1..Len(resources) :
       LET r == resources[i] IN
         /\ ~r.held => ~r.view
         /\ ~r.view /\ r.kind = "file" => owner = "released" /\ file.close_complete
         /\ ~r.view /\ r.kind # "file" => r.native = "closed" /\ ~r.active
  /\ state = "finished" => owner # "scope"

\* Every operation that suspends its coroutine resumes it, finish() included, and
\* whether or not it is stopped: a refused uv_cancel forgets nobody.
OperationsEnd ==
  \A t \in Tasks : (task[t] \notin {"ready", "running"}) ~> (task[t] = "running")

=============================================================================
