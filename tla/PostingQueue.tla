---------------------------- MODULE PostingQueue ----------------------------
(***************************************************************************)
(* What uv::loop_posting promises its users (docs/user/loop.md,            *)
(* "Cross-thread posting"), without a mutex, batches, wakeups or a native  *)
(* handle: a bounded FIFO that seals, drains, closes and only then wakes   *)
(* the coroutines that wait for the close.                                 *)
(***************************************************************************)
EXTENDS Integers, Sequences

CONSTANTS
  Work,     \* everything that may be posted
  Waiters,  \* coroutines that may wait for the close
  Bound     \* accepted callables that may be waiting to start at one time

VARIABLES
  accepted,  \* callables accepted so far, in order
  executed,  \* callables started so far, in order
  sealed,    \* admission has ended
  closed,    \* close has completed
  waiter,    \* state of each waiting coroutine
  halted     \* the program was terminated by an unhandled failure

qvars == <<accepted, executed, sealed, closed, waiter, halted>>

QueueInit ==
  /\ accepted = <<>> /\ executed = <<>>
  /\ ~sealed /\ ~closed /\ ~halted
  /\ waiter = [w \in Waiters |-> "none"]

Accept(w) ==
  /\ ~sealed /\ ~halted
  /\ Len(accepted) - Len(executed) < Bound
  /\ accepted' = Append(accepted, w)
  /\ UNCHANGED <<executed, sealed, closed, waiter, halted>>

Execute ==
  /\ ~halted
  /\ Len(executed) < Len(accepted)
  /\ executed' = Append(executed, accepted[Len(executed) + 1])
  /\ UNCHANGED <<accepted, sealed, closed, waiter, halted>>

Seal ==
  /\ ~sealed /\ ~halted
  /\ sealed' = TRUE
  /\ UNCHANGED <<accepted, executed, closed, waiter, halted>>

Wait(w) ==
  /\ ~halted
  /\ waiter[w] = "none"
  /\ sealed' = TRUE
  /\ waiter' = [waiter EXCEPT ![w] = IF closed THEN "resumed" ELSE "suspended"]
  /\ UNCHANGED <<accepted, executed, closed, halted>>

Close ==
  /\ sealed /\ ~closed /\ ~halted
  /\ executed = accepted
  /\ closed' = TRUE
  /\ UNCHANGED <<accepted, executed, sealed, waiter, halted>>

Wake(w) ==
  /\ closed /\ ~halted
  /\ waiter[w] = "suspended"
  /\ waiter' = [waiter EXCEPT ![w] = "resumed"]
  /\ UNCHANGED <<accepted, executed, sealed, closed, halted>>

Halt ==
  /\ ~halted
  /\ halted' = TRUE
  /\ UNCHANGED <<accepted, executed, sealed, closed, waiter>>

QueueNext ==
  \/ \E w \in Work : Accept(w)
  \/ Execute
  \/ Seal
  \/ Close
  \/ \E w \in Waiters : Wait(w) \/ Wake(w)
  \/ Halt

QueueSafety == QueueInit /\ [][QueueNext]_qvars

\* What is accepted is executed, what is sealed is closed, who waits is woken.
QueueSpec ==
  /\ QueueSafety
  /\ WF_qvars(Execute)
  /\ WF_qvars(Close)
  /\ \A w \in Waiters : WF_qvars(Wake(w))

=============================================================================
