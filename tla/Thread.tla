------------------------------- MODULE Thread -------------------------------
(***************************************************************************)
(* uv::thread of threading/primitives.hpp: the heap state with the         *)
(* callable passes from the starting thread to the one it starts, which    *)
(* may have deleted it before uv_thread_create returns.                    *)
(***************************************************************************)
EXTENDS Naturals, FiniteSets

CONSTANT MaxThreads   \* bound: starts of one thread object

ASSUME ThreadAssumption == MaxThreads \in Nat

VARIABLES
  made,       \* starts so far
  starting,   \* the start whose uv_thread_create was called, or 0
  kept,       \* does the unique_ptr of that start still own its state
  joinable,   \* joinable_
  handle,     \* raw_: the native thread it names, or 0
  live,       \* the threads that run
  freed       \* how often the state of each start was deleted

tVars == <<made, starting, kept, joinable, handle, live, freed>>

TInit ==
  /\ made = 0 /\ starting = 0 /\ kept = FALSE /\ joinable = FALSE /\ handle = 0
  /\ live = {} /\ freed = [n \in 1..MaxThreads |-> 0]

Free(n) == freed' = [freed EXCEPT ![n] = @ + 1]

\* thread::start up to a successful uv_thread_create; a joinable thread is refused
\* with UV_EBUSY.
ThreadStart ==
  /\ starting = 0 /\ ~joinable /\ made < MaxThreads
  /\ made' = made + 1 /\ starting' = made' /\ kept' = TRUE
  /\ handle' = made' /\ live' = live \cup {made'}
  /\ UNCHANGED <<joinable, freed>>

\* uv_thread_create fails: the unique_ptr deletes the state as the error leaves.
ThreadStartFails ==
  /\ starting = 0 /\ ~joinable /\ made < MaxThreads
  /\ made' = made + 1
  /\ Free(made')
  /\ UNCHANGED <<starting, kept, joinable, handle, live>>

\* What the unique_ptr owns when start goes on after uv_thread_create.
KeptAfter_NoRelease == kept
KeptAfter == FALSE

\* The rest of start: the state is released, the thread can be joined.
ThreadStarted ==
  /\ starting # 0
  /\ IF KeptAfter THEN Free(starting) ELSE UNCHANGED freed
  /\ starting' = 0 /\ kept' = FALSE
  /\ joinable' = TRUE
  /\ UNCHANGED <<made, handle, live>>

\* thread_trampoline: the callable runs and its state is deleted.
ThreadEnds(n) ==
  /\ n \in live
  /\ live' = live \ {n}
  /\ Free(n)
  /\ UNCHANGED <<made, starting, kept, joinable, handle>>

\* join returns when the thread has ended.
Join ==
  /\ joinable /\ starting = 0 /\ handle \notin live
  /\ joinable' = FALSE
  /\ UNCHANGED <<made, starting, kept, handle, live, freed>>

Detach ==
  /\ joinable /\ starting = 0
  /\ joinable' = FALSE
  /\ UNCHANGED <<made, starting, kept, handle, live, freed>>

TNext ==
  \/ ThreadStart \/ ThreadStartFails \/ ThreadStarted \/ Join \/ Detach
  \/ \E n \in 1..MaxThreads : ThreadEnds(n)

\* The state of a start is deleted once: by its thread after the callable ran, or
\* by the starting thread when there is none.  It exists as long as its thread runs,
\* and the unique_ptr of start never deletes it behind that thread.
ThreadStateFreedOnce ==
  /\ \A n \in live : freed[n] = 0
  /\ \A n \in (1..made) \ live : freed[n] = 1
  /\ joinable => handle = made

=============================================================================
