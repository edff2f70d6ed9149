----------------------------- MODULE AsyncClose -----------------------------
(***************************************************************************)
(* uv::detail::async_close_state (include/uvpp/detail/async_close_state.hpp)*)
(* as operators on a record: the close bookkeeping every high-level owner  *)
(* shares.  A missing callback waiter is the empty sequence.               *)
(***************************************************************************)
EXTENDS Sequences

OpenState ==
  [phase |-> "open", waiters |-> <<>>, callback_waiter |-> <<>>,
   owner_released |-> FALSE, completion_active |-> FALSE]

CloseStates(Tasks) ==
  [phase : {"open", "closing", "closed"}, waiters : Seq(Tasks), callback_waiter : Seq(Tasks),
   owner_released : BOOLEAN, completion_active : BOOLEAN]

IsOpen(close) == close.phase = "open"
IsClosing(close) == close.phase # "open"
IsClosed(close) == close.phase = "closed"

\* begin, which changes nothing on a state that is closing; never called on a closed one.
Begun(close) == [close EXCEPT !.phase = "closing"]

WithWaiter_Lost(close, t) == close

\* add_waiter.
WithWaiter(close, t) == [close EXCEPT !.waiters = Append(@, t)]

\* set_callback_waiter: the slot that needs no allocation.
WithCallbackWaiter(close, t) == [close EXCEPT !.callback_waiter = <<t>>]

OwnerReleased(close) == [close EXCEPT !.owner_released = TRUE]

CanDestroyNow_InCompletion(close) == close.owner_released /\ close.phase = "closed"
CanDestroyNow(close) ==
  close.owner_released /\ close.phase = "closed" /\ ~close.completion_active

\* complete, up to the first resumption: the waiters are detached.
Completing(close) ==
  [close EXCEPT !.phase = "closed", !.completion_active = TRUE,
                !.waiters = <<>>, !.callback_waiter = <<>>]

\* In the order in which complete resumes them.
DetachedWaiters(close) == close.callback_waiter \o close.waiters

\* complete, after the last resumption; it deletes the state if DeletesState.
Completed(close) == [close EXCEPT !.completion_active = FALSE]

DeletesState(close) == close.owner_released

=============================================================================
