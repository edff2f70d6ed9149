---------------------------- MODULE Cancellation ----------------------------
(***************************************************************************)
(* uv::co::detail::cancellation_state (include/uvpp/co/cancellation.hpp):  *)
(* the intrusive LIFO list of stop callbacks.  A list is a sequence of the *)
(* operations registered on it, the last registered first.                 *)
(***************************************************************************)
EXTENDS Naturals, Sequences, Functions

\* register_callback refuses once stop was requested; the caller then finishes
\* its operation with UV_ECANCELED without suspending.
CanRegister_Always(stopped) == TRUE
CanRegister(stopped) == ~stopped

Registered(list, op) == <<op>> \o list

\* unregister unlinks one node, and does nothing for a registration that is not on
\* the list: an operation whose callback ran was removed before the call.
Unregistered(list, op) ==
  IF op \in Range(list)
    THEN LET i == CHOOSE i \in 1..Len(list) : list[i] = op
         IN SubSeq(list, 1, i - 1) \o SubSeq(list, i + 1, Len(list))
    ELSE list

\* One turn of request_stop's loop removes the head before calling it.
HeadRegistration(list) == Head(list)
AfterHead(list) == Tail(list)

=============================================================================
