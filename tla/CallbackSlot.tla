---------------------------- MODULE CallbackSlot ----------------------------
(***************************************************************************)
(* uv::detail::persistent_callback_slot (include/uvpp/core/callback.hpp)   *)
(* as operators on a record: a callable that is invoked repeatedly, and a  *)
(* generation that tells whether user code replaced it meanwhile.  The     *)
(* callable is the number of the subscription it belongs to, 0 if empty.   *)
(***************************************************************************)
EXTENDS Naturals

EmptySlot == [callback |-> 0, generation |-> 0]

Replaced(slot, cb) == [callback |-> cb, generation |-> slot.generation + 1]

\* take() gives the caller slot.callback and leaves this.
Taken(slot) == Replaced(slot, 0)

\* checkout() and invoke() give the caller the callable with the generation, that
\* is the slot as it was, and leave this.
CheckedOut(slot) == [slot EXCEPT !.callback = 0]

\* restore(), and the end of invoke(): a delivery whose subscription was retired
\* meanwhile does not come back.
RestoredSlot(slot, delivery) ==
  IF slot.generation = delivery.generation
    THEN [slot EXCEPT !.callback = delivery.callback] ELSE slot

=============================================================================
