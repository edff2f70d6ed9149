------------------------------- MODULE RawApi -------------------------------
(***************************************************************************)
(* The objects of the raw layer, which share nothing but the loop thread:  *)
(* a handle, a request or a thread.  A behaviour is that of one of them,   *)
(* chosen initially.                                                       *)
(***************************************************************************)
EXTENDS RawHandle, RawRequest, Thread

VARIABLE part   \* the object at work

vars == <<part, hVars, rVars, tVars>>

\* The objects that are not at work rest in one of their initial states.
Init ==
  /\ TInit
  /\ \/ part = "handle" /\ (\E k \in Kinds : HInit(k)) /\ RInit("stream")
     \/ part = "request" /\ HInit("timer") /\ \E f \in Families : RInit(f)
     \/ part = "thread" /\ HInit("timer") /\ RInit("stream")

HandleStep == part = "handle" /\ HNext /\ UNCHANGED <<part, rVars, tVars>>
RequestStep == part = "request" /\ RNext /\ UNCHANGED <<part, hVars, tVars>>
ThreadStep == part = "thread" /\ TNext /\ UNCHANGED <<part, hVars, rVars>>

Next == HandleStep \/ RequestStep \/ ThreadStep

Spec == Init /\ [][Next]_vars
FairSpec == Spec /\ (part = "request" => RFairness)

=============================================================================
