------------------------- MODULE SpawnHandle_proofs -------------------------
(***************************************************************************)
(* Proofs about SpawnHandle for every set of roots, every finite set of    *)
(* joiners and every number of awaits: the steps of root coroutines, of    *)
(* their completion and of request_stop, and those of the public handle,   *)
(* keep one invariant; where a failure goes and how long the state of a    *)
(* root lives follow from it.                                              *)
(***************************************************************************)
EXTENDS SpawnHandle, StackLemmas

\* Time limits of the backends, in seconds.
USE SMTT(60), ZenonT(60)

\* The frames that the state of a root depends on; each is entered once.
Counted == {"spawn", "root", "deliver", "release"}
In(f, r) == <<f, r>> \in On(stack)

BaseType ==
  /\ stack \in Seq(Frames)
  /\ root \in [Roots -> {"cold", "running", "suspended", "completed"}]
  /\ awaits \in [Roots -> 0..MaxAwaits]
  /\ op \in [Roots -> {"none", "inline", "opaque"}]
  /\ handle \in [Roots -> {"none", "held", "released"}]
  /\ refs \in [Roots -> Int]
  /\ registered \in SUBSET Roots /\ stop_requested \in SUBSET Roots
  /\ completed \in SUBSET Roots /\ abandoned \in SUBSET Roots /\ failed \in SUBSET Roots
  /\ observed \in SUBSET Roots /\ reported \in SUBSET Roots /\ replaced \in SUBSET Roots
  /\ joiners \in [Roots -> Seq(Joiners)] /\ detached \in [Roots -> Seq(Joiners)]
  /\ joiner \in [Joiners -> {"idle", "waiting", "running", "done"}]
  /\ failure_handler \in BOOLEAN /\ policy \in BOOLEAN
  /\ reports \in [Roots -> Nat]
  /\ terminated \in {"no", "unhandled", "threw", "crashed"}

\* Where a root and its public handle are agrees with the calls in progress.
Control(r) ==
  /\ \A f \in Counted : Once(stack, <<f, r>>)
  /\ In("spawn", r) => handle[r] = "none" /\ root[r] # "cold"
  /\ In("root", r) => root[r] = "running"
  /\ In("deliver", r) => root[r] = "completed"
  /\ In("release", r) => handle[r] = "released"
  /\ r \in completed <=> root[r] = "completed"
  /\ op[r] # "none" <=> root[r] = "suspended"
  /\ r \in registered => op[r] = "inline"
  /\ root[r] = "cold" => handle[r] = "none" /\ refs[r] = 0

\* Where the failure of a root went, or who will still look at it.
Fate(r) ==
  /\ r \in abandoned \/ r \in reported => handle[r] = "released"
  /\ handle[r] = "released" => r \in abandoned \/ r \in completed
  /\ r \in failed => r \in completed
  /\ r \in reported => r \notin observed /\ reports[r] <= 1
  /\ r \notin reported => reports[r] = 0
  /\ r \in reported /\ terminated = "no" => reports[r] = 1
  /\ r \in failed /\ handle[r] = "released" /\ terminated = "no" =>
       r \in observed \/ r \in reported \/ (r \in abandoned /\ In("deliver", r))

\* The joiners that wait for a root.
Waiting(r) ==
  /\ IsInjective(joiners[r]) /\ IsInjective(detached[r])
  /\ joiners[r] # <<>> => root[r] \in {"running", "suspended"}
  /\ detached[r] # <<>> => In("deliver", r)
  /\ \A j \in On(joiners[r]) \cup On(detached[r]) : joiner[j] # "idle"

\* The references: the handle or the local that moves into or out of it, the baton,
\* and one for each joiner that still waits.
Count(r) ==
  refs[r] = (IF In("spawn", r) \/ handle[r] = "held" \/ In("release", r) THEN 1 ELSE 0)
            + (IF root[r] \in {"running", "suspended"} \/ In("deliver", r) THEN 1 ELSE 0)
            + Len(joiners[r]) + Len(detached[r])

HInv == BaseType /\ \A r \in Roots : Control(r) /\ Fate(r) /\ Waiting(r) /\ Count(r)

-----------------------------------------------------------------------------
(* Frames, and the roots a step is not about.                              *)

LEMMA FrameFacts ==
  /\ \A f, g, q, p : <<f, q>> = <<g, p>> <=> f = g /\ q = p
  /\ \A f \in {"spawn", "root", "stop", "release", "deliver", "handler"}, r \in Roots :
       <<f, r>> \in Frames
  /\ \A j \in Joiners : <<"joiner", j>> \in Frames
BY DEF Frames

LEMMA ListsOfJoiners ==
  ASSUME HInv, NEW r \in Roots
  PROVE  On(joiners[r]) \cup On(detached[r]) \subseteq Joiners
<1>1. joiners[r] \in Seq(Joiners) /\ detached[r] \in Seq(Joiners)
  BY DEF HInv, BaseType
<1>2. QED
  BY <1>1, RangeIsOn

\* The counted calls about q are the same after the step.
SameCalls(q) ==
  \A f \in Counted : (<<f, q>> \in On(stack') <=> <<f, q>> \in On(stack)) /\ Once(stack', <<f, q>>)

\* The step leaves what the state of q holds alone.
SameState(q) ==
  /\ root'[q] = root[q] /\ op'[q] = op[q] /\ handle'[q] = handle[q] /\ refs'[q] = refs[q]
  /\ reports'[q] = reports[q] /\ joiners'[q] = joiners[q] /\ detached'[q] = detached[q]
  /\ (q \in completed') = (q \in completed) /\ (q \in abandoned') = (q \in abandoned)
  /\ (q \in failed') = (q \in failed) /\ (q \in observed') = (q \in observed)
  /\ (q \in reported') = (q \in reported) /\ (q \in registered') = (q \in registered)

\* A step goes on only in a program that has not ended, and no joiner is idle again.
Goes ==
  /\ terminated = "no"
  /\ \A j \in Joiners : joiner[j] # "idle" => joiner'[j] # "idle"

LEMMA Untouched ==
  ASSUME HInv, BaseType', Goes, NEW q \in Roots, SameCalls(q), SameState(q)
  PROVE  Control(q)' /\ Fate(q)' /\ Waiting(q)' /\ Count(q)'
<1>1. Control(q) /\ Fate(q) /\ Waiting(q) /\ Count(q)
  BY DEF HInv
<1>2. \A f \in Counted : In(f, q)' <=> In(f, q)
  BY DEF SameCalls, In
<1>3. Control(q)'
  BY <1>1, <1>2 DEF Control, SameCalls, SameState, Counted
<1>4. Fate(q)'
  BY <1>1, <1>2 DEF Fate, SameState, Goes, Counted
<1>5. Waiting(q)'
  <2>1. On(joiners[q]) \cup On(detached[q]) \subseteq Joiners
    BY ListsOfJoiners
  <2>2. \A j \in On(joiners'[q]) \cup On(detached'[q]) : joiner'[j] # "idle"
    BY <1>1, <2>1 DEF Waiting, SameState, Goes
  <2>3. QED
    BY <1>1, <1>2, <2>2 DEF Waiting, SameState, Counted
<1>6. Count(q)'
  BY <1>1, <1>2, ZenonT(60) DEF Count, SameState, Counted
<1>7. QED
  BY <1>3, <1>4, <1>5, <1>6

\* Entering and leaving a call that is not counted.
LEMMA OtherCalls ==
  ASSUME HInv, NEW f, NEW x, <<f, x>> \in Frames, f \notin Counted,
         \/ stack' = stack
         \/ stack' = <<<<f, x>>>> \o stack
         \/ stack # <<>> /\ Head(stack) = <<f, x>> /\ stack' = Tail(stack)
  PROVE  stack' \in Seq(Frames) /\ \A q \in Roots : SameCalls(q)
<1>1. stack \in Seq(Frames) /\ \A q \in Roots, g \in Counted : Once(stack, <<g, q>>)
  BY DEF HInv, BaseType, Control
<1>2. \A q \in Roots, g \in Counted : <<g, q>> # <<f, x>>
  BY FrameFacts
<1>3. CASE stack' = stack
  BY <1>1, <1>3 DEF SameCalls
<1>4. CASE stack' = <<<<f, x>>>> \o stack
  <2>1. /\ stack' \in Seq(Frames) /\ On(stack') = On(stack) \cup {<<f, x>>}
        /\ \A g : g # <<f, x>> /\ Once(stack, g) => Once(stack', g)
    BY <1>1, <1>4, PushOnce, ZenonT(60)
  <2>2. QED
    BY <1>1, <1>2, <2>1 DEF SameCalls
<1>5. CASE stack # <<>> /\ Head(stack) = <<f, x>> /\ stack' = Tail(stack)
  <2>1. /\ stack' \in Seq(Frames) /\ On(stack') \subseteq On(stack)
        /\ On(stack) \subseteq On(stack') \cup {<<f, x>>}
        /\ \A g : Once(stack, g) => Once(stack', g)
    BY <1>1, <1>5, PopOnce
  <2>2. QED
    BY <1>1, <1>2, <2>1 DEF SameCalls
<1>6. QED
  BY <1>3, <1>4, <1>5

\* What such a step may change, besides the calls that are not counted.
OtherEffect ==
  /\ Goes
  /\ UNCHANGED <<root, awaits, op, registered, handle, refs, completed, abandoned, failed,
                observed, reported, joiners, detached, reports>>
  /\ joiner' \in [Joiners -> {"idle", "waiting", "running", "done"}]
  /\ failure_handler' \in BOOLEAN /\ policy' \in BOOLEAN
  /\ stop_requested' \in SUBSET Roots /\ replaced' \in SUBSET Roots
  /\ terminated' \in {"no", "unhandled", "threw", "crashed"}

\* Steps of the failure handler, of joiners and of request_stop around its callbacks.
LEMMA OtherKeeps ==
  ASSUME HInv,
         \/ \E j \in Joiners : JoinerReturns(j)
         \/ \E h \in BOOLEAN : SetHandler(h)
         \/ \E r \in Roots : HandlerReturns(r) \/ HandlerThrows(r) \/ RequestStop(r) \/ StopReturns(r)
  PROVE  HInv'
<1>1. /\ Goes
      /\ UNCHANGED <<root, awaits, op, registered, handle, refs, completed, abandoned, failed,
                     observed, reported, joiners, detached, reports>>
      /\ joiner' \in [Joiners -> {"idle", "waiting", "running", "done"}]
      /\ failure_handler' \in BOOLEAN /\ policy' \in BOOLEAN
      /\ stop_requested' \in SUBSET Roots /\ replaced' \in SUBSET Roots
      /\ terminated' \in {"no", "unhandled", "threw", "crashed"}
  <2>1. ASSUME NEW j \in Joiners, JoinerReturns(j) PROVE OtherEffect
    BY <2>1 DEF OtherEffect, HInv, BaseType, Goes, JoinerReturns, rootVars, stateVars, handlerVars
  <2>2. ASSUME NEW h \in BOOLEAN, SetHandler(h) PROVE OtherEffect
    BY <2>2, ZenonT(60) DEF OtherEffect, HInv, BaseType, Goes, SetHandler, UserRuns,
       rootVars, stateVars, joinVars
  <2>3. ASSUME NEW r \in Roots, HandlerReturns(r) \/ HandlerThrows(r) PROVE OtherEffect
    BY <2>3, ZenonT(60) DEF OtherEffect, HInv, BaseType, Goes, HandlerReturns,
       HandlerThrows, Restored, rootVars, stateVars, joinVars
  <2>4. ASSUME NEW r \in Roots, RequestStop(r) \/ StopReturns(r) PROVE OtherEffect
    BY <2>4, ZenonT(60) DEF OtherEffect, HInv, BaseType, Goes, RequestStop, StopReturns, UserRuns,
                       rootVars, stateVars, joinVars, handlerVars
  <2>5. QED
    BY <2>1, <2>2, <2>3, <2>4 DEF OtherEffect
<1>2. stack' \in Seq(Frames) /\ \A q \in Roots : SameCalls(q)
  <2>1. CASE \E j \in Joiners : JoinerReturns(j)
    BY <2>1, OtherCalls, FrameFacts, ZenonT(60) DEF JoinerReturns, Top, Pop, Counted
  <2>2. CASE \E h \in BOOLEAN : SetHandler(h)
    BY <2>2 DEF SetHandler, SameCalls, HInv, BaseType, Control
  <2>3. ASSUME NEW r \in Roots, HandlerReturns(r) \/ HandlerThrows(r)
        PROVE  stack' \in Seq(Frames) /\ \A q \in Roots : SameCalls(q)
    BY <2>3, OtherCalls, FrameFacts, ZenonT(60) DEF HandlerReturns, HandlerThrows, Top, Pop,
       Counted
  <2>4. ASSUME NEW r \in Roots, RequestStop(r) \/ StopReturns(r)
        PROVE  stack' \in Seq(Frames) /\ \A q \in Roots : SameCalls(q)
    BY <2>4, OtherCalls, FrameFacts DEF RequestStop, StopReturns, Top, Push, Pop, Counted
  <2>5. QED
    BY <2>1, <2>2, <2>3, <2>4
<1>3. BaseType'
  BY <1>1, <1>2 DEF HInv, BaseType
<1>4. \A q \in Roots : SameState(q)
  BY <1>1 DEF SameState
<1>5. QED
  BY <1>1, <1>2, <1>3, <1>4, Untouched DEF HInv

-----------------------------------------------------------------------------
(* Counted calls.                                                          *)

Calls(s) == s \in Seq(Frames) /\ \A q \in Roots, g \in Counted : Once(s, <<g, q>>)

\* The call f about r is entered on s, or left.
Entered(s, p, f, r) ==
  /\ Calls(p)
  /\ \A q \in Roots, g \in Counted :
       <<g, q>> \in On(p) <=> <<g, q>> \in On(s) \/ (g = f /\ q = r)
Left(s, t, f, r) ==
  /\ Calls(t) /\ <<f, r>> \in On(s)
  /\ \A q \in Roots, g \in Counted :
       <<g, q>> \in On(t) <=> <<g, q>> \in On(s) /\ ~(g = f /\ q = r)

LEMMA EnterCall ==
  ASSUME NEW s, NEW p, NEW r \in Roots,
         NEW f \in {"spawn", "root", "stop", "release", "deliver", "handler"},
         Calls(s), p = <<<<f, r>>>> \o s, f \in Counted => <<f, r>> \notin On(s)
  PROVE  Entered(s, p, f, r)
<1>1. s \in Seq(Frames) /\ <<f, r>> \in Frames
  BY FrameFacts DEF Calls
<1>2. /\ p \in Seq(Frames) /\ On(p) = On(s) \cup {<<f, r>>}
      /\ \A g : g # <<f, r>> /\ Once(s, g) => Once(p, g)
      /\ <<f, r>> \notin On(s) => Once(p, <<f, r>>)
  BY <1>1, PushOnce, ZenonT(60)
<1>3. ASSUME NEW q \in Roots, NEW g \in Counted
      PROVE  /\ <<g, q>> \in On(p) <=> <<g, q>> \in On(s) \/ (g = f /\ q = r)
             /\ Once(p, <<g, q>>)
  <2>1. Once(s, <<g, q>>)
    BY DEF Calls
  <2>2. CASE g = f /\ q = r
    BY <1>2, <2>2, ZenonT(60)
  <2>3. CASE ~(g = f /\ q = r)
    <3>1. <<g, q>> # <<f, r>>
      BY <2>3, FrameFacts
    <3>2. QED
      BY <1>2, <2>1, <2>3, <3>1, ZenonT(60)
  <2>4. QED
    BY <2>2, <2>3
<1>4. QED
  BY <1>2, <1>3, ZenonT(60) DEF Calls, Entered

LEMMA LeaveCall ==
  ASSUME NEW s, NEW t, NEW r, NEW f, Calls(s), s # <<>>, Head(s) = <<f, r>>, t = Tail(s)
  PROVE  Left(s, t, f, r)
<1>1. s \in Seq(Frames)
  BY DEF Calls
<1>2. /\ t \in Seq(Frames) /\ <<f, r>> \in On(s)
      /\ On(t) \subseteq On(s) /\ On(s) \subseteq On(t) \cup {<<f, r>>}
      /\ \A g : Once(s, g) => Once(t, g)
      /\ Once(s, <<f, r>>) => <<f, r>> \notin On(t)
  BY <1>1, PopOnce
<1>3. ASSUME NEW q \in Roots, NEW g \in Counted
      PROVE  /\ <<g, q>> \in On(t) <=> <<g, q>> \in On(s) /\ ~(g = f /\ q = r)
             /\ Once(t, <<g, q>>)
  <2>1. Once(s, <<g, q>>)
    BY DEF Calls
  <2>2. CASE g = f /\ q = r
    BY <1>2, <2>1, <2>2
  <2>3. CASE ~(g = f /\ q = r)
    <3>1. <<g, q>> # <<f, r>>
      BY <2>3, FrameFacts
    <3>2. QED
      BY <1>2, <2>1, <2>3, <3>1
  <2>4. QED
    BY <2>2, <2>3
<1>4. QED
  BY <1>2, <1>3, ZenonT(60) DEF Calls, Left

LEMMA CallsNow == HInv => Calls(stack)
BY DEF HInv, BaseType, Control, Calls

\* What is left to show for a step about one root.
LEMMA RootKeeps ==
  ASSUME HInv, BaseType', Goes, NEW r \in Roots, Calls(stack'),
         \A q \in Roots \ {r}, g \in Counted :
           <<g, q>> \in On(stack') <=> <<g, q>> \in On(stack),
         \A q \in Roots \ {r} : SameState(q),
         Control(r)', Fate(r)', Waiting(r)', Count(r)'
  PROVE  HInv'
<1>1. ASSUME NEW q \in Roots \ {r} PROVE SameCalls(q)
  BY DEF SameCalls, Calls
<1>2. ASSUME NEW q \in Roots PROVE Control(q)' /\ Fate(q)' /\ Waiting(q)' /\ Count(q)'
  BY <1>1, Untouched
<1>3. QED
  BY <1>2 DEF HInv

-----------------------------------------------------------------------------
(* The steps about one root.                                               *)

LEMMA SpawnKeeps ==
  ASSUME HInv, NEW r \in Roots, Spawn(r)
  PROVE  HInv'
<1>1. /\ terminated = "no" /\ root[r] = "cold"
      /\ root' = [root EXCEPT ![r] = "running"] /\ refs' = [refs EXCEPT ![r] = 2]
      /\ UNCHANGED <<awaits, op, registered, stop_requested, handle, completed, abandoned, failed,
                     observed, reported, joiners, detached, joiner, failure_handler, replaced,
                     policy, reports, terminated>>
  BY DEF Spawn, UserRuns, stateVars, joinVars, handlerVars
<1>2. BaseType /\ Control(r) /\ Fate(r) /\ Waiting(r) /\ Count(r)
  BY DEF HInv
<1>3. \A g \in Counted : <<g, r>> \notin On(stack)
  BY <1>1, <1>2 DEF Control, In, Counted
<1>4. /\ Calls(stack')
      /\ \A q \in Roots, g \in Counted :
           <<g, q>> \in On(stack') <=> <<g, q>> \in On(stack) \/ (g \in {"root", "spawn"} /\ q = r)
  <2> DEFINE b == <<<<"spawn", r>>>> \o stack
  <2>1. stack' = <<<<"root", r>>>> \o b
    <3>1. stack \in Seq(Frames) /\ <<"root", r>> \in Frames /\ <<"spawn", r>> \in Frames
      BY <1>2, FrameFacts DEF BaseType
    <3>2. stack' = <<<<"root", r>>, <<"spawn", r>>>> \o stack
      BY DEF Spawn
    <3>3. QED
      BY <3>1, <3>2, PushTwo, ZenonT(60)
  <2>2. /\ Calls(b)
        /\ \A q \in Roots, g \in Counted :
             <<g, q>> \in On(b) <=> <<g, q>> \in On(stack) \/ (g = "spawn" /\ q = r)
    <3>1. Calls(stack) /\ <<"spawn", r>> \notin On(stack)
      BY <1>3, CallsNow DEF Counted
    <3>2. Entered(stack, b, "spawn", r)
      BY <3>1, EnterCall, ZenonT(60)
    <3>3. QED
      BY <3>2, ZenonT(60) DEF Entered
  <2> HIDE DEF b
  <2>3. <<"root", r>> \notin On(b)
    BY <1>3, <2>2 DEF Counted
  <2>4. /\ Calls(stack')
        /\ \A q \in Roots, g \in Counted :
             <<g, q>> \in On(stack') <=> <<g, q>> \in On(b) \/ (g = "root" /\ q = r)
    <3>1. Calls(b)
      BY <2>2
    <3>2. Entered(b, stack', "root", r)
      BY <2>1, <2>3, <3>1, EnterCall, ZenonT(60)
    <3>3. QED
      BY <3>2, ZenonT(60) DEF Entered
  <2>5. QED
    BY <2>2, <2>4
<1>5. BaseType'
  <2>1. /\ stack' \in Seq(Frames) /\ refs' \in [Roots -> Int]
        /\ root' \in [Roots -> {"cold", "running", "suspended", "completed"}]
    BY <1>1, <1>2, <1>4 DEF BaseType, Calls
  <2>2. QED
    BY <1>1, <1>2, <2>1, ZenonT(60) DEF BaseType
<1>6. /\ In("root", r)' /\ In("spawn", r)' /\ ~In("deliver", r)' /\ ~In("release", r)'
  BY <1>3, <1>4 DEF In, Counted
<1>7. /\ root'[r] = "running" /\ refs'[r] = 2 /\ handle[r] = "none"
      /\ joiners[r] = <<>> /\ detached[r] = <<>>
  BY <1>1, <1>2, <1>3 DEF BaseType, Control, Waiting, In, Counted
<1>8. Control(r)'
  BY <1>1, <1>2, <1>4, <1>6, <1>7 DEF Control, Calls
<1>9. Fate(r)'
  BY <1>1, <1>2, <1>7 DEF Fate, Control
<1>10. Waiting(r)'
  BY <1>1, <1>2, <1>7 DEF Waiting
<1>11. Count(r)'
  <2>1. Len(joiners'[r]) = 0 /\ Len(detached'[r]) = 0
    BY <1>1, <1>7
  <2>2. QED
    BY <1>6, <1>7, <2>1 DEF Count
<1>12. Goes
  BY <1>1 DEF Goes
<1>13. \A q \in Roots \ {r} : SameState(q)
  BY <1>1, <1>2 DEF SameState, BaseType
<1>14. QED
  BY <1>4, <1>5, <1>8, <1>9, <1>10, <1>11, <1>12, <1>13, RootKeeps

LEMMA SpawnReturnsKeeps ==
  ASSUME HInv, NEW r \in Roots, SpawnReturns(r)
  PROVE  HInv'
<1>1. /\ terminated = "no" /\ stack # <<>> /\ Head(stack) = <<"spawn", r>> /\ stack' = Tail(stack)
      /\ handle' = [handle EXCEPT ![r] = "held"]
      /\ UNCHANGED <<root, awaits, op, registered, stop_requested, refs, completed, abandoned,
                     failed, observed, reported, joiners, detached, joiner, failure_handler,
                     replaced, policy, reports, terminated>>
  BY DEF SpawnReturns, Top, Pop, rootVars, stateVars, joinVars, handlerVars
<1>2. BaseType /\ Control(r) /\ Fate(r) /\ Waiting(r) /\ Count(r)
  BY DEF HInv
<1>3. /\ Calls(stack') /\ <<"spawn", r>> \in On(stack)
      /\ \A q \in Roots, g \in Counted :
           <<g, q>> \in On(stack') <=> <<g, q>> \in On(stack) /\ ~(g = "spawn" /\ q = r)
  <2>1. Calls(stack)
    BY CallsNow
  <2>2. stack # <<>> /\ Head(stack) = <<"spawn", r>> /\ stack' = Tail(stack)
    BY <1>1
  <2>3. Left(stack, stack', "spawn", r)
    BY <2>1, <2>2, LeaveCall, ZenonT(60)
  <2>4. QED
    BY <2>3, ZenonT(60) DEF Left
<1>4. BaseType'
  <2>1. stack' \in Seq(Frames) /\ handle' \in [Roots -> {"none", "held", "released"}]
    BY <1>1, <1>2, <1>3 DEF BaseType, Calls
  <2>2. QED
    BY <1>1, <1>2, <2>1, ZenonT(60) DEF BaseType
<1>5. /\ In("spawn", r) /\ ~In("spawn", r)'
      /\ \A g \in {"root", "deliver", "release"} : In(g, r)' <=> In(g, r)
  BY <1>3 DEF In, Counted
<1>6. handle[r] = "none" /\ root[r] # "cold" /\ handle'[r] = "held" /\ ~In("release", r)
  BY <1>1, <1>2, <1>5 DEF BaseType, Control
<1>7. Control(r)'
  BY <1>1, <1>2, <1>3, <1>5, <1>6, ZenonT(60) DEF Control, Calls
<1>8. Fate(r)'
  BY <1>1, <1>2, <1>6 DEF Fate
<1>9. Waiting(r)'
  BY <1>1, <1>2, <1>5 DEF Waiting
<1>10. Count(r)'
  BY <1>1, <1>2, <1>5, <1>6, ZenonT(60) DEF Count
<1>11. Goes
  BY <1>1 DEF Goes
<1>12. \A q \in Roots \ {r} : SameState(q)
  BY <1>1, <1>2 DEF SameState, BaseType
<1>13. QED
  BY <1>3, <1>4, <1>7, <1>8, <1>9, <1>10, <1>11, <1>12, RootKeeps

LEMMA RootAwaitsKeeps ==
  ASSUME HInv, NEW r \in Roots, NEW kind \in {"inline", "opaque"}, RootAwaits(r, kind)
  PROVE  HInv'
<1>1. /\ terminated = "no" /\ stack # <<>> /\ Head(stack) = <<"root", r>>
      /\ awaits' = [awaits EXCEPT ![r] = @ + 1] /\ awaits[r] < MaxAwaits
      /\ UNCHANGED <<stop_requested, handle, refs, completed, abandoned, failed, observed, reported,
                     joiners, detached, joiner, failure_handler, replaced, policy, reports,
                     terminated>>
  BY DEF RootAwaits, Top, stateVars, joinVars, handlerVars
<1>2. BaseType /\ Control(r) /\ Fate(r) /\ Waiting(r) /\ Count(r)
  BY DEF HInv
<1>3. Goes
  BY <1>1 DEF Goes
<1>4. awaits' \in [Roots -> 0..MaxAwaits]
  BY <1>1, <1>2, SpawnAssumption DEF BaseType
<1>5. CASE UNCHANGED <<op, root, registered, stack>>
  <2>1. BaseType'
    BY <1>1, <1>2, <1>4, <1>5, ZenonT(60) DEF BaseType
  <2>2. ASSUME NEW q \in Roots PROVE SameCalls(q) /\ SameState(q)
    <3>1. \A f \in Counted : Once(stack, <<f, q>>)
      BY DEF HInv, Control
    <3>2. QED
      BY <1>1, <1>5, <3>1, ZenonT(60) DEF SameCalls, SameState
  <2>3. QED
    BY <1>3, <2>1, <2>2, Untouched DEF HInv
<1>6. CASE /\ op' = [op EXCEPT ![r] = kind]
           /\ root' = [root EXCEPT ![r] = "suspended"]
           /\ registered' = IF kind = "inline" THEN registered \cup {r} ELSE registered
           /\ stack' = Tail(stack)
  <2>1. /\ Calls(stack') /\ <<"root", r>> \in On(stack)
        /\ \A q \in Roots, g \in Counted :
             <<g, q>> \in On(stack') <=> <<g, q>> \in On(stack) /\ ~(g = "root" /\ q = r)
    <3>1. Calls(stack)
      BY CallsNow
    <3>2. stack # <<>> /\ Head(stack) = <<"root", r>> /\ stack' = Tail(stack)
      BY <1>1, <1>6
    <3>3. Left(stack, stack', "root", r)
      BY <3>1, <3>2, LeaveCall, ZenonT(60)
    <3>4. QED
      BY <3>3, ZenonT(60) DEF Left
  <2>2. BaseType'
    <3>1. /\ stack' \in Seq(Frames) /\ op' \in [Roots -> {"none", "inline", "opaque"}]
          /\ root' \in [Roots -> {"cold", "running", "suspended", "completed"}]
          /\ registered' \in SUBSET Roots
      BY <1>2, <1>6, <2>1 DEF BaseType, Calls
    <3>2. QED
      BY <1>1, <1>2, <1>4, <3>1, ZenonT(60) DEF BaseType
  <2>3. /\ In("root", r) /\ ~In("root", r)'
        /\ \A g \in {"spawn", "deliver", "release"} : In(g, r)' <=> In(g, r)
    BY <2>1 DEF In, Counted
  <2>4. root[r] = "running" /\ root'[r] = "suspended" /\ op'[r] = kind /\ ~In("deliver", r)
    BY <1>2, <1>6, <2>3 DEF BaseType, Control
  <2>5. r \in registered' => kind = "inline"
    BY <1>2, <1>6, <2>4 DEF Control
  <2>6. Control(r)'
    BY <1>1, <1>2, <2>1, <2>3, <2>4, <2>5, ZenonT(60) DEF Control, Calls
  <2>7. Fate(r)'
    BY <1>1, <1>2, <2>3, ZenonT(60) DEF Fate
  <2>8. Waiting(r)'
    BY <1>1, <1>2, <2>3, <2>4, ZenonT(60) DEF Waiting
  <2>9. Count(r)'
    BY <1>1, <1>2, <2>3, <2>4, ZenonT(60) DEF Count
  <2>10. \A q \in Roots \ {r} : SameState(q)
    BY <1>1, <1>2, <1>6 DEF SameState, BaseType
  <2>11. QED
    BY <1>3, <2>1, <2>2, <2>6, <2>7, <2>8, <2>9, <2>10, RootKeeps
<1>7. QED
  BY <1>5, <1>6 DEF RootAwaits, Pop

\* An operation completes, or the stop callback of one runs.
LEMMA ResumeKeeps ==
  ASSUME HInv, NEW r \in Roots, OperationCompletes(r) \/ StopCallback(r)
  PROVE  HInv'
<1>1. /\ terminated = "no" /\ stack' = <<<<"root", r>>>> \o stack
      /\ op' = [op EXCEPT ![r] = "none"] /\ root' = [root EXCEPT ![r] = "running"]
      /\ registered' = registered \ {r}
      /\ UNCHANGED <<awaits, stop_requested, handle, refs, completed, abandoned, failed, observed,
                     reported, joiners, detached, joiner, failure_handler, replaced, policy,
                     reports, terminated>>
  BY DEF OperationCompletes, StopCallback, Resume, Push, stateVars, joinVars, handlerVars
<1>2. BaseType /\ Control(r) /\ Fate(r) /\ Waiting(r) /\ Count(r)
  BY DEF HInv
<1>3. root[r] = "suspended"
  <2>1. CASE OperationCompletes(r)
    BY <1>2, <2>1 DEF OperationCompletes, Control
  <2>2. CASE StopCallback(r)
    BY <1>2, <2>2 DEF StopCallback, Control
  <2>3. QED
    BY <2>1, <2>2
<1>4. /\ Calls(stack')
      /\ \A q \in Roots, g \in Counted :
           <<g, q>> \in On(stack') <=> <<g, q>> \in On(stack) \/ (g = "root" /\ q = r)
  <2>1. <<"root", r>> \notin On(stack)
    BY <1>2, <1>3 DEF Control, In
  <2>2. Calls(stack)
    BY CallsNow
  <2>3. stack' = <<<<"root", r>>>> \o stack
    BY <1>1
  <2>4. Entered(stack, stack', "root", r)
    BY <2>1, <2>2, <2>3, EnterCall, ZenonT(60)
  <2>5. QED
    BY <2>4, ZenonT(60) DEF Entered
<1>5. BaseType'
  <2>1. /\ stack' \in Seq(Frames) /\ op' \in [Roots -> {"none", "inline", "opaque"}]
        /\ root' \in [Roots -> {"cold", "running", "suspended", "completed"}]
        /\ registered' \in SUBSET Roots
    BY <1>1, <1>2, <1>4 DEF BaseType, Calls
  <2>2. QED
    BY <1>1, <1>2, <2>1, ZenonT(60) DEF BaseType
<1>6. /\ In("root", r)'
      /\ \A g \in {"spawn", "deliver", "release"} : In(g, r)' <=> In(g, r)
  BY <1>4 DEF In, Counted
<1>7. root'[r] = "running" /\ op'[r] = "none" /\ ~In("deliver", r)
  BY <1>1, <1>2, <1>3 DEF BaseType, Control
<1>8. Control(r)'
  BY <1>1, <1>2, <1>3, <1>4, <1>6, <1>7 DEF Control, Calls
<1>9. Fate(r)'
  BY <1>1, <1>2, <1>6, ZenonT(60) DEF Fate
<1>10. Waiting(r)'
  BY <1>1, <1>2, <1>6, <1>7, ZenonT(60) DEF Waiting
<1>11. Count(r)'
  BY <1>1, <1>2, <1>3, <1>6, <1>7, ZenonT(60) DEF Count
<1>12. Goes
  BY <1>1 DEF Goes
<1>13. \A q \in Roots \ {r} : SameState(q)
  BY <1>1, <1>2 DEF SameState, BaseType
<1>14. QED
  BY <1>4, <1>5, <1>8, <1>9, <1>10, <1>11, <1>12, <1>13, RootKeeps

LEMMA RootCompletesKeeps ==
  ASSUME HInv, NEW r \in Roots, NEW fails \in BOOLEAN, RootCompletes(r, fails)
  PROVE  HInv'
<1>1. /\ terminated = "no" /\ stack # <<>> /\ Head(stack) = <<"root", r>>
      /\ stack' = <<<<"deliver", r>>>> \o Tail(stack)
      /\ root' = [root EXCEPT ![r] = "completed"]
      /\ failed' = IF fails THEN failed \cup {r} ELSE failed
      /\ completed' = completed \cup {r}
      /\ detached' = [detached EXCEPT ![r] = joiners[r]]
      /\ joiners' = [joiners EXCEPT ![r] = <<>>]
      /\ UNCHANGED <<awaits, op, registered, stop_requested, handle, refs, abandoned, observed,
                     reported, joiner, failure_handler, replaced, policy, reports, terminated>>
  BY DEF RootCompletes, Top, handlerVars
<1>2. BaseType /\ Control(r) /\ Fate(r) /\ Waiting(r) /\ Count(r)
  BY DEF HInv
<1>3. /\ Calls(Tail(stack)) /\ <<"root", r>> \in On(stack)
      /\ \A q \in Roots, g \in Counted :
           <<g, q>> \in On(Tail(stack)) <=> <<g, q>> \in On(stack) /\ ~(g = "root" /\ q = r)
  <2>1. Calls(stack)
    BY CallsNow
  <2>2. stack # <<>> /\ Head(stack) = <<"root", r>>
    BY <1>1
  <2>3. Left(stack, Tail(stack), "root", r)
    BY <2>1, <2>2, LeaveCall, ZenonT(60)
  <2>4. QED
    BY <2>3, ZenonT(60) DEF Left
<1>4. root[r] = "running" /\ <<"deliver", r>> \notin On(stack)
  BY <1>2, <1>3 DEF Control, In
<1>5. <<"deliver", r>> \notin On(Tail(stack))
  BY <1>3, <1>4, ZenonT(60) DEF Counted
<1>6. /\ Calls(stack')
      /\ \A q \in Roots, g \in Counted :
           <<g, q>> \in On(stack') <=> <<g, q>> \in On(Tail(stack)) \/ (g = "deliver" /\ q = r)
  <2>1. Calls(Tail(stack)) /\ stack' = <<<<"deliver", r>>>> \o Tail(stack)
    BY <1>1, <1>3
  <2>2. Entered(Tail(stack), stack', "deliver", r)
    BY <1>5, <2>1, EnterCall, ZenonT(60)
  <2>3. QED
    BY <2>2, ZenonT(60) DEF Entered
<1>7. BaseType'
  <2>1. /\ stack' \in Seq(Frames) /\ completed' \in SUBSET Roots /\ failed' \in SUBSET Roots
        /\ root' \in [Roots -> {"cold", "running", "suspended", "completed"}]
        /\ joiners' \in [Roots -> Seq(Joiners)] /\ detached' \in [Roots -> Seq(Joiners)]
    BY <1>1, <1>2, <1>6 DEF BaseType, Calls
  <2>2. QED
    BY <1>1, <1>2, <2>1, ZenonT(60) DEF BaseType
<1>8. /\ In("deliver", r)' /\ ~In("root", r)'
      /\ \A g \in {"spawn", "release"} : In(g, r)' <=> In(g, r)
  BY <1>3, <1>6 DEF In, Counted
<1>9. /\ root'[r] = "completed" /\ joiners'[r] = <<>> /\ detached'[r] = joiners[r]
      /\ detached[r] = <<>> /\ ~In("deliver", r)
  BY <1>1, <1>2, <1>4 DEF BaseType, Waiting, In
<1>10. Control(r)'
  BY <1>1, <1>2, <1>4, <1>6, <1>8, <1>9 DEF Control, Calls
<1>11. Fate(r)'
  BY <1>1, <1>2, <1>4, <1>8, ZenonT(60) DEF Fate, Control
<1>12. Waiting(r)'
  <2>1. IsInjective(<<>>) /\ On(<<>>) = {}
    BY DEF IsInjective, On
  <2>2. QED
    BY <1>1, <1>2, <1>8, <1>9, <2>1 DEF Waiting
<1>13. Count(r)'
  <2>1. Len(joiners'[r]) = 0 /\ Len(detached[r]) = 0 /\ Len(joiners[r]) \in Nat
    BY <1>2, <1>9, EmptyList DEF BaseType
  <2> DEFINE h == IF In("spawn", r) \/ handle[r] = "held" \/ In("release", r) THEN 1 ELSE 0
  <2>2. refs[r] = h + 1 + Len(joiners[r]) + Len(detached[r])
    BY <1>2, <1>4 DEF Count
  <2>3. h \in Nat /\ h' = h
    BY <1>1, <1>8
  <2>4. Count(r)' <=> refs'[r] = h' + 1 + Len(joiners'[r]) + Len(detached'[r])
    BY <1>8 DEF Count
  <2> HIDE DEF h
  <2>5. refs'[r] = refs[r] /\ Len(detached'[r]) = Len(joiners[r])
    BY <1>1, <1>9
  <2>6. QED
    BY <2>1, <2>2, <2>3, <2>4, <2>5
<1>14. Goes
  BY <1>1 DEF Goes
<1>15. \A q \in Roots \ {r} : SameState(q)
  BY <1>1, <1>2 DEF SameState, BaseType
<1>16. \A q \in Roots \ {r}, g \in Counted :
         <<g, q>> \in On(stack') <=> <<g, q>> \in On(stack)
  BY <1>3, <1>6
<1>17. QED
  BY <1>6, <1>7, <1>10, <1>11, <1>12, <1>13, <1>14, <1>15, <1>16, RootKeeps

LEMMA DeliverNextKeeps ==
  ASSUME HInv, NEW r \in Roots, DeliverNext(r)
  PROVE  HInv'
<1> DEFINE j == Head(detached[r])
<1>1. /\ terminated = "no" /\ detached[r] # <<>>
      /\ joiner' = [joiner EXCEPT ![j] = "running"]
      /\ stack' = <<<<"joiner", j>>>> \o stack
      /\ detached' = [detached EXCEPT ![r] = Tail(detached[r])]
      /\ refs' = [refs EXCEPT ![r] = refs[r] - 1]
      /\ UNCHANGED <<root, awaits, op, registered, stop_requested, handle, completed, abandoned,
                     failed, observed, reported, joiners, failure_handler, replaced, policy,
                     reports, terminated>>
  BY DEF DeliverNext, Push, Dropped, rootVars, stateVars, handlerVars
<1>2. BaseType /\ Control(r) /\ Fate(r) /\ Waiting(r) /\ Count(r)
  BY DEF HInv
<1>3. detached[r] \in Seq(Joiners)
  BY <1>2 DEF BaseType
<1>4. /\ j \in Joiners /\ Tail(detached[r]) \in Seq(Joiners)
      /\ Len(detached[r]) \in Nat \ {0} /\ Len(Tail(detached[r])) = Len(detached[r]) - 1
      /\ IsInjective(Tail(detached[r])) /\ On(Tail(detached[r])) \subseteq On(detached[r])
  BY <1>1, <1>2, <1>3, PopFacts, ZenonT(60) DEF Waiting
<1> HIDE DEF j
<1>5. stack' \in Seq(Frames) /\ \A q \in Roots : SameCalls(q)
  <2>1. <<"joiner", j>> \in Frames /\ "joiner" \notin Counted
    BY <1>4, FrameFacts DEF Counted
  <2>2. QED
    BY <1>1, <2>1, OtherCalls
<1>6. Goes
  BY <1>1, <1>2, <1>4 DEF Goes, BaseType
<1>7. BaseType'
  <2>1. /\ refs' \in [Roots -> Int] /\ detached' \in [Roots -> Seq(Joiners)]
        /\ joiner' \in [Joiners -> {"idle", "waiting", "running", "done"}]
    BY <1>1, <1>2, <1>4 DEF BaseType
  <2>2. QED
    BY <1>1, <1>2, <1>5, <2>1, ZenonT(60) DEF BaseType
<1>8. \A g \in Counted : (In(g, r)' <=> In(g, r)) /\ Once(stack', <<g, r>>)
  BY <1>5 DEF SameCalls, In
<1>9. Calls(stack')
  BY <1>5 DEF Calls, SameCalls
<1>10. detached'[r] = Tail(detached[r]) /\ refs'[r] = refs[r] - 1
  BY <1>1, <1>2 DEF BaseType
<1>11. root[r] # "cold"
  BY <1>1, <1>2 DEF Waiting, Control
<1>12. Control(r)'
  BY <1>1, <1>2, <1>8, <1>11 DEF Control, Counted
<1>13. Fate(r)'
  BY <1>1, <1>2, <1>8, ZenonT(60) DEF Fate, Counted
<1>14. Waiting(r)'
  <2>1. On(joiners[r]) \cup On(detached[r]) \subseteq Joiners
    BY ListsOfJoiners
  <2>2. \A k \in On(joiners'[r]) \cup On(detached'[r]) : joiner'[k] # "idle"
    BY <1>1, <1>2, <1>4, <1>6, <1>10, <2>1, ZenonT(60) DEF Waiting, Goes
  <2>3. QED
    BY <1>1, <1>2, <1>4, <1>8, <1>10, <2>2, ZenonT(60) DEF Waiting, Counted
<1>15. Count(r)'
  <2>1. Len(joiners[r]) \in Nat
    BY <1>2 DEF BaseType
  <2> DEFINE h == IF In("spawn", r) \/ handle[r] = "held" \/ In("release", r) THEN 1 ELSE 0
             b == IF root[r] \in {"running", "suspended"} \/ In("deliver", r) THEN 1 ELSE 0
  <2>2. h \in Nat /\ h' = h /\ b \in Nat /\ b' = b
    BY <1>1, <1>8, ZenonT(60) DEF Counted
  <2>3. refs[r] = h + b + Len(joiners[r]) + Len(detached[r])
    BY <1>2, ZenonT(60) DEF Count
  <2>4. Count(r)' <=> refs'[r] = h' + b' + Len(joiners'[r]) + Len(detached'[r])
    BY DEF Count
  <2> HIDE DEF h, b
  <2>5. Len(joiners'[r]) = Len(joiners[r]) /\ Len(detached'[r]) = Len(detached[r]) - 1
    BY <1>1, <1>4, <1>10, ZenonT(60)
  <2>6. \A x, y, m, n \in Nat : (x + y + m + n) - 1 = x + y + m + (n - 1)
    OBVIOUS
  <2>7. refs'[r] = h + b + Len(joiners[r]) + (Len(detached[r]) - 1)
    BY <1>4, <1>10, <2>1, <2>2, <2>3, <2>6
  <2>8. QED
    BY <2>2, <2>4, <2>5, <2>7
<1>16. \A q \in Roots \ {r} : SameState(q)
  BY <1>1, <1>2 DEF SameState, BaseType
<1>17. \A q \in Roots \ {r}, g \in Counted : <<g, q>> \in On(stack') <=> <<g, q>> \in On(stack)
  BY <1>5 DEF SameCalls
<1>18. QED
  BY <1>6, <1>7, <1>9, <1>12, <1>13, <1>14, <1>15, <1>16, <1>17, RootKeeps

\* A failure that is reported from a root that completed and whose handle is released.
LEMMA ReportFacts ==
  ASSUME HInv, NEW r \in Roots, Report(r), NeedsReport(r)
  PROVE  /\ reported' = reported \cup {r} /\ reports' \in [Roots -> Nat]
         /\ \A q \in Roots \ {r} : reports'[q] = reports[q]
         /\ reports'[r] <= 1 /\ (terminated' = "no" => reports'[r] = 1)
         /\ failure_handler' \in BOOLEAN /\ replaced' \in SUBSET Roots
         /\ terminated' \in {"no", "unhandled", "threw", "crashed"}
<1>1. BaseType /\ Fate(r)
  BY DEF HInv
<1>2. reports[r] = 0
  BY <1>1 DEF NeedsReport, Fate
<1>3. CASE failure_handler
  <2>1. /\ reported' = reported \cup {r} /\ reports' = [reports EXCEPT ![r] = reports[r] + 1]
        /\ failure_handler' = FALSE /\ replaced' = replaced \ {r} /\ terminated' = terminated
    BY <1>3 DEF Report
  <2>2. reports' \in [Roots -> Nat] /\ reports'[r] = 1 /\ \A q \in Roots \ {r} : reports'[q] = reports[q]
    BY <1>1, <1>2, <2>1 DEF BaseType
  <2>3. replaced' \in SUBSET Roots /\ terminated' \in {"no", "unhandled", "threw", "crashed"}
    BY <1>1, <2>1 DEF BaseType
  <2>4. failure_handler' \in BOOLEAN
    BY <2>1, ZenonT(60)
  <2>5. reports'[r] <= 1
    BY <2>2
  <2>6. QED
    BY <2>1, <2>2, <2>3, <2>4, <2>5, ZenonT(60)
<1>4. CASE ~failure_handler
  <2>1. /\ reported' = reported \cup {r} /\ reports' = reports
        /\ failure_handler' = failure_handler /\ replaced' = replaced /\ terminated' = "unhandled"
    BY <1>4 DEF Report
  <2>2. QED
    BY <1>1, <1>2, <2>1 DEF BaseType
<1>5. QED
  BY <1>3, <1>4

LEMMA DeliverReportsKeeps ==
  ASSUME HInv, NEW r \in Roots, DeliverReports(r)
  PROVE  HInv'
<1>1. /\ terminated = "no" /\ r \in abandoned /\ NeedsReport(r) /\ Report(r)
      /\ stack' = <<<<"handler", r>>>> \o stack
      /\ UNCHANGED <<root, awaits, op, registered, stop_requested, handle, refs, completed,
                     abandoned, failed, observed, joiners, detached, joiner, policy>>
  BY DEF DeliverReports, ReportsOnDelivery, Push, rootVars, joinVars
<1>2. BaseType /\ Control(r) /\ Fate(r) /\ Waiting(r) /\ Count(r)
  BY DEF HInv
<1>3. /\ reported' = reported \cup {r} /\ reports' \in [Roots -> Nat]
      /\ \A q \in Roots \ {r} : reports'[q] = reports[q]
      /\ reports'[r] <= 1 /\ (terminated' = "no" => reports'[r] = 1)
      /\ failure_handler' \in BOOLEAN /\ replaced' \in SUBSET Roots
      /\ terminated' \in {"no", "unhandled", "threw", "crashed"}
  BY <1>1, ReportFacts
<1>4. stack' \in Seq(Frames) /\ \A q \in Roots : SameCalls(q)
  <2>1. <<"handler", r>> \in Frames /\ "handler" \notin Counted
    BY FrameFacts DEF Counted
  <2>2. QED
    BY <1>1, <2>1, OtherCalls
<1>5. Goes
  BY <1>1 DEF Goes
<1>6. BaseType'
  BY <1>1, <1>2, <1>3, <1>4 DEF BaseType
<1>7. \A g \in Counted : (In(g, r)' <=> In(g, r)) /\ Once(stack', <<g, r>>)
  BY <1>4 DEF SameCalls, In
<1>8. Control(r)' /\ Waiting(r)' /\ Count(r)'
  BY <1>1, <1>2, <1>7, ZenonT(60) DEF Control, Waiting, Count, Counted
<1>9. Fate(r)'
  BY <1>1, <1>2, <1>3, ZenonT(60) DEF Fate, NeedsReport
<1>10. \A q \in Roots \ {r} : SameState(q)
  BY <1>1, <1>2, <1>3 DEF SameState, BaseType
<1>11. Calls(stack') /\ \A q \in Roots \ {r}, g \in Counted :
         <<g, q>> \in On(stack') <=> <<g, q>> \in On(stack)
  BY <1>4 DEF SameCalls, Calls
<1>12. QED
  BY <1>5, <1>6, <1>8, <1>9, <1>10, <1>11, RootKeeps

LEMMA DeliverReturnsKeeps ==
  ASSUME HInv, NEW r \in Roots, DeliverReturns(r)
  PROVE  HInv'
<1>1. /\ terminated = "no" /\ stack # <<>> /\ Head(stack) = <<"deliver", r>> /\ stack' = Tail(stack)
      /\ detached[r] = <<>> /\ ~(r \in abandoned /\ NeedsReport(r))
      /\ refs' = [refs EXCEPT ![r] = refs[r] - 1]
      /\ root' = root /\ awaits' = awaits /\ op' = op /\ registered' = registered
      /\ stop_requested' = stop_requested /\ handle' = handle /\ completed' = completed
      /\ abandoned' = abandoned /\ failed' = failed /\ observed' = observed
      /\ reported' = reported /\ joiners' = joiners /\ detached' = detached /\ joiner' = joiner
      /\ failure_handler' = failure_handler /\ replaced' = replaced /\ policy' = policy
      /\ reports' = reports /\ terminated' = terminated
  BY DEF DeliverReturns, ReportsOnDelivery, Dropped, Top, Pop, rootVars, stateVars, joinVars,
         handlerVars
<1>2. BaseType /\ Control(r) /\ Fate(r) /\ Waiting(r) /\ Count(r)
  BY DEF HInv
<1>3. /\ Calls(stack') /\ <<"deliver", r>> \in On(stack)
      /\ \A q \in Roots, g \in Counted :
           <<g, q>> \in On(stack') <=> <<g, q>> \in On(stack) /\ ~(g = "deliver" /\ q = r)
  <2>1. Calls(stack)
    BY CallsNow
  <2>2. stack # <<>> /\ Head(stack) = <<"deliver", r>> /\ stack' = Tail(stack)
    BY <1>1
  <2>3. Left(stack, stack', "deliver", r)
    BY <2>1, <2>2, LeaveCall, ZenonT(60)
  <2>4. QED
    BY <2>3, ZenonT(60) DEF Left
<1>4. BaseType'
  <2>1. stack' \in Seq(Frames) /\ refs' \in [Roots -> Int]
    BY <1>1, <1>2, <1>3 DEF BaseType, Calls
  <2>2. QED
    BY <1>1, <1>2, <2>1, ZenonT(60) DEF BaseType
<1>5. /\ In("deliver", r) /\ ~In("deliver", r)'
      /\ In("spawn", r)' <=> In("spawn", r)
      /\ In("root", r)' <=> In("root", r)
      /\ In("release", r)' <=> In("release", r)
  BY <1>3 DEF In, Counted
<1>6. root[r] = "completed" /\ refs'[r] = refs[r] - 1
  BY <1>1, <1>2, <1>5 DEF BaseType, Control
<1>7. Control(r)'
  BY <1>1, <1>2, <1>3, <1>5, <1>6, ZenonT(60) DEF Control, Calls
<1>8. Fate(r)'
  BY <1>1, <1>2, ZenonT(60) DEF Fate, NeedsReport
<1>9. Waiting(r)'
  BY <1>1, <1>2, <1>6 DEF Waiting
<1>10. Count(r)'
  <2>1. Len(joiners[r]) \in Nat /\ Len(detached[r]) \in Nat
    BY <1>2 DEF BaseType
  <2> DEFINE h == IF In("spawn", r) \/ handle[r] = "held" \/ In("release", r) THEN 1 ELSE 0
  <2>2. h \in Nat /\ h' = h
    BY <1>1, <1>5
  <2>3. refs[r] = h + 1 + Len(joiners[r]) + Len(detached[r])
    BY <1>2, <1>5 DEF Count
  <2>4. Count(r)' <=> refs'[r] = h' + Len(joiners'[r]) + Len(detached'[r])
    BY <1>1, <1>5, <1>6 DEF Count
  <2> HIDE DEF h
  <2>5. refs'[r] = h + Len(joiners[r]) + Len(detached[r])
    <3> DEFINE m == Len(joiners[r])
               n == Len(detached[r])
    <3>1. h \in Nat /\ m \in Nat /\ n \in Nat /\ refs'[r] = refs[r] - 1 /\ refs[r] = h + 1 + m + n
      BY <1>6, <2>1, <2>2, <2>3
    <3> HIDE DEF m, n
    <3>2. refs'[r] = h + m + n
      BY <3>1
    <3>3. QED
      BY <3>2 DEF m, n
  <2>6. joiners' = joiners /\ detached' = detached
    BY <1>1
  <2>7. QED
    BY <2>2, <2>4, <2>5, <2>6
<1>11. Goes
  BY <1>1 DEF Goes
<1>12. \A q \in Roots \ {r} : SameState(q)
  BY <1>1, <1>2 DEF SameState, BaseType
<1>13. QED
  BY <1>3, <1>4, <1>7, <1>8, <1>9, <1>10, <1>11, <1>12, RootKeeps

-----------------------------------------------------------------------------
(* The public handle.                                                      *)

LEMMA JoinWaitsKeeps ==
  ASSUME HInv, NEW r \in Roots, NEW j \in Joiners, Join(j, r), MustWait(r)
  PROVE  HInv'
<1>1. /\ terminated = "no" /\ handle[r] = "held" /\ joiner[j] = "idle" /\ r \notin completed
      /\ joiner' = [joiner EXCEPT ![j] = "waiting"]
      /\ joiners' = [joiners EXCEPT ![r] = Append(joiners[r], j)]
      /\ refs' = [refs EXCEPT ![r] = refs[r] + 1]
      /\ UNCHANGED <<stack, root, awaits, op, registered, stop_requested, handle, completed,
                     abandoned, failed, observed, reported, detached, failure_handler, replaced,
                     policy, reports, terminated>>
  BY DEF Join, MustWait, Acquired, UserRuns, rootVars, stateVars, handlerVars
<1>2. BaseType /\ Control(r) /\ Fate(r) /\ Waiting(r) /\ Count(r)
  BY DEF HInv
<1>3. joiners[r] \in Seq(Joiners) /\ IsInjective(joiners[r]) /\ j \notin On(joiners[r])
  BY <1>1, <1>2 DEF BaseType, Waiting
<1>4. /\ Append(joiners[r], j) \in Seq(Joiners) /\ Len(joiners[r]) \in Nat
      /\ Len(Append(joiners[r], j)) = Len(joiners[r]) + 1
      /\ On(Append(joiners[r], j)) = On(joiners[r]) \cup {j}
      /\ IsInjective(Append(joiners[r], j))
  BY <1>3, AppendOn
<1>5. /\ joiners'[r] = Append(joiners[r], j) /\ refs'[r] = refs[r] + 1
      /\ joiner'[j] = "waiting" /\ root[r] \in {"running", "suspended"}
  BY <1>1, <1>2 DEF BaseType, Control
<1>6. \A g, q : In(g, q)' <=> In(g, q)
  BY <1>1 DEF In
<1>7. BaseType'
  <2>1. /\ refs' \in [Roots -> Int] /\ joiners' \in [Roots -> Seq(Joiners)]
        /\ joiner' \in [Joiners -> {"idle", "waiting", "running", "done"}]
    BY <1>1, <1>2, <1>4 DEF BaseType
  <2>2. QED
    BY <1>1, <1>2, <2>1, ZenonT(60) DEF BaseType
<1>8. Goes
  BY <1>1, <1>2 DEF Goes, BaseType
<1>9. Control(r)'
  BY <1>1, <1>2, <1>5, <1>6, ZenonT(60) DEF Control
<1>10. Fate(r)'
  BY <1>1, <1>2, <1>6, ZenonT(60) DEF Fate
<1>11. Waiting(r)'
  <2>1. On(joiners[r]) \cup On(detached[r]) \subseteq Joiners
    BY ListsOfJoiners
  <2>2. \A k \in On(joiners'[r]) \cup On(detached'[r]) : joiner'[k] # "idle"
    BY <1>1, <1>2, <1>4, <1>5, <1>8, <2>1, ZenonT(60) DEF Waiting, Goes
  <2>3. QED
    BY <1>1, <1>2, <1>4, <1>5, <1>6, <2>2, ZenonT(60) DEF Waiting
<1>12. Count(r)'
  <2> DEFINE h == IF In("spawn", r) \/ handle[r] = "held" \/ In("release", r) THEN 1 ELSE 0
             b == IF root[r] \in {"running", "suspended"} \/ In("deliver", r) THEN 1 ELSE 0
             m == Len(joiners[r])
             n == Len(detached[r])
  <2>1. h \in Nat /\ h' = h /\ b \in Nat /\ b' = b
    BY <1>1, <1>6, ZenonT(60)
  <2>2. refs[r] = h + b + m + n
    BY <1>2, ZenonT(60) DEF Count
  <2>3. Count(r)' <=> refs'[r] = h' + b' + m' + n'
    BY DEF Count
  <2>4. m \in Nat /\ n \in Nat
    BY <1>2 DEF BaseType
  <2>5. m' = m + 1 /\ n' = n
    BY <1>1, <1>4, <1>5, ZenonT(60)
  <2> HIDE DEF h, b, m, n
  <2>6. refs'[r] = h + b + (m + 1) + n
    BY <1>5, <2>1, <2>2, <2>4
  <2>7. QED
    BY <2>1, <2>3, <2>5, <2>6
<1>13. \A q \in Roots \ {r} : SameState(q)
  BY <1>1, <1>2 DEF SameState, BaseType
<1>14. Calls(stack') /\ On(stack') = On(stack)
  BY <1>1, CallsNow
<1>15. QED
  BY <1>7, <1>8, <1>9, <1>10, <1>11, <1>12, <1>13, <1>14, RootKeeps

LEMMA JoinReadyKeeps ==
  ASSUME HInv, NEW r \in Roots, NEW j \in Joiners, Join(j, r), ~MustWait(r)
  PROVE  HInv'
<1>1. /\ terminated = "no" /\ joiner' = [joiner EXCEPT ![j] = "done"]
      /\ UNCHANGED <<stack, root, awaits, op, registered, stop_requested, handle, refs, completed,
                     abandoned, failed, observed, reported, joiners, detached, failure_handler,
                     replaced, policy, reports, terminated>>
  BY DEF Join, UserRuns, rootVars, stateVars, handlerVars
<1>2. BaseType
  BY DEF HInv
<1>3. Goes /\ BaseType'
  BY <1>1, <1>2 DEF Goes, BaseType
<1>4. \A q \in Roots : SameCalls(q)
  BY <1>1, ZenonT(60) DEF SameCalls, HInv, Control
<1>5. \A q \in Roots : SameState(q)
  BY <1>1 DEF SameState
<1>6. QED
  BY <1>3, <1>4, <1>5, Untouched DEF HInv

LEMMA ObserveKeeps ==
  ASSUME HInv, NEW r \in Roots, Observe(r)
  PROVE  HInv'
<1>1. /\ terminated = "no" /\ handle[r] = "held" /\ observed' = observed \cup {r}
      /\ stack' = stack /\ root' = root /\ awaits' = awaits /\ op' = op
      /\ registered' = registered /\ stop_requested' = stop_requested /\ handle' = handle
      /\ refs' = refs /\ completed' = completed /\ abandoned' = abandoned /\ failed' = failed
      /\ reported' = reported /\ joiners' = joiners /\ detached' = detached /\ joiner' = joiner
      /\ failure_handler' = failure_handler /\ replaced' = replaced /\ policy' = policy
      /\ reports' = reports /\ terminated' = terminated
  BY DEF Observe, UserRuns, rootVars, joinVars, handlerVars
<1>2. BaseType /\ Control(r) /\ Fate(r) /\ Waiting(r) /\ Count(r)
  BY DEF HInv
<1>3. \A g, q : In(g, q)' <=> In(g, q)
  BY <1>1 DEF In
<1>4. Goes /\ BaseType'
  <2>1. observed' \in SUBSET Roots
    BY <1>1, <1>2 DEF BaseType
  <2>2. QED
    BY <1>1, <1>2, <2>1, ZenonT(60) DEF Goes, BaseType
<1>5. Control(r)' /\ Waiting(r)' /\ Count(r)'
  BY <1>1, <1>2, <1>3, ZenonT(60) DEF Control, Waiting, Count
<1>6. Fate(r)'
  BY <1>1, <1>2, <1>3, ZenonT(60) DEF Fate
<1>7. \A q \in Roots \ {r} : SameState(q)
  <2>1. \A q \in Roots \ {r} : (q \in observed') = (q \in observed)
    BY <1>1
  <2>2. QED
    BY <1>1, <2>1, ZenonT(60) DEF SameState
<1>8. Calls(stack') /\ On(stack') = On(stack)
  BY <1>1, CallsNow
<1>9. QED
  BY <1>4, <1>5, <1>6, <1>7, <1>8, RootKeeps

\* Entering release(): its frame takes over the reference of the handle.  Above it
\* may be a call that is not counted.
LEMMA ReleaseFrames ==
  ASSUME HInv, NEW r \in Roots, NEW f \in {"stop", "handler"}, handle[r] = "held",
         \/ stack' = <<<<f, r>>, <<"release", r>>>> \o stack
         \/ stack' = <<<<"release", r>>>> \o stack
  PROVE  /\ Calls(stack')
         /\ \A q \in Roots, g \in Counted :
              <<g, q>> \in On(stack') <=> <<g, q>> \in On(stack) \/ (g = "release" /\ q = r)
<1> DEFINE s == <<<<"release", r>>>> \o stack
<1>1. Calls(stack) /\ <<"release", r>> \notin On(stack)
  BY CallsNow, ZenonT(60) DEF HInv, Control, In
<1>2. /\ Calls(s)
      /\ \A q \in Roots, g \in Counted :
           <<g, q>> \in On(s) <=> <<g, q>> \in On(stack) \/ (g = "release" /\ q = r)
  <2>1. Entered(stack, s, "release", r)
    BY <1>1, EnterCall, ZenonT(60)
  <2>2. QED
    BY <2>1, ZenonT(60) DEF Entered
<1>3. <<<<f, r>>, <<"release", r>>>> \o stack = <<<<f, r>>>> \o s
  <2>1. stack \in Seq(Frames) /\ <<f, r>> \in Frames /\ <<"release", r>> \in Frames
    BY <1>1, FrameFacts DEF Calls
  <2>2. QED
    BY <2>1, PushTwo, ZenonT(60)
<1> HIDE DEF s
<1>4. f \notin Counted /\ f \in {"spawn", "root", "stop", "release", "deliver", "handler"}
  BY DEF Counted
<1>5. /\ Calls(<<<<f, r>>>> \o s)
      /\ \A q \in Roots, g \in Counted :
           <<g, q>> \in On(<<<<f, r>>>> \o s) <=> <<g, q>> \in On(s) \/ (g = f /\ q = r)
  <2>1. Calls(s)
    BY <1>2
  <2>2. f \in Counted => <<f, r>> \notin On(s)
    BY <1>4
  <2>3. Entered(s, <<<<f, r>>>> \o s, f, r)
    BY <1>4, <2>1, <2>2, EnterCall, ZenonT(60)
  <2>4. QED
    BY <2>3, ZenonT(60) DEF Entered
<1>6. \A q \in Roots, g \in Counted :
        <<g, q>> \in On(<<<<f, r>>>> \o s) <=> <<g, q>> \in On(s)
  BY <1>4, <1>5
<1>7. stack' = <<<<f, r>>>> \o s \/ stack' = s
  BY <1>3, ZenonT(60) DEF s
<1>8. QED
  BY <1>2, <1>5, <1>6, <1>7, ZenonT(60)

LEMMA ReleaseActiveKeeps ==
  ASSUME HInv, NEW r \in Roots, ReleaseActive(r)
  PROVE  HInv'
<1>1. /\ terminated = "no" /\ handle[r] = "held" /\ r \notin completed
      /\ handle' = [handle EXCEPT ![r] = "released"]
      /\ abandoned' = abandoned \cup {r} /\ stop_requested' = stop_requested \cup {r}
      /\ stack' = <<<<"stop", r>>, <<"release", r>>>> \o stack
      /\ root' = root /\ awaits' = awaits /\ op' = op /\ registered' = registered
      /\ refs' = refs /\ completed' = completed /\ failed' = failed /\ observed' = observed
      /\ reported' = reported /\ joiners' = joiners /\ detached' = detached /\ joiner' = joiner
      /\ failure_handler' = failure_handler /\ replaced' = replaced /\ policy' = policy
      /\ reports' = reports /\ terminated' = terminated
  BY DEF ReleaseActive, AbandonFrames, UserRuns, joinVars, handlerVars
<1>2. BaseType /\ Control(r) /\ Fate(r) /\ Waiting(r) /\ Count(r)
  BY DEF HInv
<1>3. /\ Calls(stack')
      /\ \A q \in Roots, g \in Counted :
           <<g, q>> \in On(stack') <=> <<g, q>> \in On(stack) \/ (g = "release" /\ q = r)
  BY <1>1, ReleaseFrames, ZenonT(60)
<1>4. BaseType'
  BY <1>1, <1>2, <1>3 DEF BaseType, Calls
<1>5. /\ In("release", r)' /\ ~In("spawn", r)
      /\ In("spawn", r)' <=> In("spawn", r)
      /\ In("root", r)' <=> In("root", r)
      /\ In("deliver", r)' <=> In("deliver", r)
  BY <1>1, <1>2, <1>3, ZenonT(60) DEF In, Counted, Control
<1>6. handle'[r] = "released" /\ root[r] # "cold"
  BY <1>1, <1>2 DEF BaseType, Control
<1>7. Control(r)'
  BY <1>1, <1>2, <1>3, <1>5, <1>6, ZenonT(60) DEF Control, Calls
<1>8. Fate(r)'
  BY <1>1, <1>2, <1>5, <1>6, ZenonT(60) DEF Fate
<1>9. Waiting(r)'
  BY <1>1, <1>2, <1>5, ZenonT(60) DEF Waiting
<1>10. Count(r)'
  BY <1>1, <1>2, <1>5, ZenonT(60) DEF Count
<1>11. Goes
  BY <1>1 DEF Goes
<1>12. \A q \in Roots \ {r} : SameState(q)
  BY <1>1, <1>2 DEF SameState, BaseType
<1>13. QED
  BY <1>3, <1>4, <1>7, <1>8, <1>9, <1>10, <1>11, <1>12, RootKeeps

LEMMA ReleaseCompletedKeeps ==
  ASSUME HInv, NEW r \in Roots, ReleaseCompleted(r)
  PROVE  HInv'
<1>1. /\ terminated = "no" /\ handle[r] = "held" /\ r \in completed
      /\ handle' = [handle EXCEPT ![r] = "released"]
      /\ \/ stack' = <<<<"handler", r>>, <<"release", r>>>> \o stack
         \/ stack' = <<<<"release", r>>>> \o stack
      /\ root' = root /\ awaits' = awaits /\ op' = op /\ registered' = registered
      /\ stop_requested' = stop_requested /\ refs' = refs /\ completed' = completed
      /\ abandoned' = abandoned /\ failed' = failed /\ observed' = observed
      /\ joiners' = joiners /\ detached' = detached /\ joiner' = joiner /\ policy' = policy
  BY ZenonT(60) DEF ReleaseCompleted, Push, UserRuns, rootVars, joinVars
<1>2. BaseType /\ Control(r) /\ Fate(r) /\ Waiting(r) /\ Count(r)
  BY DEF HInv
<1>3. /\ Calls(stack')
      /\ \A q \in Roots, g \in Counted :
           <<g, q>> \in On(stack') <=> <<g, q>> \in On(stack) \/ (g = "release" /\ q = r)
  BY <1>1, ReleaseFrames, ZenonT(60)
<1>4. /\ In("release", r)' /\ ~In("spawn", r)
      /\ In("spawn", r)' <=> In("spawn", r)
      /\ In("root", r)' <=> In("root", r)
      /\ In("deliver", r)' <=> In("deliver", r)
  BY <1>1, <1>2, <1>3, ZenonT(60) DEF In, Counted, Control
<1>5. handle'[r] = "released" /\ root[r] = "completed"
  BY <1>1, <1>2 DEF BaseType, Control
<1>6. Control(r)'
  BY <1>1, <1>2, <1>3, <1>4, <1>5, ZenonT(60) DEF Control, Calls
<1>7. Waiting(r)'
  BY <1>1, <1>2, <1>4, ZenonT(60) DEF Waiting
<1>8. Count(r)'
  BY <1>1, <1>2, <1>4, ZenonT(60) DEF Count
<1>9. Goes
  BY <1>1 DEF Goes
<1>10. /\ BaseType' /\ Fate(r)'
       /\ \A q \in Roots \ {r} : reports'[q] = reports[q] /\ (q \in reported') = (q \in reported)
  <2>0. stack' \in Seq(Frames) /\ handle' \in [Roots -> {"none", "held", "released"}]
    BY <1>1, <1>2, <1>3 DEF BaseType, Calls
  <2>1. CASE NeedsReport(r)
    <3>1. Report(r)
      BY <2>1 DEF ReleaseCompleted
    <3>2. /\ reported' = reported \cup {r} /\ reports' \in [Roots -> Nat]
          /\ \A q \in Roots \ {r} : reports'[q] = reports[q]
          /\ reports'[r] <= 1 /\ (terminated' = "no" => reports'[r] = 1)
          /\ failure_handler' \in BOOLEAN /\ replaced' \in SUBSET Roots
          /\ terminated' \in {"no", "unhandled", "threw", "crashed"}
      BY <2>1, <3>1, ReportFacts
    <3>3. BaseType'
      <4>1. reported' \in SUBSET Roots
        BY <1>2, <3>2 DEF BaseType
      <4>2. QED
        BY <1>1, <1>2, <2>0, <3>2, <4>1, ZenonT(60) DEF BaseType
    <3>4. Fate(r)'
      BY <1>1, <1>2, <1>5, <2>1, <3>2, ZenonT(60) DEF Fate, NeedsReport
    <3>5. QED
      BY <3>2, <3>3, <3>4
  <2>2. CASE ~NeedsReport(r)
    <3>1. UNCHANGED <<reported, failure_handler, replaced, reports, terminated>>
      BY <2>2 DEF ReleaseCompleted
    <3>2. BaseType'
      BY <1>1, <1>2, <2>0, <3>1, ZenonT(60) DEF BaseType
    <3>3. Fate(r)'
      BY <1>1, <1>2, <1>5, <2>2, <3>1, ZenonT(60) DEF Fate, NeedsReport
    <3>4. QED
      BY <3>1, <3>2, <3>3
  <2>3. QED
    BY <2>1, <2>2, ZenonT(60)
<1>11. \A q \in Roots \ {r} : SameState(q)
  BY <1>1, <1>2, <1>10 DEF SameState, BaseType
<1>12. QED
  BY <1>3, <1>6, <1>7, <1>8, <1>9, <1>10, <1>11, RootKeeps, ZenonT(60)

LEMMA ReleaseReturnsKeeps ==
  ASSUME HInv, NEW r \in Roots, ReleaseReturns(r)
  PROVE  HInv'
<1>1. /\ terminated = "no" /\ stack # <<>> /\ Head(stack) = <<"release", r>> /\ stack' = Tail(stack)
      /\ refs' = [refs EXCEPT ![r] = refs[r] - 1]
      /\ root' = root /\ awaits' = awaits /\ op' = op /\ registered' = registered
      /\ stop_requested' = stop_requested /\ handle' = handle /\ completed' = completed
      /\ abandoned' = abandoned /\ failed' = failed /\ observed' = observed
      /\ reported' = reported /\ joiners' = joiners /\ detached' = detached /\ joiner' = joiner
      /\ failure_handler' = failure_handler /\ replaced' = replaced /\ policy' = policy
      /\ reports' = reports /\ terminated' = terminated
  BY DEF ReleaseReturns, Dropped, Top, Pop, rootVars, stateVars, joinVars, handlerVars
<1>2. BaseType /\ Control(r) /\ Fate(r) /\ Waiting(r) /\ Count(r)
  BY DEF HInv
<1>3. /\ Calls(stack') /\ <<"release", r>> \in On(stack)
      /\ \A q \in Roots, g \in Counted :
           <<g, q>> \in On(stack') <=> <<g, q>> \in On(stack) /\ ~(g = "release" /\ q = r)
  <2>1. Calls(stack)
    BY CallsNow
  <2>2. stack # <<>> /\ Head(stack) = <<"release", r>> /\ stack' = Tail(stack)
    BY <1>1
  <2>3. Left(stack, stack', "release", r)
    BY <2>1, <2>2, LeaveCall, ZenonT(60)
  <2>4. QED
    BY <2>3, ZenonT(60) DEF Left
<1>4. BaseType'
  <2>1. stack' \in Seq(Frames) /\ refs' \in [Roots -> Int]
    BY <1>1, <1>2, <1>3 DEF BaseType, Calls
  <2>2. QED
    BY <1>1, <1>2, <2>1, ZenonT(60) DEF BaseType
<1>5. /\ In("release", r) /\ ~In("release", r)'
      /\ In("spawn", r)' <=> In("spawn", r)
      /\ In("root", r)' <=> In("root", r)
      /\ In("deliver", r)' <=> In("deliver", r)
  BY <1>3 DEF In, Counted
<1>6. handle[r] = "released" /\ ~In("spawn", r) /\ root[r] # "cold" /\ refs'[r] = refs[r] - 1
  BY <1>1, <1>2, <1>5 DEF BaseType, Control
<1>7. Control(r)'
  BY <1>1, <1>2, <1>3, <1>5, <1>6, ZenonT(60) DEF Control, Calls
<1>8. Fate(r)'
  BY <1>1, <1>2, <1>5, ZenonT(60) DEF Fate
<1>9. Waiting(r)'
  BY <1>1, <1>2, <1>5, ZenonT(60) DEF Waiting
<1>10. Count(r)'
  <2> DEFINE b == IF root[r] \in {"running", "suspended"} \/ In("deliver", r) THEN 1 ELSE 0
             m == Len(joiners[r])
             n == Len(detached[r])
  <2>1. b \in Nat /\ b' = b
    BY <1>1, <1>5
  <2>2. refs[r] = 1 + b + m + n
    BY <1>2, <1>5 DEF Count
  <2>3. Count(r)' <=> refs'[r] = 0 + b' + m' + n'
    BY <1>1, <1>5, <1>6, ZenonT(60) DEF Count
  <2>4. m \in Nat /\ n \in Nat
    BY <1>2 DEF BaseType
  <2>5. m' = m /\ n' = n
    BY <1>1
  <2> HIDE DEF b, m, n
  <2>6. refs'[r] = 0 + b + m + n
    BY <1>6, <2>1, <2>2, <2>4
  <2>7. QED
    BY <2>1, <2>3, <2>5, <2>6
<1>11. Goes
  BY <1>1 DEF Goes
<1>12. \A q \in Roots \ {r} : SameState(q)
  BY <1>1, <1>2 DEF SameState, BaseType
<1>13. QED
  BY <1>3, <1>4, <1>7, <1>8, <1>9, <1>10, <1>11, <1>12, RootKeeps

-----------------------------------------------------------------------------
(* The invariant.                                                          *)

LEMMA InitHInv == Init => HInv
<1> SUFFICES ASSUME Init PROVE HInv
  OBVIOUS
<1>1. \A S : <<>> \in Seq(S) /\ Len(<<>>) = 0 /\ On(<<>>) = {} /\ IsInjective(<<>>)
  BY DEF On, IsInjective
<1>2. 0 \in 0..MaxAwaits
  BY SpawnAssumption
<1>3. BaseType
  <2>1. stack \in Seq(Frames)
    BY <1>1 DEF Init
  <2>2. joiners \in [Roots -> Seq(Joiners)] /\ detached \in [Roots -> Seq(Joiners)]
    BY <1>1 DEF Init
  <2>3. awaits \in [Roots -> 0..MaxAwaits]
    BY <1>2 DEF Init
  <2>4. /\ root \in [Roots -> {"cold", "running", "suspended", "completed"}]
        /\ op \in [Roots -> {"none", "inline", "opaque"}]
        /\ handle \in [Roots -> {"none", "held", "released"}]
        /\ joiner \in [Joiners -> {"idle", "waiting", "running", "done"}]
        /\ refs \in [Roots -> Int] /\ reports \in [Roots -> Nat]
    BY DEF Init
  <2>5. failure_handler \in BOOLEAN /\ policy \in BOOLEAN
    BY ZenonT(60) DEF Init
  <2>6. QED
    BY <2>1, <2>2, <2>3, <2>4, <2>5 DEF Init, BaseType
<1>4. ASSUME NEW r \in Roots
      PROVE  Control(r) /\ Fate(r) /\ Waiting(r) /\ Count(r)
  <2>1. \A g \in Counted : ~In(g, r) /\ Once(stack, <<g, r>>)
    BY <1>1 DEF Init, In, Once, On
  <2>2. Control(r)
    BY <2>1 DEF Init, Control, Counted
  <2>3. Fate(r)
    BY DEF Init, Fate
  <2>4. Waiting(r)
    BY <1>1 DEF Init, Waiting
  <2>5. Count(r)
    BY <1>1, <2>1 DEF Init, Count, Counted
  <2>6. QED
    BY <2>2, <2>3, <2>4, <2>5
<1>5. QED
  BY <1>3, <1>4 DEF HInv

LEMMA NextHInv == HInv /\ [Next]_vars => HInv'
<1> SUFFICES ASSUME HInv, [Next]_vars PROVE HInv'
  OBVIOUS
<1>1. CASE UNCHANGED vars
  <2>1. UNCHANGED <<stack, root, awaits, op, registered, stop_requested, handle, refs, completed,
                    abandoned, failed, observed, reported, joiners, detached, joiner,
                    failure_handler, replaced, policy, reports, terminated>>
    BY <1>1 DEF vars, rootVars, stateVars, joinVars, handlerVars
  <2>2. BaseType'
    BY <2>1 DEF HInv, BaseType
  <2>3. ASSUME NEW r \in Roots
        PROVE  Control(r)' /\ Fate(r)' /\ Waiting(r)' /\ Count(r)'
    <3>1. Control(r) /\ Fate(r) /\ Waiting(r) /\ Count(r)
      BY DEF HInv
    <3>2. \A g : In(g, r)' <=> In(g, r)
      BY <2>1 DEF In
    <3>3. QED
      BY <2>1, <3>1, <3>2, ZenonT(60) DEF Control, Fate, Waiting, Count
  <2>4. QED
    BY <2>2, <2>3 DEF HInv
<1>2. CASE (\E j \in Joiners : JoinerReturns(j)) \/ (\E h \in BOOLEAN : SetHandler(h))
  BY <1>2, OtherKeeps
<1>3. ASSUME NEW r \in Roots, RootStep(r) PROVE HInv'
  <2>1. CASE Spawn(r) \/ SpawnReturns(r)
    BY <2>1, SpawnKeeps, SpawnReturnsKeeps
  <2>2. CASE \E kind \in {"inline", "opaque"} : RootAwaits(r, kind)
    BY <2>2, RootAwaitsKeeps
  <2>3. CASE OperationCompletes(r) \/ StopCallback(r)
    BY <2>3, ResumeKeeps
  <2>4. CASE \E fails \in BOOLEAN : RootCompletes(r, fails)
    BY <2>4, RootCompletesKeeps
  <2>5. CASE DeliverNext(r) \/ DeliverReports(r) \/ DeliverReturns(r)
    BY <2>5, DeliverNextKeeps, DeliverReportsKeeps, DeliverReturnsKeeps
  <2>6. CASE HandlerReturns(r) \/ HandlerThrows(r) \/ RequestStop(r) \/ StopReturns(r)
    BY <2>6, OtherKeeps
  <2>7. CASE \E j \in Joiners : Join(j, r)
    BY <2>7, JoinWaitsKeeps, JoinReadyKeeps
  <2>8. CASE Observe(r) \/ ReleaseActive(r) \/ ReleaseCompleted(r) \/ ReleaseReturns(r)
    BY <2>8, ObserveKeeps, ReleaseActiveKeeps, ReleaseCompletedKeeps, ReleaseReturnsKeeps
  <2>9. QED
    BY <1>3, <2>1, <2>2, <2>3, <2>4, <2>5, <2>6, <2>7, <2>8 DEF RootStep
<1>4. QED
  BY <1>1, <1>2, <1>3 DEF Next

\* Every reachable state agrees on where each root and its handle are, on where its
\* failure went, and on the references to its state.
THEOREM HInvariance == Spec => []HInv
BY InitHInv, NextHInv, PTL DEF Spec

\* A root failure has one destination: it reaches the handler at most once, and
\* not at all if the application observed it.
THEOREM OneFate == Spec => []OneDestination
<1>1. HInv => OneDestination
  <2> SUFFICES ASSUME HInv, NEW r \in Roots PROVE reports[r] <= 1 /\ (r \in observed => reports[r] = 0)
    BY ZenonT(60) DEF OneDestination
  <2>1. /\ r \in reported => r \notin observed /\ reports[r] <= 1
        /\ r \notin reported => reports[r] = 0
    BY ZenonT(60) DEF HInv, Fate
  <2>2. QED
    BY <2>1
<1>2. QED
  BY <1>1, HInvariance, PTL

\* A failure is never dropped: once the public handle is gone and every call about
\* the root has returned, it was observed or reported.
THEOREM FailureKept == Spec => []NoFailureLost
<1>1. HInv => NoFailureLost
  <2> SUFFICES ASSUME HInv, NEW r \in Roots, terminated = "no", r \in failed,
                      handle[r] = "released", ~OnStack("deliver", r)
               PROVE  r \in observed \/ reports[r] = 1
    BY DEF NoFailureLost
  <2>1. ~In("deliver", r)
    BY RangeIsOn DEF HInv, BaseType, OnStack, In
  <2>2. QED
    BY <2>1, ZenonT(60) DEF HInv, Fate
<1>2. QED
  BY <1>1, HInvariance, PTL

-----------------------------------------------------------------------------
(* How long the shared state of a root lives.                              *)

Finite == INSTANCE FiniteSetTheorems

\* The library counts, and calls a function injective, as this module does.
LEMMA SameNotions ==
  /\ \A S : Finite!Cardinality(S) = Cardinality(S) /\ (Finite!IsFiniteSet(S) <=> IsFiniteSet(S))
  /\ \A S, T : Finite!Injection(S, T) = Injection(S, T)
<1>1. \A S : Finite!Cardinality(S) = Cardinality(S) /\ (Finite!IsFiniteSet(S) <=> IsFiniteSet(S))
  BY ZenonT(60) DEF Finite!Cardinality, Cardinality, Finite!IsFiniteSet, IsFiniteSet
<1>2. \A S, T : Finite!Injection(S, T) = Injection(S, T)
  BY ZenonT(60) DEF Finite!Injection, Injection, Finite!IsInjective, IsInjective
<1>3. QED
  BY <1>1, <1>2, ZenonT(60)

\* A list without repetition is no longer than the set it is drawn from.
LEMMA InjectiveLength ==
  ASSUME NEW S, IsFiniteSet(S), NEW s \in Seq(S), IsInjective(s)
  PROVE  Len(s) \in Nat /\ Cardinality(S) \in Nat /\ Len(s) <= Cardinality(S)
<1>1. Len(s) \in Nat /\ s \in [1..Len(s) -> S]
  OBVIOUS
<1>2. Finite!IsFiniteSet(S) /\ s \in Finite!Injection(1..Len(s), S)
  <2>1. s \in Injection(1..Len(s), S)
    BY <1>1 DEF Injection
  <2>2. QED
    BY <2>1, SameNotions, ZenonT(60)
<1>3. Finite!Cardinality(1..Len(s)) <= Finite!Cardinality(S)
  BY <1>2, Finite!FS_Injection
<1>4. Finite!Cardinality(1..Len(s)) = Len(s)
  BY <1>1, Finite!FS_Interval
<1>5. Finite!Cardinality(S) \in Nat
  BY <1>2, Finite!FS_CardinalityType
<1>6. QED
  BY <1>1, <1>3, <1>4, <1>5, SameNotions

\* The state of a root lives as long as the running root, a joiner to resume, the
\* delivery or a release in progress needs it, and no longer.
THEOREM StateLifetime == Spec => []StateLivesAsNeeded
<1>1. HInv => StateLivesAsNeeded
  <2> SUFFICES ASSUME HInv PROVE StateLivesAsNeeded
    OBVIOUS
  <2>1. BaseType
    BY DEF HInv
  <2>2. ASSUME NEW r \in Roots
        PROVE  /\ refs[r] \in 0..(2 + Cardinality(Joiners))
               /\ refs[r] = 0 /\ root[r] # "cold" =>
                    /\ root[r] = "completed" /\ joiners[r] = <<>> /\ detached[r] = <<>>
                    /\ \A f \in Counted : ~In(f, r)
               /\ /\ root[r] = "completed" /\ handle[r] = "released"
                  /\ ~In("deliver", r) /\ ~In("release", r)
                  => refs[r] = 0
    <3> DEFINE h == IF In("spawn", r) \/ handle[r] = "held" \/ In("release", r) THEN 1 ELSE 0
               b == IF root[r] \in {"running", "suspended"} \/ In("deliver", r) THEN 1 ELSE 0
               m == Len(joiners[r])
               n == Len(detached[r])
               c == Cardinality(Joiners)
    <3>1. Control(r) /\ Waiting(r) /\ Count(r)
      BY DEF HInv
    <3>2. joiners[r] \in Seq(Joiners) /\ detached[r] \in Seq(Joiners)
      BY <2>1 DEF BaseType
    <3>3. m \in Nat /\ n \in Nat /\ c \in Nat /\ m <= c /\ n <= c
      BY <3>1, <3>2, SpawnAssumption, InjectiveLength DEF Waiting
    <3>4. (m = 0 <=> joiners[r] = <<>>) /\ (n = 0 <=> detached[r] = <<>>)
      BY <3>2, EmptyList
    <3>5. h \in {0, 1} /\ b \in {0, 1}
      OBVIOUS
    <3>6. refs[r] = h + b + m + n
      BY <3>1 DEF Count
    <3>7. h = 0 <=> ~In("spawn", r) /\ handle[r] # "held" /\ ~In("release", r)
      OBVIOUS
    <3>8. b = 0 <=> root[r] \notin {"running", "suspended"} /\ ~In("deliver", r)
      OBVIOUS
    <3>9. m = 0 \/ n = 0
      BY <3>1, <3>4 DEF Control, Waiting
    <3>10. root[r] \in {"cold", "running", "suspended", "completed"}
      BY <2>1 DEF BaseType
    <3> HIDE DEF h, b, m, n, c
    <3>11. refs[r] \in 0..(2 + c)
      BY <3>3, <3>5, <3>6, <3>9
    <3>12. refs[r] = 0 <=> h = 0 /\ b = 0 /\ m = 0 /\ n = 0
      BY <3>3, <3>5, <3>6
    <3>13. ASSUME refs[r] = 0, root[r] # "cold"
           PROVE  /\ root[r] = "completed" /\ joiners[r] = <<>> /\ detached[r] = <<>>
                  /\ \A f \in Counted : ~In(f, r)
      <4>1. root[r] = "completed" /\ joiners[r] = <<>> /\ detached[r] = <<>>
        BY <3>4, <3>8, <3>10, <3>12, <3>13
      <4>2. ~In("root", r)
        BY <3>1, <4>1 DEF Control
      <4>3. QED
        BY <3>7, <3>8, <3>12, <3>13, <4>1, <4>2 DEF Counted
    <3>14. ASSUME root[r] = "completed", handle[r] = "released",
                  ~In("deliver", r), ~In("release", r)
           PROVE  refs[r] = 0
      <4>1. m = 0 /\ n = 0 /\ b = 0
        BY <3>1, <3>4, <3>8, <3>14 DEF Waiting
      <4>2. ~In("spawn", r)
        BY <3>1, <3>14 DEF Control
      <4>3. QED
        BY <3>7, <3>12, <3>14, <4>1, <4>2
    <3>15. QED
      BY <3>11, <3>13, <3>14, ZenonT(60) DEF c
  <2>3. TypeOK
    <3>1. refs \in [Roots -> 0..(2 + Cardinality(Joiners))]
      BY <2>1, <2>2 DEF BaseType
    <3>2. QED
      BY <2>1, <3>1 DEF BaseType, TypeOK
  <2>4. \A f, r : OnStack(f, r) <=> In(f, r)
    BY <2>1, RangeIsOn DEF BaseType, OnStack, In
  <2>5. QED
    BY <2>2, <2>3, <2>4, ZenonT(60) DEF StateLivesAsNeeded, Counted
<1>2. QED
  BY <1>1, HInvariance, PTL

=============================================================================
