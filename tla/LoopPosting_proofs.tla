------------------------- MODULE LoopPosting_proofs -------------------------
(***************************************************************************)
(* Proofs about LoopPosting for every set of producers and waiters, every  *)
(* capacity, drain budget and number of posts.                             *)
(***************************************************************************)
EXTENDS LoopPosting, TLAPS

\* Time limits of the backends, in seconds.
USE SMTT(60), ZenonT(60)

\* Where the loop thread is determines which locals of drain() are live.
DrainLocals ==
  /\ active_batches = (IF had_work THEN 1 ELSE 0)
  /\ pc \in {"invoke", "handler"} => had_work
  /\ pc \in {"poll", "async", "resume"} => ~had_work
  /\ pc \notin {"invoke", "handler"} => batch = <<>>
  /\ pc = "resume" => phase = "closed"

\* The native handle follows the phase, and a handle whose close began has
\* nothing left to run.
HandleFollowsPhase ==
  /\ phase \in {"open", "draining"} <=> handle = "active"
  /\ phase = "closing" <=> handle = "closing"
  /\ phase \in {"closing", "closed"} => queue = <<>> /\ ~had_work

IInv == TypeOK /\ DrainLocals /\ HandleFollowsPhase /\ ExactlyOnceInOrder

-----------------------------------------------------------------------------
(* Sequence facts.                                                         *)

\* Splitting the queue into the extracted batch and the rest loses nothing.
LEMMA SplitQueue ==
  ASSUME NEW S, NEW q \in Seq(S), NEW n \in 0..Len(q)
  PROVE  /\ SubSeq(q, 1, n) \in Seq(S)
         /\ SubSeq(q, n + 1, Len(q)) \in Seq(S)
         /\ Len(SubSeq(q, 1, n)) = n
         /\ Len(SubSeq(q, n + 1, Len(q))) = Len(q) - n
         /\ SubSeq(q, 1, n) \o SubSeq(q, n + 1, Len(q)) = q
<1>1. Len(q) \in Nat
  OBVIOUS
<1>2. \A i \in 1..n : q[i] \in S
  BY <1>1
<1>3. \A i \in (n+1)..Len(q) : q[i] \in S
  BY <1>1
<1>4. SubSeq(q, 1, n) \in Seq(S) /\ Len(SubSeq(q, 1, n)) = n
  BY <1>1, <1>2
<1>5. /\ SubSeq(q, n+1, Len(q)) \in Seq(S)
      /\ Len(SubSeq(q, n+1, Len(q))) = Len(q) - n
  BY <1>1, <1>3
<1>6. SubSeq(q, 1, n) \o SubSeq(q, n + 1, Len(q)) = q
  <2> DEFINE a == SubSeq(q, 1, n)
             b == SubSeq(q, n + 1, Len(q))
             u == a \o b
  <2>1. /\ \A i \in 1..n : a[i] = q[i]
        /\ \A i \in 1..(Len(q) - n) : b[i] = q[n + i]
    BY <1>1
  <2>2. a \in Seq(S) /\ b \in Seq(S) /\ Len(a) = n /\ Len(b) = Len(q) - n
    BY <1>4, <1>5
  <2> HIDE DEF a, b
  <2>3. u \in Seq(S) /\ Len(u) = Len(q)
    BY <1>1, <2>2
  <2>4. \A i \in 1..Len(q) : u[i] = IF i <= n THEN a[i] ELSE b[i - n]
    BY <1>1, <2>2
  <2>5. ASSUME NEW i \in 1..Len(q) PROVE u[i] = q[i]
    <3>1. CASE i <= n
      <4>1. i \in 1..n
        BY <1>1, <3>1
      <4>2. QED
        BY <2>1, <2>4, <3>1, <4>1, ZenonT(60)
    <3>2. CASE ~(i <= n)
      <4>1. i - n \in 1..(Len(q) - n) /\ n + (i - n) = i
        BY <1>1, <3>2
      <4>2. u[i] = b[i - n] /\ b[i - n] = q[n + (i - n)]
        BY <2>1, <2>4, <3>2, <4>1, ZenonT(60)
      <4>3. QED
        BY <4>1, <4>2
    <3>3. QED
      BY <3>1, <3>2, ZenonT(60)
  <2> HIDE DEF u
  <2>6. u = q
    BY <1>1, <2>3, <2>5
  <2>7. QED
    BY <2>6, ZenonT(60) DEF a, b, u
<1>7. QED
  BY <1>4, <1>5, <1>6, ZenonT(60)

LEMMA LastOf == \A S : \A s \in Seq(S), w \in S : Append(s, w) = s \o <<w>>
OBVIOUS

LEMMA Associative ==
  \A S : \A a, b, c \in Seq(S) : (a \o b) \o c = a \o (b \o c)
OBVIOUS

\* Moving the head of the middle part to the end of the first changes nothing.
LEMMA ShiftHead ==
  ASSUME NEW S, NEW e \in Seq(S), NEW b \in Seq(S), NEW q \in Seq(S), b # <<>>
  PROVE  /\ Head(b) \in S /\ Tail(b) \in Seq(S)
         /\ Append(e, Head(b)) \o Tail(b) \o q = e \o b \o q
<1>1. Head(b) \in S /\ Tail(b) \in Seq(S)
  OBVIOUS
<1>2. Len(b) \in Nat \ {0}
  OBVIOUS
<1>3. b = <<Head(b)>> \o Tail(b)
  <2>1. SubSeq(b, 1, Len(b)) = <<b[1]>> \o SubSeq(b, 2, Len(b))
    BY <1>2
  <2>2. QED
    BY <2>1
<1>4. <<Head(b)>> \in Seq(S)
  BY <1>1
<1>5. Append(e, Head(b)) = e \o <<Head(b)>>
  BY <1>1
<1>6. Append(e, Head(b)) \o Tail(b) = e \o b
  BY <1>1, <1>3, <1>4, <1>5, Associative
<1>7. QED
  BY <1>1, <1>6

\* Appending to the last part appends to the whole.
LEMMA AppendLast ==
  ASSUME NEW S, NEW e \in Seq(S), NEW b \in Seq(S), NEW q \in Seq(S), NEW w \in S
  PROVE  e \o b \o Append(q, w) = Append(e \o b \o q, w)
<1>1. e \o b \in Seq(S) /\ e \o b \o q \in Seq(S) /\ <<w>> \in Seq(S)
  OBVIOUS
<1>2. Append(q, w) = q \o <<w>> /\ Append(e \o b \o q, w) = (e \o b \o q) \o <<w>>
  BY <1>1, LastOf
<1>3. (e \o b) \o (q \o <<w>>) = ((e \o b) \o q) \o <<w>>
  BY <1>1, Associative
<1>4. QED
  BY <1>2, <1>3

-----------------------------------------------------------------------------
(* The inductive invariant, one lemma per part of the next-state relation. *)

\* The constructed component satisfies the invariant.
LEMMA InitIInv == Init => IInv
<1> SUFFICES ASSUME Init PROVE IInv
  OBVIOUS
<1>1. TypeOK
  <2>1. /\ queue \in Seq(Work) /\ batch \in Seq(Work)
        /\ accepted \in Seq(Work) /\ executed \in Seq(Work)
        /\ close_waiters \in Seq(Waiters) /\ resuming \in Seq(Waiters)
    BY DEF Init
  <2>2. attempts \in [Producers -> 0..MaxPosts]
    BY PostingAssumption DEF Init
  <2>3. waiter \in [Waiters -> {"none", "suspended", "resumed"}]
    BY DEF Init
  <2>4. /\ failure_handler \in HandlerOrNone /\ callback \in HandlerOrNone
        /\ policy \in HandlerOrNone /\ pending \in BOOLEAN /\ had_work \in BOOLEAN
        /\ replaced \in BOOLEAN /\ owner \in BOOLEAN /\ terminated \in BOOLEAN
    BY ZenonT(60) DEF Init, HandlerOrNone
  <2>5. active_batches \in 0..1
    BY DEF Init
  <2>6. QED
    BY <2>1, <2>2, <2>3, <2>4, <2>5, ZenonT(60) DEF Init, TypeOK, LoopPlaces
<1>2. <<>> \o <<>> \o <<>> = <<>>
  OBVIOUS
<1>3. QED
  BY <1>1, <1>2 DEF Init, IInv, DrainLocals, HandleFollowsPhase, ExactlyOnceInOrder

\* Steps of post: acceptance appends to the queue and to the history together.
LEMMA PostIInv == ASSUME IInv, NEW p \in Producers, Post(p) PROVE IInv'
<1>1. PICK w \in Work : w = <<p, attempts[p] + 1>>
  <2>1. attempts[p] + 1 \in 1..MaxPosts
    BY PostingAssumption DEF IInv, TypeOK, Post
  <2>2. QED
    BY <2>1, ZenonT(60) DEF Work
<1>5. attempts' \in [Producers -> 0..MaxPosts]
  BY PostingAssumption DEF IInv, TypeOK, Post
<1>2. CASE Admits /\ Enqueue(w) /\ accepted' = Append(accepted, w) /\ SendOk
  <2>1. queue' \in Seq(Work) /\ accepted' \in Seq(Work)
    BY <1>1, <1>2 DEF IInv, TypeOK, Enqueue
  <2>2. accepted' = executed \o batch \o queue'
    <3>1. /\ executed \in Seq(Work) /\ batch \in Seq(Work) /\ queue \in Seq(Work)
          /\ accepted = executed \o batch \o queue
      BY DEF IInv, TypeOK, ExactlyOnceInOrder
    <3>2. executed \o batch \o Append(queue, w) = Append(executed \o batch \o queue, w)
      BY <1>1, <3>1, AppendLast
    <3>3. QED
      BY <1>2, <3>1, <3>2 DEF Enqueue
  <2>3. TypeOK'
    BY <1>2, <1>5, <2>1 DEF IInv, TypeOK, Post, SendOk, loopVars
  <2>4. QED
    BY <1>2, <2>2, <2>3 DEF IInv, Post, Admits, DrainLocals, HandleFollowsPhase,
                            ExactlyOnceInOrder, loopVars
<1>3. CASE UNCHANGED <<queue, accepted, pending>>
  BY <1>3, <1>5 DEF IInv, TypeOK, Post, DrainLocals, HandleFollowsPhase,
                    ExactlyOnceInOrder, loopVars
<1>4. QED
  BY <1>1, <1>2, <1>3 DEF Post

\* Closing begins only in "draining" with nothing queued and no active batch.
LEMMA RequestCloseLockedFacts ==
  ASSUME IInv, RequestCloseLocked
  PROVE  /\ phase' \in {"open", "draining", "closing", "closed"}
         /\ handle' \in {"active", "closing", "closed"}
         /\ phase' \in {"open", "draining"} <=> handle' = "active"
         /\ phase' = "closing" <=> handle' = "closing"
         /\ phase' \in {"closing", "closed"} => queue = <<>> /\ ~had_work
         /\ phase = "closed" => phase' = "closed"
BY DEF IInv, TypeOK, DrainLocals, HandleFollowsPhase, RequestCloseLocked, BeginCloseIfDrained, Sealed

\* Steps of the owner on the loop thread.
LEMMA OwnerIInv ==
  ASSUME IInv,
         RequestClose \/ (\E w \in Waiters : AwaitClose(w))
           \/ (\E h \in HandlerOrNone : SetFailureHandler(h)) \/ DestroyOwner
  PROVE  IInv'
<1>1. CASE RequestClose
  BY <1>1, RequestCloseLockedFacts
  DEF RequestClose, IInv, TypeOK, DrainLocals, HandleFollowsPhase, ExactlyOnceInOrder,
      loopVars, userVars, historyVars
<1>2. ASSUME NEW w \in Waiters, AwaitClose(w) PROVE IInv'
  <2>1. waiter' \in [Waiters -> {"none", "suspended", "resumed"}]
    BY <1>2, ZenonT(60) DEF AwaitClose, IInv, TypeOK
  <2>5. close_waiters' \in Seq(Waiters)
    <3>1. close_waiters \in Seq(Waiters) /\ Append(close_waiters, w) \in Seq(Waiters)
      BY DEF IInv, TypeOK
    <3>2. QED
      BY <1>2, <3>1 DEF AwaitClose
  <2>2. CASE phase = "closed"
    BY <1>2, <2>1, <2>2, <2>5
    DEF AwaitClose, IInv, TypeOK, DrainLocals, HandleFollowsPhase, ExactlyOnceInOrder,
        loopVars, historyVars
  <2>3. CASE phase # "closed"
    BY <1>2, <2>1, <2>3, <2>5, RequestCloseLockedFacts
    DEF AwaitClose, IInv, TypeOK, DrainLocals, HandleFollowsPhase, ExactlyOnceInOrder,
        loopVars, historyVars
  <2>4. QED
    BY <2>2, <2>3
<1>3. ASSUME NEW h \in HandlerOrNone, SetFailureHandler(h) PROVE IInv'
  BY <1>3 DEF SetFailureHandler, IInv, TypeOK, DrainLocals, HandleFollowsPhase,
              ExactlyOnceInOrder, nativeVars, userVars
<1>4. CASE DestroyOwner
  BY <1>4, ZenonT(60) DEF DestroyOwner, IInv, TypeOK, DrainLocals, HandleFollowsPhase,
              ExactlyOnceInOrder, fieldVars, nativeVars, loopVars, historyVars
<1>5. QED
  BY <1>1, <1>2, <1>3, <1>4

\* Starting the next callable moves it from the batch to the history.
LEMMA NextCallableFacts ==
  ASSUME executed \in Seq(Work), NEW rest \in Seq(Work), NEW q \in Seq(Work),
         NextCallable(rest)
  PROVE  /\ executed' \in Seq(Work) /\ batch' \in Seq(Work)
         /\ executed' \o batch' \o q = executed \o rest \o q
         /\ pc' \in {"invoke", "clear"}
         /\ pc' = "clear" <=> rest = <<>>
         /\ pc' = "clear" => batch' = <<>>
         /\ rest # <<>> => Len(batch') = Len(rest) - 1
<1>1. CASE rest = <<>>
  BY <1>1 DEF NextCallable
<1>2. CASE rest # <<>>
  <2>1. /\ pc' = "invoke" /\ batch' = Tail(rest)
        /\ executed' = Append(executed, Head(rest))
    BY <1>2 DEF NextCallable
  <2>2. /\ Head(rest) \in Work /\ Tail(rest) \in Seq(Work)
        /\ Append(executed, Head(rest)) \o Tail(rest) \o q = executed \o rest \o q
    BY <1>2, ShiftHead
  <2>3. Append(executed, Head(rest)) \in Seq(Work)
    BY <2>2
  <2>4. Len(Tail(rest)) = Len(rest) - 1
    BY <1>2
  <2>5. QED
    BY <1>2, <2>1, <2>2, <2>3, <2>4
<1>3. QED
  BY <1>1, <1>2, ZenonT(60)

\* drain() extracts something whenever something waits, within its budget.
LEMMA ExtractedRange ==
  ASSUME IInv
  PROVE  Extracted \in 0..Len(queue) /\ (Extracted = 0 <=> queue = <<>>) /\ Extracted <= DrainBudget
<1>1. queue \in Seq(Work) /\ Len(queue) \in Nat /\ (queue # <<>> => Len(queue) # 0)
  BY DEF IInv, TypeOK
<1>2. queue = <<>> => Len(queue) = 0
  OBVIOUS
<1>3. QED
  BY <1>1, <1>2, PostingAssumption DEF Extracted

\* The first locked section of drain().
LEMMA BeginDrainIInv == ASSUME IInv, BeginDrain PROVE IInv'
<1> DEFINE taken == SubSeq(queue, 1, Extracted)
           left  == SubSeq(queue, Extracted + 1, Len(queue))
<1>1. /\ queue \in Seq(Work) /\ executed \in Seq(Work) /\ batch = <<>>
      /\ Extracted \in 0..Len(queue) /\ (Extracted = 0 <=> queue = <<>>)
  BY ExtractedRange DEF IInv, TypeOK, DrainLocals, BeginDrain
<1>2. /\ taken \in Seq(Work) /\ left \in Seq(Work) /\ taken \o left = queue
      /\ Len(taken) = Extracted
  BY <1>1, SplitQueue, ZenonT(60)
<1>3. taken = <<>> <=> Extracted = 0
  BY <1>1, <1>2
<1> HIDE DEF taken, left
<1>4. NextCallable(taken) /\ queue' = left
  BY DEF BeginDrain, taken, left
<1>5. /\ executed' \in Seq(Work) /\ batch' \in Seq(Work)
      /\ executed' \o batch' \o left = executed \o taken \o left
      /\ pc' \in {"invoke", "clear"} /\ (pc' = "clear" <=> taken = <<>>)
      /\ pc' = "clear" => batch' = <<>>
  BY <1>1, <1>2, <1>4, NextCallableFacts, ZenonT(60)
<1>6. accepted = executed \o taken \o left
  <2>1. executed \o <<>> = executed
    BY <1>1
  <2>2. accepted = executed \o queue
    BY <1>1, <2>1 DEF IInv, ExactlyOnceInOrder
  <2>3. (executed \o taken) \o left = executed \o (taken \o left)
    <3>1. executed \in Seq(Work) /\ taken \in Seq(Work) /\ left \in Seq(Work)
      BY <1>1, <1>2
    <3>2. QED
      BY <3>1, SMTT(60)
  <2>4. QED
    BY <1>2, <2>2, <2>3
<1>7. /\ had_work' \in BOOLEAN /\ (had_work' <=> Extracted # 0)
      /\ active_batches' = (IF had_work' THEN 1 ELSE 0)
  <2>1. pc = "async" /\ had_work' = (Extracted # 0)
    BY DEF BeginDrain
  <2>2. had_work' \in BOOLEAN /\ (had_work' <=> Extracted # 0)
    BY <2>1, ZenonT(60)
  <2>3. ~had_work
    BY <2>1 DEF IInv, DrainLocals
  <2>4. active_batches = 0
    BY <2>3 DEF IInv, DrainLocals
  <2>5. active_batches' = (IF Extracted # 0 THEN 1 ELSE 0)
    BY <2>4 DEF BeginDrain
  <2>6. QED
    BY <2>2, <2>5
<1>8. TypeOK'
  <2>1. active_batches' \in 0..1 /\ pc' \in LoopPlaces
    BY <1>5, <1>7 DEF LoopPlaces
  <2>2. QED
    BY <1>2, <1>4, <1>5, <1>7, <2>1, ZenonT(60) DEF BeginDrain, IInv, TypeOK, nativeVars, userVars
<1>9. DrainLocals'
  BY <1>3, <1>5, <1>7 DEF BeginDrain, DrainLocals
<1>10. HandleFollowsPhase'
  BY DEF BeginDrain, IInv, HandleFollowsPhase, nativeVars
<1>11. ExactlyOnceInOrder'
  BY <1>4, <1>5, <1>6, ZenonT(60) DEF BeginDrain, ExactlyOnceInOrder
<1>12. QED
  BY <1>8, <1>9, <1>10, <1>11 DEF IInv

\* The invocation loop of drain().
LEMMA RunIInv ==
  ASSUME IInv, CallableReturns \/ CallableThrows \/ HandlerReturns \/ HandlerThrows
  PROVE  IInv'
<1>1. CASE CallableReturns \/ HandlerReturns
  <2>1. batch \in Seq(Work) /\ queue \in Seq(Work) /\ executed \in Seq(Work)
    BY DEF IInv, TypeOK
  <2>2. NextCallable(batch) /\ had_work
    BY <1>1 DEF CallableReturns, HandlerReturns, IInv, DrainLocals
  <2>3. /\ executed' \in Seq(Work) /\ batch' \in Seq(Work)
        /\ executed' \o batch' \o queue = executed \o batch \o queue
        /\ pc' \in {"invoke", "clear"}
        /\ pc' = "clear" => batch' = <<>>
    BY <2>1, <2>2, NextCallableFacts, ZenonT(60)
  <2>4. /\ UNCHANGED <<phase, queue, active_batches, close_waiters, nativeVars, had_work,
                       replaced, resuming, userVars, accepted, policy>>
        /\ failure_handler' \in HandlerOrNone /\ callback' \in HandlerOrNone
    BY <1>1, ZenonT(60) DEF CallableReturns, HandlerReturns, Restored, HandlerOrNone, fieldVars, IInv,
                            TypeOK
  <2>5. QED
    BY <2>2, <2>3, <2>4, ZenonT(60) DEF IInv, TypeOK, LoopPlaces, DrainLocals, HandleFollowsPhase,
                            ExactlyOnceInOrder, nativeVars, userVars
<1>2. CASE CallableThrows
  BY <1>2, ZenonT(60) DEF CallableThrows, IInv, TypeOK, HandlerOrNone, LoopPlaces, DrainLocals,
              HandleFollowsPhase, ExactlyOnceInOrder, nativeVars, historyVars
<1>3. CASE HandlerThrows
  BY <1>3 DEF HandlerThrows, IInv, TypeOK, DrainLocals, HandleFollowsPhase,
              ExactlyOnceInOrder, fieldVars, nativeVars, loopVars, historyVars
<1>4. QED
  BY <1>1, <1>2, <1>3

\* The wakeup, the last locked section of drain(), and on_close().
LEMMA LoopIInv ==
  ASSUME IInv,
         \/ Wakeup \/ LateDrain \/ EndDrain \/ ResendFails
         \/ OnClose \/ ResumeWaiter \/ OnCloseReturns
  PROVE  IInv'
<1> USE DEF IInv, TypeOK, LoopPlaces, DrainLocals, HandleFollowsPhase, ExactlyOnceInOrder
<1>1. CASE Wakeup
  BY <1>1, ZenonT(60) DEF Wakeup, fieldVars, userVars, historyVars
<1>2. CASE LateDrain
  BY <1>2 DEF LateDrain, fieldVars, nativeVars, userVars, historyVars
<1>3. CASE EndDrain
  <2>1. ActiveAfterDrain = 0
    BY DEF ActiveAfterDrain
  <2>2. pending' \in BOOLEAN
    BY <1>3, ZenonT(60) DEF EndDrain, Resend, SendOk
  <2>3. \/ phase' = "closing" /\ handle' = "closing" /\ queue = <<>>
        \/ phase' = phase /\ handle' = handle
    BY <1>3 DEF EndDrain, BeginCloseIfDrained
  <2>4. /\ pc' = "poll" /\ had_work' = FALSE /\ active_batches' = 0 /\ batch = <<>>
        /\ UNCHANGED <<queue, close_waiters, failure_handler, batch, callback, replaced, resuming,
                       owner, terminated, waiter, attempts, accepted, executed, policy>>
    BY <1>3, <2>1 DEF EndDrain, userVars, historyVars
  <2>5. TypeOK'
    <3>1. had_work' \in BOOLEAN
      BY <2>4, ZenonT(60)
    <3>2. /\ phase' \in {"open", "draining", "closing", "closed"}
          /\ handle' \in {"active", "closing", "closed"}
      BY <2>3
    <3>3. QED
      BY <2>2, <2>4, <3>1, <3>2
  <2>6. QED
    BY <2>3, <2>4, <2>5
<1>4. CASE OnClose
  <2>1. <<>> \in Seq(Waiters)
    OBVIOUS
  <2>2. QED
    BY <1>4, <2>1, ZenonT(60) DEF OnClose, HandlerOrNone, userVars, historyVars
<1>5. CASE ResumeWaiter
  <2>1. Head(resuming) \in Waiters /\ Tail(resuming) \in Seq(Waiters)
    BY <1>5 DEF ResumeWaiter
  <2>2. QED
    BY <1>5, <2>1 DEF ResumeWaiter, fieldVars, nativeVars, historyVars
<1>6. CASE OnCloseReturns
  BY <1>6 DEF OnCloseReturns, fieldVars, nativeVars, userVars, historyVars
<1>7. CASE ResendFails
  <2>1. ActiveAfterDrain = 0
    BY DEF ActiveAfterDrain
  <2>2. /\ had_work' = FALSE /\ terminated' = TRUE /\ active_batches' = 0 /\ pc = "clear"
        /\ UNCHANGED <<phase, queue, close_waiters, failure_handler, handle, pending, batch, pc,
                       callback, replaced, resuming, owner, waiter, attempts, accepted, executed,
                       policy>>
    BY <1>7, <2>1 DEF ResendFails, nativeVars, historyVars
  <2>3. had_work' \in BOOLEAN /\ terminated' \in BOOLEAN
    BY <2>2, ZenonT(60)
  <2>4. TypeOK'
    BY <2>2, <2>3
  <2>5. QED
    BY <2>2, <2>4
<1>8. QED
  BY <1>1, <1>2, <1>3, <1>4, <1>5, <1>6, <1>7, ZenonT(60)

\* Steps of anything else.
LEMMA StutterIInv == ASSUME IInv, UNCHANGED vars PROVE IInv'
BY DEF IInv, TypeOK, DrainLocals, HandleFollowsPhase, ExactlyOnceInOrder,
       vars, fieldVars, nativeVars, loopVars, userVars, historyVars

\* IInv holds in every reachable state.
THEOREM Invariance == Spec => []IInv
<1>1. IInv /\ [Next]_vars => IInv'
  BY PostIInv, OwnerIInv, BeginDrainIInv, RunIInv, LoopIInv, StutterIInv DEF Next
<1>2. QED
  BY <1>1, InitIInv, PTL DEF Spec

\* The fields, the native handle and the locals of drain() keep their types;
\* in particular at most one batch is ever active.
THEOREM TypeCorrect == Spec => []TypeOK
BY Invariance, PTL DEF IInv

\* Every accepted callable is started exactly once, in acceptance order.
THEOREM ExactlyOnce == Spec => []ExactlyOnceInOrder
BY Invariance, PTL DEF IInv

\* uv_close is called only when every accepted callable has run and no batch,
\* hence no capture, is left.
THEOREM ClosesDrained == Spec => []CloseAfterDrain
<1>1. ASSUME IInv PROVE CloseAfterDrain
  <2>1. SUFFICES ASSUME phase \in {"closing", "closed"}
                 PROVE  executed = accepted /\ active_batches = 0 /\ ~had_work
    BY DEF CloseAfterDrain
  <2>2. queue = <<>> /\ ~had_work
    BY <1>1, <2>1 DEF IInv, HandleFollowsPhase
  <2>3. batch = <<>> /\ active_batches = 0
    BY <1>1, <2>2 DEF IInv, DrainLocals
  <2>4. executed \in Seq(Work) /\ accepted = executed \o <<>> \o <<>>
    BY <1>1, <2>2, <2>3, ZenonT(60) DEF IInv, TypeOK, ExactlyOnceInOrder
  <2>5. executed \o <<>> = executed
    BY <2>4
  <2>6. QED
    BY <2>2, <2>3, <2>4, <2>5
<1>2. QED
  BY <1>1, Invariance, PTL

\* No step sends on the native handle after uv_close was called on it, although
\* producers post from other threads.
THEOREM SendsOnlyWhenActive == Spec => NoSendAfterClose
<1>1. ASSUME IInv, [Next]_vars, ~pending, pending' PROVE handle = "active"
  <2>1. \/ \E p \in Producers : Post(p) /\ Admits
        \/ EndDrain /\ queue # <<>>
    BY <1>1, ZenonT(60) DEF Next, Post, RequestClose, AwaitClose, SetFailureHandler, DestroyOwner, Wakeup,
                BeginDrain, LateDrain, CallableReturns, CallableThrows, HandlerReturns,
                HandlerThrows, EndDrain, ResendFails, Resend, OnClose, ResumeWaiter, OnCloseReturns,
                vars, nativeVars
  <2>2. phase \in {"open", "draining"}
    BY <1>1, <2>1 DEF Admits, IInv, TypeOK, HandleFollowsPhase
  <2>3. QED
    BY <1>1, <2>2 DEF IInv, HandleFollowsPhase
<1>2. IInv /\ [Next]_vars => [~pending /\ pending' => handle = "active"]_vars
  BY <1>1
<1>3. QED
  BY <1>2, Invariance, PTL DEF Spec, NoSendAfterClose

-----------------------------------------------------------------------------
(* Wakeups, the backlog and the failure handler.                           *)

\* While the failure handler runs, either its slot was replaced, and holds the last
\* installed handler, or the handler that runs is itself the last installed one.
HandlerInv ==
  /\ HandlerIsLastInstalled
  /\ pc = "handler" => policy = IF replaced THEN failure_handler ELSE callback

\* No step strands queued work: the drain that leaves some behind resends.
LEMMA WakeupStep == ASSUME IInv, NoLostWakeup, [Next]_vars PROVE NoLostWakeup'
<1> USE DEF NoLostWakeup
<1>1. CASE \E p \in Producers : Post(p)
  BY <1>1 DEF Post, SendOk, loopVars
<1>2. CASE EndDrain
  BY <1>2 DEF EndDrain, Resend, SendOk
<1>3. CASE OnClose
  BY <1>3 DEF OnClose, IInv, HandleFollowsPhase
<1>4. CASE LateDrain
  BY <1>4 DEF LateDrain, IInv, HandleFollowsPhase, fieldVars
<1>5. CASE BeginDrain
  BY <1>5 DEF BeginDrain, NextCallable
<1>6. CASE CallableReturns \/ HandlerReturns
  BY <1>6 DEF CallableReturns, HandlerReturns, NextCallable
<1>7. CASE CallableThrows \/ HandlerThrows \/ ResendFails
  BY <1>7 DEF CallableThrows, HandlerThrows, ResendFails, fieldVars, loopVars, nativeVars
<1>8. CASE \/ RequestClose \/ (\E w \in Waiters : AwaitClose(w))
           \/ (\E h \in HandlerOrNone : SetFailureHandler(h)) \/ DestroyOwner \/ Wakeup
           \/ ResumeWaiter \/ OnCloseReturns \/ UNCHANGED vars
  BY <1>8 DEF RequestClose, AwaitClose, SetFailureHandler, DestroyOwner, Wakeup, ResumeWaiter,
              OnCloseReturns, vars, fieldVars, nativeVars, loopVars
<1>9. QED
  BY <1>1, <1>2, <1>3, <1>4, <1>5, <1>6, <1>7, <1>8 DEF Next

\* Work never waits in the queue without a wakeup on its way.
THEOREM WakeupNeverLost == Spec => []NoLostWakeup
<1>1. Init => NoLostWakeup
  BY DEF Init, NoLostWakeup
<1>2. QED
  BY <1>1, WakeupStep, Invariance, PTL DEF Spec

\* Checkout and restoration of the handler slot agree with the last installation.
LEMMA HandlerStep == ASSUME IInv, HandlerInv, [Next]_vars PROVE HandlerInv'
<1> USE DEF HandlerInv, HandlerIsLastInstalled
<1>1. CASE \E h \in HandlerOrNone : SetFailureHandler(h)
  BY <1>1 DEF SetFailureHandler
<1>2. CASE CallableThrows
  BY <1>2 DEF CallableThrows, historyVars, IInv, DrainLocals, HandleFollowsPhase
<1>3. CASE HandlerReturns
  <2>1. /\ pc = "handler" /\ failure_handler' = Restored /\ policy' = policy
        /\ pc' \in {"invoke", "clear"}
    BY <1>3 DEF HandlerReturns, NextCallable
  <2>2. policy = Restored
    BY <2>1 DEF Restored
  <2>3. QED
    BY <2>1, <2>2
<1>4. CASE CallableReturns \/ BeginDrain
  BY <1>4 DEF CallableReturns, BeginDrain, NextCallable, fieldVars
<1>5. CASE RequestClose \/ \E w \in Waiters : AwaitClose(w)
  <2>1. UNCHANGED <<pc, callback, replaced, failure_handler, policy>>
    BY <1>5 DEF RequestClose, AwaitClose, loopVars, historyVars
  <2>2. phase = "closed" => phase' = "closed"
    BY <1>5 DEF RequestClose, AwaitClose, RequestCloseLocked, BeginCloseIfDrained, Sealed
  <2>3. QED
    BY <2>1, <2>2
<1>6. CASE EndDrain
  <2>1. /\ pc = "clear" /\ pc' = "poll" /\ (phase = "closed" => phase' = "closed")
        /\ UNCHANGED <<failure_handler, policy>>
    BY <1>6 DEF EndDrain, BeginCloseIfDrained, historyVars
  <2>2. QED
    BY <2>1
<1>7. CASE \/ (\E p \in Producers : Post(p)) \/ DestroyOwner \/ Wakeup \/ LateDrain
           \/ HandlerThrows \/ ResendFails \/ ResumeWaiter \/ OnCloseReturns \/ UNCHANGED vars
  <2>1. /\ UNCHANGED <<phase, failure_handler, policy, callback, replaced>>
        /\ pc' = "handler" <=> pc = "handler"
    BY <1>7, ZenonT(60) DEF Post, DestroyOwner, Wakeup, LateDrain, HandlerThrows, ResendFails, ResumeWaiter,
                OnCloseReturns, vars, fieldVars, loopVars, historyVars
  <2>2. QED
    BY <2>1
<1>8. CASE OnClose
  BY <1>8 DEF OnClose
<1>9. QED
  BY <1>1, <1>2, <1>3, <1>4, <1>5, <1>6, <1>7, <1>8 DEF Next

\* Whichever handlers the application installs, and whenever: a handler replaced or
\* removed while it runs is never put back over its replacement.
THEOREM HandlerKept == Spec => []HandlerIsLastInstalled
<1>1. Init => HandlerInv
  BY ZenonT(60) DEF Init, HandlerInv, HandlerIsLastInstalled
<1>2. QED
  BY <1>1, HandlerStep, Invariance, PTL DEF Spec, HandlerInv

\* Admission keeps the queue within its capacity and a drain extracts at most a
\* batch of BatchLimit, the first of which starts at once.
LEMMA BacklogStep == ASSUME IInv, BoundedBacklog, [Next]_vars PROVE BoundedBacklog'
<1> USE DEF BoundedBacklog
<1>1. /\ queue \in Seq(Work) /\ batch \in Seq(Work) /\ executed \in Seq(Work)
      /\ Len(queue) \in Nat /\ Len(batch) \in Nat
  BY DEF IInv, TypeOK
<1>2. BatchLimit \in Nat \ {0} /\ BatchLimit <= Capacity /\ BatchLimit <= DrainBudget
  BY PostingAssumption DEF BatchLimit
<1>3. ASSUME NEW p \in Producers, Post(p) PROVE BoundedBacklog'
  <2>1. PICK w \in Work : w = <<p, attempts[p] + 1>>
    <3>1. attempts[p] + 1 \in 1..MaxPosts
      BY <1>3, PostingAssumption DEF IInv, TypeOK, Post
    <3>2. QED
      BY <3>1, ZenonT(60) DEF Work
  <2>2. Len(Append(queue, w)) = Len(queue) + 1
    BY <1>1, <2>1
  <2>3. queue' = queue \/ (queue' = Append(queue, w) /\ Len(queue) # Capacity)
    BY <1>3, <2>1 DEF Post, Enqueue, Admits
  <2>4. QED
    BY <1>1, <1>3, <2>2, <2>3, PostingAssumption DEF Post, loopVars
<1>4. CASE BeginDrain
  <2>1. PICK n \in 0..Len(queue) : n = Extracted /\ n <= DrainBudget
    BY ExtractedRange
  <2>2. PICK taken \in Seq(Work) : taken = SubSeq(queue, 1, n) /\ Len(taken) = n
    <3>1. SubSeq(queue, 1, n) \in Seq(Work) /\ Len(SubSeq(queue, 1, n)) = n
      BY <1>1, <2>1, SplitQueue
    <3>2. QED
      BY <3>1, ZenonT(60)
  <2>3. Len(queue') = Len(queue) - n
    BY <1>1, <1>4, <2>1, SplitQueue DEF BeginDrain
  <2>4. /\ taken = <<>> => batch' = <<>>
        /\ taken # <<>> => Len(batch') = n - 1
    <3>1. NextCallable(taken)
      BY <1>4, <2>1, <2>2 DEF BeginDrain
    <3>2. QED
      BY <1>1, <2>2, <3>1, NextCallableFacts, ZenonT(60)
  <2>5. n <= BatchLimit
    BY <1>1, <2>1, PostingAssumption DEF BatchLimit
  <2>6. QED
    BY <1>1, <1>2, <2>1, <2>3, <2>4, <2>5, PostingAssumption
<1>5. CASE CallableReturns \/ HandlerReturns
  <2>1. NextCallable(batch) /\ queue' = queue
    BY <1>5 DEF CallableReturns, HandlerReturns, fieldVars
  <2>2. batch = <<>> => batch' = <<>>
    BY <1>1, <2>1, NextCallableFacts, ZenonT(60)
  <2>3. batch # <<>> => Len(batch') = Len(batch) - 1
    BY <1>1, <2>1, NextCallableFacts
  <2>4. QED
    BY <1>1, <1>2, <2>1, <2>2, <2>3
<1>6. CASE UNCHANGED <<queue, batch>>
  BY <1>6
<1>7. QED
  BY <1>3, <1>4, <1>5, <1>6 DEF Next, RequestClose, AwaitClose, SetFailureHandler, DestroyOwner,
     Wakeup, LateDrain, CallableThrows, HandlerThrows, EndDrain, ResendFails, OnClose, ResumeWaiter,
     OnCloseReturns, vars, fieldVars, loopVars

\* The documented backlog: at most Capacity queued and BatchLimit extracted.
THEOREM BacklogBounded == Spec => []BoundedBacklog
<1>1. Init => BoundedBacklog
  BY PostingAssumption DEF Init, BoundedBacklog, BatchLimit
<1>2. QED
  BY <1>1, BacklogStep, Invariance, PTL DEF Spec

-----------------------------------------------------------------------------
(* The order of one producer's posts.                                      *)

\* A producer's accepted posts carry increasing numbers, none above the number
\* of calls it has made.
AcceptedOrder ==
  /\ \A i \in 1..Len(accepted) : accepted[i][2] <= attempts[accepted[i][1]]
  /\ \A i, j \in 1..Len(accepted) :
       i < j /\ accepted[i][1] = accepted[j][1] => accepted[i][2] < accepted[j][2]

\* Only post extends the history, with the number of the call it makes.
LEMMA AcceptedStep == ASSUME IInv, AcceptedOrder, [Next]_vars PROVE AcceptedOrder'
<1>1. /\ accepted \in Seq(Work) /\ attempts \in [Producers -> 0..MaxPosts]
      /\ Len(accepted) \in Nat
  BY DEF IInv, TypeOK
<1>2. \A i \in 1..Len(accepted) : accepted[i][1] \in Producers /\ accepted[i][2] \in 1..MaxPosts
  <2>1. \A i \in 1..Len(accepted) : accepted[i] \in Work
    BY <1>1
  <2>2. QED
    BY <2>1 DEF Work
<1>3. ASSUME NEW p \in Producers, Post(p) PROVE AcceptedOrder'
  <2>1. /\ attempts' = [attempts EXCEPT ![p] = @ + 1] /\ attempts[p] + 1 \in 1..MaxPosts
    BY <1>1, <1>3, PostingAssumption DEF Post
  <2>2. \A i \in 1..Len(accepted) : accepted[i][2] <= attempts'[accepted[i][1]]
    <3>1. \A q \in Producers : attempts[q] \in Nat /\ attempts'[q] \in Nat
                                /\ attempts[q] <= attempts'[q]
      BY <1>1, <2>1, PostingAssumption
    <3>2. TAKE i \in 1..Len(accepted)
    <3>3. accepted[i][1] \in Producers /\ accepted[i][2] \in Nat
      BY <1>2, PostingAssumption
    <3>4. accepted[i][2] <= attempts[accepted[i][1]]
      BY DEF AcceptedOrder
    <3>5. QED
      BY <3>1, <3>3, <3>4
  <2>3. CASE accepted' = accepted
    BY <2>2, <2>3 DEF AcceptedOrder
  <2>4. CASE accepted' = Append(accepted, <<p, attempts[p] + 1>>)
    <3>1. PICK w \in Work : w = <<p, attempts[p] + 1>>
      BY <2>1, ZenonT(60) DEF Work
    <3>2. w[1] = p /\ w[2] = attempts[p] + 1
      BY <3>1
    <3>3. /\ Len(accepted') = Len(accepted) + 1
          /\ \A i \in 1..Len(accepted) : accepted'[i] = accepted[i]
          /\ accepted'[Len(accepted) + 1] = w
      BY <1>1, <2>4, <3>1
    <3>4. \A i \in 1..Len(accepted) : accepted[i][1] = p => accepted[i][2] < w[2]
      BY <1>1, <1>2, <3>2, PostingAssumption DEF AcceptedOrder
    <3>5. \A i \in 1..Len(accepted') : accepted'[i][2] <= attempts'[accepted'[i][1]]
      BY <1>1, <2>1, <2>2, <3>2, <3>3
    <3>6. \A i, j \in 1..Len(accepted') :
            i < j /\ accepted'[i][1] = accepted'[j][1] => accepted'[i][2] < accepted'[j][2]
      BY <1>1, <3>2, <3>3, <3>4 DEF AcceptedOrder
    <3>7. QED
      BY <3>5, <3>6 DEF AcceptedOrder
  <2>5. QED
    BY <1>3, <2>3, <2>4 DEF Post
<1>4. CASE UNCHANGED <<accepted, attempts>>
  BY <1>4 DEF AcceptedOrder
<1>5. QED
  BY <1>3, <1>4 DEF Next, RequestClose, AwaitClose, SetFailureHandler, DestroyOwner,
     Wakeup, BeginDrain, LateDrain, CallableReturns, CallableThrows, HandlerReturns,
     HandlerThrows, EndDrain, ResendFails, OnClose, ResumeWaiter, OnCloseReturns,
     vars, userVars, historyVars

\* Each producer's accepted posts run in the order in which it made them.
THEOREM RunsInProducerOrder == Spec => []ProducerOrder
<1>1. Init => AcceptedOrder
  BY DEF Init, AcceptedOrder
<1>2. ASSUME IInv, AcceptedOrder PROVE ProducerOrder
  <2>1. /\ executed \in Seq(Work) /\ batch \in Seq(Work) /\ queue \in Seq(Work)
        /\ accepted = executed \o batch \o queue
    BY <1>2 DEF IInv, TypeOK, ExactlyOnceInOrder
  <2>2. PICK rest \in Seq(Work) : accepted = executed \o rest
    <3>1. batch \o queue \in Seq(Work) /\ (executed \o batch) \o queue = executed \o (batch \o queue)
      BY <2>1
    <3>2. QED
      BY <2>1, <3>1, ZenonT(60)
  <2>3. /\ Len(accepted) = Len(executed) + Len(rest) /\ Len(executed) \in Nat /\ Len(rest) \in Nat
        /\ \A i \in 1..Len(executed) : accepted[i] = executed[i]
    <3>1. Len(executed) \in Nat /\ Len(rest) \in Nat
      BY <2>1
    <3>2. QED
      BY <2>1, <2>2, <3>1
  <2>4. QED
    BY <1>2, <2>3 DEF AcceptedOrder, ProducerOrder
<1>3. QED
  BY <1>1, <1>2, AcceptedStep, Invariance, PTL DEF Spec

-----------------------------------------------------------------------------
(* LoopPosting implements the safety part of PostingQueue: with the mutex, *)
(* the batches, the wakeups and the native handle hidden, every step of    *)
(* the component is a step of the bounded FIFO or a stutter.               *)

\* Whoever is on a list of waiters has called close(), so that resuming it is a
\* wake-up of the abstract queue (or a stutter).
WaitersSuspended ==
  /\ \A i \in 1..Len(close_waiters) : waiter[close_waiters[i]] # "none"
  /\ \A i \in 1..Len(resuming) : waiter[resuming[i]] # "none"

\* What a step of the component may rely on.
RInv == IInv /\ BoundedBacklog /\ WaitersSuspended

-----------------------------------------------------------------------------

\* close() puts its caller on the list as it suspends; on_close moves the list and
\* takes the waiters from its front.
LEMMA WaitersStep == ASSUME IInv, WaitersSuspended, [Next]_vars PROVE WaitersSuspended'
<1> USE DEF WaitersSuspended
<1>1. /\ close_waiters \in Seq(Waiters) /\ resuming \in Seq(Waiters)
      /\ Len(close_waiters) \in Nat /\ Len(resuming) \in Nat
      /\ waiter \in [Waiters -> {"none", "suspended", "resumed"}]
  BY DEF IInv, TypeOK
<1>2. /\ \A i \in 1..Len(close_waiters) : close_waiters[i] \in Waiters
      /\ \A i \in 1..Len(resuming) : resuming[i] \in Waiters
  BY <1>1
<1>3. ASSUME NEW w \in Waiters, AwaitClose(w) PROVE WaitersSuspended'
  <2>1. /\ resuming' = resuming
        /\ waiter' = [waiter EXCEPT ![w] = "suspended"] \/ waiter' = [waiter EXCEPT ![w] = "resumed"]
        /\ close_waiters' = close_waiters \/ close_waiters' = Append(close_waiters, w)
    BY <1>3 DEF AwaitClose, loopVars
  <2>2. \A v \in Waiters : waiter[v] # "none" => waiter'[v] # "none"
    BY <1>1, <2>1
  <2>3. waiter'[w] # "none"
    BY <1>1, <2>1
  <2>4. /\ Len(Append(close_waiters, w)) = Len(close_waiters) + 1
        /\ \A i \in 1..Len(close_waiters) : Append(close_waiters, w)[i] = close_waiters[i]
        /\ Append(close_waiters, w)[Len(close_waiters) + 1] = w
    BY <1>1
  <2>5. \A i \in 1..Len(close_waiters') : waiter'[close_waiters'[i]] # "none"
    <3>1. CASE close_waiters' = close_waiters
      BY <1>2, <2>2, <3>1
    <3>2. CASE close_waiters' = Append(close_waiters, w)
      <4>1. TAKE i \in 1..Len(close_waiters')
      <4>2. i \in 1..Len(close_waiters) \/ i = Len(close_waiters) + 1
        BY <1>1, <2>4, <3>2
      <4>3. CASE i \in 1..Len(close_waiters)
        <5>1. close_waiters'[i] = close_waiters[i]
          BY <2>4, <3>2, <4>3
        <5>2. QED
          BY <1>2, <2>2, <4>3, <5>1
      <4>4. CASE i = Len(close_waiters) + 1
        BY <2>3, <2>4, <3>2, <4>4
      <4>5. QED
        BY <4>2, <4>3, <4>4
    <3>3. QED
      BY <2>1, <3>1, <3>2
  <2>6. QED
    BY <1>2, <2>1, <2>2, <2>5
<1>4. CASE OnClose
  <2>1. resuming' = close_waiters /\ close_waiters' = <<>> /\ waiter' = waiter
    BY <1>4 DEF OnClose, userVars
  <2>2. QED
    BY <2>1
<1>5. CASE ResumeWaiter
  <2>1. /\ resuming # <<>> /\ resuming' = Tail(resuming) /\ close_waiters' = close_waiters
        /\ waiter' = [waiter EXCEPT ![Head(resuming)] = "resumed"]
    BY <1>5 DEF ResumeWaiter, fieldVars
  <2>2. \A v \in Waiters : waiter[v] # "none" => waiter'[v] # "none"
    BY <1>1, <2>1
  <2>3. /\ Len(Tail(resuming)) = Len(resuming) - 1
        /\ \A i \in 1..Len(Tail(resuming)) : Tail(resuming)[i] = resuming[i + 1]
    BY <1>1, <2>1
  <2>4. QED
    BY <1>1, <1>2, <2>1, <2>2, <2>3
<1>6. CASE UNCHANGED <<close_waiters, resuming, waiter>>
  BY <1>6
<1>7. QED
  BY <1>3, <1>4, <1>5, <1>6, ZenonT(60) DEF Next, Post, RequestClose, SetFailureHandler, DestroyOwner,
     Wakeup, BeginDrain, LateDrain, CallableReturns, CallableThrows, HandlerReturns,
     HandlerThrows, EndDrain, ResendFails, OnCloseReturns, vars, fieldVars, userVars, loopVars

\* RInv holds in every reachable state.
LEMMA RInvariance == Spec => []RInv
<1>1. Init => WaitersSuspended
  BY DEF Init, WaitersSuspended
<1>2. QED
  BY <1>1, WaitersStep, Invariance, BacklogBounded, PTL DEF Spec, RInv

-----------------------------------------------------------------------------

\* What waits to start is the batch and the queue.
LEMMA WaitingLength ==
  ASSUME IInv
  PROVE  /\ Len(accepted) = Len(executed) + Len(batch) + Len(queue)
         /\ Len(executed) \in Nat /\ Len(batch) \in Nat /\ Len(queue) \in Nat
<1>1. /\ executed \in Seq(Work) /\ batch \in Seq(Work) /\ queue \in Seq(Work)
      /\ accepted = executed \o batch \o queue
  BY DEF IInv, TypeOK, ExactlyOnceInOrder
<1>2. Len(executed) \in Nat /\ Len(batch) \in Nat /\ Len(queue) \in Nat
  BY <1>1
<1>3. executed \o batch \in Seq(Work) /\ Len(executed \o batch) = Len(executed) + Len(batch)
  BY <1>1
<1>4. Len((executed \o batch) \o queue) = Len(executed \o batch) + Len(queue)
  BY <1>1, <1>3
<1>5. QED
  BY <1>1, <1>2, <1>3, <1>4

\* A step that starts a callable starts the oldest accepted one not started yet.
LEMMA StartsOldest ==
  ASSUME IInv, IInv', accepted' = accepted, NEW w \in Work, executed' = Append(executed, w)
  PROVE  /\ Len(executed) < Len(accepted)
         /\ executed' = Append(executed, accepted[Len(executed) + 1])
<1>1. /\ executed \in Seq(Work) /\ Len(executed) \in Nat
      /\ executed' \in Seq(Work) /\ batch' \in Seq(Work) /\ queue' \in Seq(Work)
      /\ accepted = executed' \o batch' \o queue'
  BY DEF IInv, TypeOK, ExactlyOnceInOrder
<1>2. PICK rest \in Seq(Work) : accepted = executed' \o rest
  <2>1. batch' \o queue' \in Seq(Work)
    BY <1>1
  <2>2. (executed' \o batch') \o queue' = executed' \o (batch' \o queue')
    <3>1. executed' \in Seq(Work) /\ batch' \in Seq(Work) /\ queue' \in Seq(Work)
      BY <1>1
    <3>2. QED
      BY <3>1, SMTT(60)
  <2>3. QED
    BY <1>1, <2>1, <2>2, ZenonT(60)
<1>3. Len(executed') = Len(executed) + 1 /\ executed'[Len(executed) + 1] = w
  BY <1>1
<1>4. /\ Len(rest) \in Nat /\ Len(accepted) = Len(executed') + Len(rest)
      /\ \A i \in 1..Len(executed') : accepted[i] = executed'[i]
  <2>1. Len(rest) \in Nat
    BY <1>2
  <2>2. QED
    BY <1>1, <1>2, <1>3, <2>1
<1>5. accepted[Len(executed) + 1] = w
  BY <1>1, <1>3, <1>4
<1>6. QED
  BY <1>1, <1>3, <1>4, <1>5

-----------------------------------------------------------------------------
(* Each step of the component is one of the abstract queue or a stutter.   *)

\* post: acceptance within the promised bound, or nothing the user sees.
LEMMA PostRefines ==
  ASSUME RInv, NEW p \in Producers, Post(p)
  PROVE  [Promise!QueueNext]_(Promise!qvars)
<1>1. PICK w \in Work : w = <<p, attempts[p] + 1>>
  <2>1. attempts[p] + 1 \in 1..MaxPosts
    BY PostingAssumption DEF RInv, IInv, TypeOK, Post
  <2>2. QED
    BY <2>1, ZenonT(60) DEF Work
<1>2. UNCHANGED <<phase, terminated, waiter, executed>> /\ ~terminated
  BY DEF Post, CanRun
<1>3. CASE Admits /\ accepted' = Append(accepted, w)
  <2>1. Len(accepted) - Len(executed) < Capacity + BatchLimit - 1
    <3>1. /\ Len(accepted) = Len(executed) + Len(batch) + Len(queue)
          /\ Len(executed) \in Nat /\ Len(batch) \in Nat /\ Len(queue) \in Nat
      BY WaitingLength DEF RInv
    <3>2. /\ Len(queue) <= Capacity /\ Len(queue) # Capacity
          /\ Len(batch) < BatchLimit /\ BatchLimit \in Nat
      BY <1>3, PostingAssumption DEF RInv, BoundedBacklog, BatchLimit, Admits
    <3>3. QED
      BY <3>1, <3>2, PostingAssumption
  <2>2. Promise!Accept(w)
    BY <1>2, <1>3, <2>1 DEF Promise!Accept, Admits
  <2>3. QED
    BY <2>2 DEF Promise!QueueNext
<1>4. CASE accepted' = accepted
  BY <1>2, <1>4 DEF Promise!qvars
<1>5. QED
  BY <1>1, <1>3, <1>4 DEF Post

\* The first step of a drain and the end of a callable or of the handler start at
\* most one more callable.
LEMMA RunRefines ==
  ASSUME RInv, IInv', BeginDrain \/ CallableReturns \/ HandlerReturns
  PROVE  [Promise!QueueNext]_(Promise!qvars)
<1>1. UNCHANGED <<phase, terminated, waiter, accepted>> /\ ~terminated
  BY DEF BeginDrain, CallableReturns, HandlerReturns, fieldVars, userVars
<1>2. PICK rest \in Seq(Work) : NextCallable(rest)
  <2>1. CASE BeginDrain
    <3>1. SubSeq(queue, 1, Extracted) \in Seq(Work)
      BY ExtractedRange, SplitQueue DEF RInv, IInv, TypeOK
    <3>2. QED
      BY <2>1, <3>1, ZenonT(60) DEF BeginDrain
  <2>2. CASE CallableReturns \/ HandlerReturns
    BY <2>2 DEF CallableReturns, HandlerReturns, RInv, IInv, TypeOK
  <2>3. QED
    BY <2>1, <2>2
<1>3. CASE rest = <<>>
  <2>1. executed' = executed
    BY <1>2, <1>3 DEF NextCallable
  <2>2. QED
    BY <1>1, <2>1 DEF Promise!qvars
<1>4. CASE rest # <<>>
  <2>1. Head(rest) \in Work /\ executed' = Append(executed, Head(rest))
    BY <1>2, <1>4 DEF NextCallable
  <2>2. /\ Len(executed) < Len(accepted)
        /\ executed' = Append(executed, accepted[Len(executed) + 1])
    BY <1>1, <2>1, StartsOldest DEF RInv
  <2>3. Promise!Execute
    BY <1>1, <2>2 DEF Promise!Execute
  <2>4. QED
    BY <2>3 DEF Promise!QueueNext
<1>5. QED
  BY <1>3, <1>4

\* request_close seals; close() seals and waits.
LEMMA CloseRefines ==
  ASSUME RInv, RequestClose \/ \E w \in Waiters : AwaitClose(w)
  PROVE  [Promise!QueueNext]_(Promise!qvars)
<1>1. UNCHANGED <<terminated, accepted, executed>> /\ ~terminated
  BY DEF RequestClose, AwaitClose, OwnerUsable, userVars, historyVars
<1>2. ASSUME RequestCloseLocked
      PROVE  phase' # "open" /\ (phase' = "closed" <=> phase = "closed")
  BY <1>2 DEF RequestCloseLocked, BeginCloseIfDrained, Sealed
<1>3. CASE RequestClose
  <2>1. RequestCloseLocked /\ waiter' = waiter
    BY <1>3 DEF RequestClose, userVars
  <2>2. CASE phase = "open"
    <3>1. Promise!Seal
      BY <1>1, <1>2, <2>1, <2>2 DEF Promise!Seal
    <3>2. QED
      BY <3>1 DEF Promise!QueueNext
  <2>3. CASE phase # "open"
    BY <1>1, <1>2, <2>1, <2>3 DEF Promise!qvars
  <2>4. QED
    BY <2>2, <2>3
<1>4. ASSUME NEW w \in Waiters, AwaitClose(w) PROVE Promise!Wait(w)
  <2>1. CASE phase = "closed"
    BY <1>1, <1>4, <2>1 DEF AwaitClose, Promise!Wait
  <2>2. CASE phase # "closed"
    <3>1. RequestCloseLocked
      BY <1>4, <2>2 DEF AwaitClose
    <3>2. QED
      BY <1>1, <1>2, <1>4, <2>2, <3>1 DEF AwaitClose, Promise!Wait
  <2>3. QED
    BY <2>1, <2>2
<1>5. QED
  BY <1>3, <1>4 DEF Promise!QueueNext

\* on_close closes the queue, then wakes the waiters one by one.
LEMMA OnCloseRefines ==
  ASSUME RInv, OnClose \/ ResumeWaiter
  PROVE  [Promise!QueueNext]_(Promise!qvars)
<1>1. UNCHANGED <<terminated, accepted, executed>> /\ ~terminated
  BY DEF OnClose, ResumeWaiter, userVars, historyVars
<1>2. CASE OnClose
  <2>1. /\ phase = "closing" /\ phase' = "closed" /\ waiter' = waiter
    BY <1>2 DEF OnClose, userVars, RInv, IInv, HandleFollowsPhase
  <2>2. executed = accepted
    <3>1. queue = <<>> /\ batch = <<>>
      BY <1>2, <2>1 DEF OnClose, RInv, IInv, HandleFollowsPhase, DrainLocals
    <3>2. executed \in Seq(Work) /\ accepted = executed \o <<>> \o <<>>
      BY <3>1 DEF RInv, IInv, TypeOK, ExactlyOnceInOrder
    <3>3. executed \o <<>> = executed
      BY <3>2
    <3>4. QED
      BY <3>2, <3>3
  <2>3. Promise!Close
    BY <1>1, <2>1, <2>2 DEF Promise!Close
  <2>4. QED
    BY <2>3 DEF Promise!QueueNext
<1>3. CASE ResumeWaiter
  <2>1. PICK w \in Waiters : w = Head(resuming) /\ waiter[w] # "none"
    <3>1. resuming \in Seq(Waiters) /\ resuming # <<>>
      BY <1>3 DEF ResumeWaiter, RInv, IInv, TypeOK
    <3>2. Len(resuming) \in Nat \ {0} /\ Head(resuming) = resuming[1] /\ Head(resuming) \in Waiters
      BY <3>1
    <3>3. waiter[resuming[1]] # "none"
      BY <3>2 DEF RInv, WaitersSuspended
    <3>4. QED
      BY <3>2, <3>3
  <2>2. /\ waiter' = [waiter EXCEPT ![w] = "resumed"] /\ phase = "closed" /\ phase' = phase
        /\ waiter \in [Waiters -> {"none", "suspended", "resumed"}]
    BY <1>3, <2>1 DEF ResumeWaiter, fieldVars, RInv, IInv, TypeOK, DrainLocals
  <2>3. CASE waiter[w] = "suspended"
    <3>1. Promise!Wake(w)
      BY <1>1, <2>2, <2>3 DEF Promise!Wake
    <3>2. QED
      BY <3>1 DEF Promise!QueueNext
  <2>4. CASE waiter[w] = "resumed"
    <3>1. waiter' = waiter
      BY <2>2, <2>4
    <3>2. QED
      BY <1>1, <2>2, <3>1 DEF Promise!qvars
  <2>5. QED
    BY <2>1, <2>2, <2>3, <2>4
<1>4. QED
  BY <1>2, <1>3

\* A failure nobody handles, or a failed resend, halts the program; every other step is hidden.
LEMMA OtherRefines ==
  ASSUME RInv,
         \/ CallableThrows \/ HandlerThrows \/ EndDrain \/ ResendFails \/ DestroyOwner \/ Wakeup
         \/ LateDrain \/ OnCloseReturns \/ (\E h \in HandlerOrNone : SetFailureHandler(h)) \/ UNCHANGED vars
  PROVE  [Promise!QueueNext]_(Promise!qvars)
<1>1. UNCHANGED <<accepted, executed, waiter>>
  BY DEF CallableThrows, HandlerThrows, EndDrain, ResendFails, DestroyOwner, Wakeup, LateDrain,
         OnCloseReturns, SetFailureHandler, vars, userVars, historyVars
<1>2. phase' = phase \/ (phase = "draining" /\ phase' = "closing")
  BY DEF CallableThrows, HandlerThrows, EndDrain, ResendFails, BeginCloseIfDrained, DestroyOwner, Wakeup,
         LateDrain, OnCloseReturns, SetFailureHandler, vars, fieldVars
<1>3. terminated' = terminated \/ (~terminated /\ terminated' = TRUE)
  BY DEF CallableThrows, HandlerThrows, EndDrain, ResendFails, DestroyOwner, Wakeup, LateDrain,
         OnCloseReturns, SetFailureHandler, vars, userVars
<1>4. CASE terminated' = terminated
  BY <1>1, <1>2, <1>4 DEF Promise!qvars
<1>5. CASE ~terminated /\ terminated' = TRUE
  <2>1. Promise!Halt
    BY <1>1, <1>2, <1>5 DEF Promise!Halt
  <2>2. QED
    BY <2>1 DEF Promise!QueueNext
<1>6. QED
  BY <1>3, <1>4, <1>5, ZenonT(60)

\* Every behaviour of the component, fair or not, is one of the bounded FIFO that
\* seals, drains, closes and only then wakes its waiters.
THEOREM Implements == Spec => KeepsPromise
<1>1. Init => Promise!QueueInit
  BY DEF Init, Promise!QueueInit
<1>2. RInv /\ RInv' /\ [Next]_vars => [Promise!QueueNext]_(Promise!qvars)
  <2>1. SUFFICES ASSUME RInv, IInv', [Next]_vars
                 PROVE  [Promise!QueueNext]_(Promise!qvars)
    BY DEF RInv
  <2>2. QED
    BY <2>1, PostRefines, RunRefines, CloseRefines, OnCloseRefines, OtherRefines DEF Next
<1>3. QED
  BY <1>1, <1>2, RInvariance, PTL DEF Spec, KeepsPromise, Promise!QueueSafety

=============================================================================
