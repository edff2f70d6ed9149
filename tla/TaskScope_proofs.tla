-------------------------- MODULE TaskScope_proofs --------------------------
(***************************************************************************)
(* Proofs about TaskScope for every finite set of children and every       *)
(* number of awaits: a frame is never destroyed while it is in use, a stop *)
(* reaches exactly the tasks it must, and join() has the outcome it        *)
(* promises.                                                               *)
(***************************************************************************)
EXTENDS TaskScope, StackLemmas

\* Time limits of the backends, in seconds.
USE SMTT(60), ZenonT(60)

\* The children that have started and not completed, and those whose
\* child_completed is on the call stack.
Active == {c \in Children : task[c] \in {"running", "suspended"}}
Finishing == {c \in Children : InCompletion(c) \in On(stack)}

\* Where the parent's body was entered above a child_completed, a child's body is
\* between them: nobody else can resume the parent there before the scope is empty.
Shielded(s) ==
  \A i, j \in 1..Len(s) :
    i < j /\ s[i] = Run(Parent) /\ (\E d \in Children : s[j] = InCompletion(d)) =>
      \E k \in i..j : \E c \in Children : s[k] = Run(c)

\* What is on the call stack follows from the state of the tasks, and is there once.
StackInv ==
  /\ IsInjective(stack)
  /\ Shielded(stack)
  /\ \A c \in Children : Run(c) \in On(stack) => task[c] = "running"
  /\ \A c \in Children : InCompletion(c) \in On(stack) => task[c] = "completed"
  /\ Run(Parent) \in On(stack) => parent \in {"working", "joined"}
  /\ Stopping \in On(stack) => stop_requested

\* The two counters count.
CountInv ==
  /\ active_children = Cardinality(Active)
  /\ completion_depth = Cardinality(Finishing)

\* A suspended child is in an operation, and on the list exactly when that is a
\* cancellable one that has not ended.
WaitInv ==
  /\ \A c \in Children : op[c] # "none" <=> task[c] = "suspended"
  /\ IsInjective(registrations)
  /\ \A c \in Children : c \in On(registrations) <=>
       task[c] = "suspended" /\ op[c] \in {"inline", "closing"}

ParentInv ==
  /\ op[Parent] # "none" <=> parent = "away"
  /\ join_continuation <=> parent = "joining"
  /\ join_started <=> parent \in {"joining", "joined"}

\* Frames are destroyed by the join, and then no child is left that could run.
JoinedInv ==
  /\ \A c \in Children : parent = "joined" => task[c] \in {"cold", "destroyed"}
  /\ \A c \in Children : task[c] = "destroyed" => parent = "joined"
  /\ FirstFailureWins

SInv == TypeOK /\ StackInv /\ CountInv /\ WaitInv /\ ParentInv /\ JoinedInv

-----------------------------------------------------------------------------
(* The call stack.                                                         *)

\* Frames of different kinds or of different tasks differ.
LEMMA FrameFacts ==
  /\ \A t, u : Run(t) = Run(u) <=> t = u
  /\ \A t, u : InCompletion(t) = InCompletion(u) <=> t = u
  /\ \A t, u : Run(t) # InCompletion(u)
  /\ \A t : Run(t) # Stopping /\ InCompletion(t) # Stopping
  /\ \A t \in Tasks : Run(t) \in Frames
  /\ \A c \in Children : InCompletion(c) \in Frames
  /\ Stopping \in Frames
  /\ \A f \in Frames : \/ \E t \in Tasks : f = Run(t)
                       \/ \E c \in Children : f = InCompletion(c)
                       \/ f = Stopping
BY DEF Run, InCompletion, Stopping, Frames

\* What the assumption on the constants says of the tasks.
LEMMA TaskFacts ==
  /\ Children \subseteq Tasks /\ Parent \in Tasks /\ Parent \notin Children
  /\ \A t \in Tasks : t = Parent \/ t \in Children
  /\ IsFiniteSet(Children) /\ MaxAwaits \in Nat
BY ScopeAssumption DEF Tasks

\* Leaving a frame keeps the stack shielded.
LEMMA PopShielded ==
  ASSUME NEW s \in Seq(Frames), s # <<>>, Shielded(s)
  PROVE  Shielded(Tail(s))
<1> DEFINE t == Tail(s)
<1>1. /\ Len(s) \in Nat \ {0} /\ Len(t) = Len(s) - 1
      /\ \A i \in 1..Len(t) : t[i] = s[i + 1]
  BY PopFacts
<1> HIDE DEF t
<1>2. SUFFICES ASSUME NEW i \in 1..Len(t), NEW j \in 1..Len(t), i < j, t[i] = Run(Parent),
                      NEW d \in Children, t[j] = InCompletion(d)
               PROVE  \E k \in i..j : \E c \in Children : t[k] = Run(c)
  BY DEF Shielded, t
<1>3. i + 1 \in 1..Len(s) /\ j + 1 \in 1..Len(s) /\ i + 1 < j + 1
  BY <1>1, <1>2
<1>4. s[i + 1] = Run(Parent) /\ s[j + 1] = InCompletion(d)
  BY <1>1, <1>2
<1>5. PICK k \in (i + 1)..(j + 1) : \E c \in Children : s[k] = Run(c)
  BY <1>3, <1>4 DEF Shielded
<1>6. k - 1 \in i..j /\ k - 1 \in 1..Len(t) /\ (k - 1) + 1 = k
  BY <1>1, <1>5
<1>7. t[k - 1] = s[k]
  BY <1>1, <1>6
<1>8. QED
  BY <1>5, <1>6, <1>7

\* So does entering one, unless the parent is entered above a child_completed with
\* no child's body on top.
LEMMA PushShielded ==
  ASSUME NEW s \in Seq(Frames), Shielded(s), NEW f \in Frames,
         \/ f # Run(Parent)
         \/ s # <<>> /\ \E c \in Children : Head(s) = Run(c)
         \/ \A d \in Children : InCompletion(d) \notin On(s)
  PROVE  Shielded(<<f>> \o s)
<1> DEFINE p == <<f>> \o s
<1>1. /\ Len(s) \in Nat /\ Len(p) = Len(s) + 1 /\ p[1] = f
      /\ \A i \in 1..Len(s) : p[i + 1] = s[i]
  BY PushFacts
<1> HIDE DEF p
<1>2. SUFFICES ASSUME NEW i \in 1..Len(p), NEW j \in 1..Len(p), i < j, p[i] = Run(Parent),
                      NEW d \in Children, p[j] = InCompletion(d)
               PROVE  \E k \in i..j : \E c \in Children : p[k] = Run(c)
  BY DEF Shielded, p
<1>3. j - 1 \in 1..Len(s) /\ (j - 1) + 1 = j
  BY <1>1, <1>2
<1>4. s[j - 1] = InCompletion(d)
  BY <1>1, <1>2, <1>3
<1>5. CASE i # 1
  <2>1. i - 1 \in 1..Len(s) /\ (i - 1) + 1 = i /\ i - 1 < j - 1
    BY <1>1, <1>2, <1>3, <1>5
  <2>2. s[i - 1] = Run(Parent)
    BY <1>1, <1>2, <2>1
  <2>3. PICK k \in (i - 1)..(j - 1) : \E c \in Children : s[k] = Run(c)
    BY <1>3, <1>4, <2>1, <2>2 DEF Shielded
  <2>4. k + 1 \in i..j /\ k \in 1..Len(s)
    BY <1>1, <1>3, <2>1, <2>3
  <2>5. p[k + 1] = s[k]
    BY <1>1, <2>4
  <2>6. QED
    BY <2>3, <2>4, <2>5
<1>6. CASE i = 1
  <2>1. f = Run(Parent)
    BY <1>1, <1>2, <1>6
  <2>2. InCompletion(d) \in On(s)
    BY <1>3, <1>4 DEF On
  <2>3. s # <<>> /\ \E c \in Children : Head(s) = Run(c)
    BY <2>1, <2>2
  <2>4. Head(s) = s[1] /\ Len(s) \in Nat \ {0}
    BY <2>3, PopFacts
  <2>5. 1 \in 1..Len(s) /\ 1 + 1 = 2 /\ 2 \in i..j
    BY <1>2, <1>6, <2>4
  <2>6. p[2] = s[1]
    BY <1>1, <2>5
  <2>7. QED
    BY <2>3, <2>4, <2>5, <2>6
<1>7. QED
  BY <1>5, <1>6

\* A call stack as the invariant wants it.
Good(s) == s \in Seq(Frames) /\ IsInjective(s) /\ Shielded(s)

\* Entering and leaving a frame keep it.
LEMMA PushGood ==
  ASSUME NEW s, Good(s), NEW f \in Frames, f \notin On(s),
         \/ f # Run(Parent)
         \/ s # <<>> /\ \E c \in Children : Head(s) = Run(c)
         \/ \A d \in Children : InCompletion(d) \notin On(s)
  PROVE  Good(<<f>> \o s) /\ On(<<f>> \o s) = On(s) \cup {f}
<1>1. s \in Seq(Frames) /\ IsInjective(s) /\ Shielded(s)
  BY DEF Good
<1>2. <<f>> \o s \in Seq(Frames) /\ On(<<f>> \o s) = On(s) \cup {f}
  BY <1>1, PushFacts
<1>3. IsInjective(<<f>> \o s)
  BY <1>1, PushInjective
<1>4. Shielded(<<f>> \o s)
  BY <1>1, PushShielded
<1>5. QED
  BY <1>2, <1>3, <1>4 DEF Good

LEMMA PopGood ==
  ASSUME NEW s, Good(s), s # <<>>
  PROVE  /\ Good(Tail(s)) /\ On(Tail(s)) = On(s) \ {Head(s)}
         /\ Head(s) \in On(s) /\ Head(s) \in Frames
<1>1. s \in Seq(Frames) /\ IsInjective(s) /\ Shielded(s)
  BY DEF Good
<1>2. QED
  BY <1>1, PopFacts, PopShielded DEF Good

-----------------------------------------------------------------------------
(* Counting.                                                               *)

\* What the proof has to know about finite sets; it is proved at the end.
Counts ==
  /\ Cardinality(Children) \in Nat
  /\ \A A \in SUBSET Children :
       /\ Cardinality(A) \in 0..Cardinality(Children)
       /\ Cardinality(A) = 0 <=> A = {}
       /\ \A c \in Children \ A : Cardinality(A \cup {c}) = Cardinality(A) + 1
       /\ \A c \in A : Cardinality(A \ {c}) = Cardinality(A) - 1

\* Counts for one set of children.
LEMMA CountFacts ==
  ASSUME Counts, NEW A \in SUBSET Children
  PROVE  /\ Cardinality(A) \in 0..Cardinality(Children)
         /\ Cardinality(A) = 0 <=> A = {}
         /\ \A c \in Children \ A : Cardinality(A \cup {c}) = Cardinality(A) + 1
         /\ \A c \in A : Cardinality(A \ {c}) = Cardinality(A) - 1
BY ZenonT(60) DEF Counts

\* Recording one more failure keeps the first.
LEMMA AppendFacts ==
  ASSUME NEW s \in Seq(Children), NEW c \in Children
  PROVE  /\ Append(s, c) \in Seq(Children) /\ Append(s, c) # <<>>
         /\ Head(Append(s, c)) = IF s = <<>> THEN c ELSE Head(s)
         /\ s # <<>> => Head(s) \in Children
<1> DEFINE a == Append(s, c)
<1>1. /\ a \in Seq(Children) /\ Len(a) = Len(s) + 1 /\ Len(s) \in Nat
      /\ a[Len(s) + 1] = c /\ \A i \in 1..Len(s) : a[i] = s[i]
  OBVIOUS
<1> HIDE DEF a
<1>2. a # <<>>
  BY <1>1
<1>3. Head(a) = a[1]
  BY <1>1, <1>2, PopFacts
<1>4. CASE s = <<>>
  <2>1. Len(s) = 0
    BY <1>4
  <2>2. QED
    BY <1>1, <1>2, <1>3, <1>4, <2>1 DEF a
<1>5. CASE s # <<>>
  <2>1. Len(s) \in Nat \ {0} /\ Head(s) = s[1] /\ Head(s) \in Children
    BY <1>5, PopFacts
  <2>2. 1 \in 1..Len(s)
    BY <2>1
  <2>3. QED
    BY <1>1, <1>2, <1>3, <1>5, <2>1, <2>2 DEF a
<1>6. QED
  BY <1>4, <1>5

-----------------------------------------------------------------------------
(* The invariant holds initially and every step keeps it.                  *)

\* spawn enters the child and counts it.
LEMMA SpawnKeeps ==
  ASSUME Counts, SInv, NEW t \in Tasks, NEW c \in Children, Spawn(t, c)
  PROVE  SInv'
<1> USE TaskFacts
<1>1. Good(stack) /\ Run(c) \notin On(stack) /\ Run(c) \in Frames /\ Run(c) # Run(Parent)
  BY FrameFacts DEF SInv, TypeOK, StackInv, Good, Spawn
<1>2. Good(stack') /\ On(stack') = On(stack) \cup {Run(c)}
  BY <1>1, PushGood DEF Spawn
<1>3. Active' = Active \cup {c} /\ c \notin Active /\ Active \in SUBSET Children
  BY DEF SInv, TypeOK, Active, Spawn
<1>4. Finishing' = Finishing
  BY <1>2, FrameFacts DEF Finishing
<1>5. Cardinality(Active \cup {c}) = Cardinality(Active) + 1
  BY <1>3, CountFacts
<1>6. Active' \in SUBSET Children
  BY <1>3
<1>7. Cardinality(Active') \in 0..Cardinality(Children)
  BY <1>6, CountFacts
<1>8. CountInv'
  BY <1>3, <1>4, <1>5 DEF SInv, CountInv, Spawn, ActiveAfterSpawn
<1>9. TypeOK'
  BY <1>2, <1>7, <1>8 DEF SInv, TypeOK, Spawn, Good, CountInv, historyVars
<1>10. StackInv'
  <2>1. \A d \in Children : task'[d] = IF d = c THEN "running" ELSE task[d]
    BY DEF SInv, TypeOK, Spawn
  <2>2. ASSUME NEW d \in Children
        PROVE  /\ Run(d) \in On(stack)' => task'[d] = "running"
               /\ InCompletion(d) \in On(stack)' => task'[d] = "completed"
    <3>1. InCompletion(d) # Run(c) /\ (Run(d) = Run(c) => d = c)
      BY FrameFacts
    <3>2. task[c] = "cold"
      BY DEF Spawn
    <3>3. InCompletion(d) \in On(stack)' => task[d] = "completed"
      BY <1>2, <3>1 DEF SInv, StackInv
    <3>4. Run(d) \in On(stack)' => d = c \/ task[d] = "running"
      BY <1>2, <3>1 DEF SInv, StackInv
    <3>5. QED
      BY <2>1, <3>2, <3>3, <3>4
  <2>3. Run(Parent) \in On(stack)' => parent' \in {"working", "joined"}
    BY <1>1, <1>2 DEF SInv, StackInv, Spawn
  <2>4. Stopping \in On(stack)' => stop_requested'
    BY <1>2, FrameFacts, ZenonT(60) DEF SInv, StackInv, Spawn
  <2>5. QED
    BY <1>2, <2>2, <2>3, <2>4 DEF StackInv, Good
<1>11. WaitInv'
  BY DEF SInv, TypeOK, WaitInv, Spawn
<1>12. ParentInv' /\ JoinedInv'
  BY DEF SInv, TypeOK, ParentInv, JoinedInv, FirstFailureWins, Spawn, historyVars
<1>13. QED
  BY <1>8, <1>9, <1>10, <1>11, <1>12 DEF SInv

\* A step that leaves the calls, the tasks, the lists and the join alone.
LEMMA RestKeeps ==
  ASSUME SInv, UNCHANGED <<stack, task, op, registrations, stop_requested, active_children,
                           completion_depth, first_failure, join_started, join_continuation,
                           parent, rethrown, failures>>,
         awaits' \in [Tasks -> 0..MaxAwaits], scope' \in BOOLEAN
  PROVE  SInv'
<1>1. TypeOK'
  BY DEF SInv, TypeOK
<1>2. StackInv' /\ CountInv' /\ WaitInv' /\ ParentInv' /\ JoinedInv'
  BY DEF SInv, StackInv, CountInv, WaitInv, ParentInv, JoinedInv, FirstFailureWins, Active, Finishing
<1>3. QED
  BY <1>1, <1>2 DEF SInv

\* A running child suspends in an operation; a cancellable one is registered.
LEMMA SuspendKeeps ==
  ASSUME SInv, NEW c \in Children, NEW kind \in {"inline", "closing", "ended", "opaque"},
         op' = [op EXCEPT ![c] = kind], task' = [task EXCEPT ![c] = "suspended"],
         registrations' = IF kind \in {"inline", "closing"} THEN <<c>> \o registrations
                                                           ELSE registrations,
         stack # <<>>, Head(stack) = Run(c), stack' = Tail(stack),
         awaits' \in [Tasks -> 0..MaxAwaits],
         UNCHANGED <<stop_requested, active_children, completion_depth, first_failure,
                     join_started, join_continuation, parent, scope, rethrown, failures>>
  PROVE  SInv'
<1> USE TaskFacts
<1>1. Good(stack)
  BY DEF SInv, TypeOK, StackInv, Good
<1>2. Good(stack') /\ On(stack') = On(stack) \ {Run(c)} /\ Run(c) \in On(stack)
  BY <1>1, PopGood
<1>3. task[c] = "running" /\ parent # "joined" /\ c \notin On(registrations)
  BY <1>2 DEF SInv, StackInv, WaitInv, JoinedInv, FirstFailureWins
<1>4. /\ \A d \in Children : task'[d] = IF d = c THEN "suspended" ELSE task[d]
      /\ \A d \in Children : op'[d] = IF d = c THEN kind ELSE op[d]
      /\ op'[Parent] = op[Parent]
  BY DEF SInv, TypeOK
<1>5. Active' = Active /\ Finishing' = Finishing
  BY <1>2, <1>3, <1>4, FrameFacts DEF Active, Finishing
<1>6. CountInv'
  BY <1>5 DEF SInv, CountInv
<1>7. /\ registrations' \in Seq(Children) /\ IsInjective(registrations')
      /\ On(registrations') = IF kind \in {"inline", "closing"} THEN On(registrations) \cup {c}
                                                                ELSE On(registrations)
  <2>1. registrations \in Seq(Children) /\ IsInjective(registrations)
    BY DEF SInv, TypeOK, WaitInv
  <2>2. CASE kind \notin {"inline", "closing"}
    BY <2>1, <2>2
  <2>3. CASE kind \in {"inline", "closing"}
    BY <1>3, <2>1, <2>3, PushFacts, PushInjective
  <2>4. QED
    BY <2>2, <2>3, ZenonT(60)
<1>8. TypeOK'
  <2>1. /\ stack' \in Seq(Frames)
        /\ task' \in [Children -> {"cold", "running", "suspended", "completed", "destroyed"}]
        /\ op' \in [Tasks -> {"none", "inline", "closing", "ended", "opaque"}]
    BY <1>2 DEF SInv, TypeOK, Good
  <2>2. registrations' \in Seq(Children)
    BY <1>7
  <2>3. QED
    BY <2>1, <2>2 DEF SInv, TypeOK
<1>9. WaitInv'
  <2>1. \A d \in Children : op'[d] # "none" <=> task'[d] = "suspended"
    BY <1>4 DEF SInv, WaitInv
  <2>2. \A d \in Children : d \in On(registrations)' <=>
          task'[d] = "suspended" /\ op'[d] \in {"inline", "closing"}
    <3>1. TAKE d \in Children
    <3>2. CASE d = c
      <4>1. task'[c] = "suspended" /\ op'[c] = kind
        BY <1>4
      <4>2. c \in On(registrations') <=> kind \in {"inline", "closing"}
        BY <1>3, <1>7
      <4>3. QED
        BY <3>2, <4>1, <4>2, ZenonT(60)
    <3>3. CASE d # c
      BY <1>4, <1>7, <3>3 DEF SInv, WaitInv
    <3>4. QED
      BY <3>2, <3>3
  <2>3. IsInjective(registrations')
    BY <1>7
  <2>4. QED
    BY <2>1, <2>2, <2>3, ZenonT(60) DEF WaitInv
<1>10. StackInv'
  <2>1. \A d \in Children : Run(d) \in On(stack)' => task'[d] = "running"
    BY <1>2, <1>4, FrameFacts DEF SInv, StackInv
  <2>2. \A d \in Children : InCompletion(d) \in On(stack)' => task'[d] = "completed"
    BY <1>2, <1>3, <1>4 DEF SInv, StackInv
  <2>3. Run(Parent) \in On(stack)' => parent' \in {"working", "joined"}
    BY <1>2 DEF SInv, StackInv
  <2>4. Stopping \in On(stack)' => stop_requested'
    BY <1>2, ZenonT(60) DEF SInv, StackInv
  <2>5. QED
    BY <1>2, <2>1, <2>2, <2>3, <2>4 DEF StackInv, Good
<1>11. ParentInv'
  BY <1>4 DEF SInv, ParentInv
<1>12. JoinedInv'
  BY <1>3, <1>4 DEF SInv, JoinedInv, FirstFailureWins
<1>13. QED
  BY <1>6, <1>8, <1>9, <1>10, <1>11, <1>12 DEF SInv

\* An await suspends the child, or ends at once.
LEMMA AwaitKeeps ==
  ASSUME SInv, NEW c \in Children,
         \/ \E kind \in {"inline", "closing", "opaque"} : Await(c, kind)
         \/ AwaitFails(c)
  PROVE  SInv'
<1> USE TaskFacts
<1>1. /\ awaits' = [awaits EXCEPT ![c] = @ + 1] /\ awaits[c] < MaxAwaits
      /\ stack # <<>> /\ Head(stack) = Run(c)
  BY DEF Await, AwaitFails, Running, Top
<1>2. awaits' \in [Tasks -> 0..MaxAwaits]
  BY <1>1, ScopeAssumption DEF SInv, TypeOK
<1>3. ASSUME NEW kind \in {"inline", "closing", "opaque"}, Await(c, kind) PROVE SInv'
  <2>1. UNCHANGED <<stop_requested, active_children, completion_depth, first_failure,
                    join_started, join_continuation, parent, scope, rethrown, failures>>
    BY <1>3 DEF Await, historyVars
  <2>2. CASE ~(kind = "opaque" \/ CanRegister(stop_requested))
    <3>1. UNCHANGED <<stack, task, op, registrations>>
      BY <1>3, <2>2 DEF Await
    <3>2. QED
      BY <1>2, <2>1, <3>1, RestKeeps DEF SInv, TypeOK
  <2>3. CASE kind = "opaque" \/ CanRegister(stop_requested)
    <3>1. /\ op' = [op EXCEPT ![c] = kind]
          /\ task' = [task EXCEPT ![c] = "suspended"]
          /\ registrations' = IF kind \in {"inline", "closing"} THEN <<c>> \o registrations
                                                                ELSE registrations
          /\ stack' = Tail(stack)
      BY <1>3, <2>3 DEF Await, Registered
    <3>2. QED
      BY <1>1, <1>2, <2>1, <3>1, SuspendKeeps, ZenonT(60)
  <2>4. QED
    BY <2>2, <2>3
<1>4. CASE AwaitFails(c)
  <2>1. UNCHANGED <<registrations, stop_requested, active_children, completion_depth,
                    first_failure, join_started, join_continuation, parent, scope, rethrown,
                    failures>>
    BY <1>4 DEF AwaitFails, scopeVars, historyVars
  <2>2. CASE UNCHANGED <<op, task, stack>>
    BY <1>2, <2>1, <2>2, RestKeeps DEF SInv, TypeOK
  <2>3. CASE /\ op' = [op EXCEPT ![c] = "ended"]
             /\ task' = [task EXCEPT ![c] = "suspended"]
             /\ stack' = Tail(stack)
    <3>1. registrations' = IF "ended" \in {"inline", "closing"} THEN <<c>> \o registrations
                                                               ELSE registrations
      BY <2>1
    <3>2. QED
      BY <1>1, <1>2, <2>1, <2>3, <3>1, SuspendKeeps, ZenonT(60)
  <2>4. QED
    BY <1>4, <2>2, <2>3 DEF AwaitFails
<1>5. QED
  BY <1>3, <1>4

\* The parent waits for something outside the scope.
LEMMA ParentAwaitsKeeps ==
  ASSUME SInv, NEW kind \in {"inline", "opaque"}, ParentAwaits(kind)
  PROVE  SInv'
<1> USE TaskFacts
<1>1. /\ op' = [op EXCEPT ![Parent] = kind]
      /\ parent = "working" /\ parent' = "away"
      /\ stack' = Tail(stack) /\ stack # <<>> /\ Head(stack) = Run(Parent)
      /\ awaits' \in [Tasks -> 0..MaxAwaits]
      /\ UNCHANGED <<task, registrations, stop_requested, active_children, completion_depth,
                     first_failure, join_started, join_continuation, scope, rethrown, failures>>
  <2>1. awaits' = [awaits EXCEPT ![Parent] = @ + 1] /\ awaits[Parent] < MaxAwaits
    BY DEF ParentAwaits
  <2>2. awaits' \in [Tasks -> 0..MaxAwaits]
    BY <2>1, ScopeAssumption DEF SInv, TypeOK
  <2>3. QED
    BY <2>2 DEF ParentAwaits, Running, Top, scopeVars, historyVars
<1>2. Good(stack') /\ On(stack') = On(stack) \ {Run(Parent)}
  BY <1>1, PopGood DEF SInv, TypeOK, StackInv, Good
<1>3. Active' = Active /\ Finishing' = Finishing
  <2>1. Active' = Active
    BY <1>1 DEF Active
  <2>2. \A c \in Children : InCompletion(c) # Run(Parent)
    BY FrameFacts, ZenonT(60)
  <2>3. \A c \in Children : InCompletion(c) \in On(stack') <=> InCompletion(c) \in On(stack)
    BY <1>2, <2>2, ZenonT(60)
  <2>4. Finishing' = Finishing
    BY <2>3, ZenonT(60) DEF Finishing
  <2>5. QED
    BY <2>1, <2>4
<1>4. CountInv'
  BY <1>1, <1>3 DEF SInv, CountInv
<1>5. TypeOK'
  BY <1>1, <1>2 DEF SInv, TypeOK, Good
<1>6. StackInv'
  BY <1>1, <1>2 DEF SInv, StackInv, Good
<1>7. WaitInv'
  BY <1>1 DEF SInv, TypeOK, WaitInv
<1>8. ParentInv' /\ JoinedInv'
  BY <1>1 DEF SInv, TypeOK, ParentInv, JoinedInv, FirstFailureWins
<1>9. QED
  BY <1>4, <1>5, <1>6, <1>7, <1>8 DEF SInv

\* A stop request enters the loop of request_stop.
LEMMA RequestStopKeeps ==
  ASSUME SInv, RequestStop
  PROVE  SInv'
<1> USE TaskFacts
<1>1. /\ ~stop_requested /\ stop_requested' = TRUE /\ stack' = <<Stopping>> \o stack
      /\ UNCHANGED <<task, op, awaits, registrations, active_children, completion_depth,
                     first_failure, join_started, join_continuation, parent, scope,
                     rethrown, failures>>
  BY DEF RequestStop, historyVars
<1>2. Good(stack) /\ Stopping \notin On(stack) /\ Stopping \in Frames /\ Stopping # Run(Parent)
  BY <1>1, FrameFacts DEF SInv, TypeOK, StackInv, Good
<1>3. Good(stack') /\ On(stack') = On(stack) \cup {Stopping}
  BY <1>1, <1>2, PushGood
<1>4. Active' = Active /\ Finishing' = Finishing
  BY <1>1, <1>3, FrameFacts DEF Active, Finishing
<1>5. CountInv'
  BY <1>1, <1>4 DEF SInv, CountInv
<1>6. TypeOK'
  BY <1>1, <1>3 DEF SInv, TypeOK, Good
<1>7. StackInv'
  BY <1>1, <1>3, FrameFacts DEF SInv, StackInv, Good
<1>8. WaitInv' /\ ParentInv' /\ JoinedInv'
  BY <1>1 DEF SInv, WaitInv, ParentInv, JoinedInv, FirstFailureWins
<1>9. QED
  BY <1>5, <1>6, <1>7, <1>8 DEF SInv

\* A task leaves its operation, its registration is gone, and its body is entered.
LEMMA ResumedKeeps ==
  ASSUME SInv, NEW t \in Tasks, op[t] # "none", Resumed(t),
         registrations' \in Seq(Children), IsInjective(registrations'),
         On(registrations') = On(registrations) \ {t},
         t = Parent => stack = <<>> \/ \E c \in Tasks : Running(c),
         UNCHANGED <<awaits, stop_requested, active_children, completion_depth, first_failure,
                     join_started, join_continuation, scope, rethrown, failures>>
  PROVE  SInv'
<1> USE TaskFacts
<1>1. /\ op' = [op EXCEPT ![t] = "none"] /\ stack' = <<Run(t)>> \o stack
      /\ IF t = Parent THEN parent' = "working" /\ task' = task
                       ELSE task' = [task EXCEPT ![t] = "running"] /\ parent' = parent
  BY DEF Resumed
<1>2. /\ t = Parent => parent = "away"
      /\ t # Parent => t \in Children /\ task[t] = "suspended" /\ parent # "joined"
  BY ZenonT(60) DEF SInv, WaitInv, ParentInv, JoinedInv, FirstFailureWins
<1>3. Good(stack) /\ Run(t) \in Frames
  BY FrameFacts DEF SInv, TypeOK, StackInv, Good
<1>4. Run(t) \notin On(stack)
  BY <1>2 DEF SInv, StackInv
<1>5. \/ Run(t) # Run(Parent)
      \/ stack # <<>> /\ \E c \in Children : Head(stack) = Run(c)
      \/ \A d \in Children : InCompletion(d) \notin On(stack)
  <2>1. CASE t # Parent
    BY <2>1, FrameFacts
  <2>2. CASE stack = <<>>
    <3>1. Len(stack) = 0
      BY <2>2
    <3>2. 1..Len(stack) = {}
      BY <3>1
    <3>3. On(stack) = {}
      BY <3>2 DEF On
    <3>4. QED
      BY <3>3
  <2>3. ASSUME t = Parent, NEW c \in Tasks, Running(c)
        PROVE  stack # <<>> /\ \E d \in Children : Head(stack) = Run(d)
    <3>1. stack # <<>> /\ Head(stack) = Run(c)
      BY <2>3 DEF Running, Top
    <3>2. Run(c) \in On(stack)
      BY <1>3, <3>1, PopGood
    <3>3. c # Parent
      BY <1>4, <2>3, <3>2
    <3>4. QED
      BY <3>1, <3>3
  <2>4. QED
    BY <2>1, <2>2, <2>3
<1>6. Good(stack') /\ On(stack') = On(stack) \cup {Run(t)}
  BY <1>1, <1>3, <1>4, <1>5, PushGood
<1>7. Active' = Active /\ Finishing' = Finishing
  <2>1. \A d \in Children : task'[d] = IF d = t THEN "running" ELSE task[d]
    BY <1>1 DEF SInv, TypeOK
  <2>2. Active' = Active
    BY <1>2, <2>1 DEF Active
  <2>3. \A d \in Children : InCompletion(d) # Run(t)
    BY FrameFacts
  <2>4. QED
    BY <1>6, <2>2, <2>3 DEF Finishing
<1>8. CountInv'
  BY <1>7 DEF SInv, CountInv
<1>9. TypeOK'
  BY <1>1, <1>2, <1>6, ZenonT(60) DEF SInv, TypeOK, Good
<1>10. WaitInv'
  <2>1. \A d \in Children : op'[d] # "none" <=> task'[d] = "suspended"
    BY <1>1, <1>2 DEF SInv, TypeOK, WaitInv
  <2>2. \A d \in Children : d \in On(registrations)' <=>
          task'[d] = "suspended" /\ op'[d] \in {"inline", "closing"}
    BY <1>1, <1>2 DEF SInv, TypeOK, WaitInv
  <2>3. QED
    BY <2>1, <2>2 DEF WaitInv
<1>11. StackInv'
  <2>1. \A d \in Children : Run(d) \in On(stack)' => task'[d] = "running"
    <3>1. TAKE d \in Children
    <3>2. CASE d = t
      BY <1>1, <3>2 DEF SInv, TypeOK
    <3>3. CASE d # t
      <4>1. task'[d] = task[d]
        BY <1>1, <3>3 DEF SInv, TypeOK
      <4>2. Run(d) # Run(t)
        BY <3>3, FrameFacts
      <4>3. QED
        BY <1>6, <4>1, <4>2 DEF SInv, StackInv
    <3>4. QED
      BY <3>2, <3>3
  <2>2. \A d \in Children : InCompletion(d) \in On(stack)' => task'[d] = "completed"
    <3>1. TAKE d \in Children
    <3>2. InCompletion(d) # Run(t)
      BY FrameFacts
    <3>3. InCompletion(d) \in On(stack)' => task[d] = "completed"
      BY <1>6, <3>2 DEF SInv, StackInv
    <3>4. task[d] = "completed" => task'[d] = "completed"
      BY <1>1, <1>2 DEF SInv, TypeOK
    <3>5. QED
      BY <3>3, <3>4
  <2>3. Run(Parent) \in On(stack)' => parent' \in {"working", "joined"}
    BY <1>1, <1>6, FrameFacts DEF SInv, StackInv
  <2>4. Stopping \in On(stack)' => stop_requested'
    BY <1>6, FrameFacts, ZenonT(60) DEF SInv, StackInv
  <2>5. QED
    BY <1>6, <2>1, <2>2, <2>3, <2>4 DEF StackInv, Good
<1>12. ParentInv'
  BY <1>1, <1>2 DEF SInv, TypeOK, ParentInv
<1>13. JoinedInv'
  BY <1>1, <1>2 DEF SInv, TypeOK, JoinedInv, FirstFailureWins
<1>14. QED
  BY <1>8, <1>9, <1>10, <1>11, <1>12, <1>13 DEF SInv

\* A closing operation ends and its registration goes; its task waits for the close.
LEMMA EndsKeeps ==
  ASSUME SInv, NEW c \in Children, op[c] = "closing",
         NEW list \in Seq(Children), IsInjective(list),
         On(list) \ {c} = On(registrations) \ {c},
         Finish(c, list),
         UNCHANGED <<stack, task, awaits, stop_requested, active_children, completion_depth,
                     first_failure, join_started, join_continuation, parent, scope,
                     rethrown, failures>>
  PROVE  SInv'
<1> USE TaskFacts
<1>1. op' = [op EXCEPT ![c] = "ended"] /\ registrations' = Unregistered(list, c)
  BY DEF Finish
<1>2. /\ registrations' \in Seq(Children) /\ IsInjective(registrations')
      /\ On(registrations') = On(registrations) \ {c}
  BY <1>1, UnregisterFacts
<1>3. /\ \A d \in Children : op'[d] = IF d = c THEN "ended" ELSE op[d]
      /\ op'[Parent] = op[Parent]
      /\ op' \in [Tasks -> {"none", "inline", "closing", "ended", "opaque"}]
  BY <1>1 DEF SInv, TypeOK
<1>4. TypeOK'
  BY <1>2, <1>3 DEF SInv, TypeOK
<1>5. WaitInv'
  <2>1. \A d \in Children : op'[d] # "none" <=> task'[d] = "suspended"
    BY <1>3 DEF SInv, WaitInv
  <2>2. \A d \in Children : d \in On(registrations)' <=>
          task'[d] = "suspended" /\ op'[d] \in {"inline", "closing"}
    BY <1>2, <1>3 DEF SInv, WaitInv
  <2>3. QED
    BY <1>2, <2>1, <2>2 DEF WaitInv
<1>6. StackInv' /\ CountInv' /\ JoinedInv'
  BY DEF SInv, StackInv, CountInv, JoinedInv, FirstFailureWins, Active, Finishing
<1>7. ParentInv'
  BY <1>3 DEF SInv, ParentInv
<1>8. QED
  BY <1>4, <1>5, <1>6, <1>7 DEF SInv

\* An operation completes, ends on its timeout, or finishes its close.
LEMMA OperationKeeps ==
  ASSUME SInv,
         \/ \E t \in Tasks : OperationCompletes(t)
         \/ \E c \in Children : CloseTrampoline(c) \/ TimerFires(c)
  PROVE  SInv'
<1> USE TaskFacts
<1>1. registrations \in Seq(Children) /\ IsInjective(registrations)
  BY DEF SInv, TypeOK, WaitInv
<1>2. \A t : /\ Unregistered(registrations, t) \in Seq(Children)
             /\ IsInjective(Unregistered(registrations, t))
             /\ On(Unregistered(registrations, t)) = On(registrations) \ {t}
  BY <1>1, UnregisterFacts
<1>3. ASSUME NEW t \in Tasks, OperationCompletes(t) PROVE SInv'
  <2>1. /\ op[t] # "none" /\ Resumed(t) /\ (stack = <<>> \/ \E c \in Tasks : Running(c))
        /\ registrations' = Unregistered(registrations, t)
        /\ UNCHANGED <<awaits, stop_requested, active_children, completion_depth, first_failure,
                       join_started, join_continuation, scope, rethrown, failures>>
    BY <1>3 DEF OperationCompletes, historyVars
  <2>2. QED
    BY <1>2, <2>1, ResumedKeeps
<1>4. ASSUME NEW c \in Children, CloseTrampoline(c) PROVE SInv'
  <2>1. /\ op[c] = "ended" /\ Resumed(c) /\ stack = <<>>
        /\ UNCHANGED <<registrations, awaits, stop_requested, active_children, completion_depth,
                       first_failure, join_started, join_continuation, scope, rethrown, failures>>
    BY <1>4 DEF CloseTrampoline, scopeVars, historyVars
  <2>2. On(registrations') = On(registrations) \ {c}
    BY <2>1 DEF SInv, WaitInv
  <2>3. QED
    BY <1>1, <2>1, <2>2, ResumedKeeps
<1>5. ASSUME NEW c \in Children, TimerFires(c) PROVE SInv'
  BY <1>1, <1>5, EndsKeeps DEF TimerFires, historyVars
<1>6. QED
  BY <1>3, <1>4, <1>5

\* One turn of the stop loop resumes a child or begins its close.
LEMMA StopNextKeeps ==
  ASSUME SInv, StopNext
  PROVE  SInv'
<1> USE TaskFacts
<1> DEFINE c == Head(registrations)
<1>1. registrations \in Seq(Children) /\ IsInjective(registrations) /\ registrations # <<>>
  BY DEF SInv, TypeOK, WaitInv, StopNext
<1>2. /\ c \in On(registrations) /\ c \in Children
      /\ Tail(registrations) \in Seq(Children) /\ IsInjective(Tail(registrations))
      /\ On(Tail(registrations)) = On(registrations) \ {c}
  BY <1>1, PopFacts
<1>3. /\ IF op[c] = "inline"
            THEN registrations' = Tail(registrations) /\ Resumed(c)
            ELSE Finish(c, Tail(registrations)) /\ UNCHANGED <<stack, task, parent>>
      /\ UNCHANGED <<awaits, stop_requested, active_children, completion_depth, first_failure,
                     join_started, join_continuation, scope, rethrown, failures>>
  BY DEF StopNext, HeadRegistration, AfterHead, historyVars
<1> HIDE DEF c
<1>4. CASE op[c] = "inline"
  <2>1. c \in Tasks /\ c # Parent /\ op[c] # "none" /\ Resumed(c)
    BY <1>2, <1>3, <1>4
  <2>2. QED
    BY <1>2, <1>3, <1>4, <2>1, ResumedKeeps, ZenonT(60)
<1>5. CASE op[c] # "inline"
  <2>1. op[c] = "closing"
    BY <1>2, <1>5 DEF SInv, WaitInv
  <2>2. On(Tail(registrations)) \ {c} = On(registrations) \ {c}
    BY <1>2
  <2>3. QED
    BY <1>2, <1>3, <1>5, <2>1, <2>2, EndsKeeps, ZenonT(60)
<1>6. QED
  BY <1>4, <1>5

\* Leaving request_stop's loop, or the parent's body for good.
LEMMA LeaveKeeps ==
  ASSUME SInv, StopReturns \/ ParentReturns
  PROVE  SInv'
<1> USE TaskFacts
<1>1. /\ stack # <<>> /\ Head(stack) \in {Stopping, Run(Parent)} /\ stack' = Tail(stack)
      /\ scope' \in BOOLEAN
      /\ UNCHANGED <<task, op, awaits, registrations, stop_requested, active_children,
                     completion_depth, first_failure, join_started, join_continuation, parent,
                     rethrown, failures>>
  BY ZenonT(60) DEF SInv, TypeOK, StopReturns, ParentReturns, Top, Running, scopeVars, historyVars
<1>2. Good(stack') /\ On(stack') = On(stack) \ {Head(stack)}
  BY <1>1, PopGood DEF SInv, TypeOK, StackInv, Good
<1>3. Active' = Active /\ Finishing' = Finishing
  <2>1. Active' = Active
    BY <1>1 DEF Active
  <2>2. \A c \in Children : InCompletion(c) # Head(stack)
    BY <1>1, FrameFacts, ZenonT(60)
  <2>3. \A c \in Children : InCompletion(c) \in On(stack') <=> InCompletion(c) \in On(stack)
    BY <1>2, <2>2, ZenonT(60)
  <2>4. Finishing' = Finishing
    BY <2>3, ZenonT(60) DEF Finishing
  <2>5. QED
    BY <2>1, <2>4
<1>4. CountInv'
  BY <1>1, <1>3 DEF SInv, CountInv
<1>5. TypeOK'
  BY <1>1, <1>2 DEF SInv, TypeOK, Good
<1>6. StackInv'
  BY <1>1, <1>2 DEF SInv, StackInv, Good
<1>7. WaitInv' /\ ParentInv' /\ JoinedInv'
  BY <1>1 DEF SInv, WaitInv, ParentInv, JoinedInv, FirstFailureWins
<1>8. QED
  BY <1>4, <1>5, <1>6, <1>7 DEF SInv

\* child_completed, with the stop the first failure makes.
LEMMA ChildCompletesKeeps ==
  ASSUME Counts, SInv, NEW c \in Children, NEW fails \in BOOLEAN, ChildCompletes(c, fails)
  PROVE  SInv'
<1> USE TaskFacts
<1> DEFINE stops == fails /\ first_failure = Parent /\ ~stop_requested
           base == <<InCompletion(c)>> \o Tail(stack)
<1>1. /\ stack # <<>> /\ Head(stack) = Run(c)
      /\ task' = [task EXCEPT ![c] = "completed"]
      /\ active_children' = active_children - 1
      /\ completion_depth' = completion_depth + 1
      /\ first_failure' = FailFirst(c, fails)
      /\ failures' = IF fails THEN Append(failures, c) ELSE failures
      /\ stop_requested' = (stop_requested \/ stops)
      /\ UNCHANGED <<op, awaits, registrations, join_started, join_continuation, parent, scope,
                     rethrown>>
  BY DEF ChildCompletes, Running, Top
<1>2. /\ Good(Tail(stack)) /\ On(Tail(stack)) = On(stack) \ {Run(c)} /\ Run(c) \in On(stack)
  BY <1>1, PopGood DEF SInv, TypeOK, StackInv, Good
<1>3. task[c] = "running" /\ parent # "joined"
  BY <1>2 DEF SInv, StackInv, JoinedInv, FirstFailureWins
<1>4. InCompletion(c) \notin On(Tail(stack)) /\ InCompletion(c) \in Frames
  BY <1>2, <1>3, FrameFacts DEF SInv, StackInv
<1>5. Good(base) /\ On(base) = (On(stack) \ {Run(c)}) \cup {InCompletion(c)}
  <2>1. InCompletion(c) # Run(Parent)
    BY FrameFacts
  <2>2. QED
    BY <1>2, <1>4, <2>1, PushGood
<1>6. stack' = (IF stops THEN <<Stopping>> ELSE <<>>) \o <<InCompletion(c)>> \o Tail(stack)
  BY DEF ChildCompletes
<1>7. stack' = IF stops THEN <<Stopping>> \o base ELSE base
  <2>1. Tail(stack) \in Seq(Frames) /\ <<InCompletion(c)>> \in Seq(Frames) /\ <<Stopping>> \in Seq(Frames)
    BY <1>2, <1>4, FrameFacts DEF Good
  <2>2. CASE stops
    <3>1. stack' = <<Stopping>> \o <<InCompletion(c)>> \o Tail(stack)
      BY <1>6, <2>2
    <3>2. (<<Stopping>> \o <<InCompletion(c)>>) \o Tail(stack) = <<Stopping>> \o base
      BY <2>1, SMTT(60)
    <3>3. QED
      BY <2>2, <3>1, <3>2
  <2>3. CASE ~stops
    <3>1. stack' = (<<>> \o <<InCompletion(c)>>) \o Tail(stack)
      BY <1>6, <2>3, ZenonT(60)
    <3>2. <<>> \o <<InCompletion(c)>> = <<InCompletion(c)>>
      BY <2>1
    <3>3. QED
      BY <2>3, <3>1, <3>2
  <2>4. QED
    BY <2>2, <2>3
<1> HIDE DEF base
<1>8. /\ Good(stack')
      /\ On(stack') = On(base) \cup (IF stops THEN {Stopping} ELSE {})
  <2>1. CASE ~stops
    BY <1>5, <1>7, <2>1
  <2>2. CASE stops
    <3>1. Stopping \notin On(stack)
      BY <2>2 DEF SInv, StackInv
    <3>2. Stopping \in Frames /\ Stopping # InCompletion(c) /\ Stopping # Run(Parent)
      BY FrameFacts
    <3>3. Stopping \notin On(base)
      BY <1>5, <3>1, <3>2
    <3>4. QED
      BY <1>5, <1>7, <2>2, <3>2, <3>3, PushGood
  <2>3. QED
    BY <2>1, <2>2
<1>9. \A d \in Children : task'[d] = IF d = c THEN "completed" ELSE task[d]
  BY <1>1 DEF SInv, TypeOK
<1>10. Active' = Active \ {c} /\ c \in Active /\ Active \in SUBSET Children
  BY <1>3, <1>9 DEF Active
<1>11. /\ Finishing' = Finishing \cup {c} /\ c \notin Finishing
       /\ Finishing \in SUBSET Children
  <2>1. \A d \in Children : InCompletion(d) \in On(stack)' <=>
                            InCompletion(d) \in On(stack) \/ d = c
    <3>1. TAKE d \in Children
    <3>2. InCompletion(d) # Run(c) /\ InCompletion(d) # Stopping /\ (InCompletion(d) = InCompletion(c) <=> d = c)
      BY FrameFacts
    <3>3. InCompletion(d) \in On(stack)' <=> InCompletion(d) \in On(base)
      BY <1>8, <3>2
    <3>4. QED
      BY <1>5, <3>2, <3>3
  <2>2. c \notin Finishing
    BY <1>3 DEF SInv, StackInv, Finishing
  <2>3. QED
    BY <2>1, <2>2 DEF Finishing
<1>12. CountInv'
  BY <1>1, <1>10, <1>11, CountFacts DEF SInv, CountInv
<1>13. active_children' \in 0..Cardinality(Children) /\ completion_depth' \in 0..Cardinality(Children)
  <2>1. Active' \in SUBSET Children /\ Finishing' \in SUBSET Children
    BY <1>10, <1>11
  <2>2. QED
    BY <1>12, <2>1, CountFacts DEF CountInv
<1>14. failures' \in Seq(Children) /\ first_failure' \in Tasks
  BY <1>1, AppendFacts DEF SInv, TypeOK, FailFirst
<1>15. task' \in [Children -> {"cold", "running", "suspended", "completed", "destroyed"}]
  BY <1>1 DEF SInv, TypeOK
<1>16. stop_requested' \in BOOLEAN
  BY <1>1
<1>17. TypeOK'
  BY <1>1, <1>8, <1>13, <1>14, <1>15, <1>16, ZenonT(60) DEF SInv, TypeOK, Good
<1>18. StackInv'
  <2>1. ASSUME NEW d \in Children, Run(d) \in On(stack)' PROVE task'[d] = "running"
    <3>1. Run(d) # InCompletion(c) /\ Run(d) # Stopping
      BY FrameFacts
    <3>2. Run(d) \in On(stack) /\ Run(d) # Run(c)
      BY <1>5, <1>8, <2>1, <3>1
    <3>3. QED
      BY <1>9, <3>2 DEF SInv, StackInv
  <2>2. ASSUME NEW d \in Children, InCompletion(d) \in On(stack)' PROVE task'[d] = "completed"
    <3>1. d = c \/ InCompletion(d) \in On(stack)
      BY <1>5, <1>8, <2>2, FrameFacts
    <3>2. QED
      BY <1>9, <3>1 DEF SInv, StackInv
  <2>3. Run(Parent) \in On(stack)' => parent' \in {"working", "joined"}
    <3>1. Run(Parent) # InCompletion(c) /\ Run(Parent) # Stopping
      BY FrameFacts
    <3>2. QED
      BY <1>1, <1>5, <1>8, <3>1 DEF SInv, StackInv
  <2>4. Stopping \in On(stack)' => stop_requested'
    <3>1. Stopping # InCompletion(c)
      BY FrameFacts
    <3>2. QED
      BY <1>1, <1>5, <1>8, <3>1, ZenonT(60) DEF SInv, StackInv
  <2>5. QED
    BY <1>8, <2>1, <2>2, <2>3, <2>4 DEF StackInv, Good
<1>19. WaitInv'
  BY <1>1, <1>3, <1>9 DEF SInv, WaitInv
<1>20. ParentInv'
  BY <1>1 DEF SInv, ParentInv
<1>21. JoinedInv'
  <2>1. first_failure = IF failures = <<>> THEN Parent ELSE Head(failures)
    BY <1>3 DEF SInv, JoinedInv, FirstFailureWins
  <2>2. failures \in Seq(Children) /\ parent' # "joined"
    BY <1>1, <1>3 DEF SInv, TypeOK
  <2>3. first_failure' = IF failures' = <<>> THEN Parent ELSE Head(failures')
    <3>1. CASE ~fails
      BY <1>1, <2>1, <3>1 DEF FailFirst
    <3>2. CASE fails
      BY <1>1, <2>1, <2>2, <3>2, AppendFacts DEF FailFirst
    <3>3. QED
      BY <3>1, <3>2
  <2>4. \A d \in Children : task'[d] # "destroyed"
    BY <1>3, <1>9 DEF SInv, JoinedInv
  <2>5. FirstFailureWins'
    BY <2>2, <2>3 DEF FirstFailureWins
  <2>6. QED
    BY <2>2, <2>4, <2>5 DEF JoinedInv
<1>22. QED
  BY <1>12, <1>17, <1>18, <1>19, <1>20, <1>21 DEF SInv

\* Once nothing is active and no child_completed is left, finish_join is safe.
LEMMA FinishJoinKeeps ==
  ASSUME SInv, FinishJoin, Active = {}, parent # "joined", Good(stack'),
         On(stack') \subseteq On(stack) \cup {Run(Parent)},
         \A d \in Children : InCompletion(d) \notin On(stack'),
         join_started' = TRUE, join_continuation' = FALSE, op[Parent] = "none",
         completion_depth' \in 0..Cardinality(Children),
         completion_depth' = Cardinality(Finishing'),
         UNCHANGED <<op, awaits, registrations, stop_requested, active_children, scope, failures>>
  PROVE  SInv'
<1> USE TaskFacts
<1>1. /\ task' = [c \in Children |-> IF task[c] = "cold" THEN "cold" ELSE "destroyed"]
      /\ parent' = "joined" /\ rethrown' = first_failure /\ first_failure' = Parent
  BY DEF FinishJoin
<1>2. \A c \in Children : task'[c] \in {"cold", "destroyed"}
  BY <1>1
<1>3. \A c \in Children : task[c] \notin {"running", "suspended"}
  BY DEF Active
<1>4. Active' = {}
  BY <1>2 DEF Active
<1>5. CountInv'
  BY <1>4 DEF SInv, CountInv
<1>6. TypeOK'
  BY <1>1, ZenonT(60) DEF SInv, TypeOK, Good
<1>7. StackInv'
  <2>1. ASSUME NEW d \in Children PROVE Run(d) \notin On(stack')
    <3>1. Run(d) # Run(Parent)
      BY FrameFacts
    <3>2. Run(d) \notin On(stack)
      BY <1>3 DEF SInv, StackInv
    <3>3. QED
      BY <3>1, <3>2
  <2>2. Stopping \in On(stack') => stop_requested'
    <3>1. Stopping # Run(Parent)
      BY FrameFacts
    <3>2. QED
      BY <3>1 DEF SInv, StackInv
  <2>3. QED
    BY <1>1, <2>1, <2>2 DEF StackInv, Good
<1>8. WaitInv'
  BY <1>2, <1>3 DEF SInv, WaitInv
<1>9. ParentInv'
  BY <1>1 DEF ParentInv
<1>10. JoinedInv'
  BY <1>1, <1>2 DEF SInv, JoinedInv, FirstFailureWins
<1>11. QED
  BY <1>5, <1>6, <1>7, <1>8, <1>9, <1>10 DEF SInv

\* The end of child_completed, with or without finish_join.
LEMMA CompletionReturnsKeeps ==
  ASSUME Counts, SInv, NEW c \in Children, CompletionReturns(c)
  PROVE  SInv'
<1> USE TaskFacts
<1>1. /\ stack # <<>> /\ Head(stack) = InCompletion(c)
      /\ completion_depth' = completion_depth - 1
      /\ UNCHANGED <<op, awaits, registrations, stop_requested, active_children, join_started,
                     scope, failures>>
  BY DEF CompletionReturns, Top
<1>2. /\ Good(Tail(stack)) /\ On(Tail(stack)) = On(stack) \ {InCompletion(c)}
      /\ InCompletion(c) \in On(stack)
  BY <1>1, PopGood DEF SInv, TypeOK, StackInv, Good
<1>3. c \in Finishing /\ Finishing \in SUBSET Children /\ Active \in SUBSET Children
  BY <1>2 DEF Finishing, Active
<1>4. \A d \in Children : InCompletion(d) \in On(Tail(stack)) <=> d \in Finishing \ {c}
  BY <1>2, FrameFacts DEF Finishing
<1>5. Cardinality(Finishing \ {c}) = completion_depth - 1
  BY <1>3, CountFacts DEF SInv, CountInv
<1>6. completion_depth - 1 \in 0..Cardinality(Children)
  <2>1. Finishing \ {c} \in SUBSET Children
    BY <1>3
  <2>2. QED
    BY <1>5, <2>1, CountFacts
<1>7. CASE ResumesJoin
  <2>1. /\ active_children = 0 /\ join_continuation /\ completion_depth = 1
        /\ join_continuation' = FALSE /\ FinishJoin
        /\ stack' = <<Run(Parent)>> \o Tail(stack)
    BY <1>7 DEF CompletionReturns, ResumesJoin
  <2>2. Active = {}
    BY <1>3, <2>1, CountFacts, ZenonT(60) DEF SInv, CountInv
  <2>3. Finishing \ {c} = {}
    <3>1. Finishing \ {c} \in SUBSET Children
      BY <1>3
    <3>2. Cardinality(Finishing \ {c}) = 0
      BY <1>5, <2>1
    <3>3. QED
      BY <3>1, <3>2, CountFacts, ZenonT(60)
  <2>4. \A d \in Children : InCompletion(d) \notin On(Tail(stack))
    BY <1>4, <2>3
  <2>5. parent = "joining" /\ join_started /\ op[Parent] = "none"
    BY <2>1 DEF SInv, ParentInv
  <2>6. Run(Parent) \notin On(Tail(stack)) /\ Run(Parent) \in Frames
    BY <1>2, <2>5, FrameFacts DEF SInv, StackInv
  <2>7. Good(stack') /\ On(stack') = On(Tail(stack)) \cup {Run(Parent)}
    BY <1>2, <2>1, <2>4, <2>6, PushGood
  <2>8. \A d \in Children : InCompletion(d) \notin On(stack')
    BY <2>4, <2>7, FrameFacts
  <2>9. Finishing' = {}
    BY <2>8 DEF Finishing
  <2>10. completion_depth' = Cardinality(Finishing')
    BY <1>1, <1>5, <2>3, <2>9, ZenonT(60)
  <2>11. join_started' = TRUE
    BY <1>1, <2>5 DEF SInv, TypeOK
  <2>12. QED
    BY <1>1, <1>2, <1>6, <2>1, <2>2, <2>5, <2>7, <2>8, <2>10, <2>11, FinishJoinKeeps, ZenonT(60)
<1>8. CASE ~ResumesJoin
  <2>1. /\ stack' = Tail(stack)
        /\ UNCHANGED <<join_continuation, task, parent, rethrown, first_failure>>
    BY <1>8 DEF CompletionReturns
  <2>2. Finishing' = Finishing \ {c}
    BY <1>3, <1>4, <2>1 DEF Finishing
  <2>3. Active' = Active
    BY <2>1 DEF Active
  <2>4. CountInv'
    BY <1>1, <1>5, <2>2, <2>3 DEF SInv, CountInv
  <2>5. TypeOK'
    BY <1>1, <1>2, <1>6, <2>1 DEF SInv, TypeOK, Good
  <2>6. StackInv'
    BY <1>1, <1>2, <2>1 DEF SInv, StackInv, Good
  <2>7. WaitInv' /\ ParentInv' /\ JoinedInv'
    BY <1>1, <2>1 DEF SInv, WaitInv, ParentInv, JoinedInv, FirstFailureWins
  <2>8. QED
    BY <2>4, <2>5, <2>6, <2>7 DEF SInv
<1>9. QED
  BY <1>7, <1>8

\* join() finishes at once only over an empty scope.
LEMMA JoinKeeps ==
  ASSUME Counts, SInv, Join
  PROVE  SInv'
<1> USE TaskFacts
<1>1. /\ stack # <<>> /\ Head(stack) = Run(Parent) /\ ~join_started /\ join_started' = TRUE
      /\ UNCHANGED <<op, awaits, registrations, stop_requested, active_children,
                     completion_depth, scope, failures>>
  BY DEF Join, Running, Top
<1>2. Good(stack)
  BY DEF SInv, TypeOK, StackInv, Good
<1>3. /\ Good(Tail(stack)) /\ On(Tail(stack)) = On(stack) \ {Run(Parent)}
      /\ Run(Parent) \in On(stack)
  BY <1>1, <1>2, PopGood
<1>4. parent = "working" /\ op[Parent] = "none" /\ ~join_continuation
  BY <1>1, <1>3 DEF SInv, TypeOK, StackInv, ParentInv
<1>5. CASE active_children = 0
  <2>1. FinishJoin /\ UNCHANGED <<join_continuation, stack>>
    BY <1>5 DEF Join
  <2>2. Active = {}
    <3>1. Active \in SUBSET Children /\ Cardinality(Active) = 0
      BY <1>5 DEF SInv, CountInv, Active
    <3>2. QED
      BY <3>1, CountFacts, ZenonT(60)
  \* A child_completed below would have a running child in between.
  <2>3. \A d \in Children : InCompletion(d) \notin On(stack)
    <3>1. SUFFICES ASSUME NEW d \in Children, NEW j \in 1..Len(stack), stack[j] = InCompletion(d)
                   PROVE  FALSE
      BY DEF On
    <3>2. Len(stack) \in Nat \ {0} /\ stack[1] = Run(Parent)
      BY <1>1, <1>2, PopFacts DEF Good
    <3>3. j # 1
      BY <3>1, <3>2, FrameFacts
    <3>4. 1 \in 1..Len(stack) /\ 1 < j
      BY <3>2, <3>3
    <3>5. PICK k \in 1..j : \E c \in Children : stack[k] = Run(c)
      BY <1>2, <3>1, <3>2, <3>4 DEF Good, Shielded
    <3>6. PICK c \in Children : stack[k] = Run(c)
      BY <3>5
    <3>7. k \in 1..Len(stack)
      BY <3>2, <3>5
    <3>8. Run(c) \in On(stack)
      BY <3>6, <3>7 DEF On
    <3>9. c \in Active
      BY <3>8 DEF SInv, StackInv, Active
    <3>10. QED
      BY <2>2, <3>9
  <2>4. Finishing' = Finishing
    BY <2>1 DEF Finishing
  <2>5. /\ completion_depth' = Cardinality(Finishing')
        /\ completion_depth' \in 0..Cardinality(Children)
    BY <1>1, <2>4 DEF SInv, TypeOK, CountInv
  <2>6. Good(stack') /\ On(stack') \subseteq On(stack) \cup {Run(Parent)}
    BY <1>2, <2>1
  <2>7. \A d \in Children : InCompletion(d) \notin On(stack')
    BY <2>1, <2>3
  <2>8. join_continuation' = FALSE
    BY <1>4, <2>1 DEF SInv, TypeOK
  <2>9. QED
    BY <1>1, <1>4, <2>1, <2>2, <2>5, <2>6, <2>7, <2>8, FinishJoinKeeps, ZenonT(60)
<1>6. CASE active_children # 0
  <2>1. /\ join_continuation' = TRUE /\ parent' = "joining" /\ stack' = Tail(stack)
        /\ UNCHANGED <<task, rethrown, first_failure>>
    BY <1>6 DEF Join
  <2>2. Active' = Active /\ Finishing' = Finishing
    BY <1>3, <2>1, FrameFacts DEF Active, Finishing
  <2>3. CountInv'
    BY <1>1, <2>2 DEF SInv, CountInv
  <2>4. TypeOK'
    BY <1>1, <1>3, <2>1 DEF SInv, TypeOK, Good
  <2>5. StackInv'
    BY <1>1, <1>3, <2>1 DEF SInv, StackInv, Good
  <2>6. WaitInv'
    BY <1>1, <2>1, ZenonT(60) DEF SInv, WaitInv
  <2>7. ParentInv'
    BY <1>1, <1>4, <2>1 DEF ParentInv
  <2>8. JoinedInv'
    BY <1>1, <1>4, <2>1 DEF SInv, JoinedInv, FirstFailureWins
  <2>9. QED
    BY <2>3, <2>4, <2>5, <2>6, <2>7, <2>8 DEF SInv
<1>7. QED
  BY <1>5, <1>6

\* The scope starts empty, with its parent running.
LEMMA InitSInv == ASSUME Counts PROVE Init => SInv
<1> USE TaskFacts
<1>1. SUFFICES ASSUME Init PROVE SInv
  OBVIOUS
<1>2. stack = <<Run(Parent)>> /\ Run(Parent) \in Frames
  BY <1>1, FrameFacts DEF Init
<1>3. stack \in Seq(Frames) /\ Len(stack) = 1 /\ stack[1] = Run(Parent) /\ DOMAIN stack = 1..1
  BY <1>2
<1>4. On(stack) = {Run(Parent)} /\ IsInjective(stack) /\ Shielded(stack)
  <2>1. 1..1 = {1}
    OBVIOUS
  <2>2. QED
    BY <1>3, <2>1 DEF On, IsInjective, Shielded
<1>5. registrations = <<>> /\ failures = <<>>
  BY <1>1 DEF Init
<1>6. registrations \in Seq(Children) /\ failures \in Seq(Children) /\ Len(registrations) = 0
  BY <1>5
<1>7. On(registrations) = {} /\ IsInjective(registrations)
  <2>1. 1..0 = {} /\ DOMAIN registrations = 1..Len(registrations)
    BY <1>6
  <2>2. QED
    BY <1>6, <2>1 DEF On, IsInjective
<1>8. Active = {} /\ Finishing = {}
  BY <1>1, <1>4, FrameFacts DEF Init, Active, Finishing
<1>9. Cardinality({}) = 0 /\ Cardinality(Children) \in Nat
  BY CountFacts, ZenonT(60) DEF Counts
<1>10. TypeOK
  <2>1. 0 \in 0..MaxAwaits /\ 0 \in 0..Cardinality(Children)
    BY <1>9
  <2>2. /\ task \in [Children -> {"cold", "running", "suspended", "completed", "destroyed"}]
        /\ op \in [Tasks -> {"none", "inline", "closing", "ended", "opaque"}]
        /\ awaits \in [Tasks -> 0..MaxAwaits]
    BY <1>1, <2>1 DEF Init
  <2>3. QED
    BY <1>1, <1>3, <1>6, <2>1, <2>2, ZenonT(60) DEF Init, TypeOK
<1>11. StackInv
  BY <1>1, <1>4, FrameFacts DEF Init, StackInv
<1>12. CountInv
  BY <1>1, <1>8, <1>9 DEF Init, CountInv
<1>13. WaitInv
  BY <1>1, <1>7 DEF Init, WaitInv
<1>14. ParentInv /\ JoinedInv
  BY <1>1 DEF Init, ParentInv, JoinedInv, FirstFailureWins
<1>15. QED
  BY <1>10, <1>11, <1>12, <1>13, <1>14 DEF SInv

\* Every step keeps the invariant.
LEMMA NextSInv == ASSUME Counts PROVE SInv /\ [Next]_vars => SInv'
<1>1. SUFFICES ASSUME SInv, [Next]_vars PROVE SInv'
  OBVIOUS
<1>2. CASE UNCHANGED vars
  BY <1>1, <1>2, RestKeeps DEF SInv, TypeOK, vars, scopeVars, historyVars
<1>3. ASSUME NEW t \in Tasks, NEW c \in Children, Spawn(t, c) PROVE SInv'
  BY <1>1, <1>3, SpawnKeeps
<1>4. ASSUME NEW c \in Children,
             \/ \E kind \in {"inline", "closing", "opaque"} : Await(c, kind)
             \/ AwaitFails(c)
      PROVE  SInv'
  BY <1>1, <1>4, AwaitKeeps
<1>5. ASSUME NEW kind \in {"inline", "opaque"}, ParentAwaits(kind) PROVE SInv'
  BY <1>1, <1>5, ParentAwaitsKeeps
<1>6. CASE RequestStop
  BY <1>1, <1>6, RequestStopKeeps
<1>7. CASE \/ \E t \in Tasks : OperationCompletes(t)
           \/ \E c \in Children : CloseTrampoline(c) \/ TimerFires(c)
  BY <1>1, <1>7, OperationKeeps
<1>8. CASE StopNext
  BY <1>1, <1>8, StopNextKeeps
<1>9. CASE StopReturns \/ ParentReturns
  BY <1>1, <1>9, LeaveKeeps
<1>10. ASSUME NEW c \in Children, NEW fails \in BOOLEAN, ChildCompletes(c, fails) PROVE SInv'
  BY <1>1, <1>10, ChildCompletesKeeps
<1>11. ASSUME NEW c \in Children, CompletionReturns(c) PROVE SInv'
  BY <1>1, <1>11, CompletionReturnsKeeps
<1>12. CASE Join
  BY <1>1, <1>12, JoinKeeps
<1>13. QED
  BY <1>1, <1>2, <1>3, <1>4, <1>5, <1>6, <1>7, <1>8, <1>9, <1>10, <1>11, <1>12 DEF Next

-----------------------------------------------------------------------------
(* Counting the children.                                                  *)

Finite == INSTANCE FiniteSetTheorems

\* The library counts as FiniteSets does.
LEMMA SameNotions ==
  \A S : /\ Finite!Cardinality(S) = Cardinality(S)
         /\ Finite!IsFiniteSet(S) <=> IsFiniteSet(S)
BY ZenonT(60) DEF Finite!Cardinality, Cardinality, Finite!IsFiniteSet, IsFiniteSet

\* Counting is what the lemmas above assume.
LEMMA FiniteCounts == Counts
<1>1. Finite!IsFiniteSet(Children)
  BY TaskFacts, SameNotions, ZenonT(60)
<1>2. Finite!Cardinality(Children) \in Nat
  BY <1>1, Finite!FS_CardinalityType, ZenonT(60)
<1>3. ASSUME NEW A \in SUBSET Children
      PROVE  /\ Finite!Cardinality(A) \in 0..Finite!Cardinality(Children)
             /\ Finite!Cardinality(A) = 0 <=> A = {}
             /\ \A c \in Children \ A :
                  Finite!Cardinality(A \cup {c}) = Finite!Cardinality(A) + 1
             /\ \A c \in A : Finite!Cardinality(A \ {c}) = Finite!Cardinality(A) - 1
  <2>1. Finite!IsFiniteSet(A) /\ Finite!Cardinality(A) <= Finite!Cardinality(Children)
    BY <1>1, Finite!FS_Subset, ZenonT(60)
  <2>2. Finite!Cardinality(A) \in Nat
    BY <2>1, Finite!FS_CardinalityType, ZenonT(60)
  <2>3. Finite!Cardinality(A) \in 0..Finite!Cardinality(Children)
    BY <1>2, <2>1, <2>2
  <2>4. Finite!Cardinality(A) = 0 <=> A = {}
    BY <2>1, Finite!FS_EmptySet, ZenonT(60)
  <2>5. \A c \in Children \ A : Finite!Cardinality(A \cup {c}) = Finite!Cardinality(A) + 1
    BY <2>1, Finite!FS_AddElement, ZenonT(60)
  <2>6. \A c \in A : Finite!Cardinality(A \ {c}) = Finite!Cardinality(A) - 1
    BY <2>1, Finite!FS_RemoveElement, ZenonT(60)
  <2>7. QED
    BY <2>3, <2>4, <2>5, <2>6, ZenonT(60)
<1>4. QED
  BY <1>2, <1>3, SameNotions, ZenonT(60) DEF Counts

\* The inductive invariant: the call stack agrees with the tasks' states, the two
\* counters count, and the list holds exactly the children a stop must reach.
THEOREM ScopeInvariance == Spec => []SInv
<1>1. Init => SInv
  BY FiniteCounts, InitSInv
<1>2. SInv /\ [Next]_vars => SInv'
  BY FiniteCounts, NextSInv
<1>3. QED
  BY <1>1, <1>2, PTL DEF Spec

-----------------------------------------------------------------------------
(* The end of the scope.                                                   *)

\* After the parent returned, at most a stop requested from the poll is left.
GoneInv == ~scope => parent = "joined" /\ On(stack) \subseteq {Stopping}

\* In a scope that is gone no child runs, waits or completes.
LEMMA GoneFacts ==
  ASSUME SInv, parent = "joined"
  PROVE  /\ \A c \in Children : /\ op[c] = "none" /\ c \notin On(registrations)
                                /\ Run(c) \notin On(stack) /\ InCompletion(c) \notin On(stack)
         /\ op[Parent] = "none" /\ join_started
         /\ registrations = <<>>
<1>1. \A c \in Children : task[c] \in {"cold", "destroyed"}
  BY DEF SInv, JoinedInv
<1>2. \A c \in Children : /\ op[c] = "none" /\ c \notin On(registrations)
                           /\ Run(c) \notin On(stack) /\ InCompletion(c) \notin On(stack)
  BY <1>1 DEF SInv, WaitInv, StackInv
<1>3. op[Parent] = "none" /\ join_started
  BY DEF SInv, ParentInv
<1>4. registrations = <<>>
  <2>1. SUFFICES ASSUME registrations # <<>> PROVE FALSE
    OBVIOUS
  <2>2. Head(registrations) \in On(registrations) /\ Head(registrations) \in Children
    BY <2>1, PopFacts DEF SInv, TypeOK
  <2>3. QED
    BY <1>2, <2>2
<1>5. QED
  BY <1>2, <1>3, <1>4

\* What runs is on the call stack.
LEMMA TopFacts ==
  ASSUME SInv
  PROVE  /\ \A f : Top(f) => stack # <<>> /\ f \in On(stack)
         /\ \A t : Running(t) => Run(t) \in On(stack)
<1>1. ASSUME NEW f, Top(f) PROVE stack # <<>> /\ f \in On(stack)
  BY <1>1, PopFacts DEF SInv, TypeOK, Top
<1>2. QED
  BY <1>1 DEF Running

\* Once the parent has joined no child moves: its frame is gone or never started.
LEMMA JoinedStep ==
  ASSUME SInv, [Next]_vars, parent = "joined"
  PROVE  task' = task
<1> USE TaskFacts
<1>1. /\ \A c \in Children : op[c] = "none" /\ ~Running(c) /\ ~Top(InCompletion(c))
      /\ op[Parent] = "none" /\ join_started /\ registrations = <<>>
  BY GoneFacts, TopFacts
<1>2. CASE UNCHANGED vars
  BY <1>2 DEF vars
<1>3. CASE Next
  BY <1>1, <1>3 DEF Next, Spawn, Await, AwaitFails, ParentAwaits, RequestStop, OperationCompletes,
     CloseTrampoline, TimerFires, StopNext, StopReturns, ChildCompletes, CompletionReturns, Join,
     ParentReturns
<1>4. QED
  BY <1>2, <1>3

\* The step that ends the join finds every child cold or completed.
LEMMA JoinStep ==
  ASSUME Counts, SInv, [Next]_vars, parent # "joined", parent' = "joined"
  PROVE  \A c \in Children : task[c] \in {"cold", "completed"}
<1> USE TaskFacts
<1>1. (\E c \in Children : CompletionReturns(c) /\ ResumesJoin) \/ (Join /\ active_children = 0)
  BY DEF Next, vars, Spawn, Await, AwaitFails, ParentAwaits, RequestStop, OperationCompletes,
     CloseTrampoline, TimerFires, StopNext, StopReturns, ChildCompletes, CompletionReturns, Join,
     ParentReturns, Resumed
<1>2. active_children = 0
  BY <1>1 DEF ResumesJoin
<1>3. Active \in SUBSET Children /\ Cardinality(Active) = 0
  BY <1>2 DEF SInv, CountInv, Active
<1>4. Active = {}
  BY <1>3, CountFacts, ZenonT(60)
<1>5. QED
  BY <1>4 DEF SInv, TypeOK, JoinedInv, Active

\* A scope that is gone stays quiet, and it goes only from under such a stack.
LEMMA GoneStep == ASSUME SInv, GoneInv, [Next]_vars PROVE GoneInv'
<1> USE TaskFacts
<1>1. CASE ~scope
  <2>1. parent = "joined" /\ On(stack) \subseteq {Stopping}
    BY <1>1 DEF GoneInv
  <2>2. /\ \A c \in Children : op[c] = "none" /\ ~Running(c) /\ ~Top(InCompletion(c))
        /\ op[Parent] = "none" /\ registrations = <<>>
    BY <2>1, GoneFacts, TopFacts
  <2>3. ~Running(Parent)
    BY <2>1, TopFacts, FrameFacts
  <2>4. UNCHANGED <<stack, parent>> \/ StopReturns
    <3>1. CASE UNCHANGED vars
      BY <3>1 DEF vars
    <3>2. CASE Next
      BY <1>1, <2>2, <2>3, <3>2 DEF Next, Spawn, Await, AwaitFails, ParentAwaits, RequestStop,
         OperationCompletes, CloseTrampoline, TimerFires, StopNext, ChildCompletes,
         CompletionReturns, Join, ParentReturns
    <3>3. QED
      BY <3>1, <3>2
  <2>5. CASE UNCHANGED <<stack, parent>>
    BY <2>1, <2>5 DEF GoneInv
  <2>6. CASE StopReturns
    <3>1. stack # <<>> /\ stack' = Tail(stack) /\ parent' = parent
      BY <2>6 DEF StopReturns, Top
    <3>2. On(stack') \subseteq On(stack)
      BY <3>1, PopFacts DEF SInv, TypeOK
    <3>3. QED
      BY <2>1, <3>1, <3>2 DEF GoneInv
  <2>7. QED
    BY <2>4, <2>5, <2>6
<1>2. CASE scope /\ scope'
  BY <1>2 DEF GoneInv
<1>3. CASE scope /\ ~scope'
  <2>1. ParentReturns
    BY <1>3 DEF Next, vars, Spawn, Await, AwaitFails, ParentAwaits, RequestStop,
       OperationCompletes, CloseTrampoline, TimerFires, StopNext, StopReturns, ChildCompletes,
       CompletionReturns, Join
  <2>2. /\ parent = "joined" /\ parent' = "joined" /\ stack' = Tail(stack)
        /\ stack # <<>> /\ Head(stack) = Run(Parent)
    BY <2>1 DEF ParentReturns, Running, Top
  <2>3. stack \in Seq(Frames) /\ IsInjective(stack)
    BY DEF SInv, TypeOK, StackInv
  <2>4. On(stack') = On(stack) \ {Run(Parent)} /\ On(stack) \subseteq Frames
    BY <2>2, <2>3, PopFacts, RangeIsOn
  <2>5. ASSUME NEW f \in On(stack') PROVE f = Stopping
    <3>1. f \in Frames /\ f # Run(Parent) /\ f \in On(stack)
      BY <2>4
    <3>2. \A c \in Children : f # Run(c) /\ f # InCompletion(c)
      BY <2>2, <3>1, GoneFacts
    <3>3. QED
      BY <3>1, <3>2, FrameFacts
  <2>6. QED
    BY <2>2, <2>5 DEF GoneInv
<1>4. QED
  BY <1>1, <1>2, <1>3

-----------------------------------------------------------------------------
(* What the scope promises.                                                *)

\* finish_join never destroys a frame that is on the call stack, and the scope
\* outlives every stop that a task requested: for any number of children, awaits
\* and nested completions.
THEOREM FramesOutlive == Spec => []NoFrameDestroyedInUse
<1>1. Init => GoneInv
  BY DEF Init, GoneInv
<1>2. SInv /\ GoneInv /\ [Next]_vars => GoneInv'
  BY GoneStep
<1>3. SInv /\ GoneInv => NoFrameDestroyedInUse
  <2>1. SUFFICES ASSUME SInv, GoneInv PROVE NoFrameDestroyedInUse
    OBVIOUS
  <2>2. \A f : OnStack(f) <=> f \in On(stack)
    BY DEF OnStack, On
  <2>3. ASSUME NEW c \in Children, task[c] = "destroyed"
        PROVE  ~OnStack(Run(c)) /\ ~OnStack(InCompletion(c))
    BY <2>1, <2>2, <2>3 DEF SInv, StackInv
  <2>4. ASSUME OnStack(Stopping), ~scope PROVE stack[Len(stack)] = Stopping
    <3>1. stack \in Seq(Frames) /\ stack # <<>>
      <4>1. stack \in Seq(Frames)
        BY <2>1 DEF SInv, TypeOK
      <4>2. QED
        BY <2>4, <4>1 DEF OnStack
    <3>2. Len(stack) \in 1..Len(stack)
      BY <3>1, PopFacts
    <3>3. stack[Len(stack)] \in On(stack)
      BY <3>2 DEF On
    <3>4. QED
      BY <2>1, <2>4, <3>3 DEF GoneInv
  <2>5. QED
    BY <2>1, <2>3, <2>4 DEF NoFrameDestroyedInUse, SInv
<1>4. QED
  BY <1>1, <1>2, <1>3, ScopeInvariance, PTL DEF Spec

\* A stop reaches exactly the tasks that wait in a cancellable operation, and each
\* of them once: a timeout, a failed start and a stop never end the same one twice.
THEOREM RegistrationsExact == Spec => []RegistrationsLive
<1>1. SInv => RegistrationsLive
  <2>1. SUFFICES ASSUME SInv PROVE RegistrationsLive
    OBVIOUS
  <2>2. Range(registrations) = On(registrations)
    BY <2>1, RangeIsOn DEF SInv, TypeOK
  <2>3. QED
    BY <2>1, <2>2 DEF RegistrationsLive, SInv, WaitInv
<1>2. QED
  BY <1>1, ScopeInvariance, PTL

\* join() resumes the parent only when every child has settled, nothing of the scope
\* runs after that, and it rethrows the first failure, whatever siblings fail inside
\* the stop it triggered.
THEOREM JoinPromise == Spec => JoinOutcome
<1>1. SInv => FirstFailureWins
  BY DEF SInv, JoinedInv
<1>2. ASSUME SInv, [Next]_vars
      PROVE  [/\ parent # "joined" /\ parent' = "joined" =>
                   \A c \in Children : task[c] \in {"cold", "completed"}
              /\ parent = "joined" => task' = task]_vars
  <2>1. parent # "joined" /\ parent' = "joined" =>
          \A c \in Children : task[c] \in {"cold", "completed"}
    BY <1>2, FiniteCounts, JoinStep
  <2>2. parent = "joined" => task' = task
    BY <1>2, JoinedStep
  <2>3. QED
    BY <2>1, <2>2
<1>3. QED
  BY <1>1, <1>2, ScopeInvariance, PTL DEF Spec, JoinOutcome, JoinWaitsForAll

=============================================================================
