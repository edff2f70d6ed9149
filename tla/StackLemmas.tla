---------------------------- MODULE StackLemmas ----------------------------
(***************************************************************************)
(* Facts about sequences used as call stacks and as intrusive lists, and   *)
(* about the close records of AsyncClose, for the proofs of the modules    *)
(* that have them.                                                         *)
(***************************************************************************)
EXTENDS Integers, Cancellation, AsyncClose, TLAPS

\* Time limits of the backends, in seconds.
USE SMTT(60), ZenonT(60)

On(s) == {s[i] : i \in 1..Len(s)}

\* The empty sequence is the one of length zero.
LEMMA EmptyList ==
  Len(<<>>) = 0 /\ \A S : \A s \in Seq(S) : Len(s) \in Nat /\ (Len(s) = 0 <=> s = <<>>)
OBVIOUS

\* Elements of a concatenation.
LEMMA Concatenation ==
  ASSUME NEW S, NEW a \in Seq(S), NEW b \in Seq(S)
  PROVE  /\ a \o b \in Seq(S) /\ Len(a \o b) = Len(a) + Len(b)
         /\ \A i \in 1..(Len(a) + Len(b)) :
              (a \o b)[i] = IF i <= Len(a) THEN a[i] ELSE b[i - Len(a)]
OBVIOUS

\* On is the range, in a form the provers expand.
LEMMA RangeIsOn ==
  ASSUME NEW S, NEW s \in Seq(S)
  PROVE  Range(s) = On(s) /\ On(s) \subseteq S
BY DEF On, Range

\* Putting an element in front.
LEMMA PushFacts ==
  ASSUME NEW S, NEW s \in Seq(S), NEW f \in S
  PROVE  /\ <<f>> \o s \in Seq(S)
         /\ Len(s) \in Nat /\ Len(<<f>> \o s) = Len(s) + 1
         /\ (<<f>> \o s)[1] = f
         /\ \A i \in 1..Len(s) : (<<f>> \o s)[i + 1] = s[i]
         /\ On(<<f>> \o s) = On(s) \cup {f}
<1>1. <<f>> \in Seq(S) /\ Len(<<f>>) = 1 /\ <<f>>[1] = f /\ Len(s) \in Nat
  OBVIOUS
<1>2. /\ <<f>> \o s \in Seq(S)
      /\ Len(<<f>> \o s) = Len(s) + 1
      /\ \A i \in 1..(1 + Len(s)) : (<<f>> \o s)[i] = IF i <= 1 THEN <<f>>[i] ELSE s[i - 1]
  BY <1>1
<1> DEFINE p == <<f>> \o s
<1>3. p[1] = f /\ \A i \in 1..Len(s) : p[i + 1] = s[i]
  BY <1>1, <1>2
<1> HIDE DEF p
<1>4. On(p) = On(s) \cup {f}
  <2>1. Len(p) = Len(s) + 1
    BY <1>2 DEF p
  <2>2. \A x \in On(p) : x \in On(s) \cup {f}
    <3>1. TAKE x \in On(p)
    <3>2. PICK i \in 1..Len(p) : x = p[i]
      BY DEF On
    <3>3. CASE i = 1
      BY <1>3, <3>2, <3>3
    <3>4. CASE i # 1
      <4>1. i - 1 \in 1..Len(s) /\ i = (i - 1) + 1
        BY <1>1, <2>1, <3>2, <3>4
      <4>2. x = s[i - 1]
        BY <1>3, <3>2, <4>1
      <4>3. QED
        BY <4>1, <4>2 DEF On
    <3>5. QED
      BY <3>3, <3>4
  <2>3. \A x \in On(s) \cup {f} : x \in On(p)
    <3>1. 1 \in 1..Len(p) /\ \A i \in 1..Len(s) : i + 1 \in 1..Len(p)
      BY <1>1, <2>1
    <3>2. f \in On(p)
      BY <1>3, <3>1 DEF On
    <3>3. ASSUME NEW i \in 1..Len(s) PROVE s[i] \in On(p)
      BY <1>3, <3>1, <3>3 DEF On
    <3>4. QED
      BY <3>2, <3>3 DEF On
  <2>4. QED
    BY <2>2, <2>3
<1>5. QED
  BY <1>1, <1>2, <1>3, <1>4 DEF p

\* Taking the first element off a sequence without repetitions.
LEMMA PopFacts ==
  ASSUME NEW S, NEW s \in Seq(S), s # <<>>
  PROVE  /\ Len(s) \in Nat \ {0} /\ Head(s) = s[1] /\ Head(s) \in On(s) /\ Head(s) \in S
         /\ Tail(s) \in Seq(S) /\ Len(Tail(s)) = Len(s) - 1
         /\ \A i \in 1..Len(Tail(s)) : Tail(s)[i] = s[i + 1]
         /\ On(Tail(s)) \subseteq On(s)
         /\ IsInjective(s) => IsInjective(Tail(s)) /\ On(Tail(s)) = On(s) \ {Head(s)}
<1>1. /\ Len(s) \in Nat \ {0} /\ Head(s) = s[1] /\ Head(s) \in S
      /\ Tail(s) \in Seq(S) /\ Len(Tail(s)) = Len(s) - 1
      /\ \A i \in 1..Len(Tail(s)) : Tail(s)[i] = s[i + 1]
      /\ DOMAIN s = 1..Len(s) /\ DOMAIN Tail(s) = 1..Len(Tail(s))
  OBVIOUS
<1>2. Head(s) \in On(s)
  <2>1. 1 \in 1..Len(s)
    BY <1>1
  <2>2. QED
    BY <1>1, <2>1 DEF On
<1> DEFINE t == Tail(s)
<1>3. /\ Len(t) = Len(s) - 1 /\ \A i \in 1..Len(t) : t[i] = s[i + 1]
      /\ DOMAIN t = 1..Len(t)
  BY <1>1
<1> HIDE DEF t
<1>4. \A i \in 1..Len(t) : i + 1 \in 1..Len(s)
  BY <1>1, <1>3
<1>5. On(t) \subseteq On(s)
  BY <1>3, <1>4 DEF On
<1>6. ASSUME IsInjective(s) PROVE IsInjective(t) /\ On(t) = On(s) \ {Head(s)}
  <2>1. \A a, b \in 1..Len(s) : s[a] = s[b] => a = b
    BY <1>1, <1>6 DEF IsInjective
  <2>2. IsInjective(t)
    <3>1. SUFFICES ASSUME NEW a \in 1..Len(t), NEW b \in 1..Len(t), t[a] = t[b] PROVE a = b
      BY <1>3 DEF IsInjective
    <3>2. s[a + 1] = s[b + 1]
      BY <1>3, <3>1
    <3>3. a + 1 = b + 1
      BY <1>4, <2>1, <3>2
    <3>4. QED
      BY <1>1, <1>3, <3>3
  <2>3. ASSUME NEW x \in On(s), x # Head(s) PROVE x \in On(t)
    <3>1. PICK i \in 1..Len(s) : x = s[i]
      BY DEF On
    <3>2. i - 1 \in 1..Len(t) /\ (i - 1) + 1 = i
      BY <1>1, <1>3, <2>3, <3>1
    <3>3. x = t[i - 1]
      BY <1>3, <3>1, <3>2
    <3>4. QED
      BY <3>2, <3>3 DEF On
  <2>4. Head(s) \notin On(t)
    <3>1. SUFFICES ASSUME NEW i \in 1..Len(t), t[i] = Head(s) PROVE FALSE
      BY DEF On
    <3>2. s[i + 1] = s[1] /\ 1 \in 1..Len(s)
      BY <1>1, <1>3, <3>1
    <3>3. i + 1 = 1
      BY <1>4, <2>1, <3>2
    <3>4. QED
      BY <1>1, <1>3, <3>3
  <2>5. QED
    BY <1>5, <2>2, <2>3, <2>4
<1>7. QED
  BY <1>1, <1>2, <1>5, <1>6 DEF t

\* A new element in front keeps a sequence without repetitions.
LEMMA PushInjective ==
  ASSUME NEW S, NEW s \in Seq(S), NEW f \in S, IsInjective(s), f \notin On(s)
  PROVE  IsInjective(<<f>> \o s)
<1> DEFINE p == <<f>> \o s
<1>1. /\ p \in Seq(S) /\ Len(s) \in Nat /\ Len(p) = Len(s) + 1 /\ p[1] = f
      /\ \A i \in 1..Len(s) : p[i + 1] = s[i]
  BY PushFacts
<1>2. DOMAIN p = 1..Len(p) /\ DOMAIN s = 1..Len(s)
  BY <1>1
<1> HIDE DEF p
<1>3. ASSUME NEW a \in 1..Len(p), NEW b \in 1..Len(p), p[a] = p[b], a # 1, b # 1 PROVE a = b
  <2>1. /\ a - 1 \in 1..Len(s) /\ (a - 1) + 1 = a /\ b - 1 \in 1..Len(s) /\ (b - 1) + 1 = b
    BY <1>1, <1>3
  <2>2. s[a - 1] = s[b - 1]
    BY <1>1, <1>3, <2>1
  <2>3. a - 1 = b - 1
    BY <1>2, <2>1, <2>2 DEF IsInjective
  <2>4. QED
    BY <2>1, <2>3
<1>4. ASSUME NEW b \in 1..Len(p), p[b] = f PROVE b = 1
  <2>1. SUFFICES ASSUME b # 1 PROVE FALSE
    OBVIOUS
  <2>2. b - 1 \in 1..Len(s) /\ (b - 1) + 1 = b
    BY <1>1, <2>1
  <2>3. s[b - 1] = f
    BY <1>1, <1>4, <2>2
  <2>4. QED
    BY <2>2, <2>3 DEF On
<1>5. IsInjective(p)
  BY <1>1, <1>2, <1>3, <1>4 DEF IsInjective
<1>6. QED
  BY <1>5 DEF p

\* Unlinking a registration removes it and nothing else.
LEMMA UnregisterFacts ==
  ASSUME NEW S, NEW s \in Seq(S), IsInjective(s), NEW x
  PROVE  /\ Unregistered(s, x) \in Seq(S) /\ IsInjective(Unregistered(s, x))
         /\ On(Unregistered(s, x)) = On(s) \ {x}
<1>1. CASE x \notin Range(s)
  <2>1. x \notin On(s)
    BY <1>1, RangeIsOn
  <2>2. QED
    BY <1>1, <2>1 DEF Unregistered
<1>2. CASE x \in Range(s)
  <2>1. PICK n \in 1..Len(s) :
          s[n] = x /\ Unregistered(s, x) = SubSeq(s, 1, n - 1) \o SubSeq(s, n + 1, Len(s))
    <3>1. \E i \in 1..Len(s) : s[i] = x
      BY <1>2, RangeIsOn DEF On
    <3>2. QED
      BY <1>2, <3>1, ZenonT(60) DEF Unregistered
  <2>2. /\ Len(s) \in Nat /\ DOMAIN s = 1..Len(s)
        /\ \A i \in 1..Len(s) : s[i] \in S
    OBVIOUS
  <2> DEFINE a == SubSeq(s, 1, n - 1)
             b == SubSeq(s, n + 1, Len(s))
             u == a \o b
  <2>3. /\ a \in Seq(S) /\ Len(a) = n - 1 /\ \A i \in 1..(n - 1) : a[i] = s[i]
    <3>1. 1 \in Int /\ n - 1 \in Int /\ \A i \in 1..(n - 1) : s[i] \in S
      BY <2>2
    <3>2. /\ a \in Seq(S) /\ Len(a) = IF 1 <= n - 1 THEN (n - 1) - 1 + 1 ELSE 0
          /\ \A i \in 1..((n - 1) - 1 + 1) : a[i] = s[1 + i - 1]
      BY <3>1
    <3> HIDE DEF a
    <3>3. Len(a) = n - 1
      BY <2>2, <3>2
    <3>4. ASSUME NEW i \in 1..(n - 1) PROVE a[i] = s[i]
      <4>1. i \in 1..((n - 1) - 1 + 1) /\ 1 + i - 1 = i
        BY <2>2
      <4>2. QED
        BY <3>2, <4>1
    <3>5. QED
      BY <3>2, <3>3, <3>4
  <2>4. /\ b \in Seq(S) /\ Len(b) = Len(s) - n /\ \A i \in 1..(Len(s) - n) : b[i] = s[n + i]
    <3>1. n + 1 \in Int /\ Len(s) \in Int /\ \A i \in (n + 1)..Len(s) : s[i] \in S
      BY <2>2
    <3>2. /\ b \in Seq(S) /\ Len(b) = IF n + 1 <= Len(s) THEN Len(s) - (n + 1) + 1 ELSE 0
          /\ \A i \in 1..(Len(s) - (n + 1) + 1) : b[i] = s[(n + 1) + i - 1]
      BY <3>1
    <3> HIDE DEF b
    <3>3. Len(b) = Len(s) - n
      <4>1. CASE n + 1 <= Len(s)
        BY <2>2, <3>2, <4>1
      <4>2. CASE ~(n + 1 <= Len(s))
        <5>1. Len(b) = 0
          BY <3>2, <4>2
        <5>2. Len(s) = n
          <6>1. \A k, m \in Nat : k \in 1..m /\ ~(k + 1 <= m) => m = k
            OBVIOUS
          <6>2. n \in Nat /\ Len(s) \in Nat /\ n \in 1..Len(s)
            BY <2>2
          <6>3. QED
            BY <4>2, <6>1, <6>2
        <5>3. QED
          BY <2>2, <5>1, <5>2
      <4>3. QED
        BY <4>1, <4>2
    <3>4. ASSUME NEW i \in 1..(Len(s) - n) PROVE b[i] = s[n + i]
      <4>1. i \in 1..(Len(s) - (n + 1) + 1) /\ (n + 1) + i - 1 = n + i
        BY <2>2
      <4>2. QED
        BY <3>2, <4>1
    <3>5. QED
      BY <3>2, <3>3, <3>4
  <2> HIDE DEF a, b
  <2>5. /\ u \in Seq(S) /\ Len(u) = Len(a) + Len(b)
        /\ \A i \in 1..(Len(a) + Len(b)) : u[i] = IF i <= Len(a) THEN a[i] ELSE b[i - Len(a)]
    BY <2>3, <2>4, Concatenation
  <2> HIDE DEF u
  <2>6. Len(u) = Len(s) - 1 /\ DOMAIN u = 1..Len(u)
    BY <2>2, <2>3, <2>4, <2>5
  <2>7. \A i \in 1..Len(u) : u[i] = IF i < n THEN s[i] ELSE s[i + 1]
    <3>1. TAKE i \in 1..Len(u)
    <3>2. CASE i < n
      <4>1. i \in 1..(n - 1) /\ i <= Len(a) /\ i \in 1..(Len(a) + Len(b))
        BY <2>2, <2>3, <2>4, <2>6, <3>2
      <4>2. QED
        BY <2>3, <2>5, <3>2, <4>1
    <3>3. CASE ~(i < n)
      <4>1. /\ ~(i <= Len(a)) /\ i \in 1..(Len(a) + Len(b)) /\ i - Len(a) \in 1..(Len(s) - n)
            /\ n + (i - Len(a)) = i + 1
        BY <2>2, <2>3, <2>4, <2>6, <3>3
      <4>2. QED
        BY <2>4, <2>5, <3>3, <4>1, ZenonT(60)
    <3>4. QED
      BY <3>2, <3>3
  <2>8. \A i, j \in 1..Len(s) : s[i] = s[j] => i = j
    BY <2>2 DEF IsInjective
  <2> DEFINE at(i) == IF i < n THEN i ELSE i + 1
  <2>9. \A i \in 1..Len(u) : at(i) \in 1..Len(s) /\ at(i) # n /\ u[i] = s[at(i)]
    BY <2>2, <2>6, <2>7
  <2>10. \A i, j \in 1..Len(u) : at(i) = at(j) => i = j
    BY <2>2, <2>6
  <2>10a. \A j \in 1..Len(s) : j # n => \E k \in 1..Len(u) : at(k) = j
    <3>1. TAKE j \in 1..Len(s)
    <3>2. CASE j < n
      <4>1. j \in 1..Len(u) /\ at(j) = j
        BY <2>2, <2>6, <3>2
      <4>2. QED
        BY <4>1
    <3>3. CASE j > n
      <4>1. j - 1 \in 1..Len(u) /\ at(j - 1) = j
        BY <2>2, <2>6, <3>3
      <4>2. QED
        BY <4>1
    <3>4. QED
      BY <2>2, <3>2, <3>3
  <2> HIDE DEF at
  <2>11. IsInjective(u)
    BY <2>6, <2>8, <2>9, <2>10 DEF IsInjective
  <2>12. On(u) = On(s) \ {x}
    <3>1. ASSUME NEW i \in 1..Len(u) PROVE u[i] \in On(s) /\ u[i] # x
      BY <2>1, <2>8, <2>9 DEF On
    <3>2. ASSUME NEW j \in 1..Len(s), s[j] # x PROVE s[j] \in On(u)
      <4>1. PICK k \in 1..Len(u) : at(k) = j
        BY <2>1, <2>10a, <3>2
      <4>2. u[k] = s[j]
        BY <2>9, <4>1
      <4>3. QED
        BY <4>2 DEF On
    <3>3. On(u) \subseteq On(s) \ {x}
      BY <3>1 DEF On
    <3>4. On(s) \ {x} \subseteq On(u)
      BY <3>2 DEF On
    <3>5. QED
      BY <3>3, <3>4
  <2>13. Unregistered(s, x) = u
    BY <2>1 DEF u, a, b
  <2>14. QED
    BY <2>5, <2>11, <2>12, <2>13
<1>3. QED
  BY <1>1, <1>2

\* The frame f is on the stack s at most once.
Once(s, f) == \A i, j \in 1..Len(s) : s[i] = f /\ s[j] = f => i = j

\* Entering a frame, for a stack where some frames may repeat.
LEMMA PushOnce ==
  ASSUME NEW S, NEW s \in Seq(S), NEW g \in S
  PROVE  /\ <<g>> \o s \in Seq(S) /\ On(<<g>> \o s) = On(s) \cup {g}
         /\ \A f : f # g /\ Once(s, f) => Once(<<g>> \o s, f)
         /\ g \notin On(s) => Once(<<g>> \o s, g)
<1> DEFINE p == <<g>> \o s
<1>1. /\ p \in Seq(S) /\ Len(s) \in Nat /\ Len(p) = Len(s) + 1 /\ p[1] = g
      /\ \A i \in 1..Len(s) : p[i + 1] = s[i]
      /\ On(p) = On(s) \cup {g}
  BY PushFacts
<1> HIDE DEF p
<1>2. \A i \in 1..Len(p) : i = 1 \/ (i - 1 \in 1..Len(s) /\ p[i] = s[i - 1])
  <2>1. TAKE i \in 1..Len(p)
  <2>2. i # 1 => i - 1 \in 1..Len(s) /\ (i - 1) + 1 = i
    BY <1>1
  <2>3. QED
    BY <1>1, <2>2
<1>3. ASSUME NEW f, f # g, Once(s, f) PROVE Once(p, f)
  <2>1. SUFFICES ASSUME NEW i \in 1..Len(p), NEW j \in 1..Len(p), p[i] = f, p[j] = f PROVE i = j
    BY DEF Once
  <2>2. i # 1 /\ j # 1
    BY <1>1, <1>3, <2>1
  <2>3. /\ i - 1 \in 1..Len(s) /\ j - 1 \in 1..Len(s) /\ s[i - 1] = f /\ s[j - 1] = f
    BY <1>2, <2>1, <2>2
  <2>4. i - 1 = j - 1
    BY <1>3, <2>3 DEF Once
  <2>5. QED
    BY <1>1, <2>4
<1>4. ASSUME g \notin On(s) PROVE Once(p, g)
  <2>1. ASSUME NEW i \in 1..Len(p), p[i] = g PROVE i = 1
    BY <1>2, <1>4, <2>1 DEF On
  <2>2. QED
    BY <2>1 DEF Once
<1>5. QED
  BY <1>1, <1>3, <1>4 DEF p

\* Leaving one.
LEMMA PopOnce ==
  ASSUME NEW S, NEW s \in Seq(S), s # <<>>
  PROVE  /\ Tail(s) \in Seq(S) /\ Head(s) \in On(s)
         /\ On(Tail(s)) \subseteq On(s) /\ On(s) \subseteq On(Tail(s)) \cup {Head(s)}
         /\ \A f : Once(s, f) => Once(Tail(s), f)
         /\ Once(s, Head(s)) => Head(s) \notin On(Tail(s))
<1> DEFINE t == Tail(s)
<1>1. /\ Len(s) \in Nat \ {0} /\ Head(s) = s[1] /\ Head(s) \in On(s)
      /\ t \in Seq(S) /\ Len(t) = Len(s) - 1
      /\ \A i \in 1..Len(t) : t[i] = s[i + 1]
      /\ On(t) \subseteq On(s)
  BY PopFacts
<1> HIDE DEF t
<1>2. \A i \in 1..Len(t) : i + 1 \in 1..Len(s)
  BY <1>1
<1>3. On(s) \subseteq On(t) \cup {Head(s)}
  <2>1. SUFFICES ASSUME NEW i \in 1..Len(s), i # 1 PROVE s[i] \in On(t)
    BY <1>1, ZenonT(60) DEF On
  <2>2. i - 1 \in 1..Len(t) /\ (i - 1) + 1 = i
    BY <1>1, <2>1
  <2>3. t[i - 1] = s[i]
    BY <1>1, <2>2
  <2>4. QED
    BY <2>2, <2>3 DEF On
<1>4. ASSUME NEW f, Once(s, f) PROVE Once(t, f)
  <2>1. SUFFICES ASSUME NEW i \in 1..Len(t), NEW j \in 1..Len(t), t[i] = f, t[j] = f PROVE i = j
    BY DEF Once
  <2>2. i + 1 = j + 1
    BY <1>1, <1>2, <1>4, <2>1 DEF Once
  <2>3. QED
    BY <1>1, <2>2
<1>5. ASSUME Once(s, Head(s)) PROVE Head(s) \notin On(t)
  <2>1. SUFFICES ASSUME NEW i \in 1..Len(t), t[i] = Head(s) PROVE FALSE
    BY DEF On
  <2>2. 1 \in 1..Len(s) /\ s[i + 1] = Head(s)
    BY <1>1, <2>1
  <2>3. i + 1 = 1
    BY <1>1, <1>2, <1>5, <2>2 DEF Once
  <2>4. QED
    BY <1>1, <2>3
<1>6. QED
  BY <1>1, <1>3, <1>4, <1>5 DEF t

\* Entering two frames at once.
LEMMA PushTwo ==
  ASSUME NEW S, NEW s \in Seq(S), NEW a \in S, NEW b \in S
  PROVE  <<a, b>> \o s = <<a>> \o (<<b>> \o s)
<1>1. <<a>> \in Seq(S) /\ <<b>> \in Seq(S)
  OBVIOUS
<1>2. <<a>> \o <<b>> = <<a, b>>
  <2> DEFINE u == <<a>> \o <<b>>
             v == <<a, b>>
  <2>1. /\ u \in Seq(S) /\ Len(u) = 2
        /\ \A i \in 1..2 : u[i] = IF i <= 1 THEN <<a>>[i] ELSE <<b>>[i - 1]
    <3>1. Len(<<a>>) = 1 /\ Len(<<b>>) = 1
      OBVIOUS
    <3>2. QED
      BY <1>1, <3>1
  <2>2. v \in Seq(S) /\ Len(v) = 2 /\ v[1] = a /\ v[2] = b
    OBVIOUS
  <2>3. u[1] = a /\ u[2] = b
    BY <2>1
  <2> HIDE DEF u, v
  <2>4. \A i \in 1..Len(u) : u[i] = v[i]
    BY <2>1, <2>2, <2>3
  <2>5. u = v
    BY <2>1, <2>2, <2>4
  <2>6. QED
    BY <2>5 DEF u, v
<1>3. QED
  <2>1. (<<a>> \o <<b>>) \o s = <<a>> \o (<<b>> \o s)
    BY <1>1, SMTT(60)
  <2>2. QED
    BY <1>2, <2>1, ZenonT(60)

\* Adding an element at the end of a list.
LEMMA AppendOn ==
  ASSUME NEW S, NEW s \in Seq(S), NEW x \in S
  PROVE  /\ Append(s, x) \in Seq(S) /\ Len(s) \in Nat /\ Len(Append(s, x)) = Len(s) + 1
         /\ On(Append(s, x)) = On(s) \cup {x}
         /\ IsInjective(s) /\ x \notin On(s) => IsInjective(Append(s, x))
<1> DEFINE a == Append(s, x)
<1>1. /\ a \in Seq(S) /\ Len(a) = Len(s) + 1 /\ Len(s) \in Nat
      /\ a[Len(s) + 1] = x /\ \A i \in 1..Len(s) : a[i] = s[i]
      /\ DOMAIN a = 1..Len(a) /\ DOMAIN s = 1..Len(s)
  OBVIOUS
<1> HIDE DEF a
<1>2. \A i \in 1..Len(a) : i \in 1..Len(s) \/ i = Len(s) + 1
  BY <1>1
<1>3. 1..Len(s) \subseteq 1..Len(a) /\ Len(s) + 1 \in 1..Len(a)
  BY <1>1
<1>4. On(a) = On(s) \cup {x}
  BY <1>1, <1>2, <1>3 DEF On
<1>5. ASSUME IsInjective(s), x \notin On(s) PROVE IsInjective(a)
  <2>1. SUFFICES ASSUME NEW i \in 1..Len(a), NEW j \in 1..Len(a), a[i] = a[j] PROVE i = j
    BY <1>1 DEF IsInjective
  <2>2. CASE i \in 1..Len(s) /\ j \in 1..Len(s)
    BY <1>1, <1>5, <2>1, <2>2 DEF IsInjective
  <2>3. CASE i \in 1..Len(s) /\ j = Len(s) + 1
    BY <1>1, <1>5, <2>1, <2>3 DEF On
  <2>4. CASE i = Len(s) + 1 /\ j \in 1..Len(s)
    BY <1>1, <1>5, <2>1, <2>4 DEF On
  <2>5. QED
    BY <1>2, <2>2, <2>3, <2>4
<1>6. QED
  BY <1>1, <1>4, <1>5 DEF a

\* Entering and leaving a call, for a stack where no frame repeats.
LEMMA PushCall ==
  ASSUME NEW S, NEW s \in Seq(S), IsInjective(s), NEW f \in S, f \notin On(s)
  PROVE  /\ <<f>> \o s \in Seq(S) /\ IsInjective(<<f>> \o s)
         /\ On(<<f>> \o s) = On(s) \cup {f}
BY PushFacts, PushInjective

\* Leaving one.
LEMMA PopCall ==
  ASSUME NEW S, NEW s \in Seq(S), IsInjective(s), s # <<>>
  PROVE  /\ Tail(s) \in Seq(S) /\ IsInjective(Tail(s)) /\ Head(s) \in On(s)
         /\ On(Tail(s)) = On(s) \ {Head(s)}
BY PopFacts

\* The empty stack, and a stack with one call.
LEMMA OneCall ==
  ASSUME NEW S, NEW f \in S
  PROVE  /\ <<>> \in Seq(S) /\ IsInjective(<<>>) /\ On(<<>>) = {}
         /\ <<f>> \in Seq(S) /\ IsInjective(<<f>>) /\ On(<<f>>) = {f}
BY DEF On, IsInjective

\* Removing the only entry of a list leaves none.
LEMMA UnregisterOnly == ASSUME NEW t PROVE Unregistered(<<t>>, t) = <<>>
<1> DEFINE u == Unregistered(<<t>>, t)
<1>1. <<t>> \in Seq({t}) /\ IsInjective(<<t>>) /\ On(<<t>>) = {t}
  BY OneCall, ZenonT(60)
<1>2. u \in Seq({t}) /\ On(u) = On(<<t>>) \ {t}
  BY <1>1, UnregisterFacts, ZenonT(60)
<1> HIDE DEF u
<1>3. \A x : x \notin On(u)
  BY <1>1, <1>2
<1>4. u = <<>>
  BY <1>2, <1>3, PopFacts
<1>5. QED
  BY <1>4 DEF u

\* Nothing is on the empty stack.
LEMMA EmptyFacts == On(<<>>) = {} /\ IsInjective(<<>>)
BY DEF On, IsInjective

-----------------------------------------------------------------------------
(* async_close_state.                                                      *)

\* The record of a handle that nobody closes.
LEMMA OpenStateFacts ==
  \A T : /\ OpenState \in CloseStates(T) /\ OpenState.phase = "open"
         /\ OpenState.waiters = <<>> /\ OpenState.callback_waiter = <<>>
         /\ ~OpenState.owner_released /\ ~OpenState.completion_active
<1>1. TAKE T
<1>2. <<>> \in Seq(T)
  OBVIOUS
<1>3. OpenState \in CloseStates(T)
  BY <1>2, ZenonT(60) DEF OpenState, CloseStates
<1>4. OpenState.phase = "open" /\ OpenState.waiters = <<>> /\ OpenState.callback_waiter = <<>>
  BY DEF OpenState
<1>5. ~OpenState.owner_released /\ ~OpenState.completion_active
  BY ZenonT(60) DEF OpenState
<1>6. QED
  BY <1>3, <1>4, <1>5

\* What the steps of an asynchronous close do to its record.
LEMMA CloseFacts ==
  ASSUME NEW T, NEW c \in CloseStates(T)
  PROVE  /\ c.phase \in {"open", "closing", "closed"} /\ c.waiters \in Seq(T)
         /\ Begun(c) \in CloseStates(T) /\ Begun(c).phase = "closing"
         /\ Begun(c).waiters = c.waiters /\ Begun(c).callback_waiter = c.callback_waiter
         /\ Begun(c).owner_released = c.owner_released
         /\ Begun(c).completion_active = c.completion_active
BY DEF CloseStates, Begun

\* The owner goes away.
LEMMA ReleasedFacts ==
  ASSUME NEW T, NEW c \in CloseStates(T)
  PROVE  /\ OwnerReleased(c) \in CloseStates(T) /\ OwnerReleased(c).owner_released
         /\ OwnerReleased(c).phase = c.phase
         /\ OwnerReleased(c).waiters = c.waiters
         /\ OwnerReleased(c).callback_waiter = c.callback_waiter
         /\ OwnerReleased(c).completion_active = c.completion_active
BY ZenonT(60) DEF CloseStates, OwnerReleased

\* A close that begins because the owner is gone.
LEMMA AbandonedFacts ==
  ASSUME NEW T, NEW c \in CloseStates(T)
  PROVE  /\ Begun(OwnerReleased(c)) \in CloseStates(T)
         /\ Begun(OwnerReleased(c)).phase = "closing" /\ Begun(OwnerReleased(c)).owner_released
         /\ Begun(OwnerReleased(c)).waiters = c.waiters
         /\ Begun(OwnerReleased(c)).callback_waiter = c.callback_waiter
         /\ Begun(OwnerReleased(c)).completion_active = c.completion_active
<1> DEFINE r == OwnerReleased(c)
<1>1. r \in CloseStates(T) /\ r.waiters = c.waiters /\ r.callback_waiter = c.callback_waiter
  BY ReleasedFacts
<1>2. r.owner_released /\ r.completion_active = c.completion_active
  BY ReleasedFacts, ZenonT(60)
<1> HIDE DEF r
<1>3. /\ Begun(r) \in CloseStates(T) /\ Begun(r).phase = "closing" /\ Begun(r).waiters = c.waiters
      /\ Begun(r).callback_waiter = c.callback_waiter
  BY <1>1, CloseFacts
<1>4. /\ Begun(r).owner_released = r.owner_released
      /\ Begun(r).completion_active = r.completion_active
  BY <1>1, CloseFacts
<1>5. QED
  BY <1>2, <1>3, <1>4, ZenonT(60) DEF r

\* close_async_and_resume leaves one waiter for the close callback.
LEMMA CallbackFacts ==
  ASSUME NEW T, NEW c \in CloseStates(T), NEW t \in T
  PROVE  /\ WithCallbackWaiter(c, t) \in CloseStates(T)
         /\ WithCallbackWaiter(c, t).callback_waiter = <<t>>
         /\ WithCallbackWaiter(c, t).phase = c.phase
         /\ WithCallbackWaiter(c, t).waiters = c.waiters
         /\ WithCallbackWaiter(c, t).owner_released = c.owner_released
         /\ WithCallbackWaiter(c, t).completion_active = c.completion_active
<1>1. <<t>> \in Seq(T)
  OBVIOUS
<1>2. QED
  BY <1>1, ZenonT(60) DEF CloseStates, WithCallbackWaiter

\* A waiter joins the list.
LEMMA WaiterFacts ==
  ASSUME NEW T, NEW c \in CloseStates(T), NEW t \in T
  PROVE  /\ WithWaiter(c, t) \in CloseStates(T) /\ WithWaiter(c, t).waiters = Append(c.waiters, t)
         /\ WithWaiter(c, t).phase = c.phase
         /\ WithWaiter(c, t).callback_waiter = c.callback_waiter
         /\ WithWaiter(c, t).owner_released = c.owner_released
         /\ WithWaiter(c, t).completion_active = c.completion_active
<1>1. c.waiters \in Seq(T) /\ Append(c.waiters, t) \in Seq(T)
  BY DEF CloseStates
<1>2. QED
  BY <1>1, ZenonT(60) DEF CloseStates, WithWaiter

\* A waiter that is not on the list yet.
LEMMA NewWaiterFacts ==
  \A T : \A c \in CloseStates(T), t \in T :
    IsInjective(c.waiters) /\ t \notin On(c.waiters) =>
      /\ WithWaiter(c, t) \in CloseStates(T) /\ WithWaiter(c, t).phase = c.phase
      /\ WithWaiter(c, t).callback_waiter = c.callback_waiter
      /\ IsInjective(WithWaiter(c, t).waiters)
      /\ On(WithWaiter(c, t).waiters) = On(c.waiters) \cup {t}
<1>1. TAKE T
<1>2. SUFFICES ASSUME NEW c \in CloseStates(T), NEW t \in T,
                      IsInjective(c.waiters), t \notin On(c.waiters)
               PROVE  /\ WithWaiter(c, t) \in CloseStates(T) /\ WithWaiter(c, t).phase = c.phase
                      /\ WithWaiter(c, t).callback_waiter = c.callback_waiter
                      /\ IsInjective(WithWaiter(c, t).waiters)
                      /\ On(WithWaiter(c, t).waiters) = On(c.waiters) \cup {t}
  BY ZenonT(60)
<1>3. c.waiters \in Seq(T)
  BY CloseFacts
<1>4. /\ IsInjective(Append(c.waiters, t))
      /\ On(Append(c.waiters, t)) = On(c.waiters) \cup {t}
  BY <1>2, <1>3, AppendOn
<1>5. /\ WithWaiter(c, t) \in CloseStates(T) /\ WithWaiter(c, t).phase = c.phase
      /\ WithWaiter(c, t).callback_waiter = c.callback_waiter
      /\ WithWaiter(c, t).waiters = Append(c.waiters, t)
  BY WaiterFacts
<1>6. QED
  BY <1>4, <1>5, ZenonT(60)

\* The close callback detaches the waiters, and ends.
LEMMA CompletionFacts ==
  ASSUME NEW T, NEW c \in CloseStates(T)
  PROVE  /\ Completing(c) \in CloseStates(T) /\ Completing(c).phase = "closed"
         /\ Completing(c).waiters = <<>> /\ Completing(c).callback_waiter = <<>>
         /\ Completing(c).owner_released = c.owner_released
         /\ Completing(c).completion_active
         /\ Completed(c) \in CloseStates(T) /\ Completed(c).phase = c.phase
         /\ Completed(c).waiters = c.waiters /\ Completed(c).callback_waiter = c.callback_waiter
         /\ Completed(c).owner_released = c.owner_released
         /\ ~Completed(c).completion_active
         /\ c.callback_waiter = <<>> => DetachedWaiters(c) = c.waiters
<1>1. c.waiters \in Seq(T) /\ <<>> \in Seq(T)
  BY DEF CloseStates
<1>2. /\ Completing(c) \in CloseStates(T) /\ Completing(c).phase = "closed"
      /\ Completing(c).waiters = <<>> /\ Completing(c).callback_waiter = <<>>
      /\ Completing(c).owner_released = c.owner_released
      /\ Completing(c).completion_active
  BY <1>1, ZenonT(60) DEF CloseStates, Completing
<1>3. /\ Completed(c) \in CloseStates(T) /\ Completed(c).phase = c.phase
      /\ Completed(c).waiters = c.waiters /\ Completed(c).callback_waiter = c.callback_waiter
      /\ Completed(c).owner_released = c.owner_released
      /\ ~Completed(c).completion_active
  BY ZenonT(60) DEF CloseStates, Completed
<1>4. c.callback_waiter = <<>> => DetachedWaiters(c) = c.waiters
  BY <1>1 DEF DetachedWaiters
<1>5. QED
  BY <1>2, <1>3, <1>4

=============================================================================
