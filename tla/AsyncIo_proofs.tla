---------------------------- MODULE AsyncIo_proofs ----------------------------
(***************************************************************************)
(* Theorems about AsyncIo, for every set of endpoints and every number of  *)
(* operations: each operation is accounted for once, and operations of one *)
(* direction of one endpoint are answered in the order of the calls.       *)
(***************************************************************************)
EXTENDS AsyncIo, SequenceTheorems, TLAPS

\* In s no operation stands behind a later one of the same place.
Ordered(s, h) ==
    \A i, j \in DOMAIN s : i < j /\ h[s[i]] = h[s[j]] => s[i] < s[j]

\* No operation of S was submitted behind one of T at the same place.
Before(S, T, h) == \A x \in S, y \in T : h[x] = h[y] => x < y

-----------------------------------------------------------------------------
(* Sequences as sets *)

LEMMA SetOfConcat ==
    ASSUME NEW S, NEW s \in Seq(S), NEW t \in Seq(S)
    PROVE  ToSet(s \o t) = ToSet(s) \union ToSet(t)
<1>1. /\ s \o t \in Seq(S) /\ Len(s \o t) = Len(s) + Len(t)
      /\ \A i \in 1 .. Len(s) + Len(t) : (s \o t)[i] = IF i <= Len(s) THEN s[i] ELSE t[i - Len(s)]
    BY ConcatProperties
<1>2. Len(s) \in Nat /\ Len(t) \in Nat /\ DOMAIN s = 1 .. Len(s) /\ DOMAIN t = 1 .. Len(t)
      /\ DOMAIN (s \o t) = 1 .. Len(s) + Len(t)
    BY <1>1, LenProperties
<1>3. ASSUME NEW i \in 1 .. Len(s) + Len(t) PROVE (s \o t)[i] \in ToSet(s) \union ToSet(t)
    BY <1>1, <1>2, <1>3 DEF ToSet
<1>4. ASSUME NEW i \in 1 .. Len(s) PROVE s[i] \in ToSet(s \o t)
  <2>1. i \in DOMAIN (s \o t) /\ (s \o t)[i] = s[i]
      BY <1>1, <1>2
  <2> QED
      BY <2>1 DEF ToSet
<1>5. ASSUME NEW i \in 1 .. Len(t) PROVE t[i] \in ToSet(s \o t)
  <2>1. Len(s) + i \in DOMAIN (s \o t) /\ (s \o t)[Len(s) + i] = t[i]
      BY <1>1, <1>2
  <2> QED
      BY <2>1 DEF ToSet
<1> QED
    BY <1>2, <1>3, <1>4, <1>5 DEF ToSet

LEMMA OrderedConcat ==
    ASSUME NEW S, NEW s \in Seq(S), NEW t \in Seq(S), NEW h,
           Ordered(s, h), Ordered(t, h), Before(ToSet(s), ToSet(t), h)
    PROVE  Ordered(s \o t, h)
<1>1. /\ s \o t \in Seq(S) /\ Len(s \o t) = Len(s) + Len(t)
      /\ \A i \in 1 .. Len(s) + Len(t) : (s \o t)[i] = IF i <= Len(s) THEN s[i] ELSE t[i - Len(s)]
    BY ConcatProperties
<1>2. Len(s) \in Nat /\ Len(t) \in Nat /\ DOMAIN s = 1 .. Len(s) /\ DOMAIN t = 1 .. Len(t)
      /\ DOMAIN (s \o t) = 1 .. Len(s) + Len(t)
    BY <1>1, LenProperties
<1> SUFFICES ASSUME NEW i \in 1 .. Len(s) + Len(t), NEW j \in 1 .. Len(s) + Len(t), i < j,
                    h[(s \o t)[i]] = h[(s \o t)[j]]
             PROVE  (s \o t)[i] < (s \o t)[j]
    BY <1>2 DEF Ordered
<1>3. CASE j <= Len(s)
    BY <1>1, <1>2, <1>3 DEF Ordered
<1>4. CASE i > Len(s)
  <2>1. i - Len(s) \in DOMAIN t /\ j - Len(s) \in DOMAIN t /\ i - Len(s) < j - Len(s)
      BY <1>2, <1>4
  <2>2. (s \o t)[i] = t[i - Len(s)] /\ (s \o t)[j] = t[j - Len(s)]
      BY <1>1, <1>2, <1>4
  <2> QED
      BY <2>1, <2>2 DEF Ordered
<1>5. CASE i <= Len(s) /\ j > Len(s)
  <2>1. i \in DOMAIN s /\ j - Len(s) \in DOMAIN t
      BY <1>2, <1>5
  <2>2. (s \o t)[i] = s[i] /\ (s \o t)[j] = t[j - Len(s)]
      BY <1>1, <1>2, <1>5
  <2>3. s[i] \in ToSet(s) /\ t[j - Len(s)] \in ToSet(t)
      BY <2>1 DEF ToSet
  <2> QED
      BY <2>2, <2>3 DEF Before
<1> QED
    BY <1>2, <1>3, <1>4, <1>5

LEMMA Singleton ==
    ASSUME NEW S, NEW x \in S, NEW h
    PROVE  <<x>> \in Seq(S) /\ ToSet(<<x>>) = {x} /\ Ordered(<<x>>, h)
<1>1. <<x>> \in Seq(S) /\ DOMAIN <<x>> = {1} /\ <<x>>[1] = x
    OBVIOUS
<1>2. ToSet(<<x>>) = {x}
    BY <1>1 DEF ToSet
<1>3. Ordered(<<x>>, h)
    BY <1>1 DEF Ordered
<1> QED
    BY <1>1, <1>2, <1>3

LEMMA EmptyIsOrdered ==
    ASSUME NEW S, NEW h
    PROVE  <<>> \in Seq(S) /\ ToSet(<<>>) = {} /\ Ordered(<<>>, h)
<1>1. <<>> \in Seq(S) /\ DOMAIN <<>> = {}
    OBVIOUS
<1>2. ToSet(<<>>) = {}
    BY <1>1 DEF ToSet
<1>3. Ordered(<<>>, h)
    BY <1>1 DEF Ordered
<1> QED
    BY <1>1, <1>2, <1>3

LEMMA HeadAndTail ==
    ASSUME NEW S, NEW s \in Seq(S), s # <<>>, NEW h, Ordered(s, h)
    PROVE  /\ Head(s) \in S /\ Tail(s) \in Seq(S)
           /\ ToSet(s) = {Head(s)} \union ToSet(Tail(s))
           /\ Before({Head(s)}, ToSet(Tail(s)), h)
           /\ Ordered(Tail(s), h)
<1>1. /\ Head(s) \in S /\ Tail(s) \in Seq(S) /\ Head(s) = s[1]
      /\ Len(s) \in Nat /\ Len(s) > 0 /\ Len(Tail(s)) = Len(s) - 1
      /\ \A i \in 1 .. Len(s) - 1 : Tail(s)[i] = s[i + 1]
    BY HeadTailProperties, EmptySeq, LenProperties
<1>2. DOMAIN s = 1 .. Len(s) /\ DOMAIN Tail(s) = 1 .. Len(s) - 1
    BY <1>1, LenProperties
<1>3. ASSUME NEW i \in 1 .. Len(s) PROVE s[i] \in {Head(s)} \union ToSet(Tail(s))
  <2>1. CASE i = 1
      BY <1>1, <2>1
  <2>2. CASE i # 1
    <3>1. i - 1 \in DOMAIN Tail(s) /\ Tail(s)[i - 1] = s[i]
        BY <1>1, <1>2, <2>2
    <3> QED
        BY <3>1 DEF ToSet
  <2> QED
      BY <2>1, <2>2
<1>4. ASSUME NEW i \in 1 .. Len(s) - 1 PROVE Tail(s)[i] \in ToSet(s)
  <2>1. i + 1 \in DOMAIN s /\ Tail(s)[i] = s[i + 1]
      BY <1>1, <1>2
  <2> QED
      BY <2>1 DEF ToSet
<1>5. 1 \in DOMAIN s /\ Head(s) \in ToSet(s)
    BY <1>1, <1>2 DEF ToSet
<1>6. ToSet(s) = {Head(s)} \union ToSet(Tail(s))
    BY <1>2, <1>3, <1>4, <1>5 DEF ToSet
<1>7. ASSUME NEW i \in 1 .. Len(s) - 1, h[Head(s)] = h[Tail(s)[i]] PROVE Head(s) < Tail(s)[i]
  <2>1. i + 1 \in DOMAIN s /\ 1 < i + 1 /\ Tail(s)[i] = s[i + 1]
      BY <1>1, <1>2
  <2> QED
      BY <1>1, <1>5, <1>7, <2>1 DEF Ordered
<1>8. Before({Head(s)}, ToSet(Tail(s)), h)
    BY <1>2, <1>7 DEF Before, ToSet
<1>9. ASSUME NEW i \in 1 .. Len(s) - 1, NEW j \in 1 .. Len(s) - 1, i < j,
             h[Tail(s)[i]] = h[Tail(s)[j]]
      PROVE  Tail(s)[i] < Tail(s)[j]
  <2>1. i + 1 \in DOMAIN s /\ j + 1 \in DOMAIN s /\ i + 1 < j + 1
      BY <1>2, <1>9
  <2>2. Tail(s)[i] = s[i + 1] /\ Tail(s)[j] = s[j + 1]
      BY <1>1
  <2> QED
      BY <1>9, <2>1, <2>2 DEF Ordered
<1>10. Ordered(Tail(s), h)
    BY <1>2, <1>9 DEF Ordered
<1> QED
    BY <1>1, <1>6, <1>8, <1>10

-----------------------------------------------------------------------------
(* The invariant, of a state given by its parts *)

Typed(is, h, q, d, a, dr) ==
    /\ is \in 0 .. MaxOps
    /\ h \in [Ops -> Places \union {Nowhere}]
    /\ q \in [Places -> Seq(Ops)]
    /\ d \in Seq(Ops)
    /\ a \in SUBSET Ops
    /\ dr \in SUBSET Ops

\* Only operations that were submitted are anywhere, and those queued where they belong.
Known(is, h, q, d, a, dr) ==
    /\ \A o \in ToSet(d) \union a \union dr : o <= is
    /\ \A p \in Places : \A o \in ToSet(q[p]) : o <= is /\ h[o] = p

\* The callbacks that were invoked, the completed operations and the queues are, place
\* by place, one sequence.
Sorted(h, q, d, a) ==
    /\ Ordered(d, h) /\ Before(a, ToSet(d), h)
    /\ \A p \in Places : /\ Ordered(q[p], h)
                         /\ Before(a, ToSet(q[p]), h)
                         /\ Before(ToSet(d), ToSet(q[p]), h)

Apart(q, d, a, dr) ==
    /\ dr \intersect (a \union ToSet(d)) = {}
    /\ \A p \in Places : dr \intersect ToSet(q[p]) = {}

Present(is, q, d, a, dr) ==
    \A o \in 1 .. is : \/ o \in a \union dr \union ToSet(d)
                       \/ \E p \in Places : o \in ToSet(q[p])

Good(is, h, q, d, a, dr) ==
    /\ Typed(is, h, q, d, a, dr)
    /\ Known(is, h, q, d, a, dr)
    /\ Sorted(h, q, d, a)
    /\ Apart(q, d, a, dr)
    /\ Present(is, q, d, a, dr)

Inv == Good(issued, home, queue, done, answered, dropped)

LEMMA PlacesOf ==
    ASSUME NEW ep \in Endpoints, NEW dir \in Directions
    PROVE  [ep |-> ep, dir |-> dir] \in Places
BY DEF Places

LEMMA InvInit == MaxOps \in Nat /\ Init => Inv
<1> SUFFICES ASSUME MaxOps \in Nat, Init PROVE Inv
    OBVIOUS
<1>1. /\ ToSet(done) = {} /\ Ordered(done, home) /\ done \in Seq(Ops)
      /\ \A p \in Places : ToSet(queue[p]) = {} /\ Ordered(queue[p], home) /\ queue[p] \in Seq(Ops)
    BY EmptyIsOrdered DEF Init
<1>2. Typed(issued, home, queue, done, answered, dropped)
    BY <1>1 DEF Init, Typed
<1>3. Known(issued, home, queue, done, answered, dropped)
    BY <1>1 DEF Init, Known
<1>4. Sorted(home, queue, done, answered)
    BY <1>1 DEF Init, Sorted, Before
<1>5. Apart(queue, done, answered, dropped)
    BY <1>1 DEF Init, Apart
<1>6. Present(issued, queue, done, answered, dropped)
    BY DEF Init, Present
<1> QED
    BY <1>2, <1>3, <1>4, <1>5, <1>6 DEF Inv, Good

\* The front x of a queue completes, y stays: the step of Complete, and of Abort for
\* each of its two queues.
LEMMA MoveKeeps ==
    ASSUME NEW is, NEW h, NEW q, NEW d, NEW a, NEW dr, Good(is, h, q, d, a, dr),
           NEW p \in Places, NEW x \in Seq(Ops), NEW y \in Seq(Ops),
           ToSet(q[p]) = ToSet(x) \union ToSet(y),
           Ordered(x, h), Ordered(y, h), Before(ToSet(x), ToSet(y), h)
    PROVE  Good(is, h, [q EXCEPT ![p] = y], d \o x, a, dr)
<1> DEFINE Q == [q EXCEPT ![p] = y]
           D == d \o x
<1>1. /\ Typed(is, h, q, d, a, dr) /\ Known(is, h, q, d, a, dr) /\ Sorted(h, q, d, a)
      /\ Apart(q, d, a, dr) /\ Present(is, q, d, a, dr)
    BY DEF Good
<1>2. d \in Seq(Ops) /\ q \in [Places -> Seq(Ops)]
    BY <1>1 DEF Typed
<1>3. Q \in [Places -> Seq(Ops)] /\ Q[p] = y /\ \A r \in Places : r # p => Q[r] = q[r]
    BY <1>2
<1>4. D \in Seq(Ops) /\ ToSet(D) = ToSet(d) \union ToSet(x)
    BY <1>2, SetOfConcat, ConcatProperties
<1> HIDE DEF Q, D
<1>5. \A o \in ToSet(q[p]) : o <= is /\ h[o] = p
    BY <1>1 DEF Known
<1>6. Typed(is, h, Q, D, a, dr)
    BY <1>1, <1>3, <1>4 DEF Typed
<1>7. Known(is, h, Q, D, a, dr)
  <2>1. \A o \in ToSet(D) \union a \union dr : o <= is
      BY <1>1, <1>4, <1>5 DEF Known
  <2>2. \A r \in Places : \A o \in ToSet(Q[r]) : o <= is /\ h[o] = r
      BY <1>1, <1>3, <1>5 DEF Known
  <2> QED
      BY <2>1, <2>2 DEF Known
<1>8. Sorted(h, Q, D, a)
  <2>1. Ordered(D, h)
    <3>1. Ordered(d, h) /\ Before(ToSet(d), ToSet(x), h)
        BY <1>1 DEF Sorted, Before
    <3> QED
        BY <1>2, <3>1, OrderedConcat DEF D
  <2>2. Before(a, ToSet(D), h)
      BY <1>1, <1>4 DEF Sorted, Before
  <2>3. ASSUME NEW r \in Places
        PROVE  Ordered(Q[r], h) /\ Before(a, ToSet(Q[r]), h) /\ Before(ToSet(D), ToSet(Q[r]), h)
    <3>1. CASE r = p
      <4>1. Ordered(Q[r], h)
          BY <1>3, <3>1
      <4>2. Before(a, ToSet(q[p]), h) /\ Before(ToSet(d), ToSet(q[p]), h)
          BY <1>1 DEF Sorted
      <4>3. Before(a, ToSet(Q[r]), h)
          BY <1>3, <3>1, <4>2 DEF Before
      <4>4. Before(ToSet(D), ToSet(Q[r]), h)
          BY <1>3, <1>4, <3>1, <4>2 DEF Before
      <4> QED
          BY <4>1, <4>3, <4>4
    <3>2. CASE r # p
      <4>1. Q[r] = q[r] /\ \A o \in ToSet(q[r]) : h[o] = r
          BY <1>1, <1>3, <3>2 DEF Known
      <4>2. Ordered(q[r], h) /\ Before(a, ToSet(q[r]), h) /\ Before(ToSet(d), ToSet(q[r]), h)
          BY <1>1 DEF Sorted
      <4>3. Before(ToSet(x), ToSet(q[r]), h)
          BY <1>5, <3>2, <4>1 DEF Before
      <4>4. Before(ToSet(D), ToSet(Q[r]), h)
          BY <1>4, <4>1, <4>2, <4>3 DEF Before
      <4> QED
          BY <4>1, <4>2, <4>4
    <3> QED
        BY <3>1, <3>2
  <2> QED
      BY <2>1, <2>2, <2>3 DEF Sorted
<1>9. Apart(Q, D, a, dr)
  <2>1. dr \intersect (a \union ToSet(D)) = {}
      BY <1>1, <1>4 DEF Apart
  <2>2. \A r \in Places : dr \intersect ToSet(Q[r]) = {}
      BY <1>1, <1>3 DEF Apart
  <2> QED
      BY <2>1, <2>2 DEF Apart
<1>10. Present(is, Q, D, a, dr)
  <2> SUFFICES ASSUME NEW o \in 1 .. is, o \notin a \union dr \union ToSet(D)
               PROVE  \E r \in Places : o \in ToSet(Q[r])
      BY DEF Present
  <2>1. PICK r \in Places : o \in ToSet(q[r])
      BY <1>1, <1>4 DEF Present
  <2> QED
      BY <1>3, <1>4, <2>1
<1> QED
    BY <1>6, <1>7, <1>8, <1>9, <1>10 DEF Good, Q, D

\* A whole queue completes: half of Abort.
LEMMA FlushKeeps ==
    ASSUME NEW is, NEW h, NEW q, NEW d, NEW a, NEW dr, Good(is, h, q, d, a, dr),
           NEW p \in Places
    PROVE  Good(is, h, [q EXCEPT ![p] = <<>>], d \o q[p], a, dr)
<1>1. q[p] \in Seq(Ops) /\ Ordered(q[p], h)
    BY DEF Good, Typed, Sorted
<1>2. <<>> \in Seq(Ops) /\ ToSet(<<>>) = {} /\ Ordered(<<>>, h)
    BY EmptyIsOrdered
<1>3. ToSet(q[p]) = ToSet(q[p]) \union ToSet(<<>>) /\ Before(ToSet(q[p]), ToSet(<<>>), h)
    BY <1>2 DEF Before
<1> QED
    BY <1>1, <1>2, <1>3, MoveKeeps

\* A whole queue is dropped: half of Drop.
LEMMA DiscardKeeps ==
    ASSUME NEW is, NEW h, NEW q, NEW d, NEW a, NEW dr, Good(is, h, q, d, a, dr),
           NEW p \in Places
    PROVE  Good(is, h, [q EXCEPT ![p] = <<>>], d, a, dr \union ToSet(q[p]))
<1> DEFINE Q == [q EXCEPT ![p] = <<>>]
           R == dr \union ToSet(q[p])
<1>1. /\ Typed(is, h, q, d, a, dr) /\ Known(is, h, q, d, a, dr) /\ Sorted(h, q, d, a)
      /\ Apart(q, d, a, dr) /\ Present(is, q, d, a, dr)
    BY DEF Good
<1>2. <<>> \in Seq(Ops) /\ ToSet(<<>>) = {} /\ Ordered(<<>>, h)
    BY EmptyIsOrdered
<1>3. /\ Q \in [Places -> Seq(Ops)] /\ Q[p] = <<>>
      /\ \A r \in Places : r # p => Q[r] = q[r]
    BY <1>1, <1>2 DEF Typed
<1>4. ToSet(q[p]) \subseteq Ops
  <2>1. q[p] \in Seq(Ops)
      BY <1>1 DEF Typed
  <2>2. \A i \in DOMAIN q[p] : q[p][i] \in Ops
      BY <2>1, ElementOfSeq, LenProperties
  <2> QED
      BY <2>2 DEF ToSet
<1> HIDE DEF Q
<1>5. Typed(is, h, Q, d, a, R)
    BY <1>1, <1>3, <1>4 DEF Typed
<1>6. Known(is, h, Q, d, a, R)
    BY <1>1, <1>2, <1>3 DEF Known
<1>7. Sorted(h, Q, d, a)
  <2>1. ASSUME NEW r \in Places
        PROVE  Ordered(Q[r], h) /\ Before(a, ToSet(Q[r]), h) /\ Before(ToSet(d), ToSet(Q[r]), h)
      BY <1>1, <1>2, <1>3 DEF Sorted, Before
  <2> QED
      BY <1>1, <2>1 DEF Sorted
<1>8. Apart(Q, d, a, R)
  <2>1. ToSet(q[p]) \intersect (a \union ToSet(d)) = {}
    <3>1. Before(a, ToSet(q[p]), h) /\ Before(ToSet(d), ToSet(q[p]), h)
        BY <1>1 DEF Sorted
    <3>2. \A o \in ToSet(q[p]) : o \in Int
        BY <1>4 DEF Ops
    <3> QED
        BY <3>1, <3>2 DEF Before
  <2>2. ASSUME NEW r \in Places PROVE R \intersect ToSet(Q[r]) = {}
    <3>1. CASE r = p
        BY <1>2, <1>3, <3>1
    <3>2. CASE r # p
      <4>1. Q[r] = q[r] /\ dr \intersect ToSet(q[r]) = {}
          BY <1>1, <1>3, <3>2 DEF Apart
      <4>2. ToSet(q[p]) \intersect ToSet(q[r]) = {}
          BY <1>1, <3>2 DEF Known
      <4> QED
          BY <4>1, <4>2
    <3> QED
        BY <3>1, <3>2
  <2> QED
      BY <1>1, <2>1, <2>2 DEF Apart
<1>9. Present(is, Q, d, a, R)
  <2> SUFFICES ASSUME NEW o \in 1 .. is, o \notin a \union R \union ToSet(d)
               PROVE  \E r \in Places : o \in ToSet(Q[r])
      BY DEF Present
  <2>1. PICK r \in Places : o \in ToSet(q[r])
      BY <1>1 DEF Present
  <2> QED
      BY <1>3, <2>1
<1> QED
    BY <1>5, <1>6, <1>7, <1>8, <1>9 DEF Good, Q

\* The callback of the operation that completed first is invoked.
LEMMA AnswerKeeps ==
    ASSUME NEW is, NEW h, NEW q, NEW d, NEW a, NEW dr, Good(is, h, q, d, a, dr), d # <<>>
    PROVE  Good(is, h, q, Tail(d), a \union {Head(d)}, dr)
<1> DEFINE D == Tail(d)
           A == a \union {Head(d)}
<1>1. /\ Typed(is, h, q, d, a, dr) /\ Known(is, h, q, d, a, dr) /\ Sorted(h, q, d, a)
      /\ Apart(q, d, a, dr) /\ Present(is, q, d, a, dr)
    BY DEF Good
<1>2. /\ Head(d) \in Ops /\ D \in Seq(Ops)
      /\ ToSet(d) = {Head(d)} \union ToSet(D)
      /\ Before({Head(d)}, ToSet(D), h)
      /\ Ordered(D, h)
    BY <1>1, HeadAndTail DEF Typed, Sorted
<1> HIDE DEF D
<1>3. Typed(is, h, q, D, A, dr)
    BY <1>1, <1>2 DEF Typed
<1>4. Known(is, h, q, D, A, dr)
    BY <1>1, <1>2 DEF Known
<1>5. Sorted(h, q, D, A)
  <2>1. Before(A, ToSet(D), h)
      BY <1>1, <1>2 DEF Sorted, Before
  <2>2. ASSUME NEW p \in Places
        PROVE  Ordered(q[p], h) /\ Before(A, ToSet(q[p]), h) /\ Before(ToSet(D), ToSet(q[p]), h)
      BY <1>1, <1>2 DEF Sorted, Before
  <2> QED
      BY <1>2, <2>1, <2>2 DEF Sorted
<1>6. Apart(q, D, A, dr)
    BY <1>1, <1>2 DEF Apart
<1>7. Present(is, q, D, A, dr)
    BY <1>1, <1>2 DEF Present
<1> QED
    BY <1>3, <1>4, <1>5, <1>6, <1>7 DEF Good, D

\* Operations known before a submission keep their home through it.
LEMMA SameHome ==
    ASSUME NEW S, NEW T, NEW h, NEW g,
           \A o \in S \union T : g[o] = h[o]
    PROVE  /\ Before(S, T, h) => Before(S, T, g)
           /\ \A s \in Seq(Ops) : ToSet(s) \subseteq S /\ Ordered(s, h) => Ordered(s, g)
<1>1. Before(S, T, h) => Before(S, T, g)
    BY DEF Before
<1>2. ASSUME NEW s \in Seq(Ops), ToSet(s) \subseteq S, Ordered(s, h)
      PROVE  Ordered(s, g)
  <2>1. \A i \in DOMAIN s : g[s[i]] = h[s[i]]
      BY <1>2 DEF ToSet
  <2> QED
      BY <1>2, <2>1 DEF Ordered
<1> QED
    BY <1>1, <1>2

\* The operation submitted is later than all others and goes to the end of its queue.
LEMMA SubmitKeeps ==
    ASSUME NEW is \in Nat, NEW h, NEW q, NEW d, NEW a, NEW dr, Good(is, h, q, d, a, dr),
           MaxOps \in Nat, is < MaxOps, NEW p \in Places
    PROVE  Good(is + 1, [h EXCEPT ![is + 1] = p],
                [q EXCEPT ![p] = Append(q[p], is + 1)], d, a, dr)
<1> DEFINE o == is + 1
           H == [h EXCEPT ![o] = p]
           Q == [q EXCEPT ![p] = Append(q[p], o)]
<1>1. /\ Typed(is, h, q, d, a, dr) /\ Known(is, h, q, d, a, dr) /\ Sorted(h, q, d, a)
      /\ Apart(q, d, a, dr) /\ Present(is, q, d, a, dr)
    BY DEF Good
<1>2. o \in Ops /\ o \in Nat /\ o > is /\ o \in 0 .. MaxOps
    BY DEF Ops
<1>3. q[p] \in Seq(Ops) /\ d \in Seq(Ops) /\ a \subseteq Ops /\ dr \subseteq Ops
    BY <1>1 DEF Typed
<1>4. /\ Append(q[p], o) \in Seq(Ops)
      /\ ToSet(Append(q[p], o)) = ToSet(q[p]) \union {o}
      /\ Append(q[p], o) = q[p] \o <<o>>
  <2>1. Append(q[p], o) = q[p] \o <<o>>
      BY <1>2, <1>3, AppendIsConcat
  <2> DEFINE t == <<o>>
  <2>2. t \in Seq(Ops) /\ ToSet(t) = {o}
      BY <1>2, Singleton
  <2> HIDE DEF t
  <2>3. q[p] \o t \in Seq(Ops)
      BY <1>3, <2>2, ConcatProperties
  <2>4. ToSet(q[p] \o t) = ToSet(q[p]) \union ToSet(t)
      BY <1>3, <2>2, SetOfConcat
  <2> QED
      BY <2>1, <2>2, <2>3, <2>4 DEF t
<1>5. /\ Q \in [Places -> Seq(Ops)] /\ Q[p] = Append(q[p], o)
      /\ \A r \in Places : r # p => Q[r] = q[r]
    BY <1>1, <1>4 DEF Typed
<1>6. /\ H \in [Ops -> Places \union {Nowhere}] /\ H[o] = p
      /\ \A x \in Ops : x # o => H[x] = h[x]
    BY <1>1, <1>2 DEF Typed
<1> HIDE DEF H, Q
<1>7. ASSUME NEW x, x \in a \/ x \in dr \/ x \in ToSet(d)
      PROVE  x \in Ops /\ x <= is /\ H[x] = h[x] /\ x < o
  <2>1. x \in Ops
    <3>1. \A i \in DOMAIN d : d[i] \in Ops
        BY <1>3, ElementOfSeq, LenProperties
    <3> QED
        BY <1>3, <1>7, <3>1 DEF ToSet
  <2>2. x <= is
      BY <1>1, <1>7 DEF Known
  <2> QED
      BY <1>2, <1>6, <2>1, <2>2 DEF Ops
<1>8. ASSUME NEW r \in Places, NEW x \in ToSet(q[r])
      PROVE  x \in Ops /\ x <= is /\ H[x] = h[x] /\ h[x] = r /\ x < o
  <2>1. x \in Ops
    <3>1. q[r] \in Seq(Ops)
        BY <1>1 DEF Typed
    <3>2. \A i \in DOMAIN q[r] : q[r][i] \in Ops
        BY <3>1, ElementOfSeq, LenProperties
    <3> QED
        BY <3>2 DEF ToSet
  <2>2. x <= is /\ h[x] = r
      BY <1>1 DEF Known
  <2> QED
      BY <1>2, <1>6, <2>1, <2>2 DEF Ops
<1>9. Typed(o, H, Q, d, a, dr)
    BY <1>1, <1>2, <1>5, <1>6 DEF Typed
<1>10. Known(o, H, Q, d, a, dr)
  <2>1. \A x \in ToSet(d) \union a \union dr : x <= o
      BY <1>7, <1>2 DEF Ops
  <2>2. ASSUME NEW r \in Places, NEW x \in ToSet(Q[r]) PROVE x <= o /\ H[x] = r
    <3>1. CASE x \in ToSet(q[r])
        BY <1>2, <1>8, <3>1 DEF Ops
    <3>2. CASE x \notin ToSet(q[r])
      <4>1. r = p /\ x = o
          BY <1>4, <1>5, <3>2
      <4> QED
          BY <1>2, <1>6, <4>1
    <3> QED
        BY <3>1, <3>2
  <2> QED
      BY <2>1, <2>2 DEF Known
<1>11. Sorted(H, Q, d, a)
  <2>1. Ordered(d, H) /\ Before(a, ToSet(d), H)
    <3>1. Ordered(d, h) /\ Before(a, ToSet(d), h)
        BY <1>1 DEF Sorted
    <3> QED
        BY <1>3, <1>7, <3>1, SameHome
  <2>2. ASSUME NEW r \in Places
        PROVE  /\ Ordered(q[r], H) /\ Before(a, ToSet(q[r]), H)
               /\ Before(ToSet(d), ToSet(q[r]), H)
    <3>1. /\ q[r] \in Seq(Ops) /\ Ordered(q[r], h) /\ Before(a, ToSet(q[r]), h)
          /\ Before(ToSet(d), ToSet(q[r]), h)
        BY <1>1 DEF Sorted, Typed
    <3>2. /\ \A x \in ToSet(q[r]) \union ToSet(q[r]) : H[x] = h[x]
          /\ \A x \in a \union ToSet(q[r]) : H[x] = h[x]
          /\ \A x \in ToSet(d) \union ToSet(q[r]) : H[x] = h[x]
        BY <1>7, <1>8
    <3>3. Ordered(q[r], H)
        BY <3>1, <3>2, SameHome
    <3>4. Before(a, ToSet(q[r]), H)
        BY <3>1, <3>2, SameHome
    <3>5. Before(ToSet(d), ToSet(q[r]), H)
        BY <3>1, <3>2, SameHome
    <3> QED
        BY <3>3, <3>4, <3>5
  <2>3. Ordered(Q[p], H)
    <3>1. Before(ToSet(q[p]), ToSet(<<o>>), H)
        BY <1>2, <1>8, Singleton DEF Before
    <3>2. Ordered(<<o>>, H) /\ <<o>> \in Seq(Ops)
        BY <1>2, Singleton
    <3> QED
        BY <1>3, <1>4, <1>5, <2>2, <3>1, <3>2, OrderedConcat
  <2>4. Before(a, ToSet(Q[p]), H) /\ Before(ToSet(d), ToSet(Q[p]), H)
      BY <1>4, <1>5, <1>7, <2>2 DEF Before
  <2>5. ASSUME NEW r \in Places
        PROVE  /\ Ordered(Q[r], H) /\ Before(a, ToSet(Q[r]), H)
               /\ Before(ToSet(d), ToSet(Q[r]), H)
      BY <1>5, <2>2, <2>3, <2>4
  <2> QED
      BY <2>1, <2>5 DEF Sorted
<1>12. Apart(Q, d, a, dr)
  <2>1. o \notin dr
      BY <1>2, <1>7
  <2> QED
      BY <1>1, <1>4, <1>5, <2>1 DEF Apart
<1>13. Present(o, Q, d, a, dr)
  <2> SUFFICES ASSUME NEW x \in 1 .. o, x \notin a \union dr \union ToSet(d)
               PROVE  \E r \in Places : x \in ToSet(Q[r])
      BY DEF Present
  <2>1. CASE x = o
      BY <1>4, <1>5, <2>1
  <2>2. CASE x # o
    <3>1. x \in 1 .. is
        BY <2>2
    <3>2. PICK r \in Places : x \in ToSet(q[r])
        BY <1>1, <3>1 DEF Present
    <3> QED
        BY <1>4, <1>5, <3>2
  <2> QED
      BY <2>1, <2>2
<1> QED
    BY <1>9, <1>10, <1>11, <1>12, <1>13 DEF Good, H, Q

-----------------------------------------------------------------------------
(* Every step keeps the invariant *)

LEMMA InvNext == MaxOps \in Nat /\ Inv /\ [Next]_vars => Inv'
<1> SUFFICES ASSUME MaxOps \in Nat, Inv, [Next]_vars PROVE Inv'
    OBVIOUS
<1>1. /\ Good(issued, home, queue, done, answered, dropped)
      /\ issued \in Nat /\ queue \in [Places -> Seq(Ops)] /\ done \in Seq(Ops)
    BY DEF Inv, Good, Typed
<1>2. ASSUME NEW p \in Places, Submit(p) PROVE Inv'
  <2>1. Good(issued + 1, [home EXCEPT ![issued + 1] = p],
             [queue EXCEPT ![p] = Append(queue[p], issued + 1)], done, answered, dropped)
      BY <1>1, <1>2, SubmitKeeps DEF Submit
  <2> QED
      BY <1>2, <2>1 DEF Submit, Inv
<1>3. ASSUME NEW p \in Places, Complete(p) PROVE Inv'
  <2> DEFINE x == <<Head(queue[p])>>
             y == Tail(queue[p])
  <2>1. queue[p] \in Seq(Ops) /\ queue[p] # <<>> /\ Ordered(queue[p], home)
      BY <1>1, <1>3 DEF Complete, Good, Sorted
  <2>2. /\ Head(queue[p]) \in Ops /\ y \in Seq(Ops)
        /\ ToSet(queue[p]) = {Head(queue[p])} \union ToSet(y)
        /\ Before({Head(queue[p])}, ToSet(y), home) /\ Ordered(y, home)
      BY <2>1, HeadAndTail
  <2>3. x \in Seq(Ops) /\ ToSet(x) = {Head(queue[p])} /\ Ordered(x, home)
      BY <2>2, Singleton
  <2>4. ToSet(queue[p]) = ToSet(x) \union ToSet(y) /\ Before(ToSet(x), ToSet(y), home)
      BY <2>2, <2>3
  <2>5. Append(done, Head(queue[p])) = done \o x
      BY <1>1, <2>2, AppendIsConcat
  <2> HIDE DEF x, y
  <2>6. Good(issued, home, [queue EXCEPT ![p] = y], done \o x, answered, dropped)
      BY <1>1, <2>2, <2>3, <2>4, MoveKeeps
  <2> QED
      BY <1>3, <2>5, <2>6 DEF Complete, Inv, y
<1>4. ASSUME NEW ep \in Endpoints PROVE Abort(ep) \/ Drop(ep) => Inv'
  <2> DEFINE rd == [ep |-> ep, dir |-> "read"]
             wr == [ep |-> ep, dir |-> "write"]
             Q == [queue EXCEPT ![rd] = <<>>]
  <2>1. rd \in Places /\ wr \in Places /\ rd # wr
      BY PlacesOf DEF Directions
  <2>2. Q[wr] = queue[wr]
      BY <1>1, <2>1
  <2>3. [queue EXCEPT ![rd] = <<>>, ![wr] = <<>>] = [Q EXCEPT ![wr] = <<>>]
      OBVIOUS
  <2>4. CASE Abort(ep)
    <3>1. /\ done' = done \o queue[rd] \o queue[wr] /\ queue' = [Q EXCEPT ![wr] = <<>>]
          /\ UNCHANGED <<issued, home, answered, dropped>>
        BY <2>3, <2>4 DEF Abort
    <3> HIDE DEF rd, wr, Q
    <3>2. Good(issued, home, Q, done \o queue[rd], answered, dropped)
        BY <1>1, <2>1, FlushKeeps DEF Q
    <3>3. Good(issued, home, [Q EXCEPT ![wr] = <<>>], (done \o queue[rd]) \o Q[wr],
               answered, dropped)
        BY <2>1, <3>2, FlushKeeps
    <3> QED
        BY <2>2, <3>1, <3>3 DEF Inv
  <2>5. CASE Drop(ep)
    <3>1. /\ dropped' = dropped \union ToSet(queue[rd]) \union ToSet(queue[wr])
          /\ queue' = [Q EXCEPT ![wr] = <<>>]
          /\ UNCHANGED <<issued, home, done, answered>>
        BY <2>3, <2>5 DEF Drop
    <3> HIDE DEF rd, wr, Q
    <3>2. Good(issued, home, Q, done, answered, dropped \union ToSet(queue[rd]))
        BY <1>1, <2>1, DiscardKeeps DEF Q
    <3>3. Good(issued, home, [Q EXCEPT ![wr] = <<>>], done, answered,
               (dropped \union ToSet(queue[rd])) \union ToSet(Q[wr]))
        BY <2>1, <3>2, DiscardKeeps
    <3> QED
        BY <2>2, <3>1, <3>3 DEF Inv
  <2> QED
      BY <2>4, <2>5
<1>5. CASE Answer
    BY <1>1, <1>5, AnswerKeeps DEF Answer, Inv
<1>6. CASE UNCHANGED vars
    BY <1>6 DEF vars, Inv
<1> QED
    BY <1>2, <1>3, <1>4, <1>5, <1>6 DEF Next

\* What the queues, the completions and the answers hold is ordered, so an earlier
\* operation is at least as far as a later one of its place.
LEMMA InvInOrder == Inv => InOrder
<1> SUFFICES ASSUME Inv, NEW first \in 1 .. issued, NEW second \in 1 .. issued,
                    first < second, home[first] = home[second],
                    first \notin dropped, second \notin dropped
             PROVE  Precedes(first, second)
    BY DEF InOrder
<1>1. /\ Typed(issued, home, queue, done, answered, dropped)
      /\ Known(issued, home, queue, done, answered, dropped)
      /\ Sorted(home, queue, done, answered)
      /\ Present(issued, queue, done, answered, dropped)
    BY DEF Inv, Good
<1>2. issued \in Nat /\ first \in Int /\ second \in Int /\ ~(second < first)
    BY <1>1 DEF Typed
<1>3. ASSUME NEW s, s \in Seq(Ops), Ordered(s, home), first \in ToSet(s), second \in ToSet(s)
      PROVE  \E i, j \in DOMAIN s : i < j /\ s[i] = first /\ s[j] = second
  <2>1. PICK i \in DOMAIN s : s[i] = first
      BY <1>3 DEF ToSet
  <2>2. PICK j \in DOMAIN s : s[j] = second
      BY <1>3 DEF ToSet
  <2>3. i \in Int /\ j \in Int
      BY <1>3, LenProperties
  <2>4. ~(j < i)
      BY <1>2, <1>3, <2>1, <2>2 DEF Ordered
  <2>5. i # j
      BY <1>2, <2>1, <2>2
  <2> QED
      BY <2>1, <2>2, <2>3, <2>4, <2>5
<1>4. CASE first \in answered
    BY <1>4 DEF Precedes
<1>5. CASE first \in ToSet(done)
  <2>1. second \notin answered
      BY <1>1, <1>2, <1>5 DEF Sorted, Before
  <2>2. CASE second \in ToSet(done)
      BY <1>1, <1>3, <1>5, <2>2 DEF Precedes, Typed, Sorted
  <2>3. CASE second \notin ToSet(done)
      BY <1>1, <1>5, <2>1, <2>3 DEF Precedes, Present, Queued
  <2> QED
      BY <2>2, <2>3
<1>6. ASSUME NEW p \in Places, first \in ToSet(queue[p]) PROVE Precedes(first, second)
  <2>1. home[first] = p /\ home[second] = p
      BY <1>1, <1>6 DEF Known
  <2>2. second \notin answered /\ second \notin ToSet(done)
      BY <1>1, <1>2, <1>6 DEF Sorted, Before
  <2>3. PICK r \in Places : second \in ToSet(queue[r])
      BY <1>1, <2>2 DEF Present
  <2>4. r = p
      BY <1>1, <2>1, <2>3 DEF Known
  <2>5. queue[p] \in Seq(Ops) /\ Ordered(queue[p], home)
      BY <1>1 DEF Typed, Sorted
  <2>6. \E i, j \in DOMAIN queue[p] : i < j /\ queue[p][i] = first /\ queue[p][j] = second
      BY <1>3, <1>6, <2>3, <2>4, <2>5
  <2> QED
      BY <2>1, <2>6 DEF Precedes
<1> QED
    BY <1>1, <1>4, <1>5, <1>6 DEF Present

\* A sequence without a step back at a place holds no operation twice.
LEMMA OrderedIsInjective ==
    ASSUME NEW s \in Seq(Ops), NEW h, Ordered(s, h)
    PROVE  IsInjective(s)
<1> SUFFICES ASSUME NEW i \in DOMAIN s, NEW j \in DOMAIN s, s[i] = s[j] PROVE i = j
    BY DEF IsInjective
<1>1. i \in Int /\ j \in Int /\ s[i] \in Ops
    BY LenProperties, ElementOfSeq
<1>2. s[i] \in Int
    BY <1>1 DEF Ops
<1>3. ~(i < j) /\ ~(j < i)
    BY <1>2 DEF Ordered
<1> QED
    BY <1>1, <1>3

LEMMA InvAccounted == MaxOps \in Nat /\ Inv => AccountedOnce
<1> SUFFICES ASSUME MaxOps \in Nat, Inv PROVE AccountedOnce
    OBVIOUS
<1>1. /\ Typed(issued, home, queue, done, answered, dropped)
      /\ Known(issued, home, queue, done, answered, dropped)
      /\ Sorted(home, queue, done, answered)
      /\ Apart(queue, done, answered, dropped)
      /\ Present(issued, queue, done, answered, dropped)
    BY DEF Inv, Good
<1>2. ASSUME NEW o \in Ops
      PROVE  o <= issued <=> Queued(o) \/ o \in ToSet(done) \union answered \union dropped
  <2>1. o <= issued => Queued(o) \/ o \in ToSet(done) \union answered \union dropped
      BY <1>1 DEF Present, Queued, Ops, Typed
  <2>2. Queued(o) \/ o \in ToSet(done) \union answered \union dropped => o <= issued
      BY <1>1 DEF Known, Queued
  <2> QED
      BY <2>1, <2>2
<1>3. ASSUME NEW o \in Ops, Queued(o) PROVE o \notin ToSet(done) \union answered \union dropped
  <2>1. PICK p \in Places : o \in ToSet(queue[p])
      BY <1>3 DEF Queued
  <2>2. Before(answered, ToSet(queue[p]), home) /\ Before(ToSet(done), ToSet(queue[p]), home)
      BY <1>1 DEF Sorted
  <2>3. o \in Int /\ o \notin dropped
      BY <1>1, <2>1 DEF Ops, Apart
  <2> QED
      BY <2>1, <2>2, <2>3 DEF Before
<1>4. ToSet(done) \intersect (answered \union dropped) = {}
  <2>1. ASSUME NEW o \in answered PROVE o \notin ToSet(done)
    <3>1. o \in Int
        BY <1>1 DEF Typed, Ops
    <3> QED
        BY <1>1, <3>1 DEF Sorted, Before
  <2> QED
      BY <1>1, <2>1 DEF Apart
<1>5. answered \intersect dropped = {}
    BY <1>1 DEF Apart
<1>6. IsInjective(done)
    BY <1>1, OrderedIsInjective DEF Typed, Sorted
<1>7. ASSUME NEW p \in Places
      PROVE  IsInjective(queue[p]) /\ \A o \in ToSet(queue[p]) : home[o] = p
  <2>1. queue[p] \in Seq(Ops) /\ Ordered(queue[p], home)
      BY <1>1 DEF Typed, Sorted
  <2> QED
      BY <1>1, <2>1, OrderedIsInjective DEF Known
<1> QED
    BY <1>2, <1>3, <1>4, <1>5, <1>6, <1>7 DEF AccountedOnce

-----------------------------------------------------------------------------
\* The queues, the completions and the answers hold operations that exist.
THEOREM TypeCorrect == MaxOps \in Nat => (Spec => []TypeOK)
<1> SUFFICES ASSUME MaxOps \in Nat PROVE Spec => []TypeOK
    OBVIOUS
<1>1. Init => Inv
    BY InvInit
<1>2. Inv /\ [Next]_vars => Inv'
    BY InvNext
<1>3. Inv => TypeOK
    BY DEF Inv, Good, Typed, TypeOK
<1> QED
    BY <1>1, <1>2, <1>3, PTL DEF Spec

\* Operations submitted on one direction of one endpoint never overtake each other on
\* the way to their callbacks, whatever the number of endpoints and operations.
\* NetIoMux, which implements AsyncIo, answers in the order of the calls therefore.
THEOREM OrderKept == MaxOps \in Nat => (Spec => []InOrder)
<1> SUFFICES ASSUME MaxOps \in Nat PROVE Spec => []InOrder
    OBVIOUS
<1>1. Init => Inv
    BY InvInit
<1>2. Inv /\ [Next]_vars => Inv'
    BY InvNext
<1>3. Inv => InOrder
    BY InvInOrder
<1> QED
    BY <1>1, <1>2, <1>3, PTL DEF Spec

\* Every operation is in one place and in it once: none is forgotten, none is answered
\* twice, none that left with its endpoint is answered.
THEOREM EachAccountedOnce == MaxOps \in Nat => (Spec => []AccountedOnce)
<1> SUFFICES ASSUME MaxOps \in Nat PROVE Spec => []AccountedOnce
    OBVIOUS
<1>1. Init => Inv
    BY InvInit
<1>2. Inv /\ [Next]_vars => Inv'
    BY InvNext
<1>3. Inv => AccountedOnce
    BY InvAccounted
<1> QED
    BY <1>1, <1>2, <1>3, PTL DEF Spec
=============================================================================
