---------------------------- MODULE QueueProofs -----------------------------
(***************************************************************************)
(* Lemmas about message queues, for the proofs about the looper of the     *)
(* app: a queue is a sequence that is read at its head and appended to.    *)
(* What an invariant says of messages under way, it says of the messages   *)
(* of a set: that there is one, or what the last one is.                   *)
(***************************************************************************)
EXTENDS Integers, Sequences, FiniteSets, FiniteSetTheorems, SequenceTheorems,
        WellFoundedInduction, TLAPS

\* A message of the set M is in the queue q.
Has(q, M) == \E i \in 1 .. Len(q) : q[i] \in M

\* The last message of M in q, if there is one, is of G.
LastIn(q, M, G) ==
  \A i \in 1 .. Len(q) :
    q[i] \in M => q[i] \in G \/ \E j \in 1 .. Len(q) : i < j /\ q[j] \in M


\* How many messages of M are in q.
Places(q, M) == {i \in 1 .. Len(q) : q[i] \in M}
Count(q, M) == Cardinality(Places(q, M))

-----------------------------------------------------------------------------
\* An empty queue has no message.
LEMMA HasNone ==
  ASSUME NEW M
  PROVE  ~Has(<<>>, M)
BY DEF Has

\* A queue of one message has what that is.
LEMMA HasOne ==
  ASSUME NEW m, NEW M
  PROVE  Has(<<m>>, M) <=> m \in M
BY DEF Has

\* A queue has what its head is and what its tail has.
LEMMA HasHead ==
  ASSUME NEW S, NEW q \in Seq(S), q # <<>>, NEW M
  PROVE  Has(q, M) <=> Head(q) \in M \/ Has(Tail(q), M)
<1>1. /\ Len(q) \in Nat \ {0}
      /\ Len(Tail(q)) = Len(q) - 1
      /\ Head(q) = q[1]
      /\ \A i \in 1 .. Len(q) - 1 : Tail(q)[i] = q[i + 1]
  BY HeadTailProperties, EmptySeq
<1>2. ASSUME Has(q, M), Head(q) \notin M
      PROVE  Has(Tail(q), M)
  <2>1. PICK i \in 1 .. Len(q) : q[i] \in M
    BY <1>2 DEF Has
  <2>2. i - 1 \in 1 .. Len(q) - 1 /\ Tail(q)[i - 1] = q[i]
    BY <1>1, <1>2, <2>1
  <2>3. QED
    BY <1>1, <2>1, <2>2 DEF Has
<1>3. ASSUME Has(Tail(q), M)
      PROVE  Has(q, M)
  <2>1. PICK i \in 1 .. Len(q) - 1 : Tail(q)[i] \in M
    BY <1>1, <1>3 DEF Has
  <2>2. i + 1 \in 1 .. Len(q) /\ q[i + 1] \in M
    BY <1>1, <2>1
  <2>3. QED
    BY <2>2 DEF Has
<1>4. Head(q) \in M => Has(q, M)
  BY <1>1 DEF Has
<1>5. QED
  BY <1>2, <1>3, <1>4

\* Two queues in a row have what either has.
LEMMA HasConcat ==
  ASSUME NEW S, NEW r \in Seq(S), NEW out \in Seq(S), NEW M
  PROVE  Has(r \o out, M) <=> Has(r, M) \/ Has(out, M)
<1>1. /\ Len(r) \in Nat /\ Len(out) \in Nat
      /\ Len(r \o out) = Len(r) + Len(out)
      /\ \A i \in 1 .. Len(r) + Len(out) :
           (r \o out)[i] = IF i <= Len(r) THEN r[i] ELSE out[i - Len(r)]
  BY ConcatProperties, LenProperties
<1>2. ASSUME Has(r \o out, M)
      PROVE  Has(r, M) \/ Has(out, M)
  <2>1. PICK i \in 1 .. Len(r) + Len(out) : (r \o out)[i] \in M
    BY <1>1, <1>2 DEF Has
  <2>2. CASE i <= Len(r)
    BY <1>1, <2>1, <2>2 DEF Has
  <2>3. CASE i > Len(r)
    <3>1. i - Len(r) \in 1 .. Len(out) /\ out[i - Len(r)] \in M
      BY <1>1, <2>1, <2>3
    <3>2. QED
      BY <3>1 DEF Has
  <2>4. QED
    BY <1>1, <2>2, <2>3
<1>3. ASSUME Has(r, M)
      PROVE  Has(r \o out, M)
  BY <1>1, <1>3 DEF Has
<1>4. ASSUME Has(out, M)
      PROVE  Has(r \o out, M)
  <2>1. PICK i \in 1 .. Len(out) : out[i] \in M
    BY <1>4 DEF Has
  <2>2. Len(r) + i \in 1 .. Len(r) + Len(out) /\ (r \o out)[Len(r) + i] \in M
    BY <1>1, <2>1
  <2>3. QED
    BY <1>1, <2>2 DEF Has
<1>5. QED
  BY <1>2, <1>3, <1>4

\* In a queue without messages of M none is last.
LEMMA LastOfNone ==
  ASSUME NEW q, NEW M, NEW G, ~Has(q, M)
  PROVE  LastIn(q, M, G)
BY DEF Has, LastIn

\* The message that is alone is the last.
LEMMA LastOfOne ==
  ASSUME NEW m, NEW M, NEW G, m \in M => m \in G
  PROVE  LastIn(<<m>>, M, G)
BY DEF LastIn

\* Dispatching the head keeps the last, unless the head was the last.
LEMMA LastOfTail ==
  ASSUME NEW S, NEW q \in Seq(S), q # <<>>, NEW M, NEW G, LastIn(q, M, G)
  PROVE  /\ LastIn(Tail(q), M, G)
         /\ Head(q) \in M => Head(q) \in G \/ Has(Tail(q), M)
<1>1. /\ Len(q) \in Nat \ {0}
      /\ Len(Tail(q)) = Len(q) - 1
      /\ Head(q) = q[1]
      /\ \A i \in 1 .. Len(q) - 1 : Tail(q)[i] = q[i + 1]
  BY HeadTailProperties, EmptySeq
<1>2. ASSUME NEW i \in 1 .. Len(q) - 1, Tail(q)[i] \in M, Tail(q)[i] \notin G
      PROVE  \E j \in 1 .. Len(q) - 1 : i < j /\ Tail(q)[j] \in M
  <2>1. i + 1 \in 1 .. Len(q) /\ q[i + 1] \in M /\ q[i + 1] \notin G
    BY <1>1, <1>2
  <2>2. PICK j \in 1 .. Len(q) : i + 1 < j /\ q[j] \in M
    BY <2>1 DEF LastIn
  <2>3. j - 1 \in 1 .. Len(q) - 1 /\ i < j - 1 /\ Tail(q)[j - 1] = q[j]
    BY <1>1, <2>2
  <2>4. QED
    BY <2>2, <2>3
<1>3. ASSUME Head(q) \in M, Head(q) \notin G
      PROVE  Has(Tail(q), M)
  <2>1. PICK j \in 1 .. Len(q) : 1 < j /\ q[j] \in M
    BY <1>1, <1>3 DEF LastIn
  <2>2. j - 1 \in 1 .. Len(q) - 1 /\ Tail(q)[j - 1] = q[j]
    BY <1>1, <2>1
  <2>3. QED
    BY <1>1, <2>1, <2>2 DEF Has
<1>4. QED
  BY <1>1, <1>2, <1>3 DEF LastIn

\* The last of two queues in a row is the last of the second, if that has any.
LEMMA LastOfConcat ==
  ASSUME NEW S, NEW r \in Seq(S), NEW out \in Seq(S), NEW M, NEW G,
         LastIn(out, M, G), Has(out, M) \/ LastIn(r, M, G)
  PROVE  LastIn(r \o out, M, G)
<1>1. /\ Len(r) \in Nat /\ Len(out) \in Nat
      /\ Len(r \o out) = Len(r) + Len(out)
      /\ \A i \in 1 .. Len(r) + Len(out) :
           (r \o out)[i] = IF i <= Len(r) THEN r[i] ELSE out[i - Len(r)]
  BY ConcatProperties, LenProperties
<1> SUFFICES ASSUME NEW i \in 1 .. Len(r) + Len(out), (r \o out)[i] \in M, (r \o out)[i] \notin G
             PROVE  \E j \in 1 .. Len(r) + Len(out) : i < j /\ (r \o out)[j] \in M
  BY <1>1 DEF LastIn
<1>2. CASE i > Len(r)
  <2>1. i - Len(r) \in 1 .. Len(out) /\ out[i - Len(r)] \in M /\ out[i - Len(r)] \notin G
    BY <1>1, <1>2
  <2>2. PICK j \in 1 .. Len(out) : i - Len(r) < j /\ out[j] \in M
    BY <2>1 DEF LastIn
  <2>3. Len(r) + j \in 1 .. Len(r) + Len(out) /\ i < Len(r) + j /\ (r \o out)[Len(r) + j] \in M
    BY <1>1, <2>2
  <2>4. QED
    BY <2>3
<1>3. CASE i <= Len(r) /\ Has(out, M)
  <2>1. PICK j \in 1 .. Len(out) : out[j] \in M
    BY <1>3 DEF Has
  <2>2. Len(r) + j \in 1 .. Len(r) + Len(out) /\ i < Len(r) + j /\ (r \o out)[Len(r) + j] \in M
    BY <1>1, <1>3, <2>1
  <2>3. QED
    BY <2>2
<1>4. CASE i <= Len(r) /\ LastIn(r, M, G)
  <2>1. i \in 1 .. Len(r) /\ r[i] \in M /\ r[i] \notin G
    BY <1>1, <1>4
  <2>2. PICK j \in 1 .. Len(r) : i < j /\ r[j] \in M
    BY <1>4, <2>1 DEF LastIn
  <2>3. j \in 1 .. Len(r) + Len(out) /\ (r \o out)[j] \in M
    BY <1>1, <2>2
  <2>4. QED
    BY <2>2, <2>3
<1>5. QED
  BY <1>1, <1>2, <1>3, <1>4

\* What a queue has, and what is last in it, after a message was posted.
LEMMA AfterPost ==
  ASSUME NEW S, NEW q \in Seq(S), NEW m \in S, NEW M
  PROVE  /\ Append(q, m) \in Seq(S)
         /\ Has(Append(q, m), M) <=> Has(q, M) \/ m \in M
         /\ \A G : (m \in M => m \in G) /\ (m \in M \/ LastIn(q, M, G)) => LastIn(Append(q, m), M, G)
<1>1. <<m>> \in Seq(S)
  OBVIOUS
<1>2. Append(q, m) = q \o <<m>>
  BY AppendIsConcat
<1>3. Has(q \o <<m>>, M) <=> Has(q, M) \/ m \in M
  BY <1>1, HasConcat, HasOne
<1>4. ASSUME NEW G, m \in M => m \in G, m \in M \/ LastIn(q, M, G)
      PROVE  LastIn(q \o <<m>>, M, G)
  <2>1. LastIn(<<m>>, M, G) /\ (Has(<<m>>, M) \/ LastIn(q, M, G))
    BY <1>4, LastOfOne, HasOne
  <2>2. QED
    BY <1>1, <2>1, LastOfConcat
<1>5. Append(q, m) \in Seq(S)
  BY AppendProperties
<1>6. QED
  BY <1>2, <1>3, <1>4, <1>5

\* What a queue has, and what is last in it, after its head was dispatched and the
\* handler has posted out.
LEMMA AfterDispatch ==
  ASSUME NEW S, NEW q \in Seq(S), q # <<>>, NEW out \in Seq(S), NEW M
  PROVE  /\ Tail(q) \o out \in Seq(S)
         /\ Has(q, M) <=> Head(q) \in M \/ Has(Tail(q), M)
         /\ Has(Tail(q) \o out, M) <=> Has(Tail(q), M) \/ Has(out, M)
         /\ \A G : LastIn(q, M, G) /\ Head(q) \in M => Head(q) \in G \/ Has(Tail(q), M)
         /\ \A G : LastIn(out, M, G) /\ (Has(out, M) \/ LastIn(q, M, G)) => LastIn(Tail(q) \o out, M, G)
<1>1. Tail(q) \in Seq(S)
  BY HeadTailProperties, EmptySeq
<1>2. Tail(q) \o out \in Seq(S)
  BY <1>1, ConcatProperties
<1>3. Has(q, M) <=> Head(q) \in M \/ Has(Tail(q), M)
  BY HasHead
<1>4. Has(Tail(q) \o out, M) <=> Has(Tail(q), M) \/ Has(out, M)
  BY <1>1, HasConcat
<1>5. ASSUME NEW G, LastIn(q, M, G)
      PROVE  /\ LastIn(Tail(q), M, G)
             /\ Head(q) \in M => Head(q) \in G \/ Has(Tail(q), M)
  BY <1>5, LastOfTail
<1>6. ASSUME NEW G, LastIn(out, M, G), Has(out, M) \/ LastIn(q, M, G)
      PROVE  LastIn(Tail(q) \o out, M, G)
  <2>1. Has(out, M) \/ LastIn(Tail(q), M, G)
    BY <1>5, <1>6
  <2>2. QED
    BY <1>1, <1>6, <2>1, LastOfConcat
<1>7. QED
  BY <1>2, <1>3, <1>4, <1>5, <1>6

-----------------------------------------------------------------------------
\* A set of natural numbers has a least one.
Less == {p \in Nat \X Nat : p[1] < p[2]}

LEMMA LessIsWellFounded ==
  IsWellFoundedOn(Less, Nat)
<1>1. OpToRel(<, Nat) = Less
  BY DEF OpToRel, Less
<1>2. QED
  BY <1>1, NatLessThanWellFounded

LEMMA NatMin ==
  ASSUME NEW T \in SUBSET Nat, T # {}
  PROVE  \E n \in T : \A m \in T : n <= m
<1>1. PICK n \in T : \A m \in T : <<m, n>> \notin Less
  BY LessIsWellFounded, WFMin
<1>2. ASSUME NEW m \in T
      PROVE  n <= m
  <2>1. <<m, n>> \notin Less /\ n \in Nat /\ m \in Nat
    BY <1>1
  <2>2. ~ (m < n)
    BY <2>1 DEF Less
  <2>3. QED
    BY <2>1, <2>2
<1>3. QED
  BY <1>2

\* If a queue has messages of M, and the last is of G, then it has one of G.
LEMMA HasLast ==
  ASSUME NEW S, NEW q \in Seq(S), NEW M, NEW G, Has(q, M), LastIn(q, M, G)
  PROVE  Has(q, G)
<1>1. Len(q) \in Nat
  BY LenProperties
<1> DEFINE T == {n \in Nat : \E i \in 1 .. Len(q) : n = Len(q) - i /\ q[i] \in M}
<1>2. T # {}
  <2>1. PICK i \in 1 .. Len(q) : q[i] \in M
    BY DEF Has
  <2>2. Len(q) - i \in T
    BY <1>1, <2>1
  <2>3. QED
    BY <2>2
<1>3. PICK n \in T : \A m \in T : n <= m
  BY <1>2, NatMin
<1>4. PICK i \in 1 .. Len(q) : n = Len(q) - i /\ q[i] \in M
  OBVIOUS
<1>5. ASSUME NEW j \in 1 .. Len(q), i < j, q[j] \in M
      PROVE  FALSE
  <2>1. Len(q) - j \in T
    BY <1>1, <1>5
  <2>2. Len(q) - i <= Len(q) - j
    BY <1>3, <1>4, <2>1
  <2>3. QED
    BY <1>1, <1>5, <2>2
<1>6. q[i] \in G
  BY <1>4, <1>5 DEF LastIn
<1>7. QED
  BY <1>6 DEF Has

\* A queue has a number of messages of M.
LEMMA CountType ==
  ASSUME NEW S, NEW q \in Seq(S), NEW M
  PROVE  IsFiniteSet(Places(q, M)) /\ Count(q, M) \in Nat
<1>1. Len(q) \in Nat
  BY LenProperties
<1>2. IsFiniteSet(1 .. Len(q))
  BY <1>1, FS_Interval
<1>3. Places(q, M) \in SUBSET (1 .. Len(q))
  BY DEF Places
<1>4. IsFiniteSet(Places(q, M))
  BY <1>2, <1>3, FS_Subset
<1>5. QED
  BY <1>4, FS_CardinalityType DEF Count

\* Posting a message counts one more, if it is of M.
LEMMA CountPost ==
  ASSUME NEW S, NEW q \in Seq(S), NEW m \in S, NEW M
  PROVE  Count(Append(q, m), M) = Count(q, M) + (IF m \in M THEN 1 ELSE 0)
<1>1. /\ Len(q) \in Nat
      /\ Len(Append(q, m)) = Len(q) + 1
      /\ \A i \in 1 .. Len(q) : Append(q, m)[i] = q[i]
      /\ Append(q, m)[Len(q) + 1] = m
  BY AppendProperties, LenProperties
<1>2. Places(Append(q, m), M) = IF m \in M THEN Places(q, M) \cup {Len(q) + 1} ELSE Places(q, M)
  BY <1>1 DEF Places
<1>3. Len(q) + 1 \notin Places(q, M)
  BY <1>1 DEF Places
<1>4. IsFiniteSet(Places(q, M)) /\ Count(q, M) \in Nat
  BY CountType
<1>5. CASE m \in M
  <2>1. Cardinality(Places(q, M) \cup {Len(q) + 1}) = Cardinality(Places(q, M)) + 1
    BY <1>3, <1>4, FS_AddElement
  <2>2. QED
    BY <1>2, <1>5, <2>1 DEF Count
<1>6. CASE m \notin M
  BY <1>2, <1>4, <1>6 DEF Count
<1>7. QED
  BY <1>5, <1>6

\* Dispatching a message counts it off; a handler that posts none of M adds nothing.
LEMMA CountDispatch ==
  ASSUME NEW S, NEW q \in Seq(S), q # <<>>, NEW out \in Seq(S), NEW M, ~Has(out, M)
  PROVE  Count(Tail(q) \o out, M) <= Count(q, M) - (IF Head(q) \in M THEN 1 ELSE 0)
<1>1. /\ Len(q) \in Nat \ {0} /\ Len(out) \in Nat
      /\ Tail(q) \in Seq(S)
      /\ Len(Tail(q)) = Len(q) - 1
      /\ Head(q) = q[1]
      /\ \A i \in 1 .. Len(q) - 1 : Tail(q)[i] = q[i + 1]
  BY HeadTailProperties, EmptySeq, LenProperties
<1>2. /\ Len(Tail(q) \o out) = Len(q) - 1 + Len(out)
      /\ \A i \in 1 .. Len(q) - 1 + Len(out) :
           (Tail(q) \o out)[i] = IF i <= Len(q) - 1 THEN Tail(q)[i] ELSE out[i - (Len(q) - 1)]
  BY <1>1, ConcatProperties
<1> DEFINE left == Places(Tail(q) \o out, M)
           before == Places(q, M) \ {1}
<1>3. ASSUME NEW i \in left
      PROVE  i \in 1 .. Len(q) - 1 /\ i + 1 \in before
  <2>1. i \in 1 .. Len(q) - 1 + Len(out) /\ (Tail(q) \o out)[i] \in M
    BY <1>2, <1>3 DEF Places
  <2>2. i <= Len(q) - 1
    <3>1. SUFFICES ASSUME i > Len(q) - 1
                   PROVE  FALSE
      BY <1>1, <2>1
    <3>2. i - (Len(q) - 1) \in 1 .. Len(out) /\ out[i - (Len(q) - 1)] \in M
      BY <1>1, <1>2, <2>1, <3>1
    <3>3. QED
      BY <3>2 DEF Has
  <2>3. i \in 1 .. Len(q) - 1 /\ q[i + 1] \in M
    BY <1>1, <1>2, <2>1, <2>2
  <2>4. QED
    BY <1>1, <2>3 DEF Places
<1>4. IsFiniteSet(Places(q, M)) /\ Count(q, M) \in Nat
  BY CountType
<1>5. /\ IsFiniteSet(before)
      /\ Cardinality(before) = IF 1 \in Places(q, M) THEN Count(q, M) - 1 ELSE Count(q, M)
  BY <1>4, FS_RemoveElement DEF Count
<1>6. 1 \in Places(q, M) <=> Head(q) \in M
  BY <1>1 DEF Places
<1>7. Cardinality(left) <= Cardinality(before)
  <2> DEFINE f == [i \in left |-> i + 1]
  <2>1. f \in [left -> before]
    BY <1>3
  <2>2. \A i, j \in left : f[i] = f[j] => i = j
    BY <1>3
  <2>3. f \in Injection(left, before)
    BY <2>1, <2>2 DEF Injection, IsInjective
  <2>4. QED
    BY <1>5, <2>3, FS_Injection
<1>8. QED
  BY <1>4, <1>5, <1>6, <1>7 DEF Count

-----------------------------------------------------------------------------
\* What is left of a list when its element i is removed.
LEMMA WithoutOne ==
  ASSUME NEW S, NEW s \in Seq(S), NEW i \in 1 .. Len(s)
  PROVE  LET w == SubSeq(s, 1, i - 1) \o SubSeq(s, i + 1, Len(s)) IN
         /\ w \in Seq(S)
         /\ Len(w) = Len(s) - 1
         /\ \A k \in 1 .. Len(s) - 1 : w[k] = IF k < i THEN s[k] ELSE s[k + 1]
<1> DEFINE l == SubSeq(s, 1, i - 1)
           r == SubSeq(s, i + 1, Len(s))
           n == Len(s)
<1>1. n \in Nat /\ i \in Int /\ 1 <= i /\ i <= n /\ \A k \in 1 .. n : s[k] \in S
  BY LenProperties
<1>2. /\ l \in Seq(S) /\ Len(l) = i - 1
      /\ \A k \in 1 .. i - 1 : l[k] = s[k]
  <2>1. 1 \in Int /\ i - 1 \in Int /\ \A k \in 1 .. i - 1 : s[k] \in S
    BY <1>1
  <2>2. /\ l \in Seq(S) /\ Len(l) = IF 1 <= i - 1 THEN (i - 1) - 1 + 1 ELSE 0
        /\ \A k \in 1 .. (i - 1) - 1 + 1 : l[k] = s[1 + k - 1]
    BY <2>1, SubSeqProperties
  <2>3. QED
    BY <1>1, <2>2
<1>3. /\ r \in Seq(S) /\ Len(r) = n - i
      /\ \A k \in 1 .. n - i : r[k] = s[i + k]
  <2>1. i + 1 \in Int /\ n \in Int /\ \A k \in i + 1 .. n : s[k] \in S
    BY <1>1
  <2>2. /\ r \in Seq(S) /\ Len(r) = IF i + 1 <= n THEN n - (i + 1) + 1 ELSE 0
        /\ \A k \in 1 .. n - (i + 1) + 1 : r[k] = s[(i + 1) + k - 1]
    BY <2>1, SubSeqProperties
  <2>3. QED
    BY <1>1, <2>2
<1> HIDE DEF l, r, n
<1>4. /\ l \o r \in Seq(S) /\ Len(l \o r) = n - 1
      /\ \A k \in 1 .. n - 1 : (l \o r)[k] = IF k <= i - 1 THEN l[k] ELSE r[k - (i - 1)]
  <2>1. /\ l \o r \in Seq(S) /\ Len(l \o r) = Len(l) + Len(r)
        /\ \A k \in 1 .. Len(l) + Len(r) : (l \o r)[k] = IF k <= Len(l) THEN l[k] ELSE r[k - Len(l)]
    BY <1>2, <1>3, ConcatProperties
  <2>2. Len(l) + Len(r) = n - 1
    BY <1>1, <1>2, <1>3
  <2>3. QED
    BY <1>2, <2>1, <2>2
<1>5. ASSUME NEW k \in 1 .. n - 1
      PROVE  (l \o r)[k] = IF k < i THEN s[k] ELSE s[k + 1]
  <2>1. CASE k < i
    BY <1>1, <1>2, <1>4, <2>1
  <2>2. CASE ~ (k < i)
    <3>1. k - (i - 1) \in 1 .. n - i /\ i + (k - (i - 1)) = k + 1
      BY <1>1, <2>2
    <3>2. (l \o r)[k] = r[k - (i - 1)]
      BY <1>1, <1>4, <2>2
    <3>3. r[k - (i - 1)] = s[i + (k - (i - 1))]
      BY <1>3, <3>1
    <3>4. QED
      BY <2>2, <3>1, <3>2, <3>3
  <2>3. QED
    BY <2>1, <2>2
<1>6. QED
  BY <1>4, <1>5 DEF l, r, n

\* A list into which an element is inserted at place i.
Inserted(s, i, e) == SubSeq(s, 1, i - 1) \o <<e>> \o SubSeq(s, i, Len(s))
LEMMA WithOneMore ==
  ASSUME NEW S, NEW s \in Seq(S), NEW i \in 1 .. Len(s) + 1, NEW e \in S
  PROVE  LET w == Inserted(s, i, e) IN
         /\ w \in Seq(S)
         /\ Len(w) = Len(s) + 1
         /\ \A k \in 1 .. Len(s) + 1 : w[k] = IF k < i THEN s[k] ELSE IF k = i THEN e ELSE s[k - 1]
<1> DEFINE l == SubSeq(s, 1, i - 1)
           r == SubSeq(s, i, Len(s))
           n == Len(s)
           h == l \o <<e>>
<1>1. n \in Nat /\ i \in Int /\ 1 <= i /\ i <= n + 1 /\ \A k \in 1 .. n : s[k] \in S
  BY LenProperties
<1>2. /\ l \in Seq(S) /\ Len(l) = i - 1
      /\ \A k \in 1 .. i - 1 : l[k] = s[k]
  <2>1. 1 \in Int /\ i - 1 \in Int /\ \A k \in 1 .. i - 1 : s[k] \in S
    BY <1>1
  <2>2. /\ l \in Seq(S) /\ Len(l) = IF 1 <= i - 1 THEN (i - 1) - 1 + 1 ELSE 0
        /\ \A k \in 1 .. (i - 1) - 1 + 1 : l[k] = s[1 + k - 1]
    BY <2>1, SubSeqProperties
  <2>3. QED
    BY <1>1, <2>2
<1>3. /\ r \in Seq(S) /\ Len(r) = n - i + 1
      /\ \A k \in 1 .. n - i + 1 : r[k] = s[i + k - 1]
  <2>1. i \in Int /\ n \in Int /\ \A k \in i .. n : s[k] \in S
    BY <1>1
  <2>2. /\ r \in Seq(S) /\ Len(r) = IF i <= n THEN n - i + 1 ELSE 0
        /\ \A k \in 1 .. n - i + 1 : r[k] = s[i + k - 1]
    BY <2>1, SubSeqProperties
  <2>3. QED
    BY <1>1, <2>2
<1> HIDE DEF l, r, n, h
<1>4. /\ h \in Seq(S) /\ Len(h) = i
      /\ \A k \in 1 .. i : h[k] = IF k < i THEN s[k] ELSE e
  <2>1. <<e>> \in Seq(S) /\ Len(<<e>>) = 1 /\ <<e>>[1] = e
    OBVIOUS
  <2>2. /\ h \in Seq(S) /\ Len(h) = Len(l) + Len(<<e>>)
        /\ \A k \in 1 .. Len(l) + Len(<<e>>) : h[k] = IF k <= Len(l) THEN l[k] ELSE <<e>>[k - Len(l)]
    BY <1>2, <2>1, ConcatProperties DEF h
  <2>3. Len(l) + Len(<<e>>) = i
    BY <1>1, <1>2, <2>1
  <2>4. ASSUME NEW k \in 1 .. i
        PROVE  h[k] = IF k < i THEN s[k] ELSE e
    <3>1. CASE k < i
      BY <1>1, <1>2, <2>2, <2>3, <3>1
    <3>2. CASE k = i
      <4>1. k - Len(l) = 1 /\ ~(k <= Len(l))
        BY <1>1, <1>2, <3>2
      <4>2. QED
        BY <2>1, <2>2, <2>3, <3>2, <4>1
    <3>3. QED
      BY <1>1, <3>1, <3>2
  <2>5. QED
    BY <2>2, <2>3, <2>4
<1>5. /\ h \o r \in Seq(S) /\ Len(h \o r) = n + 1
      /\ \A k \in 1 .. n + 1 : (h \o r)[k] = IF k <= i THEN h[k] ELSE r[k - i]
  <2>1. /\ h \o r \in Seq(S) /\ Len(h \o r) = Len(h) + Len(r)
        /\ \A k \in 1 .. Len(h) + Len(r) : (h \o r)[k] = IF k <= Len(h) THEN h[k] ELSE r[k - Len(h)]
    BY <1>3, <1>4, ConcatProperties
  <2>2. Len(h) + Len(r) = n + 1
    BY <1>1, <1>3, <1>4
  <2>3. QED
    BY <1>4, <2>1, <2>2
<1>6. ASSUME NEW k \in 1 .. n + 1
      PROVE  (h \o r)[k] = IF k < i THEN s[k] ELSE IF k = i THEN e ELSE s[k - 1]
  <2>1. CASE k <= i
    BY <1>1, <1>4, <1>5, <2>1
  <2>2. CASE ~ (k <= i)
    <3>1. k - i \in 1 .. n - i + 1 /\ i + (k - i) - 1 = k - 1
      BY <1>1, <2>2
    <3>2. (h \o r)[k] = r[k - i]
      BY <1>1, <1>5, <2>2
    <3>3. r[k - i] = s[i + (k - i) - 1]
      BY <1>3, <3>1
    <3>4. QED
      BY <1>1, <2>2, <3>1, <3>2, <3>3
  <2>3. QED
    BY <2>1, <2>2
<1>7. QED
  BY <1>5, <1>6 DEF l, r, n, h, Inserted
=============================================================================
