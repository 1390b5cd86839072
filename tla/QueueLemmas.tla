---------------------------- MODULE QueueLemmas ----------------------------
(***************************************************************************)
(* What the proofs need of queues that pass on frames, each of which is in *)
(* at most one place of the queue: which frames an operation leaves in it, *)
(* and that the queue is not longer than there are frames.                 *)
(***************************************************************************)
EXTENDS Naturals, Sequences, FiniteSets, SequencesExt, FiniteSetTheorems, TLAPS

LEMMA OnceMeans ==
    ASSUME NEW S, NEW q \in Seq(S)
    PROVE  /\ IsInjective(q) <=> \A i, j \in 1 .. Len(q) : q[i] = q[j] => i = j
           /\ Range(q) = {q[i] : i \in 1 .. Len(q)}
           /\ Range(q) \subseteq S
BY DEF IsInjective, Range

LEMMA EmptyQueue ==
    /\ IsInjective(<<>>)
    /\ Range(<<>>) = {}
BY DEF IsInjective, Range

LEMMA Joined ==
    ASSUME NEW S, NEW q \in Seq(S), NEW r \in Seq(S)
    PROVE  /\ Range(q \o r) = Range(q) \cup Range(r)
           /\ IsInjective(q \o r) <=>
                 IsInjective(q) /\ IsInjective(r) /\ Range(q) \cap Range(r) = {}
<1>0. q \o r \in Seq(S) /\ Len(q \o r) = Len(q) + Len(r)
  OBVIOUS
<1>q. /\ IsInjective(q) <=> \A i, j \in 1 .. Len(q) : q[i] = q[j] => i = j
      /\ Range(q) = {q[i] : i \in 1 .. Len(q)}
  BY OnceMeans
<1>r. /\ IsInjective(r) <=> \A i, j \in 1 .. Len(r) : r[i] = r[j] => i = j
      /\ Range(r) = {r[i] : i \in 1 .. Len(r)}
  BY OnceMeans
<1>qr. /\ IsInjective(q \o r) <=>
             \A i, j \in 1 .. Len(q \o r) : (q \o r)[i] = (q \o r)[j] => i = j
       /\ Range(q \o r) = {(q \o r)[i] : i \in 1 .. Len(q \o r)}
  BY <1>0, OnceMeans
<1>1. \A i \in 1 .. Len(q) : i \in 1 .. Len(q \o r) /\ (q \o r)[i] = q[i]
  OBVIOUS
<1>2. \A i \in 1 .. Len(r) :
         /\ Len(q) + i \in 1 .. Len(q \o r)
         /\ (q \o r)[Len(q) + i] = r[i]
  OBVIOUS
<1>3. \A i \in 1 .. Len(q \o r) :
         \/ i \in 1 .. Len(q)
         \/ \E j \in 1 .. Len(r) : i = Len(q) + j
  <2> SUFFICES ASSUME NEW i \in 1 .. Len(q \o r), i \notin 1 .. Len(q)
               PROVE  \E j \in 1 .. Len(r) : i = Len(q) + j
    OBVIOUS
  <2>1. i - Len(q) \in 1 .. Len(r) /\ i = Len(q) + (i - Len(q))
    BY <1>0
  <2> QED
    BY <2>1
<1>4. Range(q \o r) = Range(q) \cup Range(r)
  <2>1. Range(q \o r) \subseteq Range(q) \cup Range(r)
    BY <1>0, <1>1, <1>2, <1>3, <1>q, <1>r, <1>qr
  <2>2. Range(q) \subseteq Range(q \o r)
    BY <1>0, <1>1, <1>q, <1>r, <1>qr
  <2>3. Range(r) \subseteq Range(q \o r)
    BY <1>0, <1>2, <1>q, <1>r, <1>qr
  <2> QED
    BY <2>1, <2>2, <2>3
<1>5. ASSUME IsInjective(q \o r)
      PROVE  IsInjective(q) /\ IsInjective(r) /\ Range(q) \cap Range(r) = {}
  <2>1. IsInjective(q)
    BY <1>0, <1>1, <1>5, <1>q, <1>r, <1>qr
  <2>2. IsInjective(r)
    <3> SUFFICES ASSUME NEW i \in 1 .. Len(r), NEW j \in 1 .. Len(r), r[i] = r[j]
                 PROVE  i = j
      BY <1>q, <1>r, <1>qr
    <3>1. Len(q) + i = Len(q) + j
      BY <1>0, <1>2, <1>5, <1>q, <1>r, <1>qr
    <3> QED
      BY <3>1
  <2>3. ASSUME NEW i \in 1 .. Len(q), NEW j \in 1 .. Len(r), q[i] = r[j]
        PROVE  FALSE
    <3>1. (q \o r)[i] = (q \o r)[Len(q) + j]
      BY <1>1, <1>2, <2>3
    <3>2. i = Len(q) + j
      BY <1>0, <1>1, <1>2, <1>5, <3>1, <1>q, <1>r, <1>qr
    <3> QED
      BY <3>2
  <2> QED
    BY <2>1, <2>2, <2>3, <1>q, <1>r, <1>qr
<1>6. ASSUME IsInjective(q), IsInjective(r), Range(q) \cap Range(r) = {}
      PROVE  IsInjective(q \o r)
  <2> SUFFICES ASSUME NEW i \in 1 .. Len(q \o r), NEW j \in 1 .. Len(q \o r),
                      (q \o r)[i] = (q \o r)[j]
               PROVE  i = j
    BY <1>0, <1>q, <1>r, <1>qr
  <2>1. CASE i \in 1 .. Len(q) /\ j \in 1 .. Len(q)
    BY <1>1, <1>6, <2>1, <1>q, <1>r, <1>qr
  <2>2. CASE i \notin 1 .. Len(q) /\ j \notin 1 .. Len(q)
    <3>1. PICK k \in 1 .. Len(r) : i = Len(q) + k
      BY <1>3, <2>2
    <3>2. PICK l \in 1 .. Len(r) : j = Len(q) + l
      BY <1>3, <2>2
    <3>3. r[k] = r[l]
      BY <1>2, <3>1, <3>2
    <3>4. k = l
      BY <1>6, <3>3, <1>q, <1>r, <1>qr
    <3> QED
      BY <3>1, <3>2, <3>4
  <2>3. CASE i \in 1 .. Len(q) /\ j \notin 1 .. Len(q)
    <3>1. PICK l \in 1 .. Len(r) : j = Len(q) + l
      BY <1>3, <2>3
    <3>2. q[i] = r[l]
      BY <1>1, <1>2, <2>3, <3>1
    <3>3. q[i] \in Range(q) /\ q[i] \in Range(r)
      BY <2>3, <3>2, <1>q, <1>r
    <3> QED
      BY <1>6, <3>3
  <2>4. CASE i \notin 1 .. Len(q) /\ j \in 1 .. Len(q)
    <3>1. PICK k \in 1 .. Len(r) : i = Len(q) + k
      BY <1>3, <2>4
    <3>2. q[j] = r[k]
      BY <1>1, <1>2, <2>4, <3>1
    <3>3. q[j] \in Range(q) /\ q[j] \in Range(r)
      BY <2>4, <3>2, <1>q, <1>r
    <3> QED
      BY <1>6, <3>3
  <2> QED
    BY <2>1, <2>2, <2>3, <2>4
<1> QED
  BY <1>4, <1>5, <1>6

\* A frame that joins the queue it was not in.
LEMMA Appended ==
    ASSUME NEW S, NEW q \in Seq(S), NEW s \in S
    PROVE  /\ Append(q, s) \in Seq(S) /\ Len(Append(q, s)) = Len(q) + 1
           /\ Range(Append(q, s)) = Range(q) \cup {s}
           /\ IsInjective(q) /\ s \notin Range(q) => IsInjective(Append(q, s))
<1>1. Append(q, s) \in Seq(S) /\ Len(Append(q, s)) = Len(q) + 1
  OBVIOUS
<1>q. /\ IsInjective(q) <=> \A i, j \in 1 .. Len(q) : q[i] = q[j] => i = j
      /\ Range(q) = {q[i] : i \in 1 .. Len(q)}
  BY OnceMeans
<1>t. /\ IsInjective(Append(q, s)) <=> \A i, j \in 1 .. Len(Append(q, s)) : Append(q, s)[i] = Append(q, s)[j] => i = j
      /\ Range(Append(q, s)) = {Append(q, s)[i] : i \in 1 .. Len(Append(q, s))}
  BY <1>1, OnceMeans
<1>2. /\ \A i \in 1 .. Len(q) : Append(q, s)[i] = q[i]
      /\ Append(q, s)[Len(q) + 1] = s
  OBVIOUS
<1>3. \A i : i \in 1 .. Len(q) + 1 <=> i \in 1 .. Len(q) \/ i = Len(q) + 1
  OBVIOUS
<1>4. Range(Append(q, s)) = Range(q) \cup {s}
  BY <1>1, <1>2, <1>3, <1>q, <1>t
<1>5. ASSUME IsInjective(q), s \notin Range(q) PROVE IsInjective(Append(q, s))
  BY <1>1, <1>2, <1>3, <1>5, <1>q, <1>t
<1> QED
  BY <1>1, <1>4, <1>5

\* The oldest frame leaves the queue.
LEMMA Popped ==
    ASSUME NEW S, NEW q \in Seq(S), q # <<>>
    PROVE  /\ Head(q) \in S /\ Head(q) \in Range(q)
           /\ Tail(q) \in Seq(S) /\ Len(Tail(q)) = Len(q) - 1
           /\ IsInjective(q) => /\ IsInjective(Tail(q))
                                /\ Range(Tail(q)) = Range(q) \ {Head(q)}
<1>1. /\ Tail(q) \in Seq(S) /\ Len(Tail(q)) = Len(q) - 1
      /\ Head(q) = q[1] /\ 1 \in 1 .. Len(q) /\ Len(q) \in Nat
  OBVIOUS
<1>q. /\ IsInjective(q) <=> \A i, j \in 1 .. Len(q) : q[i] = q[j] => i = j
      /\ Range(q) = {q[i] : i \in 1 .. Len(q)}
  BY OnceMeans
<1>t. /\ IsInjective(Tail(q)) <=> \A i, j \in 1 .. Len(Tail(q)) : Tail(q)[i] = Tail(q)[j] => i = j
      /\ Range(Tail(q)) = {Tail(q)[i] : i \in 1 .. Len(Tail(q))}
  BY <1>1, OnceMeans
<1>2. \A i \in 1 .. Len(Tail(q)) : i + 1 \in 1 .. Len(q) /\ Tail(q)[i] = q[i + 1]
  OBVIOUS
<1>3. \A i \in 1 .. Len(q) : i = 1 \/ \E j \in 1 .. Len(Tail(q)) : i = j + 1
  <2> SUFFICES ASSUME NEW i \in 1 .. Len(q), i # 1
               PROVE  \E j \in 1 .. Len(Tail(q)) : i = j + 1
    OBVIOUS
  <2>1. i - 1 \in 1 .. Len(Tail(q)) /\ i = (i - 1) + 1
    BY <1>1
  <2> QED
    BY <2>1
<1>4. Head(q) \in S /\ Head(q) \in Range(q)
  BY <1>1, <1>q, <1>t
<1>5. ASSUME IsInjective(q)
      PROVE  IsInjective(Tail(q)) /\ Range(Tail(q)) = Range(q) \ {Head(q)}
  <2>1. IsInjective(Tail(q))
    <3> SUFFICES ASSUME NEW i \in 1 .. Len(Tail(q)), NEW j \in 1 .. Len(Tail(q)),
                        Tail(q)[i] = Tail(q)[j]
                 PROVE  i = j
      BY <1>1, <1>q, <1>t
    <3>1. i + 1 = j + 1
      BY <1>2, <1>5, <1>q, <1>t
    <3> QED
      BY <3>1
  <2>2. Range(Tail(q)) \subseteq Range(q)
    BY <1>1, <1>2, <1>q, <1>t
  <2>3. Head(q) \notin Range(Tail(q))
    <3> SUFFICES ASSUME NEW i \in 1 .. Len(Tail(q)), Tail(q)[i] = Head(q)
                 PROVE  FALSE
      BY <1>1, <1>q, <1>t
    <3>1. i + 1 = 1
      BY <1>1, <1>2, <1>5, <1>q, <1>t
    <3> QED
      BY <3>1
  <2>4. Range(q) \ {Head(q)} \subseteq Range(Tail(q))
    <3> SUFFICES ASSUME NEW i \in 1 .. Len(q), q[i] # Head(q)
                 PROVE  q[i] \in Range(Tail(q))
      BY <1>q
    <3>1. PICK j \in 1 .. Len(Tail(q)) : i = j + 1
      BY <1>1, <1>3
    <3>2. Tail(q)[j] = q[i]
      BY <1>2, <3>1
    <3> QED
      BY <1>t, <3>2
  <2> QED
    BY <2>1, <2>2, <2>3, <2>4
<1> QED
  BY <1>1, <1>4, <1>5

\* The youngest frame leaves the stack.
LEMMA Unstacked ==
    ASSUME NEW S, NEW q \in Seq(S), q # <<>>
    PROVE  /\ Last(q) \in S /\ Last(q) \in Range(q)
           /\ Front(q) \in Seq(S) /\ Len(Front(q)) = Len(q) - 1
           /\ IsInjective(q) => /\ IsInjective(Front(q))
                                /\ Range(Front(q)) = Range(q) \ {Last(q)}
<1>1. /\ Len(q) \in Nat /\ Len(q) \in 1 .. Len(q)
      /\ Last(q) = q[Len(q)]
  BY DEF Last
<1>2. /\ Front(q) \in Seq(S) /\ Len(Front(q)) = Len(q) - 1
      /\ \A i \in 1 .. Len(q) - 1 : Front(q)[i] = q[i]
  BY DEF Front
<1>q. /\ IsInjective(q) <=> \A i, j \in 1 .. Len(q) : q[i] = q[j] => i = j
      /\ Range(q) = {q[i] : i \in 1 .. Len(q)}
  BY OnceMeans
<1>t. /\ IsInjective(Front(q)) <=> \A i, j \in 1 .. Len(Front(q)) : Front(q)[i] = Front(q)[j] => i = j
      /\ Range(Front(q)) = {Front(q)[i] : i \in 1 .. Len(Front(q))}
  BY <1>2, OnceMeans
<1>3. \A i : i \in 1 .. Len(q) <=> i \in 1 .. Len(q) - 1 \/ i = Len(q)
  BY <1>1
<1>4. Last(q) \in S /\ Last(q) \in Range(q)
  BY <1>1, <1>q, <1>t
<1>5. ASSUME IsInjective(q)
      PROVE  IsInjective(Front(q)) /\ Range(Front(q)) = Range(q) \ {Last(q)}
  <2>1. IsInjective(Front(q))
    BY <1>2, <1>3, <1>5, <1>q, <1>t
  <2>2. Range(Front(q)) \subseteq Range(q)
    BY <1>2, <1>3, <1>q, <1>t
  <2>3. Last(q) \notin Range(Front(q))
    <3> SUFFICES ASSUME NEW i \in 1 .. Len(q) - 1, q[i] = q[Len(q)]
                 PROVE  FALSE
      BY <1>1, <1>2, <1>q, <1>t
    <3>1. i = Len(q)
      BY <1>1, <1>3, <1>5, <1>q, <1>t
    <3> QED
      BY <1>1, <3>1
  <2>4. Range(q) \ {Last(q)} \subseteq Range(Front(q))
    BY <1>1, <1>2, <1>3, <1>q, <1>t
  <2> QED
    BY <2>1, <2>2, <2>3, <2>4
<1> QED
  BY <1>2, <1>4, <1>5

LEMMA Counted ==
    ASSUME NEW n \in Nat
    PROVE  Cardinality(1 .. n) = n
<1>1. n \in Int /\ 1 \in Int
  OBVIOUS
<1>2. Cardinality(1 .. n) = IF 1 > n THEN 0 ELSE n - 1 + 1
  BY ONLY <1>1, FS_Interval
<1>3. (IF 1 > n THEN 0 ELSE n - 1 + 1) = n
  OBVIOUS
<1> QED
  BY <1>2, <1>3

\* A queue without repetition is not longer than what it may hold.
LEMMA NotLonger ==
    ASSUME NEW S, NEW q \in Seq(S), NEW T, IsFiniteSet(T),
           IsInjective(q), Range(q) \subseteq T
    PROVE  Len(q) <= Cardinality(T)
<1>1. q \in Injection(1 .. Len(q), T)
  BY OnceMeans DEF Injection, IsInjective
<1>2. Cardinality(1 .. Len(q)) <= Cardinality(T)
  BY <1>1, FS_Injection
<1>3. Len(q) \in Nat
  OBVIOUS
<1>4. Cardinality(1 .. Len(q)) = Len(q)
  BY <1>3, Counted
<1> QED
  BY <1>2, <1>4

\* With a frame elsewhere there is room in the queue.
LEMMA Room ==
    ASSUME NEW S, IsFiniteSet(S), NEW q \in Seq(S), NEW s \in S,
           IsInjective(q), s \notin Range(q)
    PROVE  Len(q) < Cardinality(S)
<1>1. IsFiniteSet(S \ {s}) /\ Cardinality(S \ {s}) = Cardinality(S) - 1
  BY FS_RemoveElement
<1>2. Range(q) \subseteq S \ {s}
  BY OnceMeans
<1>3. Len(q) <= Cardinality(S \ {s})
  BY <1>1, <1>2, NotLonger
<1>4. Cardinality(S) \in Nat /\ Len(q) \in Nat
  BY FS_CardinalityType
<1> QED
  BY <1>1, <1>3, <1>4

\* All frames in a queue, each once.
LEMMA Filled ==
    ASSUME NEW S, IsFiniteSet(S)
    PROVE  /\ SetToSeq(S) \in Seq(S)
           /\ Len(SetToSeq(S)) = Cardinality(S)
           /\ IsInjective(SetToSeq(S))
           /\ Range(SetToSeq(S)) = S
<1> DEFINE n == Cardinality(S)
<1>1. n \in Nat
  BY FS_CardinalityType
<1>2. PICK m \in Nat : ExistsBijection(1 .. m, S)
  BY FS_NatBijection
<1>3. m = n
  BY <1>2, FS_CountingElements
<1>4. PICK f : f \in Bijection(1 .. n, S)
  BY <1>2, <1>3 DEF ExistsBijection
<1>5. f \in [1 .. n -> S] /\ IsInjective(f)
  BY <1>4 DEF Bijection, Injection, IsInjective
<1> DEFINE g == SetToSeq(S)
<1>6. g \in [1 .. n -> S] /\ IsInjective(g)
  BY <1>5 DEF SetToSeq
<1>7. g \in Seq(S) /\ Len(g) = n
  BY <1>1, <1>6
<1>8. g \in Injection(1 .. n, S)
  BY <1>6 DEF Injection
<1>9. Cardinality(1 .. n) = n
  BY <1>1, Counted
<1>10. g \in Surjection(1 .. n, S)
  BY <1>8, <1>9, FS_Injection
<1>11. Range(g) = S
  BY <1>6, <1>10 DEF Surjection, Range
<1> QED
  BY <1>6, <1>7, <1>11

============================================================================
