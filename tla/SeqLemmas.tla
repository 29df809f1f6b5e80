------------------------------ MODULE SeqLemmas ------------------------------
(***************************************************************************)
(* What the queue operations do to a sequence without duplicates: which    *)
(* elements it has afterwards, and that it still has no duplicates; and the*)
(* least element of a set of numbers, for arguments about positions.       *)
(* "Only" is defined by counting, so that its lemma needs no induction.    *)
(***************************************************************************)
EXTENDS Queues, SequencesExt, SequenceTheorems, FiniteSetTheorems,
        WellFoundedInduction, TLAPS

Injective(s) == \A i, j \in DOMAIN s : s[i] = s[j] => i = j

(* Every non-empty set of numbers has a least element. *)
LEMMA LeastNumber ==
  ASSUME NEW N \in SUBSET Nat, N # {}
  PROVE  \E m \in N : \A n \in N : m <= n
  <1>1. PICK m \in N : \A n \in N : <<n, m>> \notin OpToRel(<, Nat)
    BY WFMin, NatLessThanWellFounded, Zenon
  <1>2. \A n \in N : ~ (n < m)
    BY <1>1, Zenon DEF OpToRel
  <1> QED
    BY <1>2

LEMMA MinIsElement ==
  ASSUME NEW N \in SUBSET Nat, N # {}
  PROVE  Min(N) \in N
  <1>1. \E m \in N : \A n \in N : m <= n
    BY LeastNumber
  <1> QED
    BY <1>1 DEF Min

(* A set of numbers with a bound has a greatest one. *)
LEMMA GreatestNumber ==
  ASSUME NEW N \in SUBSET Nat, N # {}, NEW b \in Nat, \A n \in N : n <= b
  PROVE  \E m \in N : \A n \in N : n <= m
  <1> DEFINE D == {b - n : n \in N}
  <1>1. \A n \in N : n \in Nat /\ n <= b /\ b - n \in D
    OBVIOUS
  <1>3. \A d \in D : \E n \in N : d = b - n
    OBVIOUS
  <1> HIDE DEF D
  <1>2. D \in SUBSET Nat /\ D # {}
    <2>1. \A d \in D : d \in Nat
      BY <1>1, <1>3
    <2>2. \E n \in N : b - n \in D
      BY <1>1
    <2> QED
      BY <2>1, <2>2
  <1>4. PICK d \in D : \A e \in D : d <= e
    BY <1>2, LeastNumber
  <1>5. PICK m \in N : d = b - m
    BY <1>3
  <1>6. \A n \in N : n <= m
    BY <1>1, <1>4, <1>5
  <1> QED
    BY <1>6

(* The empty queue. *)
LEMMA EmptyQueue ==
  /\ Injective(<<>>)
  /\ ToSet(<<>>) = {}
  BY DEF Injective, ToSet

(* A queue with an element is not empty. *)
LEMMA MemberNonEmpty ==
  ASSUME NEW S, NEW s \in Seq(S)
  PROVE  /\ ToSet(s) \subseteq S
         /\ s # <<>> => Head(s) \in ToSet(s)
         /\ ToSet(s) = {} <=> s = <<>>
  BY LenProperties, EmptySeq DEF ToSet

(* ktqueue_enqueue of an element that is not on the queue. *)
LEMMA AppendQueue ==
  ASSUME NEW S, NEW s \in Seq(S), NEW e \in S
  PROVE  /\ Append(s, e) \in Seq(S)
         /\ ToSet(Append(s, e)) = ToSet(s) \cup {e}
         /\ Injective(s) /\ e \notin ToSet(s) => Injective(Append(s, e))
  <1> DEFINE a == Append(s, e)
  <1>1. a \in Seq(S) /\ Len(a) = Len(s) + 1 /\ DOMAIN a = 1 .. Len(s) + 1
    BY AppendProperties, LenProperties
  <1>2. (\A i \in 1 .. Len(s) : a[i] = s[i]) /\ a[Len(s) + 1] = e
    BY AppendProperties
  <1>3. Len(s) \in Nat /\ DOMAIN s = 1 .. Len(s)
    BY LenProperties
  <1> HIDE DEF a
  <1>4. ToSet(a) = ToSet(s) \cup {e}
    BY <1>1, <1>2, <1>3 DEF ToSet
  <1>5. Injective(s) /\ e \notin ToSet(s) => Injective(a)
    BY <1>1, <1>2, <1>3 DEF Injective, ToSet
  <1> QED
    BY <1>1, <1>4, <1>5 DEF a

(* ktqueue_dequeue. *)
LEMMA TailQueue ==
  ASSUME NEW S, NEW s \in Seq(S), s # <<>>, Injective(s)
  PROVE  /\ Tail(s) \in Seq(S)
         /\ Head(s) \in S
         /\ Head(s) \in ToSet(s)
         /\ ToSet(Tail(s)) = ToSet(s) \ {Head(s)}
         /\ Injective(Tail(s))
  <1> DEFINE r == Tail(s)
  <1>1. Len(s) \in Nat /\ DOMAIN s = 1 .. Len(s) /\ Len(s) > 0
    BY LenProperties, EmptySeq
  <1>2. /\ r \in Seq(S) /\ DOMAIN r = 1 .. Len(s) - 1
        /\ \A i \in 1 .. Len(s) - 1 : r[i] = s[i + 1]
    BY HeadTailProperties, LenProperties
  <1>3. Head(s) = s[1] /\ Head(s) \in S
    BY HeadTailProperties
  <1> HIDE DEF r
  <1>4. Injective(r)
    <2>1. SUFFICES ASSUME NEW i \in 1 .. Len(s) - 1, NEW j \in 1 .. Len(s) - 1, r[i] = r[j]
                   PROVE  i = j
      BY <1>2 DEF Injective
    <2>2. i + 1 \in DOMAIN s /\ j + 1 \in DOMAIN s
      BY <1>1
    <2>3. s[i + 1] = s[j + 1]
      BY <2>1, <1>2
    <2>4. i + 1 = j + 1
      BY <2>2, <2>3 DEF Injective
    <2> QED
      BY <2>4
  <1>5. ToSet(r) \subseteq ToSet(s) \ {Head(s)}
    BY <1>1, <1>2, <1>3 DEF Injective, ToSet
  <1>6. ASSUME NEW x \in ToSet(s), x # Head(s)
        PROVE  x \in ToSet(r)
    <2>1. PICK i \in 1 .. Len(s) : x = s[i]
      BY <1>1 DEF ToSet
    <2>2. i # 1 /\ i - 1 \in 1 .. Len(s) - 1 /\ r[i - 1] = x
      BY <2>1, <1>6, <1>1, <1>2, <1>3
    <2> QED
      BY <2>2, <1>2 DEF ToSet
  <1>7. Head(s) \in ToSet(s)
    BY <1>1, <1>3 DEF ToSet
  <1> QED
    BY <1>2, <1>3, <1>4, <1>5, <1>6, <1>7 DEF r

(* sched_broadcast_on moves a whole queue behind another. *)
LEMMA ConcatQueue ==
  ASSUME NEW S, NEW s \in Seq(S), NEW t \in Seq(S)
  PROVE  /\ s \o t \in Seq(S)
         /\ ToSet(s \o t) = ToSet(s) \cup ToSet(t)
         /\ Injective(s) /\ Injective(t) /\ ToSet(s) \cap ToSet(t) = {}
              => Injective(s \o t)
  <1> DEFINE c == s \o t
  <1>1. /\ Len(s) \in Nat /\ DOMAIN s = 1 .. Len(s)
        /\ Len(t) \in Nat /\ DOMAIN t = 1 .. Len(t)
    BY LenProperties
  <1>2. /\ c \in Seq(S) /\ DOMAIN c = 1 .. Len(s) + Len(t)
        /\ \A i \in 1 .. Len(s) + Len(t) :
             c[i] = IF i <= Len(s) THEN s[i] ELSE t[i - Len(s)]
    BY ConcatProperties, LenProperties
  <1> HIDE DEF c
  <1>3. ASSUME NEW x \in ToSet(c) PROVE x \in ToSet(s) \cup ToSet(t)
    <2>1. PICK i \in 1 .. Len(s) + Len(t) : x = c[i]
      BY <1>2 DEF ToSet
    <2>2. CASE i <= Len(s)
      BY <2>1, <2>2, <1>1, <1>2 DEF ToSet
    <2>3. CASE ~(i <= Len(s))
      <3>1. i - Len(s) \in DOMAIN t /\ t[i - Len(s)] = x
        BY <2>1, <2>3, <1>1, <1>2
      <3> QED
        BY <3>1 DEF ToSet
    <2> QED
      BY <2>2, <2>3
  <1>4. ToSet(s) \subseteq ToSet(c)
    BY <1>1, <1>2 DEF ToSet
  <1>5. ASSUME NEW x \in ToSet(t) PROVE x \in ToSet(c)
    <2>1. PICK i \in 1 .. Len(t) : x = t[i]
      BY <1>1 DEF ToSet
    <2>2. /\ i + Len(s) \in 1 .. Len(s) + Len(t)
          /\ c[i + Len(s)] = x
      BY SMTT(30), <2>1, <1>1, <1>2
    <2> QED
      BY <2>2, <1>2 DEF ToSet
  <1>6. ASSUME Injective(s), Injective(t), ToSet(s) \cap ToSet(t) = {}
        PROVE  Injective(c)
    <2>1. \A i \in 1 .. Len(s), j \in 1 .. Len(t) : s[i] # t[j]
      BY <1>1, <1>6 DEF ToSet
    <2> SUFFICES ASSUME NEW i \in DOMAIN c, NEW j \in DOMAIN c, c[i] = c[j]
                 PROVE  i = j
      BY DEF Injective
    <2>2. CASE i <= Len(s) /\ j <= Len(s)
      BY <2>2, <1>1, <1>2, <1>6 DEF Injective
    <2>3. CASE ~(i <= Len(s)) /\ ~(j <= Len(s))
      <3>1. i - Len(s) \in DOMAIN t /\ j - Len(s) \in DOMAIN t
        BY <2>3, <1>1, <1>2
      <3>2. t[i - Len(s)] = t[j - Len(s)]
        BY <2>3, <1>2
      <3>3. i - Len(s) = j - Len(s)
        BY <3>1, <3>2, <1>6 DEF Injective
      <3>4. i \in Nat /\ j \in Nat /\ Len(s) \in Nat
        BY <1>1, <1>2
      <3> QED
        BY <3>3, <3>4
    <2>4. CASE i <= Len(s) /\ ~(j <= Len(s))
      <3>1. /\ i \in 1 .. Len(s) /\ c[i] = s[i]
            /\ j - Len(s) \in 1 .. Len(t) /\ c[j] = t[j - Len(s)]
        BY <2>4, <1>1, <1>2
      <3> QED
        BY <3>1, <2>1
    <2>5. CASE ~(i <= Len(s)) /\ j <= Len(s)
      <3>1. /\ j \in 1 .. Len(s) /\ c[j] = s[j]
            /\ i - Len(s) \in 1 .. Len(t) /\ c[i] = t[i - Len(s)]
        BY <2>5, <1>1, <1>2
      <3> QED
        BY <3>1, <2>1
    <2> QED
      BY <2>2, <2>3, <2>4, <2>5
  <1> QED
    BY <1>2, <1>3, <1>4, <1>5, <1>6 DEF c

(* ktqueue_remove. *)
LEMMA RemoveQueue ==
  ASSUME NEW S, NEW s \in Seq(S), NEW e \in ToSet(s), Injective(s)
  PROVE  /\ RemoveFirst(s, e) \in Seq(S)
         /\ ToSet(RemoveFirst(s, e)) = ToSet(s) \ {e}
         /\ Injective(RemoveFirst(s, e))
  <1>1. Len(s) \in Nat /\ DOMAIN s = 1 .. Len(s) /\ s \in [1 .. Len(s) -> S]
    BY LenProperties
  <1>2. PICK k \in 1 .. Len(s) : s[k] = e
    BY <1>1 DEF ToSet
  <1>3. {i \in 1 .. Len(s) : s[i] = e} = {k}
    BY <1>1, <1>2 DEF Injective
  <1>4. Min({k}) = k
    <2>1. k <= k
      BY <1>1
    <2> QED
      BY <2>1 DEF Min
  <1>5. RemoveFirst(s, e) = RemoveAt(s, k)
    BY <1>2, <1>3, <1>4 DEF RemoveFirst, SelectInSeq
  <1> DEFINE a == SubSeq(s, 1, k - 1)
             b == SubSeq(s, k + 1, Len(s))
  <1>6. /\ a \in Seq(S) /\ Len(a) = k - 1
        /\ \A i \in 1 .. k - 1 : a[i] = s[i]
    BY <1>1, SubSeqProperties
  <1>7. /\ b \in Seq(S) /\ Len(b) = Len(s) - k
        /\ \A i \in 1 .. Len(s) - k : b[i] = s[i + k]
    <2>1. k + 1 \in Int /\ Len(s) \in Int /\ \A i \in k + 1 .. Len(s) : s[i] \in S
      BY <1>1
    <2>2. /\ b \in Seq(S)
          /\ Len(b) = IF k + 1 <= Len(s) THEN Len(s) - (k + 1) + 1 ELSE 0
          /\ \A i \in 1 .. Len(s) - (k + 1) + 1 : b[i] = s[k + 1 + i - 1]
      BY <2>1, SubSeqProperties
    <2> HIDE DEF b
    <2>3. Len(s) - (k + 1) + 1 = Len(s) - k /\ (~(k + 1 <= Len(s)) => Len(s) - k = 0)
      <3>1. \A n \in Nat : k \in 1 .. n =>
              n - (k + 1) + 1 = n - k /\ (~(k + 1 <= n) => n - k = 0)
        OBVIOUS
      <3> QED
        BY <3>1, <1>1
    <2>4. ASSUME NEW i \in 1 .. Len(s) - k PROVE b[i] = s[i + k]
      <3>1. k + 1 + i - 1 = i + k
        OBVIOUS
      <3> QED
        BY <2>2, <2>3, <3>1
    <2> QED
      BY <2>2, <2>3, <2>4
  <1>8. DOMAIN a = 1 .. k - 1 /\ DOMAIN b = 1 .. Len(s) - k
    BY <1>6, <1>7, LenProperties
  <1> HIDE DEF a, b
  <1>9. ToSet(a) = {s[i] : i \in 1 .. k - 1}
    BY <1>6, <1>8 DEF ToSet
  <1>10. ToSet(b) = {s[i] : i \in k + 1 .. Len(s)}
    <2>1. \A i \in k + 1 .. Len(s) : i - k \in DOMAIN b /\ b[i - k] = s[i]
      BY <1>1, <1>7, <1>8
    <2>2. \A i \in DOMAIN b : i + k \in k + 1 .. Len(s) /\ b[i] = s[i + k]
      BY <1>1, <1>7, <1>8
    <2> QED
      BY <2>1, <2>2 DEF ToSet
  <1>11. Injective(a)
    BY <1>1, <1>6, <1>8 DEF Injective
  <1>12. Injective(b)
    <2>1. \A i \in DOMAIN b : i \in Int /\ i + k \in DOMAIN s /\ b[i] = s[i + k]
      BY <1>1, <1>7, <1>8
    <2>2. \A i, j \in DOMAIN b : b[i] = b[j] => i + k = j + k
      BY <2>1 DEF Injective
    <2> QED
      BY <2>1, <2>2, <1>1 DEF Injective
  <1>13. ToSet(a) \cap ToSet(b) = {}
    BY <1>1, <1>9, <1>10 DEF Injective
  <1>14. ToSet(a) \cup ToSet(b) = ToSet(s) \ {e}
    <2>1. \A i \in 1 .. Len(s) : i # k => i \in 1 .. k - 1 \/ i \in k + 1 .. Len(s)
      BY <1>1
    <2>2. /\ \A i \in 1 .. k - 1 : i \in 1 .. Len(s) /\ s[i] # e
          /\ \A i \in k + 1 .. Len(s) : i \in 1 .. Len(s) /\ s[i] # e
      BY <1>1, <1>2 DEF Injective
    <2> QED
      BY <2>1, <2>2, <1>1, <1>2, <1>9, <1>10 DEF ToSet
  <1>15. RemoveAt(s, k) = a \o b
    BY DEF RemoveAt, a, b
  <1> QED
    BY <1>5, <1>6, <1>7, <1>11, <1>12, <1>13, <1>14, <1>15, ConcatQueue

(* Only keeps the elements of a set and their order. *)
LEMMA OnlyQueue ==
  ASSUME NEW S, NEW s \in Seq(S), NEW T
  PROVE  /\ Only(s, T) \in Seq(S)
         /\ ToSet(Only(s, T)) = ToSet(s) \cap T
         /\ Injective(s) => Injective(Only(s, T))
  <1> DEFINE at == {i \in DOMAIN s : s[i] \in T}
             upto(n) == {j \in at : j <= n}
             rank(n) == Cardinality(upto(n))
             last == Cardinality(at)
             nth(k) == CHOOSE i \in at : rank(i) = k
             r == Only(s, T)
  <1>1. Len(s) \in Nat /\ DOMAIN s = 1 .. Len(s) /\ \A i \in DOMAIN s : s[i] \in S
    BY LenProperties
  <1>0. \A i \in at : i \in Nat /\ 1 <= i /\ i <= Len(s)
    BY <1>1
  <1>2. at \subseteq 1 .. Len(s) /\ IsFiniteSet(at) /\ last \in Nat
    <2>1. IsFiniteSet(1 .. Len(s)) /\ at \in SUBSET (1 .. Len(s))
      BY <1>1, FS_Interval
    <2> HIDE DEF at
    <2> QED
      BY <2>1, FS_Subset, FS_CardinalityType
  <1>3. at = {i \in DOMAIN s : s[i] \in T}
    OBVIOUS
  <1>4. r = [k \in 1 .. last |-> s[nth(k)]]
    BY DEF Only
  <1> HIDE DEF at, r
  <1>5. ASSUME NEW n \in Nat
        PROVE  IsFiniteSet(upto(n)) /\ rank(n) \in Nat /\ rank(n) <= last
    <2>1. upto(n) \in SUBSET at
      OBVIOUS
    <2> HIDE DEF upto
    <2> QED
      BY <2>1, <1>2, FS_Subset, FS_CardinalityType
  <1>6. rank(0) = 0 /\ rank(Len(s)) = last
    <2>1. upto(0) = {}
      BY <1>0
    <2>2. upto(Len(s)) = at
      BY <1>0
    <2> HIDE DEF upto
    <2> QED
      BY <2>1, <2>2, FS_EmptySet
  <1>7. ASSUME NEW n \in Nat
        PROVE  rank(n + 1) = IF n + 1 \in at THEN rank(n) + 1 ELSE rank(n)
    <2>1. /\ n + 1 \in at => upto(n + 1) = upto(n) \cup {n + 1}
          /\ n + 1 \notin at => upto(n + 1) = upto(n)
      BY <1>0
    <2>2. n + 1 \notin upto(n)
      OBVIOUS
    <2> HIDE DEF upto
    <2> QED
      BY <2>1, <2>2, <1>5, FS_AddElement
  <1>8. ASSUME NEW i \in at, NEW j \in at, i < j
        PROVE  rank(i) < rank(j)
    <2>1. i \in Nat /\ j \in Nat
      BY <1>0
    <2>2. j \in upto(j) /\ j \notin upto(i)
      BY <1>8, <2>1
    <2>3. upto(i) \in SUBSET upto(j)
      <3>1. \A k \in at : k <= i => k <= j
        BY <1>0, <1>8, <2>1
      <3> QED
        BY <3>1
    <2>4. IsFiniteSet(upto(j)) /\ rank(i) \in Nat /\ rank(j) \in Nat
      BY <2>1, <1>5
    <2> HIDE DEF upto
    <2>5. rank(i) <= rank(j) /\ rank(i) # rank(j)
      BY <2>2, <2>4, <2>3, FS_Subset
    <2> QED
      BY <2>4, <2>5
  <1>9. ASSUME NEW i \in at PROVE rank(i) # 0
    <2>1. i \in Nat /\ i \in upto(i)
      BY <1>0
    <2> HIDE DEF upto
    <2> QED
      BY <2>1, <1>5, FS_EmptySet
  <1> HIDE DEF rank, last, upto
  <1>10. ASSUME NEW i \in at PROVE rank(i) \in 1 .. last /\ nth(rank(i)) = i
    <2>1. i \in Nat /\ rank(i) \in 1 .. last
      BY <1>0, <1>2, <1>5, <1>9
    <2>2. ASSUME NEW j \in at, rank(j) = rank(i) PROVE j = i
      <3>1. j \in Nat /\ rank(j) \in Nat
        BY <1>0, <1>5
      <3> QED
        BY <2>1, <2>2, <3>1, <1>8
    <2> QED
      BY <2>1, <2>2
  <1>11. ASSUME NEW k \in 1 .. last PROVE nth(k) \in at /\ rank(nth(k)) = k
    <2> DEFINE N == {n \in Nat : k <= rank(n)}
    <2>1. Len(s) \in N
      BY <1>1, <1>2, <1>6
    <2>2. PICK m \in N : \A n \in N : m <= n
      <3>1. N \in SUBSET Nat /\ N # {}
        BY <2>1
      <3> HIDE DEF N
      <3> QED
        BY <3>1, LeastNumber
    <2>3. m \in Nat /\ m # 0 /\ k <= rank(m)
      BY <1>6
    <2>4. PICK n \in Nat : m = n + 1
      <3>1. m - 1 \in Nat /\ m = (m - 1) + 1
        BY <2>3
      <3> QED
        BY <3>1
    <2>5. ~(k <= rank(n))
      BY <2>2, <2>4
    <2>6. m \in at /\ rank(m) = k
      <3>1. rank(n) \in Nat
        BY <1>5
      <3>3. k \in Nat
        BY <1>2
      <3>2. rank(m) = IF m \in at THEN rank(n) + 1 ELSE rank(n)
        BY <2>4, <1>7
      <3> QED
        BY <3>1, <3>2, <3>3, <2>3, <2>5
    <2> QED
      BY <2>6
  <1> HIDE DEF nth
  <1>12. r \in Seq(S)
    BY <1>1, <1>2, <1>3, <1>4, <1>11
  <1>13. ToSet(r) \subseteq ToSet(s) \cap T
    BY <1>3, <1>4, <1>11 DEF ToSet
  <1>14. ASSUME NEW x \in ToSet(s) \cap T PROVE x \in ToSet(r)
    <2>1. PICK i \in at : s[i] = x
      BY <1>3 DEF ToSet
    <2>2. rank(i) \in DOMAIN r /\ r[rank(i)] = x
      BY <2>1, <1>4, <1>10
    <2> QED
      BY <2>2 DEF ToSet
  <1>15. ASSUME Injective(s) PROVE Injective(r)
    <2> SUFFICES ASSUME NEW k \in 1 .. last, NEW l \in 1 .. last, r[k] = r[l]
                 PROVE  k = l
      BY <1>4 DEF Injective
    <2>1. nth(k) \in DOMAIN s /\ nth(l) \in DOMAIN s /\ s[nth(k)] = s[nth(l)]
      BY <1>3, <1>4, <1>11
    <2>2. nth(k) = nth(l)
      BY <1>15, <2>1 DEF Injective
    <2> QED
      BY <2>2, <1>11
  <1> QED
    BY <1>12, <1>13, <1>14, <1>15 DEF r

(* FlattenSeq puts the sequences one behind the other, from the first on.  *)
LEMMA FlattenIsConcat ==
  ASSUME NEW S, NEW seqs \in Seq(Seq(S)), seqs # <<>>
  PROVE  \E f \in [1 .. Len(seqs) -> Seq(S)] :
           /\ f[1] = seqs[1]
           /\ \A i \in 1 .. Len(seqs) : i # 1 => f[i] = f[i - 1] \o seqs[i]
           /\ FlattenSeq(seqs) = f[Len(seqs)]
  <1> DEFINE L == Len(seqs)
             Upto(n, f) == /\ f \in [1 .. n -> Seq(S)]
                           /\ f[1] = seqs[1]
                           /\ \A i \in 1 .. n : i # 1 => f[i] = f[i - 1] \o seqs[i]
             N == {n \in 1 .. L : ~ \E f : Upto(n, f)}
             IsFlat(g) ==
               g = [i \in 1 .. L |-> IF i = 1 THEN seqs[i] ELSE g[i - 1] \o seqs[i]]
  <1>1. L \in Nat /\ L # 0 /\ \A i \in 1 .. L : seqs[i] \in Seq(S)
    BY LenProperties, EmptySeq
  <1> HIDE DEF L
  <1>2. ASSUME N # {} PROVE FALSE
    <2>1. N \in SUBSET Nat
      <3> HIDE DEF Upto
      <3>1. N \subseteq 1 .. L
        OBVIOUS
      <3> QED
        BY <3>1, <1>1
    <2>2. PICK m \in N : \A n \in N : m <= n
      <3> HIDE DEF N
      <3> QED
        BY <1>2, <2>1, LeastNumber
    <2>3. m \in 1 .. L /\ ~ \E f : Upto(m, f)
      OBVIOUS
    <2>4. CASE m = 1
      <3>1. Upto(1, [i \in 1 .. 1 |-> seqs[1]])
        BY <1>1
      <3> QED
        BY <3>1, <2>3, <2>4
    <2>5. CASE m # 1
      <3>1. m - 1 \in 1 .. L /\ ~(m <= m - 1)
        BY <2>3, <2>5, <1>1
      <3>2. PICK f : Upto(m - 1, f)
        BY <3>1, <2>2
      <3> DEFINE g == [i \in 1 .. m |-> IF i = m THEN f[m - 1] \o seqs[m] ELSE f[i]]
      <3>3. \A i \in 1 .. m : i # m => i \in 1 .. m - 1
        BY <2>3, <1>1
      <3>4. f[m - 1] \o seqs[m] \in Seq(S)
        <4>1. m - 1 \in 1 .. m - 1
          BY <3>1, <2>3, <1>1
        <4>2. f[m - 1] \in Seq(S) /\ seqs[m] \in Seq(S)
          BY <4>1, <3>2, <2>3, <1>1
        <4> QED
          BY <4>2, ConcatProperties
      <3>5. g \in [1 .. m -> Seq(S)]
        BY <3>2, <3>3, <3>4
      <3>6. g[1] = seqs[1]
        BY <3>2, <2>3, <2>5, <1>1
      <3>7. ASSUME NEW i \in 1 .. m, i # 1 PROVE g[i] = g[i - 1] \o seqs[i]
        <4>1. i - 1 \in 1 .. m /\ i - 1 # m
          BY <3>7, <2>3, <1>1
        <4>2. g[i - 1] = f[i - 1]
          BY <4>1
        <4>3. CASE i = m
          BY <4>2, <4>3
        <4>4. CASE i # m
          <5>1. i \in 1 .. m - 1
            BY <3>3, <4>4
          <5>2. f[i] = f[i - 1] \o seqs[i]
            BY <5>1, <3>2, <3>7
          <5> QED
            BY <5>2, <4>2, <4>4
        <4> QED
          BY <4>3, <4>4
      <3> HIDE DEF g
      <3>8. Upto(m, g)
        BY <3>5, <3>6, <3>7
      <3> QED
        BY <3>8, <2>3
    <2> QED
      BY <2>4, <2>5
  <1>3. PICK f : Upto(L, f)
    <2>1. L \in 1 .. L
      BY <1>1
    <2> QED
      BY <2>1, <1>2
  <1>4. IsFlat(f)
    <2> DEFINE h == [i \in 1 .. L |-> IF i = 1 THEN seqs[i] ELSE f[i - 1] \o seqs[i]]
    <2>1. \A i \in 1 .. L : h[i] = f[i]
      BY <1>3
    <2>2. f = [i \in 1 .. L |-> f[i]]
      BY <1>3
    <2> QED
      BY <2>1, <2>2
  <1> DEFINE g == CHOOSE g : IsFlat(g)
  <1>5. IsFlat(g)
    BY <1>4
  <1>6. FlattenSeq(seqs) = g[L]
    BY <1>1 DEF FlattenSeq, L
  <1> HIDE DEF g
  <1>7. ASSUME NEW n \in 1 .. L, g[n] # f[n] PROVE FALSE
    <2> DEFINE D == {k \in 1 .. L : g[k] # f[k]}
    <2>1. D \in SUBSET Nat /\ D # {}
      BY <1>7, <1>1
    <2>2. PICK m \in D : \A k \in D : m <= k
      <3> HIDE DEF D
      <3> QED
        BY <2>1, LeastNumber
    <2>3. m \in 1 .. L /\ g[m] # f[m]
      OBVIOUS
    <2>4. g[m] = IF m = 1 THEN seqs[m] ELSE g[m - 1] \o seqs[m]
      BY <1>5, <2>3
    <2>5. m # 1
      BY <2>3, <2>4, <1>3
    <2>6. m - 1 \in 1 .. L /\ ~(m <= m - 1)
      BY <2>3, <2>5, <1>1
    <2>7. g[m - 1] = f[m - 1]
      BY <2>2, <2>6
    <2> QED
      BY <2>3, <2>4, <2>5, <2>7, <1>3
  <1>8. FlattenSeq(seqs) = f[L]
    <2>1. L \in 1 .. L
      BY <1>1
    <2> QED
      BY <2>1, <1>6, <1>7
  <1> QED
    BY <1>3, <1>8 DEF L
(* What is in a finite set, or in a part of it, can be counted. *)
LEMMA PartIsFinite ==
  ASSUME NEW D, IsFiniteSet(D), NEW F, F \subseteq D
  PROVE  /\ IsFiniteSet(F) /\ Cardinality(F) \in Nat
         /\ Cardinality(F) = 0 <=> F = {}
  BY FS_Subset, FS_CardinalityType, FS_EmptySet

(* How often a function takes a value. *)
Tally(D, f, y) == Cardinality({x \in D : f[x] = y})

(* When a function changes at one point, one count goes up and one down.   *)
LEMMA TallyMoves ==
  ASSUME NEW D, IsFiniteSet(D), NEW d \in D, NEW f, NEW g,
         \A x \in D \ {d} : f[x] = g[x]
  PROVE  \A y : Tally(D, g, y) = Tally(D, f, y)
                 + (IF g[d] = y THEN 1 ELSE 0) - (IF f[d] = y THEN 1 ELSE 0)
  <1> TAKE y
  <1> DEFINE F == {x \in D : f[x] = y}
             G == {x \in D : g[x] = y}
             R == F \ {d}
  <1>1. IsFiniteSet(R) /\ Cardinality(R) \in Nat /\ d \notin R
    BY PartIsFinite
  <1>2. F = (IF f[d] = y THEN R \cup {d} ELSE R) /\ G = (IF g[d] = y THEN R \cup {d} ELSE R)
    OBVIOUS
  <1>3. Cardinality(R \cup {d}) = Cardinality(R) + 1
    BY <1>1, FS_AddElement
  <1> HIDE DEF F, G, R
  <1>4. Cardinality(F) = Cardinality(R) + (IF f[d] = y THEN 1 ELSE 0)
    BY <1>1, <1>2, <1>3
  <1>5. Cardinality(G) = Cardinality(R) + (IF g[d] = y THEN 1 ELSE 0)
    BY <1>1, <1>2, <1>3
  <1>6. Cardinality(G) = Cardinality(F) + (IF g[d] = y THEN 1 ELSE 0)
                         - (IF f[d] = y THEN 1 ELSE 0)
    BY <1>1, <1>4, <1>5
  <1> QED
    BY <1>6 DEF F, G, Tally

(* The values f[0], ..., f[n] of a recursion in S, and that its steps stay *)
(* in S.                                                                   *)
StepsIn(S, step, n) == \A i \in 1 .. n : \A x \in S : step[i][x] \in S

Follows(f, S, s0, step, n) ==
  f \in [0 .. n -> S] /\ f[0] = s0 /\ \A i \in 1 .. n : f[i] = step[i][f[i - 1]]

(* A definition by recursion along the numbers up to n has a solution.     *)
LEMMA RecursionAlong ==
  ASSUME NEW S, NEW s0 \in S, NEW n \in Nat, NEW step, StepsIn(S, step, n)
  PROVE  \E f : Follows(f, S, s0, step, n)
  <1>0. \A i \in 1 .. n : \A x \in S : step[i][x] \in S
    BY DEF StepsIn
  <1> DEFINE Upto(k, f) == /\ f \in [0 .. k -> S] /\ f[0] = s0
                           /\ \A i \in 1 .. k : f[i] = step[i][f[i - 1]]
             N == {k \in 0 .. n : ~ \E f : Upto(k, f)}
  <1>1. ASSUME N # {} PROVE FALSE
    <2>1. N \in SUBSET Nat
      <3> HIDE DEF Upto
      <3> QED
        OBVIOUS
    <2>2. PICK m \in N : \A k \in N : m <= k
      <3> HIDE DEF N
      <3> QED
        BY <1>1, <2>1, LeastNumber
    <2>3. m \in 0 .. n /\ ~ \E f : Upto(m, f)
      OBVIOUS
    <2>4. Upto(0, [i \in 0 .. 0 |-> s0])
      OBVIOUS
    <2>5. CASE m = 0
      BY <2>3, <2>4, <2>5
    <2>6. CASE m # 0
      <3>1. m - 1 \in 0 .. n /\ ~(m <= m - 1)
        BY <2>3, <2>6
      <3>2. PICK f : Upto(m - 1, f)
        BY <3>1, <2>2
      <3> DEFINE g == [i \in 0 .. m |-> IF i = m THEN step[m][f[m - 1]] ELSE f[i]]
      <3>3. \A i \in 0 .. m : i # m => i \in 0 .. m - 1
        BY <2>3
      <3>4. f[m - 1] \in S /\ step[m][f[m - 1]] \in S
        BY <3>1, <3>2, <2>3, <2>6, <1>0
      <3>5. g \in [0 .. m -> S] /\ g[0] = s0
        BY <3>2, <3>3, <3>4, <2>3, <2>6
      <3>6. ASSUME NEW i \in 1 .. m PROVE g[i] = step[i][g[i - 1]]
        <4>1. i - 1 \in 0 .. m /\ i - 1 # m /\ i \in 0 .. m
          BY <2>3
        <4>2. g[i - 1] = f[i - 1]
          BY <4>1
        <4>3. CASE i = m
          BY <4>1, <4>2, <4>3
        <4>4. CASE i # m
          <5>1. i \in 1 .. m - 1
            BY <2>3, <4>4
          <5> QED
            BY <5>1, <4>1, <4>2, <4>4, <3>2
        <4> QED
          BY <4>3, <4>4
      <3> HIDE DEF g
      <3>7. Upto(m, g)
        BY <3>5, <3>6
      <3> QED
        BY <3>7, <2>3
    <2> QED
      BY <2>5, <2>6
  <1>2. n \in 0 .. n
    OBVIOUS
  <1>3. \E f : Upto(n, f)
    BY <1>1, <1>2
  <1> QED
    BY <1>3 DEF Follows
=============================================================================
