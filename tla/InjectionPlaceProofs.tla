------------------------ MODULE InjectionPlaceProofs ------------------------
(***************************************************************************)
(* Theorems about InjectionDelivery, for any number of texts and any       *)
(* bounds: where a text is, in which order the model reads the texts, and  *)
(* that every run of the code is one InjectionPromise allows.              *)
(***************************************************************************)
EXTENDS InjectionDeliveryProofs, FiniteSetTheorems, SequenceTheorems

-----------------------------------------------------------------------------
(* Order in a sequence, as a relation R between what comes before and what *)
(* comes after.                                                            *)

Ordered(s, R) == \A j, k \in DOMAIN s : j < k => <<s[j], s[k]>> \in R

\* t is s with elements left out.
Thins(t, s) == \E f \in [DOMAIN t -> DOMAIN s] :
  /\ \A j \in DOMAIN t : t[j] = s[f[j]]
  /\ \A j, k \in DOMAIN t : j < k => f[j] < f[k]

LEMMA ToSetEmpty == ToSet(<<>>) = {}
BY DEF ToSet

LEMMA ToSetTyped ==
  ASSUME NEW S, NEW s \in Seq(S)
  PROVE  ToSet(s) \subseteq S
BY DEF ToSet

LEMMA ToSetNonempty ==
  ASSUME NEW S, NEW s \in Seq(S), ToSet(s) = {}
  PROVE  s = <<>>
<1>1. DOMAIN s = 1..Len(s) /\ Len(s) \in Nat  OBVIOUS
<1>2. Len(s) # 0 => s[1] \in ToSet(s)  BY <1>1 DEF ToSet
<1> QED BY <1>1, <1>2

LEMMA ToSetConcat ==
  ASSUME NEW S, NEW s \in Seq(S), NEW t \in Seq(S)
  PROVE  s \o t \in Seq(S) /\ ToSet(s \o t) = ToSet(s) \cup ToSet(t)
<1>1. /\ s \o t \in Seq(S) /\ Len(s \o t) = Len(s) + Len(t) /\ Len(s) \in Nat /\ Len(t) \in Nat
      /\ DOMAIN s = 1..Len(s) /\ DOMAIN t = 1..Len(t) /\ DOMAIN (s \o t) = 1..(Len(s) + Len(t))
      /\ \A j \in 1..(Len(s) + Len(t)) : (s \o t)[j] = IF j <= Len(s) THEN s[j] ELSE t[j - Len(s)]
  BY ConcatProperties
<1>2. ASSUME NEW j \in DOMAIN (s \o t) PROVE (s \o t)[j] \in ToSet(s) \cup ToSet(t)
  <2>1. CASE j <= Len(s)
    <3>1. j \in DOMAIN s /\ (s \o t)[j] = s[j]  BY <1>1, <2>1
    <3> QED BY <3>1 DEF ToSet
  <2>2. CASE j > Len(s)
    <3>1. j - Len(s) \in DOMAIN t /\ (s \o t)[j] = t[j - Len(s)]  BY <1>1, <2>2
    <3> QED BY <3>1 DEF ToSet
  <2> QED BY <1>1, <2>1, <2>2
<1>3. ASSUME NEW j \in DOMAIN s PROVE \E k \in DOMAIN (s \o t) : (s \o t)[k] = s[j]
  <2>1. j \in DOMAIN (s \o t) /\ (s \o t)[j] = s[j]  BY <1>1
  <2> QED BY <2>1
<1>4. ASSUME NEW j \in DOMAIN t PROVE \E k \in DOMAIN (s \o t) : (s \o t)[k] = t[j]
  <2>1. j + Len(s) \in DOMAIN (s \o t) /\ (s \o t)[j + Len(s)] = t[j]  BY <1>1
  <2> QED BY <2>1
<1>5. ToSet(s) \cup ToSet(t) \subseteq ToSet(s \o t)  BY <1>3, <1>4 DEF ToSet
<1>6. ToSet(s \o t) \subseteq ToSet(s) \cup ToSet(t)  BY <1>2 DEF ToSet
<1> QED BY <1>1, <1>5, <1>6

\* Two sequences in a row are in order if each is and all of the first goes before
\* all of the second.
LEMMA OrderedConcat ==
  ASSUME NEW S, NEW s \in Seq(S), NEW t \in Seq(S), NEW R
  PROVE  Ordered(s \o t, R) <=> Ordered(s, R) /\ Ordered(t, R) /\ ToSet(s) \X ToSet(t) \subseteq R
<1>1. /\ Len(s \o t) = Len(s) + Len(t) /\ Len(s) \in Nat /\ Len(t) \in Nat
      /\ DOMAIN s = 1..Len(s) /\ DOMAIN t = 1..Len(t) /\ DOMAIN (s \o t) = 1..(Len(s) + Len(t))
      /\ \A j \in 1..(Len(s) + Len(t)) : (s \o t)[j] = IF j <= Len(s) THEN s[j] ELSE t[j - Len(s)]
  BY ConcatProperties
<1>2. \A j \in DOMAIN s : j \in DOMAIN (s \o t) /\ (s \o t)[j] = s[j]  BY <1>1
<1>3. \A j \in DOMAIN t : j + Len(s) \in DOMAIN (s \o t) /\ (s \o t)[j + Len(s)] = t[j]  BY <1>1
<1>4. ASSUME Ordered(s \o t, R) PROVE Ordered(s, R)
  BY <1>1, <1>2, <1>4 DEF Ordered
<1>5. ASSUME Ordered(s \o t, R) PROVE Ordered(t, R)
  <2> SUFFICES ASSUME NEW j \in DOMAIN t, NEW k \in DOMAIN t, j < k PROVE <<t[j], t[k]>> \in R
    BY DEF Ordered
  <2>1. j + Len(s) < k + Len(s)  BY <1>1
  <2> QED BY <1>3, <1>5, <2>1 DEF Ordered
<1>6. ASSUME Ordered(s \o t, R) PROVE ToSet(s) \X ToSet(t) \subseteq R
  <2> SUFFICES ASSUME NEW j \in DOMAIN s, NEW k \in DOMAIN t PROVE <<s[j], t[k]>> \in R
    BY DEF ToSet
  <2>1. j < k + Len(s)  BY <1>1
  <2> QED BY <1>2, <1>3, <1>6, <2>1 DEF Ordered
<1>7. ASSUME Ordered(s, R), Ordered(t, R), ToSet(s) \X ToSet(t) \subseteq R PROVE Ordered(s \o t, R)
  <2> SUFFICES ASSUME NEW j \in DOMAIN (s \o t), NEW k \in DOMAIN (s \o t), j < k
               PROVE  <<(s \o t)[j], (s \o t)[k]>> \in R
    BY DEF Ordered
  <2>1. CASE k <= Len(s)
    <3>1. j \in DOMAIN s /\ k \in DOMAIN s /\ (s \o t)[j] = s[j] /\ (s \o t)[k] = s[k]  BY <1>1, <2>1
    <3> QED BY <1>7, <3>1 DEF Ordered
  <2>2. CASE j <= Len(s) /\ k > Len(s)
    <3>1. /\ j \in DOMAIN s /\ k - Len(s) \in DOMAIN t
          /\ (s \o t)[j] = s[j] /\ (s \o t)[k] = t[k - Len(s)]
      BY <1>1, <2>2
    <3>2. s[j] \in ToSet(s) /\ t[k - Len(s)] \in ToSet(t)  BY <3>1 DEF ToSet
    <3> QED BY <1>7, <3>1, <3>2
  <2>3. CASE j > Len(s)
    <3>1. /\ j - Len(s) \in DOMAIN t /\ k - Len(s) \in DOMAIN t /\ j - Len(s) < k - Len(s)
          /\ (s \o t)[j] = t[j - Len(s)] /\ (s \o t)[k] = t[k - Len(s)]
      BY <1>1, <2>3
    <3> QED BY <1>7, <3>1 DEF Ordered
  <2>4. k <= Len(s) \/ (j <= Len(s) /\ k > Len(s)) \/ j > Len(s)  BY <1>1
  <2> QED BY <2>1, <2>2, <2>3, <2>4, Zenon
<1> QED BY <1>4, <1>5, <1>6, <1>7

LEMMA ToSetAppend ==
  ASSUME NEW S, NEW s \in Seq(S), NEW e \in S
  PROVE  Append(s, e) = s \o <<e>> /\ ToSet(Append(s, e)) = ToSet(s) \cup {e}
<1>1. Append(s, e) = s \o <<e>>  BY AppendIsConcat
<1>2. <<e>> \in Seq(S) /\ ToSet(<<e>>) = {e}  BY DEF ToSet
<1>3. \A t \in Seq(S) : ToSet(s \o t) = ToSet(s) \cup ToSet(t)  BY ToSetConcat, ZenonT(40)
<1>4. ToSet(s \o <<e>>) = ToSet(s) \cup ToSet(<<e>>)  BY <1>2, <1>3
<1> QED BY <1>1, <1>2, <1>4

LEMMA OrderedShort ==
  ASSUME NEW e, NEW R
  PROVE  Ordered(<<>>, R) /\ Ordered(<<e>>, R) /\ ToSet(<<e>>) = {e}
BY DEF Ordered, ToSet

\* What a sequence loses leaves the others in order.
LEMMA ThinsKeepsOrder ==
  ASSUME NEW S, NEW s \in Seq(S), NEW T, NEW t \in Seq(T), Thins(t, s), NEW R, Ordered(s, R)
  PROVE  Ordered(t, R) /\ ToSet(t) \subseteq ToSet(s) /\ t \in Seq(S)
<1>1. PICK f \in [DOMAIN t -> DOMAIN s] :
        /\ \A j \in DOMAIN t : t[j] = s[f[j]]
        /\ \A j, k \in DOMAIN t : j < k => f[j] < f[k]
  BY DEF Thins
<1>2. Ordered(t, R)  BY <1>1 DEF Ordered
<1>3. ToSet(t) \subseteq ToSet(s)  BY <1>1 DEF ToSet
<1>4. Len(t) \in Nat /\ DOMAIN t = 1..Len(t) /\ t = [j \in 1..Len(t) |-> t[j]]  OBVIOUS
<1>5. \A j \in 1..Len(t) : t[j] \in S  BY <1>1, <1>4
<1>6. t \in Seq(S)  BY <1>4, <1>5, IsASeq
<1> QED BY <1>2, <1>3, <1>6

-----------------------------------------------------------------------------
(* Taking elements out of a sequence.                                      *)

LEMMA FrontAndLast ==
  ASSUME NEW S, NEW s \in Seq(S), s # <<>>
  PROVE  /\ Front(s) \in Seq(S) /\ s[Len(s)] \in S
         /\ s = Front(s) \o <<s[Len(s)]>>
<1>1. Len(s) \in Nat \ {0} /\ DOMAIN s = 1..Len(s)  BY EmptySeq
<1>2. 1 \in 1..Len(s) /\ Len(s) \in 1..Len(s)  BY <1>1
<1>3. SubSeq(s, 1, Len(s)) = SubSeq(s, 1, Len(s) - 1) \o <<s[Len(s)]>>
  BY <1>2, SubSeqRecursiveSecond, Zenon
<1>4. SubSeq(s, 1, Len(s)) = s  BY SubSeqFull
<1>5. Front(s) \in Seq(S)  BY <1>1 DEF Front
<1>6. s[Len(s)] \in S  BY <1>2, ElementOfSeq, Zenon
<1>7. Front(s) = SubSeq(s, 1, Len(s) - 1)  BY DEF Front
<1>8. s = Front(s) \o <<s[Len(s)]>>  BY <1>3, <1>4, <1>7, Zenon
<1> QED BY <1>5, <1>6, <1>8, Zenon

LEMMA HeadAndTail ==
  ASSUME NEW S, NEW s \in Seq(S), s # <<>>
  PROVE  /\ Tail(s) \in Seq(S) /\ Head(s) \in S
         /\ s = <<Head(s)>> \o Tail(s)
<1>1. Len(s) \in Nat \ {0} /\ DOMAIN s = 1..Len(s)  BY EmptySeq
<1>2. SubSeq(s, 1, Len(s)) = <<s[1]>> \o SubSeq(s, 2, Len(s))
  BY <1>1, SubSeqRecursiveFirst
<1>3. SubSeq(s, 1, Len(s)) = s  BY SubSeqFull
<1>4. Tail(s) = SubSeq(s, 2, Len(s))  BY TailIsSubSeq
<1>5. Head(s) = s[1]  BY <1>1
<1>6. Tail(s) \in Seq(S) /\ Head(s) \in S  BY HeadTailProperties
<1> QED BY <1>2, <1>3, <1>4, <1>5, <1>6

\* An order in which nothing comes before itself: what is taken out is gone.
LEMMA RemoveAtRemoves ==
  ASSUME NEW S, NEW s \in Seq(S), NEW k \in DOMAIN s, NEW R, Ordered(s, R), <<s[k], s[k]>> \notin R
  PROVE  /\ RemoveAt(s, k) \in Seq(S) /\ Ordered(RemoveAt(s, k), R)
         /\ ToSet(RemoveAt(s, k)) = ToSet(s) \ {s[k]}
<1> DEFINE front == SubSeq(s, 1, k - 1)
           back  == SubSeq(s, k + 1, Len(s))
<1>1. k \in 1..Len(s) /\ Len(s) \in Nat  OBVIOUS
<1>2. front \in Seq(S) /\ back \in Seq(S)  BY <1>1
<1>3. SubSeq(s, 1, k - 1) \o SubSeq(s, (k - 1) + 1, Len(s)) = SubSeq(s, 1, Len(s))
  <2>1. 1 \in 1..(Len(s) + 1) /\ k - 1 \in (1 - 1)..Len(s) /\ Len(s) \in (k - 1)..Len(s)  BY <1>1
  <2> QED BY <2>1, ConcatAdjacentSubSeq
<1>4. (k - 1) + 1 = k  BY <1>1
<1>5. SubSeq(s, k, Len(s)) = <<s[k]>> \o back
  <2>1. Len(s) \in k..Len(s)  BY <1>1
  <2> QED BY <1>1, <2>1, SubSeqRecursiveFirst, Zenon
<1>6. SubSeq(s, 1, Len(s)) = s  BY SubSeqFull
<1>7. RemoveAt(s, k) = front \o back  BY DEF RemoveAt
<1> HIDE DEF front, back
<1>8. s = front \o (<<s[k]>> \o back)  BY <1>3, <1>4, <1>5, <1>6 DEF front
<1> DEFINE e == s[k]
<1>9. e \in S  BY LenProperties, ElementOfSeq
<1> HIDE DEF e
<1>10. <<e>> \in Seq(S)  BY <1>9
<1>11. <<e>> \o back \in Seq(S) /\ ToSet(<<e>> \o back) = {e} \cup ToSet(back)
  <2>1. <<e>> \o back \in Seq(S) /\ ToSet(<<e>> \o back) = ToSet(<<e>>) \cup ToSet(back)
    BY <1>2, <1>10, ToSetConcat, ZenonT(40)
  <2> QED BY <2>1, OrderedShort, Zenon
<1>12. ToSet(s) = ToSet(front) \cup {e} \cup ToSet(back)
  <2>1. ToSet(front \o (<<e>> \o back)) = ToSet(front) \cup ToSet(<<e>> \o back)
    <3>1. \A u \in Seq(S) : ToSet(front \o u) = ToSet(front) \cup ToSet(u)
      BY <1>2, ToSetConcat, ZenonT(40)
    <3> QED BY <1>11, <3>1
  <2> QED BY <1>8, <1>11, <2>1 DEF e
<1>13. Ordered(front, R) /\ Ordered(<<e>> \o back, R) /\ ToSet(front) \X ToSet(<<e>> \o back) \subseteq R
  <2>1. Ordered(front \o (<<e>> \o back), R)  BY <1>8 DEF e
  <2> QED BY <1>2, <1>11, <2>1, OrderedConcat, Zenon
<1>14. Ordered(back, R) /\ {e} \X ToSet(back) \subseteq R
  <2>1. Ordered(back, R) /\ ToSet(<<e>>) \X ToSet(back) \subseteq R
    BY <1>2, <1>10, <1>13, OrderedConcat, Zenon
  <2> QED BY <2>1, OrderedShort
<1>15. ToSet(front) \X ToSet(back) \subseteq R /\ ToSet(front) \X {e} \subseteq R
  BY <1>11, <1>13
<1>16. RemoveAt(s, k) \in Seq(S) /\ ToSet(RemoveAt(s, k)) = ToSet(front) \cup ToSet(back)
  <2>1. front \o back \in Seq(S) /\ ToSet(front \o back) = ToSet(front) \cup ToSet(back)
    BY <1>2, ToSetConcat, ZenonT(40)
  <2> QED BY <1>7, <2>1
<1>17. Ordered(RemoveAt(s, k), R)
  <2>1. Ordered(front \o back, R)  BY <1>2, <1>13, <1>14, <1>15, OrderedConcat, Zenon
  <2> QED BY <1>7, <2>1
<1>18. e \notin ToSet(front) /\ e \notin ToSet(back)
  <2>1. <<e, e>> \notin R  BY DEF e
  <2> QED BY <1>14, <1>15, <2>1
<1> QED BY <1>12, <1>16, <1>17, <1>18 DEF e

\* The places that stay, counted: the rank of a place is its position among them.
LEMMA RankOfPlace ==
  ASSUME NEW N \in Nat, NEW I \in SUBSET (1..N)
  PROVE  /\ Cardinality(I) \in Nat
         /\ \E rank \in [I -> 1..Cardinality(I)] :
              /\ \A k \in I : rank[k] = Cardinality({j \in I : j <= k})
              /\ \A j, k \in I : j < k => rank[j] < rank[k]
              /\ \A m \in 1..Cardinality(I) : \E k \in I : rank[k] = m
<1>1. IsFiniteSet(I) /\ Cardinality(I) \in Nat
  <2>1. IsFiniteSet(1..N)  BY FS_Interval
  <2>2. IsFiniteSet(I)  BY <2>1, FS_Subset
  <2> QED BY <2>2, FS_CardinalityType
<1> DEFINE UpTo(k) == {j \in I : j <= k}
<1>2. ASSUME NEW k \in I
      PROVE  /\ IsFiniteSet(UpTo(k)) /\ Cardinality(UpTo(k)) \in Nat
             /\ Cardinality(UpTo(k)) \in 1..Cardinality(I)
  <2>1. UpTo(k) \in SUBSET I  OBVIOUS
  <2>2. IsFiniteSet(UpTo(k)) /\ Cardinality(UpTo(k)) <= Cardinality(I)
    BY <1>1, <2>1, FS_Subset
  <2>3. k \in UpTo(k)  OBVIOUS
  <2>4. Cardinality(UpTo(k)) \in Nat  BY <2>2, FS_CardinalityType
  <2>5. Cardinality(UpTo(k)) # 0  BY <2>2, <2>3, FS_EmptySet
  <2> QED BY <1>1, <2>2, <2>4, <2>5
<1>3. ASSUME NEW j \in I, NEW k \in I, j < k
      PROVE  Cardinality(UpTo(j)) < Cardinality(UpTo(k))
  <2>1. \A x \in I : x <= j => x <= k
    <3>1. I \subseteq Int  OBVIOUS
    <3> QED BY <1>3, <3>1
  <2>2. UpTo(j) \in SUBSET UpTo(k)  BY <2>1
  <2>3. k \in UpTo(k) /\ k \notin UpTo(j)  BY <1>3
  <2>4. Cardinality(UpTo(j)) <= Cardinality(UpTo(k))  BY <1>2, <2>2, FS_Subset
  <2>5. Cardinality(UpTo(j)) # Cardinality(UpTo(k))  BY <1>2, <2>2, <2>3, FS_Subset
  <2>6. Cardinality(UpTo(j)) \in Nat /\ Cardinality(UpTo(k)) \in Nat  BY <1>2
  <2> QED BY <2>4, <2>5, <2>6
<1> DEFINE rank == [k \in I |-> Cardinality(UpTo(k))]
<1>4. \A k \in I : rank[k] = Cardinality(UpTo(k))  OBVIOUS
<1>5. rank \in [I -> 1..Cardinality(I)]  BY <1>2
<1>6. \A j, k \in I : j < k => rank[j] < rank[k]  BY <1>3, <1>4
<1> HIDE DEF rank
<1>7. \A j, k \in I : rank[j] = rank[k] => j = k
  <2> SUFFICES ASSUME NEW j \in I, NEW k \in I, rank[j] = rank[k] PROVE j = k
    OBVIOUS
  <2>1. j \in Int /\ k \in Int /\ rank[j] \in Int /\ rank[k] \in Int  BY <1>1, <1>5
  <2> QED BY <1>6, <2>1
<1>8. rank \in Injection(I, 1..Cardinality(I))  BY <1>5, <1>7 DEF Injection, IsInjective
<1>9. IsFiniteSet(1..Cardinality(I)) /\ Cardinality(1..Cardinality(I)) = Cardinality(I)
  BY <1>1, FS_Interval
<1>10. rank \in Surjection(I, 1..Cardinality(I))  BY <1>8, <1>9, FS_Injection
<1>11. \A m \in 1..Cardinality(I) : \E k \in I : rank[k] = m  BY <1>10 DEF Surjection
<1> QED BY <1>1, <1>4, <1>5, <1>6, <1>11

\* What Without leaves of a sequence: the other elements, in their order.
LEMMA WithoutThins ==
  ASSUME NEW T, NEW s \in Seq(T), NEW S
  PROVE  /\ Without(s, S) \in Seq(T) /\ Thins(Without(s, S), s)
         /\ ToSet(Without(s, S)) = ToSet(s) \ S
<1> DEFINE I == {k \in DOMAIN s : s[k] \notin S}
           n == Cardinality(I)
           w == Without(s, S)
<1>1. DOMAIN s = 1..Len(s) /\ Len(s) \in Nat  OBVIOUS
<1>2. I \in SUBSET (1..Len(s))  BY <1>1
<1>3. w = [m \in 1..n |-> s[CHOOSE k \in I : Cardinality({j \in I : j <= k}) = m]]
  BY DEF Without
<1>4. \A k \in I : k \in DOMAIN s /\ s[k] \notin S /\ k \in Int  BY <1>1
<1>5. \A k \in DOMAIN s : s[k] \notin S => k \in I  OBVIOUS
<1> HIDE DEF I, w
<1>6. n \in Nat  BY <1>1, <1>2, RankOfPlace
<1>7. PICK rank \in [I -> 1..n] :
        /\ \A k \in I : rank[k] = Cardinality({j \in I : j <= k})
        /\ \A j, k \in I : j < k => rank[j] < rank[k]
        /\ \A m \in 1..n : \E k \in I : rank[k] = m
  BY <1>1, <1>2, RankOfPlace
<1> HIDE DEF n
<1> DEFINE f == [m \in 1..n |-> CHOOSE k \in I : Cardinality({j \in I : j <= k}) = m]
<1>8. w = [m \in 1..n |-> s[f[m]]]  BY <1>3
<1>9. ASSUME NEW m \in 1..n PROVE f[m] \in I /\ rank[f[m]] = m
  <2> DEFINE At(k) == Cardinality({j \in I : j <= k}) = m
  <2>1. \E k \in I : At(k)
    <3>1. PICK k \in I : rank[k] = m  BY <1>7
    <3>2. At(k)  BY <1>7, <3>1
    <3> QED BY <3>2
  <2>2. f[m] = CHOOSE k \in I : At(k)  OBVIOUS
  <2> HIDE DEF At, f
  <2>3. f[m] \in I /\ At(f[m])  BY <2>1, <2>2
  <2> QED BY <1>7, <2>3 DEF At
<1>10. f \in [1..n -> I]  BY <1>9
<1> HIDE DEF f
<1>11. \A k \in I : f[rank[k]] = k
  <2> SUFFICES ASSUME NEW k \in I PROVE f[rank[k]] = k
    OBVIOUS
  <2>1. f[rank[k]] \in I /\ rank[f[rank[k]]] = rank[k]
    <3>1. rank[k] \in 1..n  BY <1>7
    <3> QED BY <1>9, <3>1
  <2>2. k \in Int /\ f[rank[k]] \in Int  BY <1>4, <2>1, Zenon
  <2>3. rank[k] \in 1..n  BY <1>7
  <2>4. rank[k] \in Int  BY <1>6, <2>3
  <2> QED BY <1>7, <2>1, <2>2, <2>4
<1>12. \A j, m \in 1..n : j < m => f[j] < f[m]
  <2> SUFFICES ASSUME NEW j \in 1..n, NEW m \in 1..n, j < m PROVE f[j] < f[m]
    OBVIOUS
  <2>1. f[j] \in I /\ rank[f[j]] = j /\ f[m] \in I /\ rank[f[m]] = m  BY <1>9
  <2>2. f[j] \in Int /\ f[m] \in Int /\ j \in Int /\ m \in Int  BY <1>2, <1>6, <2>1
  <2>3. ~(f[m] < f[j])  BY <1>7, <2>1, <2>2
  <2>4. f[m] # f[j]  BY <2>1, <2>2
  <2> QED BY <2>2, <2>3, <2>4
<1>13. w \in Seq(T) /\ DOMAIN w = 1..n
  <2>1. \A m \in 1..n : s[f[m]] \in T  BY <1>1, <1>4, <1>9
  <2> QED BY <1>6, <1>8, <2>1
<1>14. Thins(w, s)
  <2>1. f \in [DOMAIN w -> DOMAIN s]  BY <1>4, <1>10, <1>13
  <2>2. \A j \in DOMAIN w : w[j] = s[f[j]]  BY <1>8, <1>13
  <2> QED BY <1>12, <1>13, <2>1, <2>2 DEF Thins
<1>15. ToSet(w) = ToSet(s) \ S
  <2>1. \A m \in DOMAIN w : w[m] \in ToSet(s) \ S  BY <1>4, <1>8, <1>9, <1>13 DEF ToSet
  <2>2. ASSUME NEW k \in DOMAIN s, s[k] \notin S PROVE s[k] \in ToSet(w)
    <3>1. k \in I /\ rank[k] \in DOMAIN w /\ w[rank[k]] = s[k]
      BY <1>5, <1>7, <1>8, <1>11, <1>13, <2>2
    <3> QED BY <3>1 DEF ToSet
  <2> QED BY <2>1, <2>2 DEF ToSet
<1> QED BY <1>13, <1>14, <1>15 DEF w

-----------------------------------------------------------------------------
(* The invariant.                                                          *)

\* What may come before what: two different texts, in the order of their commits.
Before == {p \in Items \X Items : p[1] \in Texts /\ p[2] \in Texts =>
  /\ p[1] # p[2]
  /\ \A m, n \in DOMAIN accepted : accepted[m] = p[1] /\ accepted[n] = p[2] => m < n}

\* The handler has not yet decided what becomes of its text.
Undecided(i) == pc[i] \in {"new", "gate", "hooks", "staging", "waitRun", "starting"}

Recorded == ToSet(history) \cup ToSet(kept) \cup ToSet(consumed)
Waiting  == ToSet(queue) \cup ToSet(drained)

\* What the run's phase says of its sequences.
LoopInv ==
  /\ retried = mirror
  /\ phase \in {"none", "pre", "returning", "drain", "save"} => replay = <<>> /\ mirror = <<>>
  /\ phase \in {"consuming", "wire"} => replay = <<>>
  /\ phase = "ready" => (IF tokenLive THEN replay = <<>> ELSE mirror = <<>>)
  /\ phase \in {"none", "pre", "save"} => kept = <<>> /\ consumed = <<>>
  /\ drained # <<>> => phase = "drain"
  /\ queue # <<>> => WindowOpen
  /\ opener # None => phase \notin {"none", "save"} /\ opener \in opened
  /\ opener # None => IF phase = "pre" THEN opener \notin ToSet(history) ELSE opener \in ToSet(kept)

\* Which records of a text exclude which.
PlaceInv ==
  /\ ToSet(mirror) \cup ToSet(replay) \subseteq ToSet(consumed)
  /\ ConsumedStaysInReach
  /\ Waiting \cap (Recorded \cup opened \cup owed) = {}
  /\ Waiting \cup ToSet(consumed) \cup owed \subseteq ToSet(accepted)
  /\ Recorded \cap Texts \subseteq ToSet(accepted) \cup opened
  /\ ToSet(accepted) \cap opened = {}
  /\ ReminderHasItsText

\* What its handler and its answer say of a text.
TextInv == \A i \in Texts :
  /\ Undecided(i) => i \notin ToSet(accepted) \cup opened /\ results[i] = <<>>
  /\ results[i] \in {<<>>, <<TRUE>>, <<FALSE>>}
  /\ i \in Waiting \cup owed \cup opened => results[i] = <<>>
  /\ i \in ToSet(accepted) => i \in Waiting \cup owed \/ results[i] # <<>>
  /\ results[i] = <<FALSE>> => i \notin Recorded
  /\ results[i] = <<TRUE>> => i \in ToSet(accepted)
  /\ pc[i] = "publishing" => i \in ToSet(accepted)

\* The texts are in order within each sequence, and from each to the later ones.  A
\* consumed text the transcript has lost track of comes after all it has.
OrderInv ==
  /\ Ordered(history, Before) /\ Ordered(kept, Before)
  /\ Ordered(mirror, Before) /\ Ordered(replay, Before) /\ Ordered(queue, Before)
  /\ Ordered(consumed, Before) /\ Ordered(drained, Before)
  /\ ToSet(history) \X (ToSet(kept) \cup ToSet(mirror) \cup ToSet(replay) \cup ToSet(queue))
       \subseteq Before
  /\ ToSet(kept) \X (ToSet(mirror) \cup ToSet(replay) \cup ToSet(queue)) \subseteq Before
  /\ (ToSet(mirror) \cup ToSet(replay)) \X ToSet(queue) \subseteq Before
  /\ (ToSet(history) \cup ToSet(kept)) \X (ToSet(consumed) \ (ToSet(history) \cup ToSet(kept)))
       \subseteq Before

IInv == TypeOK /\ LoopInv /\ PlaceInv /\ TextInv /\ OrderInv

LEMMA Typed ==
  ASSUME TypeOK
  PROVE  /\ queue \in Seq(Texts) /\ replay \in Seq(Texts) /\ retried \in Seq(Texts)
         /\ mirror \in Seq(Texts) /\ consumed \in Seq(Texts) /\ drained \in Seq(Texts)
         /\ accepted \in Seq(Texts) /\ kept \in Seq(Items) /\ history \in Seq(Items)
         /\ ToSet(queue) \cup ToSet(replay) \cup ToSet(mirror) \subseteq Texts
         /\ ToSet(consumed) \cup ToSet(drained) \cup ToSet(accepted) \subseteq Texts
         /\ ToSet(kept) \cup ToSet(history) \subseteq Items
<1>1. /\ queue \in Seq(Texts) /\ replay \in Seq(Texts) /\ retried \in Seq(Texts)
      /\ mirror \in Seq(Texts) /\ consumed \in Seq(Texts) /\ drained \in Seq(Texts)
      /\ accepted \in Seq(Texts) /\ kept \in Seq(Items) /\ history \in Seq(Items)
  BY DEF TypeOK
<1>2. ToSet(queue) \subseteq Texts /\ ToSet(replay) \subseteq Texts /\ ToSet(mirror) \subseteq Texts
  BY <1>1, ToSetTyped, Zenon
<1>3. ToSet(consumed) \subseteq Texts /\ ToSet(drained) \subseteq Texts /\ ToSet(accepted) \subseteq Texts
  BY <1>1, ToSetTyped, Zenon
<1>4. ToSet(kept) \subseteq Items /\ ToSet(history) \subseteq Items
  BY <1>1, ToSetTyped, Zenon
<1> QED BY <1>1, <1>2, <1>3, <1>4

LEMMA InitEstablishes == Init => IInv
<1> SUFFICES ASSUME Init PROVE IInv
  OBVIOUS
<1>1. TypeOK
  <2>1. /\ pc \in [Texts -> HandlerPcs] /\ target \in [Texts -> [pass : Nat, state : Nat]]
        /\ results \in [Texts -> Seq(BOOLEAN)]
    BY DEF Init, HandlerPcs
  <2>2. /\ {queue, replay, retried, mirror, consumed, drained, accepted} \subseteq Seq(Texts)
        /\ {kept, history} \subseteq Seq(Items)
    BY DEF Init
  <2>3. /\ marks \subseteq Texts /\ owed \subseteq Texts
        /\ reminders \subseteq Texts /\ judge \subseteq Texts /\ opened \subseteq Texts
    BY DEF Init
  <2>4. /\ phase \in Phases /\ pass \in Nat
        /\ opener \in Texts \cup {None} /\ outcome \in {"ok", "failed", "interrupted"}
        /\ reminderState \in Nat /\ {calls, fails, stops} \subseteq Nat
    BY DEF Init, Phases
  <2>5. {again, stopping, tokenLive} \subseteq BOOLEAN
    BY DEF Init
  <2> QED BY <2>1, <2>2, <2>3, <2>4, <2>5 DEF TypeOK
<1>2. LoopInv  BY DEF Init, LoopInv
<1>3. PlaceInv /\ TextInv
  BY ToSetEmpty DEF Init, PlaceInv, TextInv, ConsumedStaysInReach, ReminderHasItsText, Waiting, Recorded
<1>4. OrderInv  BY ToSetEmpty, OrderedShort DEF Init, OrderInv
<1> QED BY <1>1, <1>2, <1>3, <1>4 DEF IInv

-----------------------------------------------------------------------------
(* Types.                                                                  *)

HandlersTyped ==
  /\ pc \in [Texts -> HandlerPcs]
  /\ target \in [Texts -> [pass : Nat, state : Nat]]
  /\ marks \subseteq Texts /\ owed \subseteq Texts
  /\ results \in [Texts -> Seq(BOOLEAN)]

SequencesTyped ==
  /\ queue \in Seq(Texts) /\ replay \in Seq(Texts) /\ retried \in Seq(Texts)
  /\ mirror \in Seq(Texts) /\ consumed \in Seq(Texts) /\ drained \in Seq(Texts)
  /\ accepted \in Seq(Texts) /\ kept \in Seq(Items) /\ history \in Seq(Items)

RunTyped ==
  /\ phase \in Phases /\ pass \in Nat
  /\ opener \in Texts \cup {None} /\ outcome \in {"ok", "failed", "interrupted"}
  /\ reminderState \in Nat /\ calls \in Nat /\ fails \in Nat /\ stops \in Nat

FlagsTyped == again \in BOOLEAN /\ stopping \in BOOLEAN /\ tokenLive \in BOOLEAN

SetsTyped == reminders \subseteq Texts /\ judge \subseteq Texts /\ opened \subseteq Texts

LEMMA TypeParts ==
  TypeOK <=> HandlersTyped /\ SequencesTyped /\ RunTyped /\ FlagsTyped /\ SetsTyped
BY DEF TypeOK, HandlersTyped, SequencesTyped, RunTyped, FlagsTyped, SetsTyped

LEMMA HandlersStayTyped ==
  ASSUME TypeOK, [Next]_vars
  PROVE  HandlersTyped'
<1> USE TypeParts DEF HandlersTyped, SequencesTyped, handlerVars, toldVars
<1>1. ASSUME NEW i \in Texts, NEW b \in BOOLEAN, Publish(i, b) PROVE results' \in [Texts -> Seq(BOOLEAN)]
  BY <1>1 DEF Publish
<1>2. ASSUME NEW i \in Texts, NEW place \in HandlerPcs, MoveTo(i, place)
      PROVE  pc' \in [Texts -> HandlerPcs] /\ UNCHANGED <<marks, results, owed>>
  BY <1>2 DEF MoveTo
<1>3. ASSUME NEW i \in Texts, Leave(i)
      PROVE  pc' \in [Texts -> HandlerPcs] /\ marks' \subseteq Texts
  BY <1>3 DEF Leave, HandlerPcs
<1>4. ASSUME NEW i \in Texts, Abandon(i) PROVE HandlersTyped'
  BY <1>1, <1>3, <1>4 DEF Abandon
<1>5. {"new", "gate", "hooks", "staging", "publishing", "waitRun", "starting", "out"} = HandlerPcs
  BY DEF HandlerPcs
<1>6. ASSUME NEW i \in Texts, EnterRun(i) \/ AwaitCleanup(i) PROVE HandlersTyped'
  <2>1. pass \in Nat /\ reminderState \in Nat  BY DEF RunTyped
  <2>2. ASSUME target' = [target EXCEPT ![i] = [pass |-> pass, state |-> reminderState]]
        PROVE  target' \in [Texts -> [pass : Nat, state : Nat]]
    BY <2>1, <2>2
  <2>3. ASSUME target' = [target EXCEPT ![i] = [pass |-> pass, state |-> 0]]
        PROVE  target' \in [Texts -> [pass : Nat, state : Nat]]
    BY <2>1, <2>3
  <2>4. CASE EnterRun(i)  BY <1>2, <1>4, <1>5, <2>2, <2>4 DEF EnterRun
  <2>5. CASE AwaitCleanup(i)  BY <1>2, <1>5, <2>3, <2>5 DEF AwaitCleanup
  <2> QED BY <1>6, <2>4, <2>5
<1>7. ASSUME NEW i \in Texts, Submit(i) \/ WaitForOtherAdmission(i) \/ Commit(i) PROVE HandlersTyped'
  BY <1>2, <1>5, <1>7 DEF Submit, WaitForOtherAdmission, Commit
<1>8. ASSUME NEW i \in Texts, Reserve(i) \/ RefuseCommit(i) PROVE HandlersTyped'
  BY <1>2, <1>4, <1>5, <1>8 DEF Reserve, RefuseCommit
<1>9. ASSUME NEW i \in Texts, CommitPublished(i) \/ OpenTurn(i) PROVE HandlersTyped'
  BY <1>3, <1>9 DEF CommitPublished, OpenTurn
<1>10. ASSUME NEW i \in Texts, HooksDone(i) \/ RefuseTurn(i) PROVE HandlersTyped'
  BY <1>2, <1>3, <1>4, <1>5, <1>10 DEF HooksDone, RefuseTurn
<1>11. ASSUME NEW i \in Texts, Cancel(i) PROVE HandlersTyped'
  BY <1>1, <1>11 DEF Cancel
<1>12. ASSUME NEW i \in Texts, Notify(i) PROVE HandlersTyped'
  BY <1>1, <1>12 DEF Notify
<1>13. CASE Consume
  <2>1. ToSet(NewlyConsumed) \subseteq Texts
    <3>1. Batch \in Seq(Texts)  BY ToSetConcat DEF Batch
    <3>2. NewlyConsumed \in Seq(Texts)  BY <3>1, WithoutThins DEF NewlyConsumed
    <3> QED BY <3>2, ToSetTyped
  <2> QED BY <1>13, <2>1 DEF Consume
<1>14. CASE ReturnDrained
  <2>1. Head(drained) \in Texts  BY <1>14, HeadAndTail DEF ReturnDrained
  <2> QED BY <1>1, <1>14, <2>1 DEF ReturnDrained
<1>15. CASE PassPrepares \/ Poll \/ CheckpointFlushed \/ PassReturns \/ PassSaves \/ RunEnds
  BY <1>15 DEF PassPrepares, Poll, CheckpointFlushed, PassReturns, PassSaves, RunEnds
<1>16. CASE CallEnds \/ Announced \/ Stop \/ RetryTurn \/ UNCHANGED vars
  BY <1>16 DEF CallEnds, Answered, CallFails, Interrupted, Announced, Stop, RetryTurn, vars
<1> QED BY <1>6, <1>7, <1>8, <1>9, <1>10, <1>11, <1>12, <1>13, <1>14, <1>15, <1>16
        DEF Next, HandlerStep, RunStep

LEMMA SequencesStayTyped ==
  ASSUME TypeOK, [Next]_vars
  PROVE  SequencesTyped'
<1> USE TypeParts DEF SequencesTyped, queueVars, recordVars, ghostVars
<1>1. ASSUME NEW i \in Texts,
             \/ Submit(i) \/ EnterRun(i) \/ AwaitCleanup(i) \/ Reserve(i) \/ WaitForOtherAdmission(i)
             \/ HooksDone(i) \/ RefuseCommit(i) \/ CommitPublished(i) \/ RefuseTurn(i) \/ Notify(i)
      PROVE  SequencesTyped'
  BY <1>1 DEF Submit, EnterRun, AwaitCleanup, Reserve, WaitForOtherAdmission, HooksDone, RefuseCommit,
              CommitPublished, RefuseTurn, Notify
<1>2. ASSUME NEW i \in Texts, Commit(i) PROVE SequencesTyped'
  BY <1>2 DEF Commit
<1>3. history # <<>> => Front(history) \in Seq(Items)
  BY FrontAndLast
<1>4. ASSUME NEW i \in Texts, OpenTurn(i) PROVE SequencesTyped'
  <2>1. WithoutOrphan \in Seq(Items)  BY <1>3 DEF WithoutOrphan, EndsWith
  <2> QED BY <1>4, <2>1 DEF OpenTurn
<1>5. ASSUME NEW i \in Texts, Cancel(i) PROVE SequencesTyped'
  <2>1. queue' = queue \/ \E k \in DOMAIN queue : queue' = RemoveAt(queue, k)
    BY <1>5 DEF Cancel
  <2>2. \A k \in DOMAIN queue : RemoveAt(queue, k) \in Seq(Texts)
    BY RemoveAtKeepsElements
  <2>3. queue' \in Seq(Texts)  BY <2>1, <2>2
  <2> QED BY <1>5, <2>3 DEF Cancel
<1>6. CASE PassPrepares
  <2>1. CASE opener # None
    <3>1. opener \in Items  BY <2>1 DEF RunTyped, Items
    <3>2. kept' = <<opener>> /\ history' = history  BY <1>6, <2>1 DEF PassPrepares
    <3>3. kept' \in Seq(Items)  BY <3>1, <3>2
    <3> QED BY <1>6, <3>2, <3>3 DEF PassPrepares
  <2>2. CASE opener = None
    <3>1. Replayed \in Seq(Items) /\ (Replayed # <<>> => history # <<>>)
      <4>1. history # <<>> => history[Len(history)] \in Items  BY FrontAndLast
      <4> QED BY <4>1 DEF Replayed, EndsWith
    <3>2. kept' \in Seq(Items) /\ history' \in Seq(Items)
      BY <1>3, <1>6, <2>2, <3>1 DEF PassPrepares
    <3> QED BY <1>6, <3>2 DEF PassPrepares
  <2> QED BY <2>1, <2>2
<1>7. CASE Consume
  <2>1. Batch \in Seq(Texts)  BY ToSetConcat DEF Batch
  <2>2. NewlyConsumed \in Seq(Texts)  BY <2>1, WithoutThins DEF NewlyConsumed
  <2>3. consumed' \in Seq(Texts) /\ mirror' \in Seq(Texts) /\ retried' \in Seq(Texts)
    BY <1>7, <2>1, <2>2 DEF Consume
  <2> QED BY <1>7, <2>3 DEF Consume
<1>8. CASE Answered
  <2>1. mirror \in Seq(Items) /\ <<Work>> \in Seq(Items)  BY SeqMonotonic DEF Items
  <2>2. kept \o mirror \in Seq(Items) /\ kept \o mirror \o <<Work>> \in Seq(Items)  BY <2>1
  <2>3. kept' \in {kept \o mirror, kept \o mirror \o <<Work>>}  BY <1>8 DEF Answered
  <2>4. kept' \in Seq(Items)  BY <2>2, <2>3
  <2> QED BY <1>8, <2>4 DEF Answered
<1>9. CASE CallFails
  <2> DEFINE Kept == replay' \in Seq(Texts) /\ retried' \in Seq(Texts) /\ mirror' \in Seq(Texts)
  <2>1. ASSUME EndRetry PROVE Kept  BY <2>1 DEF EndRetry
  <2>2. ASSUME RestoreForRetry PROVE Kept
    <3>1. CASE UNCHANGED <<replay, retried, mirror>>  BY <3>1
    <3>2. CASE /\ replay' = IF retried # <<>> THEN retried ELSE replay
               /\ retried' = <<>> /\ mirror' = <<>>
      BY <3>2
    <3> QED BY <2>2, <3>1, <3>2 DEF RestoreForRetry
  <2>3. EndRetry \/ RestoreForRetry  BY <1>9 DEF CallFails
  <2>4. Kept  BY <2>1, <2>2, <2>3
  <2> QED BY <1>9, <2>4 DEF CallFails
<1>10. CASE Interrupted
  <2>1. kept # <<>> => Front(kept) \in Seq(Items)  BY FrontAndLast
  <2> QED BY <1>10, <2>1 DEF Interrupted, EndRetry, EndsWith
<1>11. CASE PassReturns  BY <1>11 DEF PassReturns, DrainPending
<1>12. CASE ReturnDrained
  <2>1. Tail(drained) \in Seq(Texts)  BY <1>12, HeadAndTail DEF ReturnDrained
  <2> QED BY <1>12, <2>1 DEF ReturnDrained
<1>13. CASE PassSaves
  <2>1. consumed \in Seq(Items)  BY SeqMonotonic DEF Items
  <2>2. Without(consumed, ToSet(history \o kept)) \in Seq(Items)  BY <2>1, WithoutThins
  <2>3. Persisted \in Seq(Items)  BY <2>2 DEF Persisted
  <2> QED BY <1>13, <2>3 DEF PassSaves
<1>14. CASE Poll \/ CheckpointFlushed \/ RunEnds \/ Announced \/ Stop \/ RetryTurn \/ UNCHANGED vars
  BY <1>14 DEF Poll, CheckpointFlushed, RunEnds, Announced, Stop, RetryTurn, vars
<1> QED BY <1>1, <1>2, <1>4, <1>5, <1>6, <1>7, <1>8, <1>9, <1>10, <1>11, <1>12, <1>13, <1>14
        DEF Next, HandlerStep, RunStep, CallEnds

LEMMA RunStaysTyped ==
  ASSUME TypeOK, [Next]_vars
  PROVE  RunTyped' /\ FlagsTyped' /\ SetsTyped'
<1> USE TypeParts DEF RunTyped, SetsTyped, FlagsTyped, runVars, turnVars, countVars, ghostVars
<1>1. ASSUME NEW i \in Texts,
             \/ Submit(i) \/ EnterRun(i) \/ AwaitCleanup(i) \/ Reserve(i) \/ WaitForOtherAdmission(i)
             \/ HooksDone(i) \/ RefuseCommit(i) \/ CommitPublished(i) \/ RefuseTurn(i) \/ Notify(i)
      PROVE  RunTyped' /\ FlagsTyped' /\ SetsTyped'
  BY <1>1 DEF Submit, EnterRun, AwaitCleanup, Reserve, WaitForOtherAdmission, HooksDone, RefuseCommit,
              CommitPublished, RefuseTurn, Notify
<1>2. ASSUME NEW i \in Texts, Commit(i) \/ Cancel(i) PROVE RunTyped' /\ FlagsTyped' /\ SetsTyped'
  <2>1. reminders' \subseteq reminders \cup {i} /\ judge' \subseteq judge \cup {i} /\ opened' = opened
    BY <1>2 DEF Commit, Cancel
  <2>2. UNCHANGED <<runVars, reminderState, countVars>>  BY <1>2 DEF Commit, Cancel
  <2> QED BY <2>1, <2>2
<1>3. ASSUME NEW i \in Texts, OpenTurn(i) PROVE RunTyped' /\ FlagsTyped' /\ SetsTyped'
  BY <1>3 DEF OpenTurn, Phases
<1>4. CASE PassPrepares
  <2>1. FlagsTyped'  BY <1>4 DEF PassPrepares
  <2>2. judge' \subseteq Texts  BY <1>4 DEF PassPrepares, OfThisTurn
  <2> QED BY <1>4, <2>1, <2>2 DEF PassPrepares, Phases
<1>5. CASE Consume \/ Poll \/ CheckpointFlushed \/ PassReturns \/ ReturnDrained
  <2>1. /\ phase' \in Phases /\ reminders' \subseteq reminders
        /\ UNCHANGED <<pass, opener, outcome, reminderState, judge, opened, again, tokenLive, countVars>>
        /\ stopping' \in {stopping, FALSE}
    BY <1>5 DEF Consume, Poll, CheckpointFlushed, PassReturns, WithdrawDrained, ReturnDrained, Phases
  <2> QED BY <2>1
<1>6. CASE PassSaves
  <2>1. again' = FALSE \/ again' = (pass < MaxPasses)  BY <1>6 DEF PassSaves
  <2>2. (pass < MaxPasses) \in BOOLEAN  OBVIOUS
  <2>3. FlagsTyped'  BY <1>6, <2>1, <2>2 DEF PassSaves
  <2>4. phase' \in Phases  BY <1>6 DEF PassSaves, Phases
  <2> QED BY <1>6, <2>3, <2>4 DEF PassSaves
<1>7. CASE RunEnds
  <2>1. FlagsTyped'  BY <1>7 DEF RunEnds
  <2>2. phase' \in Phases  BY <1>7 DEF RunEnds, Phases
  <2>3. pass' \in Nat /\ reminders' \subseteq Texts /\ reminderState' \in Nat  BY <1>7 DEF RunEnds
  <2> QED BY <1>7, <2>1, <2>2, <2>3 DEF RunEnds
<1>8. CASE Answered
  <2>1. FlagsTyped'  BY <1>8 DEF Answered
  <2>2. phase' \in Phases  BY <1>8 DEF Answered, Phases
  <2>3. outcome' \in {"ok", "failed", "interrupted"}  BY <1>8 DEF Answered
  <2> QED BY <1>8, <2>1, <2>2, <2>3 DEF Answered
<1>9. CASE CallFails
  <2>1. FlagsTyped'
    <3>1. tokenLive' = tokenLive \/ tokenLive' = FALSE  BY <1>9 DEF CallFails
    <3> QED BY <1>9, <3>1 DEF CallFails
  <2>2. phase' \in Phases  BY <1>9 DEF CallFails, Phases
  <2>3. outcome' \in {"ok", "failed", "interrupted"} /\ fails' \in Nat  BY <1>9 DEF CallFails
  <2> QED BY <1>9, <2>1, <2>2, <2>3 DEF CallFails
<1>10. CASE Interrupted \/ Announced \/ Stop
  <2>1. FlagsTyped'  BY <1>10 DEF Interrupted, Announced, Stop
  <2>2. phase' \in Phases  BY <1>10 DEF Interrupted, Announced, Stop, Phases
  <2>3. outcome' \in {"ok", "failed", "interrupted"} /\ stops' \in Nat
    BY <1>10 DEF Interrupted, Announced, Stop
  <2> QED BY <1>10, <2>1, <2>2, <2>3 DEF Interrupted, Announced, Stop
<1>11. CASE RetryTurn \/ UNCHANGED vars
  BY <1>11 DEF RetryTurn, vars, Phases
<1> QED BY <1>1, <1>2, <1>3, <1>4, <1>5, <1>6, <1>7, <1>8, <1>9, <1>10, <1>11
        DEF Next, HandlerStep, RunStep, CallEnds

LEMMA TypesStay ==
  ASSUME TypeOK, [Next]_vars
  PROVE  TypeOK'
BY HandlersStayTyped, SequencesStayTyped, RunStaysTyped DEF TypeOK, HandlersTyped, SequencesTyped,
   RunTyped, FlagsTyped, SetsTyped

-----------------------------------------------------------------------------
(* Steps that leave the sequences of texts alone.                          *)

recordedVars == <<queueVars, recordVars, ghostVars, owed>>

\* A handler takes a step of its own: it goes on, or gives an undecided text back.
HandlerOnly(i) ==
  /\ UNCHANGED <<recordedVars, runVars, turnVars, countVars>>
  /\ \A j \in Texts \ {i} : pc'[j] = pc[j]
  /\ pc'[i] # "new" /\ (pc[i] = "new" => Undecided(i)') /\ (Undecided(i)' => Undecided(i))
  /\ pc'[i] = "publishing" => pc[i] = "publishing"
  /\ \/ results' = results
     \/ Undecided(i) /\ ~Undecided(i)' /\ results' = [results EXCEPT ![i] = Append(@, FALSE)]

LEMMA HandlerOnlySteps ==
  ASSUME TypeOK, NEW i \in Texts,
         \/ Submit(i) \/ EnterRun(i) \/ AwaitCleanup(i) \/ Reserve(i) \/ WaitForOtherAdmission(i)
         \/ HooksDone(i) \/ RefuseCommit(i) \/ CommitPublished(i) \/ RefuseTurn(i)
  PROVE  HandlerOnly(i)
<1> USE DEF HandlerOnly, Undecided, recordedVars, toldVars
<1>1. /\ pc \in [Texts -> HandlerPcs] /\ target \in [Texts -> [pass : Nat, state : Nat]]
      /\ marks \subseteq Texts /\ pass \in Nat /\ reminderState \in Nat
  BY DEF TypeOK
<1>2. CASE Submit(i)  BY <1>1, <1>2 DEF Submit, MoveTo, HandlerPcs
<1>3. CASE EnterRun(i)
  <2>1. CASE target' = [target EXCEPT ![i] = [pass |-> pass, state |-> reminderState]] /\ MoveTo(i, "hooks")
    BY <1>1, <1>3, <2>1 DEF EnterRun, MoveTo, HandlerPcs
  <2>2. CASE Abandon(i)
    BY <1>1, <1>3, <2>2 DEF EnterRun, Abandon, Leave, Publish, HandlerPcs
  <2> QED BY <1>3, <2>1, <2>2 DEF EnterRun
<1>4. CASE AwaitCleanup(i)  BY <1>1, <1>4 DEF AwaitCleanup, MoveTo, HandlerPcs
<1>5. CASE Reserve(i)
  BY <1>1, <1>5 DEF Reserve, CleanedUp, MoveTo, Abandon, Leave, Publish, HandlerPcs
<1>6. CASE WaitForOtherAdmission(i)  BY <1>1, <1>6 DEF WaitForOtherAdmission, CleanedUp, MoveTo, HandlerPcs
<1>7. CASE HooksDone(i)  BY <1>1, <1>7 DEF HooksDone, MoveTo, Abandon, Leave, Publish, HandlerPcs
<1>8. CASE RefuseCommit(i)  BY <1>1, <1>8 DEF RefuseCommit, Abandon, Leave, Publish, HandlerPcs
<1>9. CASE CommitPublished(i)  BY <1>1, <1>9 DEF CommitPublished, Leave, HandlerPcs
<1>10. CASE RefuseTurn(i)  BY <1>1, <1>10 DEF RefuseTurn, Abandon, Leave, Publish, HandlerPcs
<1> QED BY <1>2, <1>3, <1>4, <1>5, <1>6, <1>7, <1>8, <1>9, <1>10

LEMMA HandlerOnlyKeeps ==
  ASSUME IInv, TypeOK', NEW i \in Texts, HandlerOnly(i)
  PROVE  IInv'
<1> USE DEF recordedVars, queueVars, recordVars, runVars, turnVars, ghostVars, countVars
<1>1. results \in [Texts -> Seq(BOOLEAN)]  BY DEF IInv, TypeOK
<1>2. \/ results' = results
      \/ /\ Undecided(i) /\ ~Undecided(i)' /\ results[i] = <<>>
         /\ results' = [results EXCEPT ![i] = <<FALSE>>]
  <2>1. Undecided(i) => results[i] = <<>>  BY DEF IInv, TextInv
  <2>2. CASE results' = results  BY <2>2
  <2>3. CASE Undecided(i) /\ ~Undecided(i)' /\ results' = [results EXCEPT ![i] = Append(@, FALSE)]
    <3>1. results[i] = <<>>  BY <2>1, <2>3
    <3>2. results' = [results EXCEPT ![i] = <<FALSE>>]  BY <1>1, <2>3, <3>1
    <3> QED BY <2>3, <3>1, <3>2
  <2> QED BY <2>2, <2>3 DEF HandlerOnly
<1>3. LoopInv'  BY DEF IInv, HandlerOnly, LoopInv, WindowOpen
<1>4. PlaceInv'
  BY DEF IInv, HandlerOnly, PlaceInv, ConsumedStaysInReach, ReminderHasItsText, Held, Waiting, Recorded
<1>5. TextInv'
  <2>1. UNCHANGED <<accepted, opened, owed, Waiting, Recorded>>
    BY DEF HandlerOnly, Waiting, Recorded
  <2>2. \A j \in Texts : /\ Undecided(j)' => Undecided(j)
                         /\ pc'[j] = "publishing" => pc[j] = "publishing"
    BY DEF HandlerOnly, Undecided
  <2>3. CASE results' = results  BY <2>1, <2>2, <2>3 DEF IInv, TextInv
  <2>4. CASE /\ Undecided(i) /\ ~Undecided(i)' /\ results[i] = <<>>
             /\ results' = [results EXCEPT ![i] = <<FALSE>>]
    <3>1. i \notin ToSet(accepted) \cup opened  BY <2>4 DEF IInv, TextInv
    <3>2. i \notin Waiting \cup owed \cup Recorded
      BY <3>1 DEF IInv, PlaceInv
    <3> QED BY <1>1, <2>1, <2>2, <2>4, <3>1, <3>2 DEF IInv, TextInv
  <2> QED BY <1>2, <2>3, <2>4
<1>6. OrderInv'  BY DEF IInv, HandlerOnly, OrderInv, Before
<1> QED BY <1>3, <1>4, <1>5, <1>6 DEF IInv

\* The run, the provider or the user moves the run on; this call's texts stay, are
\* taken again by the next request or are dropped.
LEMMA TextUntouched ==
  ASSUME TextInv, UNCHANGED <<pc, results, owed, queue, drained, accepted, opened>>,
         Recorded' \cap Texts \subseteq Recorded
  PROVE  TextInv'
BY DEF TextInv, Waiting, Undecided

LEMMA OrderUntouched ==
  ASSUME OrderInv, UNCHANGED <<history, kept, queue, consumed, drained, accepted>>,
         mirror' \in {<<>>, mirror, replay}, replay' \in {<<>>, mirror, replay}
  PROVE  OrderInv'
<1>1. Before' = Before  BY DEF Before
<1>2. /\ Ordered(mirror', Before) /\ ToSet(mirror') \subseteq ToSet(mirror) \cup ToSet(replay)
      /\ Ordered(replay', Before) /\ ToSet(replay') \subseteq ToSet(mirror) \cup ToSet(replay)
  BY OrderedShort, ToSetEmpty DEF OrderInv
<1> QED BY <1>1, <1>2 DEF OrderInv

LEMMA PhaseStepsKeep ==
  ASSUME IInv, TypeOK', Poll \/ CheckpointFlushed \/ Announced \/ Stop \/ RunEnds \/ RetryTurn
  PROVE  IInv'
<1> USE DEF handlerVars, toldVars, recordVars, ghostVars, countVars, turnVars, queueVars
<1>1. /\ UNCHANGED <<pc, target, marks, results, owed, queue, replay, retried, mirror>>
      /\ UNCHANGED <<consumed, drained, kept, history, accepted, opened, judge, opener, outcome>>
  BY DEF Poll, CheckpointFlushed, Announced, Stop, RunEnds, RetryTurn
<1>2. LoopInv'
  BY <1>1 DEF IInv, LoopInv, WindowOpen, WindowPhases, Poll, CheckpointFlushed, Announced, Stop, RunEnds, RetryTurn
<1>3. PlaceInv'
  <2>1. phase' \in {"ready", "consuming", "wire"} => phase \in {"ready", "consuming", "wire"}
    BY DEF Poll, CheckpointFlushed, Announced, Stop, RunEnds, RetryTurn
  <2>2. ConsumedStaysInReach'  BY <1>1, <2>1 DEF IInv, PlaceInv, ConsumedStaysInReach
  <2>3. reminders' \subseteq reminders
    BY DEF Poll, CheckpointFlushed, Announced, Stop, RunEnds, RetryTurn
  <2>4. ReminderHasItsText'  BY <1>1, <2>3 DEF IInv, PlaceInv, ReminderHasItsText, Held
  <2> QED BY <1>1, <2>2, <2>4 DEF IInv, PlaceInv, Waiting, Recorded
<1>4. TextInv'  BY <1>1, TextUntouched DEF IInv, Recorded
<1>5. OrderInv'  BY <1>1, OrderUntouched DEF IInv
<1> QED BY <1>2, <1>3, <1>4, <1>5 DEF IInv

LEMMA CallFailsKeeps ==
  ASSUME IInv, TypeOK', CallFails
  PROVE  IInv'
<1> USE DEF handlerVars, toldVars, recordVars, ghostVars, turnVars, queueVars
<1>1. /\ UNCHANGED <<pc, target, marks, results, owed, queue, consumed, drained, kept, history>>
      /\ UNCHANGED <<accepted, opened, judge, opener, pass, again, stopping, reminders, reminderState, calls, stops>>
  BY DEF CallFails
<1>2. /\ phase = "wire" \/ phase = "ready"
      /\ \/ phase' = "ready" /\ RestoreForRetry /\ UNCHANGED outcome
         \/ phase' = "returning" /\ EndRetry /\ outcome' \in {"interrupted", "failed"}
      /\ tokenLive' \in {tokenLive, FALSE} /\ (fails' = fails + 1 \/ fails' = fails)
  BY DEF CallFails
<1>3. /\ retried = mirror /\ (phase = "wire" => replay = <<>>)
      /\ phase = "ready" => (IF tokenLive THEN replay = <<>> ELSE mirror = <<>>)
  BY DEF IInv, LoopInv
<1>4. CASE phase' = "ready" /\ UNCHANGED <<replay, retried, mirror>> /\ tokenLive' /\ UNCHANGED outcome
  <2>1. tokenLive' = tokenLive  BY <1>2, <1>4
  <2>2. LoopInv'  BY <1>1, <1>2, <1>3, <1>4, <2>1 DEF IInv, LoopInv, WindowOpen, WindowPhases
  <2>3. PlaceInv'
    BY <1>1, <1>2, <1>4 DEF IInv, PlaceInv, ConsumedStaysInReach, ReminderHasItsText, Held, Waiting, Recorded
  <2>4. TextInv'  BY <1>1, TextUntouched DEF IInv, Recorded
  <2>5. OrderInv'  BY <1>1, <1>4, OrderUntouched DEF IInv
  <2> QED BY <2>2, <2>3, <2>4, <2>5 DEF IInv
<1>5. CASE phase' = "ready" /\ ~tokenLive' /\ UNCHANGED outcome
           /\ replay' = (IF retried # <<>> THEN retried ELSE replay) /\ retried' = <<>> /\ mirror' = <<>>
  <2>1. tokenLive' = FALSE  BY <1>2, <1>5 DEF IInv, TypeOK
  <2>2. replay' \in {<<>>, mirror, replay} /\ ToSet(replay') = ToSet(mirror) \cup ToSet(replay)
    BY <1>2, <1>3, <1>5, ToSetEmpty
  <2>3. LoopInv'  BY <1>1, <1>2, <1>5 DEF IInv, LoopInv, WindowOpen, WindowPhases
  <2>4. PlaceInv'
    BY <1>1, <1>2, <1>5, <2>2, ToSetEmpty
       DEF IInv, PlaceInv, ConsumedStaysInReach, ReminderHasItsText, Held, Waiting, Recorded
  <2>5. TextInv'  BY <1>1, TextUntouched DEF IInv, Recorded
  <2>6. OrderInv'  BY <1>1, <1>5, <2>2, OrderUntouched DEF IInv
  <2> QED BY <2>3, <2>4, <2>5, <2>6 DEF IInv
<1>6. CASE phase' = "returning" /\ EndRetry /\ outcome' \in {"interrupted", "failed"}
  <2>1. replay' = <<>> /\ retried' = <<>> /\ mirror' = <<>>  BY <1>6 DEF EndRetry
  <2>2. LoopInv'  BY <1>1, <1>2, <1>6, <2>1 DEF IInv, LoopInv, WindowOpen, WindowPhases
  <2>3. PlaceInv'
    BY <1>1, <1>6, <2>1, ToSetEmpty
       DEF IInv, PlaceInv, ConsumedStaysInReach, ReminderHasItsText, Held, Waiting, Recorded
  <2>4. TextInv'  BY <1>1, TextUntouched DEF IInv, Recorded
  <2>5. OrderInv'  BY <1>1, <2>1, OrderUntouched DEF IInv
  <2> QED BY <2>2, <2>3, <2>4, <2>5 DEF IInv
<1> QED BY <1>2, <1>4, <1>5, <1>6 DEF RestoreForRetry

-----------------------------------------------------------------------------
(* The order of texts.                                                     *)

LEMMA BeforeTexts ==
  ASSUME NEW a \in Texts, NEW b \in Texts
  PROVE  <<a, b>> \in Before <=>
           a # b /\ \A m, n \in DOMAIN accepted : accepted[m] = a /\ accepted[n] = b => m < n
BY DEF Before, Items

\* Nothing is before itself; Work has no place in the order.
LEMMA BeforeFacts ==
  /\ \A a \in Texts : <<a, a>> \notin Before
  /\ \A a \in Items : <<a, Work>> \in Before /\ <<Work, a>> \in Before
BY InjectionAssumption DEF Before, Items

LEMMA WorkIsFree ==
  ASSUME NEW S \in SUBSET Items
  PROVE  S \X {Work} \subseteq Before /\ {Work} \X S \subseteq Before
<1>1. \A a \in S : <<a, Work>> \in Before /\ <<Work, a>> \in Before  BY BeforeFacts
<1>2. \A p \in S \X {Work} : p \in Before
  <2> TAKE p \in S \X {Work}
  <2>1. p = <<p[1], Work>> /\ p[1] \in S  OBVIOUS
  <2> QED BY <1>1, <2>1
<1>3. \A p \in {Work} \X S : p \in Before
  <2> TAKE p \in {Work} \X S
  <2>1. p = <<Work, p[2]>> /\ p[2] \in S  OBVIOUS
  <2> QED BY <1>1, <2>1
<1> QED BY <1>2, <1>3

\* A text that was never committed may be anywhere.
LEMMA UncommittedIsFree ==
  ASSUME NEW a \in Items, NEW b \in Items, a # b, a \notin ToSet(accepted) \/ b \notin ToSet(accepted)
  PROVE  <<a, b>> \in Before
BY DEF Before, ToSet

LEMMA OrderedWeaker ==
  ASSUME NEW s, NEW R, NEW Q, Ordered(s, R),
         \A a, b \in ToSet(s) : <<a, b>> \in R => <<a, b>> \in Q
  PROVE  Ordered(s, Q)
BY DEF Ordered, ToSet

\* A commit comes after all that was committed.
LEMMA CommitIsLast ==
  ASSUME NEW i \in Texts, accepted \in Seq(Texts), i \notin ToSet(accepted),
         accepted' = Append(accepted, i)
  PROVE  /\ ToSet(accepted') = ToSet(accepted) \cup {i}
         /\ \A a, b \in Items : a # i /\ b # i /\ <<a, b>> \in Before => <<a, b>> \in Before'
         /\ \A a \in Items : a # i => <<a, i>> \in Before'
<1>1. /\ DOMAIN accepted = 1..Len(accepted) /\ Len(accepted) \in Nat
      /\ DOMAIN accepted' = 1..(Len(accepted) + 1)
      /\ \A m \in DOMAIN accepted : accepted'[m] = accepted[m] /\ accepted[m] # i
      /\ accepted'[Len(accepted) + 1] = i
  BY DEF ToSet
<1>2. ToSet(accepted') = ToSet(accepted) \cup {i}
  <2>1. \A m \in DOMAIN accepted' : accepted'[m] \in ToSet(accepted) \cup {i}
    <3> TAKE m \in DOMAIN accepted'
    <3>1. m \in DOMAIN accepted \/ m = Len(accepted) + 1  BY <1>1
    <3> QED BY <1>1, <3>1 DEF ToSet
  <2>2. ToSet(accepted) \cup {i} \subseteq ToSet(accepted')  BY <1>1 DEF ToSet
  <2> QED BY <2>1, <2>2 DEF ToSet
<1>3. \A m \in DOMAIN accepted' : accepted'[m] # i => m \in DOMAIN accepted /\ accepted[m] = accepted'[m]
  BY <1>1
<1>4. ASSUME NEW a \in Items, NEW b \in Items, a # i, b # i, <<a, b>> \in Before
      PROVE  <<a, b>> \in Before'
  BY <1>3, <1>4 DEF Before
<1>5. ASSUME NEW a \in Items, a # i PROVE <<a, i>> \in Before'
  <2>1. ASSUME NEW m \in DOMAIN accepted', NEW n \in DOMAIN accepted', accepted'[m] = a, accepted'[n] = i
        PROVE  m < n
    <3>1. m \in DOMAIN accepted  BY <1>3, <1>5, <2>1
    <3>2. n = Len(accepted) + 1
      <4>1. n \notin DOMAIN accepted  BY <1>1, <2>1
      <4> QED BY <1>1, <2>1, <4>1
    <3> QED BY <1>1, <3>1, <3>2
  <2> QED BY <1>5, <2>1 DEF Before, Items
<1> QED BY <1>2, <1>4, <1>5

-----------------------------------------------------------------------------
(* Admission: commit, a turn of its own, cancel.                           *)

\* An undecided text is nowhere.
LEMMA UndecidedIsNowhere ==
  ASSUME IInv, NEW i \in Texts, Undecided(i)
  PROVE  /\ i \notin ToSet(accepted) /\ i \notin opened /\ results[i] = <<>>
         /\ i \notin Recorded /\ i \notin Waiting /\ i \notin owed
         /\ i \notin ToSet(mirror) /\ i \notin ToSet(replay)
<1>1. i \notin ToSet(accepted) /\ i \notin opened /\ results[i] = <<>>
  BY DEF IInv, TextInv
<1> QED BY <1>1 DEF IInv, PlaceInv, Recorded

LEMMA CommitKeeps ==
  ASSUME IInv, TypeOK', NEW i \in Texts, Commit(i)
  PROVE  IInv' /\ Waiting' = Waiting \cup {i} /\ Recorded' = Recorded
         /\ ToSet(accepted') = ToSet(accepted) \cup {i} /\ results[i] = <<>>
<1> DEFINE Q == ToSet(queue)
<1>1. /\ pc[i] = "staging" /\ phase \in WindowPhases
      /\ queue' = Append(queue, i) /\ accepted' = Append(accepted, i) /\ reminders' = reminders \cup {i}
      /\ pc' = [pc EXCEPT ![i] = "publishing"]
      /\ UNCHANGED <<results, owed, replay, retried, mirror, consumed, drained, kept, history>>
      /\ UNCHANGED <<phase, pass, opener, outcome, again, stopping, tokenLive, opened>>
  BY DEF Commit, MayCommit, TargetCurrent, WindowOpen, MoveTo, recordVars, runVars
<1>2. /\ i \notin ToSet(accepted) /\ i \notin opened /\ results[i] = <<>>
      /\ i \notin Recorded /\ i \notin Waiting /\ i \notin owed
      /\ i \notin ToSet(mirror) /\ i \notin ToSet(replay)
  BY <1>1, UndecidedIsNowhere DEF Undecided
<1>3. /\ queue \in Seq(Texts) /\ accepted \in Seq(Texts) /\ pc \in [Texts -> HandlerPcs]
      /\ ToSet(history) \subseteq Items /\ ToSet(kept) \subseteq Items /\ ToSet(mirror) \subseteq Items
      /\ ToSet(replay) \subseteq Items /\ Q \subseteq Items /\ ToSet(consumed) \subseteq Items
      /\ ToSet(drained) \subseteq Items
  BY Typed DEF IInv, TypeOK, Items
<1>4. queue' = queue \o <<i>> /\ ToSet(queue') = Q \cup {i}
  BY <1>1, <1>3, ToSetAppend
<1>5. /\ ToSet(accepted') = ToSet(accepted) \cup {i}
      /\ \A a, b \in Items : a # i /\ b # i /\ <<a, b>> \in Before => <<a, b>> \in Before'
      /\ \A a \in Items : a # i => <<a, i>> \in Before'
  BY <1>1, <1>2, <1>3, CommitIsLast
<1>6. \A j \in Texts : /\ Undecided(j)' => Undecided(j) /\ j # i
                       /\ pc'[j] = "publishing" => pc[j] = "publishing" \/ j = i
  BY <1>1, <1>3 DEF Undecided
<1>7. LoopInv'
  BY <1>1 DEF IInv, LoopInv, WindowOpen
<1>8. PlaceInv'
  BY <1>1, <1>2, <1>4, <1>5
     DEF IInv, PlaceInv, ConsumedStaysInReach, ReminderHasItsText, Held, Waiting, Recorded
<1>9. TextInv'
  BY <1>1, <1>2, <1>4, <1>5, <1>6 DEF IInv, TextInv, Waiting, Recorded
<1>10. OrderInv'
  <2>1. i \notin Q /\ i \notin ToSet(drained) /\ i \notin ToSet(history) /\ i \notin ToSet(kept)
        /\ i \notin ToSet(consumed)
    BY <1>2 DEF Waiting, Recorded
  <2>2. ASSUME NEW s, ToSet(s) \subseteq Items, i \notin ToSet(s), Ordered(s, Before) PROVE Ordered(s, Before')
    BY <1>5, <2>2, OrderedWeaker
  <2>3. /\ Ordered(history, Before') /\ Ordered(kept, Before') /\ Ordered(mirror, Before')
        /\ Ordered(replay, Before') /\ Ordered(queue, Before') /\ Ordered(consumed, Before')
        /\ Ordered(drained, Before')
    BY <1>2, <1>3, <2>1, <2>2 DEF IInv, OrderInv
  <2>4. Ordered(queue', Before')
    <3>1. <<i>> \in Seq(Texts) /\ Ordered(<<i>>, Before') /\ ToSet(<<i>>) = {i}  BY OrderedShort
    <3>2. Q \X {i} \subseteq Before'  BY <1>3, <1>5, <2>1
    <3>3. Ordered(queue \o <<i>>, Before')  BY <1>3, <2>3, <3>1, <3>2, OrderedConcat
    <3> QED BY <1>4, <3>3
  <2>5. ASSUME NEW S \in SUBSET Items, NEW T \in SUBSET Items, i \notin S, i \notin T, S \X T \subseteq Before
        PROVE  S \X T \subseteq Before' /\ S \X (T \cup {i}) \subseteq Before'
    BY <1>5, <2>5
  <2> DEFINE H == ToSet(history)
             K == ToSet(kept)
             M == ToSet(mirror)
             P == ToSet(replay)
             C == ToSet(consumed) \ (H \cup K)
  <2>6. H \X (K \cup M \cup P \cup (Q \cup {i})) \subseteq Before'
    <3>1. H \X (K \cup M \cup P \cup Q) \subseteq Before  BY DEF IInv, OrderInv
    <3> QED BY <1>2, <1>3, <2>1, <2>5, <3>1, SMTT(30)
  <2>7. K \X (M \cup P \cup (Q \cup {i})) \subseteq Before'
    <3>1. K \X (M \cup P \cup Q) \subseteq Before  BY DEF IInv, OrderInv
    <3> QED BY <1>2, <1>3, <2>1, <2>5, <3>1, SMTT(30)
  <2>8. (M \cup P) \X (Q \cup {i}) \subseteq Before'
    <3>1. (M \cup P) \X Q \subseteq Before  BY DEF IInv, OrderInv
    <3> QED BY <1>2, <1>3, <2>1, <2>5, <3>1, SMTT(30)
  <2>9. (H \cup K) \X C \subseteq Before'
    <3>1. (H \cup K) \X C \subseteq Before  BY DEF IInv, OrderInv
    <3>2. H \cup K \in SUBSET Items /\ C \in SUBSET Items /\ i \notin H \cup K /\ i \notin C
      BY <1>3, <2>1
    <3> QED BY <1>5, <3>1, <3>2
  <2> QED BY <1>1, <1>4, <2>3, <2>4, <2>6, <2>7, <2>8, <2>9 DEF OrderInv
<1>11. Waiting' = Waiting \cup {i} /\ Recorded' = Recorded
  BY <1>1, <1>4 DEF Waiting, Recorded
<1> QED BY <1>2, <1>5, <1>7, <1>8, <1>9, <1>10, <1>11 DEF IInv

\* remove_orphaned_user_message takes at most the last text, and no other.
LEMMA OrphanIsLast ==
  ASSUME IInv
  PROVE  /\ ToSet(WithoutOrphan) \subseteq ToSet(history) /\ Ordered(WithoutOrphan, Before)
         /\ \A a \in ToSet(history) \ ToSet(WithoutOrphan) :
              outcome # "ok" /\ EndsWith(history, {a}) /\ a \in Texts
<1>1. history \in Seq(Items) /\ Ordered(history, Before)  BY Typed DEF IInv, OrderInv
<1>2. CASE outcome # "ok" /\ EndsWith(history, Texts)
  <2> DEFINE last == history[Len(history)]
  <2>1. history # <<>> /\ last \in Texts  BY <1>2 DEF EndsWith
  <2>2. Front(history) \in Seq(Items) /\ last \in Items /\ history = Front(history) \o <<last>>
    BY <1>1, <2>1, FrontAndLast
  <2> HIDE DEF last
  <2>3. <<last>> \in Seq(Items) /\ ToSet(<<last>>) = {last}  BY <2>2, OrderedShort
  <2>4. ToSet(history) = ToSet(Front(history)) \cup {last}
    <3>1. \A t \in Seq(Items) : ToSet(Front(history) \o t) = ToSet(Front(history)) \cup ToSet(t)
      BY <2>2, ToSetConcat, ZenonT(40)
    <3> QED BY <2>2, <2>3, <3>1
  <2>5. Ordered(Front(history), Before)
    <3>1. Ordered(Front(history) \o <<last>>, Before)  BY <1>1, <2>2
    <3> QED BY <2>2, <2>3, <3>1, OrderedConcat, Zenon
  <2>6. EndsWith(history, {last})  BY <2>1 DEF EndsWith, last
  <2> QED BY <1>2, <2>1, <2>4, <2>5, <2>6 DEF WithoutOrphan
<1>3. CASE ~(outcome # "ok" /\ EndsWith(history, Texts))
  BY <1>1, <1>3 DEF WithoutOrphan
<1> QED BY <1>2, <1>3

LEMMA OpenTurnKeeps ==
  ASSUME IInv, TypeOK', NEW i \in Texts, OpenTurn(i)
  PROVE  IInv'
<1>1. /\ pc[i] = "starting" /\ phase = "none" /\ phase' = "pre"
      /\ pc' = [pc EXCEPT ![i] = "out"] /\ history' = WithoutOrphan
      /\ opener' = i /\ opened' = opened \cup {i} /\ reminders' = {}
      /\ UNCHANGED <<results, owed, queue, replay, retried, mirror, consumed, drained, kept, accepted, tokenLive>>
  BY DEF OpenTurn, MayOpen, Leave, toldVars, queueVars
<1>2. i \notin ToSet(accepted) /\ i \notin opened /\ results[i] = <<>> /\ i \notin Recorded
      /\ i \notin Waiting /\ i \notin owed
  BY <1>1, UndecidedIsNowhere DEF Undecided
<1>3. /\ queue = <<>> /\ drained = <<>> /\ kept = <<>> /\ consumed = <<>> /\ replay = <<>> /\ mirror = <<>>
  BY <1>1 DEF IInv, LoopInv, WindowOpen, WindowPhases
<1>4. /\ ToSet(history') \subseteq ToSet(history) /\ Ordered(history', Before)
  BY <1>1, OrphanIsLast
<1>5. \A j \in Texts : /\ Undecided(j)' => Undecided(j) /\ j # i
                       /\ pc'[j] = "publishing" => pc[j] = "publishing"
  <2>1. pc \in [Texts -> HandlerPcs]  BY DEF IInv, TypeOK
  <2> QED BY <1>1, <2>1 DEF Undecided
<1>6. LoopInv'
  BY <1>1, <1>2, <1>3, <1>4 DEF IInv, LoopInv, Recorded
<1>7. PlaceInv'
  BY <1>1, <1>2, <1>3, <1>4, ToSetEmpty
     DEF IInv, PlaceInv, ConsumedStaysInReach, ReminderHasItsText, Held, Waiting, Recorded
<1>8. TextInv'
  BY <1>1, <1>2, <1>3, <1>4, <1>5 DEF IInv, TextInv, Waiting, Recorded
<1>9. OrderInv'
  <2>1. Before' = Before  BY <1>1 DEF Before
  <2> QED BY <1>1, <1>3, <1>4, <2>1, ToSetEmpty DEF IInv, OrderInv
<1> QED BY <1>6, <1>7, <1>8, <1>9 DEF IInv

\* A cancel takes its text off the queue, and off nothing else.
\* A waiting text is given back to its author.
GivesBack(i) ==
  /\ i \in Waiting /\ results[i] = <<>>
  /\ results' = [results EXCEPT ![i] = <<FALSE>>]
  /\ Waiting' = Waiting \ {i} /\ UNCHANGED Recorded

LEMMA CancelKeeps ==
  ASSUME IInv, TypeOK', NEW i \in Texts, Cancel(i)
  PROVE  IInv' /\ (GivesBack(i) \/ UNCHANGED <<results, Waiting, Recorded>>)
<1>1. /\ UNCHANGED <<pc, owed, replay, retried, mirror, consumed, drained, kept, history, accepted, opened>>
      /\ UNCHANGED <<phase, pass, opener, outcome, again, stopping, tokenLive>>
  BY DEF Cancel, recordVars, runVars, ghostVars
<1>2. CASE UNCHANGED <<queue, judge, reminders, results>>
  <2>1. LoopInv'  BY <1>1, <1>2 DEF IInv, LoopInv, WindowOpen
  <2>2. PlaceInv'
    BY <1>1, <1>2 DEF IInv, PlaceInv, ConsumedStaysInReach, ReminderHasItsText, Held, Waiting, Recorded
  <2>3. TextInv'  BY <1>1, <1>2, TextUntouched DEF IInv, Recorded
  <2>4. OrderInv'  BY <1>1, <1>2, OrderUntouched DEF IInv
  <2>5. UNCHANGED <<results, Waiting, Recorded>>  BY <1>1, <1>2 DEF Waiting, Recorded
  <2> QED BY <2>1, <2>2, <2>3, <2>4, <2>5 DEF IInv
<1>3. CASE /\ \E k \in DOMAIN queue : queue[k] = i /\ queue' = RemoveAt(queue, k)
           /\ reminders' = reminders \ {i} /\ Publish(i, FALSE)
  <2>1. PICK k \in DOMAIN queue : queue[k] = i /\ queue' = RemoveAt(queue, k)  BY <1>3
  <2>2. queue \in Seq(Texts) /\ Ordered(queue, Before) /\ <<i, i>> \notin Before
    BY BeforeFacts, Typed DEF IInv, OrderInv
  <2>3. Ordered(queue', Before) /\ ToSet(queue') = ToSet(queue) \ {i} /\ i \in ToSet(queue)
    <3>1. Ordered(RemoveAt(queue, k), Before) /\ ToSet(RemoveAt(queue, k)) = ToSet(queue) \ {queue[k]}
      BY <2>1, <2>2, RemoveAtRemoves
    <3>2. i \in ToSet(queue)  BY <2>1 DEF ToSet
    <3> QED BY <2>1, <3>1, <3>2
  <2>4. queue # <<>> /\ WindowOpen /\ drained = <<>>
    BY <2>3, ToSetEmpty DEF IInv, LoopInv, WindowOpen, WindowPhases
  <2>5. /\ results[i] = <<>> /\ i \notin Recorded /\ i \notin opened /\ i \notin owed
        /\ i \in ToSet(accepted) /\ ~Undecided(i)
    BY <2>3 DEF IInv, PlaceInv, TextInv, Waiting
  <2>6. results' = [results EXCEPT ![i] = <<FALSE>>] /\ results \in [Texts -> Seq(BOOLEAN)]
    BY <1>3, <2>5 DEF IInv, TypeOK, Publish
  <2>7. LoopInv'  BY <1>1, <2>4 DEF IInv, LoopInv, WindowOpen
  <2>8. PlaceInv'
    BY <1>1, <1>3, <2>3, <2>5
       DEF IInv, PlaceInv, ConsumedStaysInReach, ReminderHasItsText, Held, Waiting, Recorded
  <2>9. TextInv'
    <3>1. Waiting' = Waiting \ {i} /\ Recorded' = Recorded /\ i \notin Waiting'
      BY <1>1, <2>3, <2>4, ToSetEmpty DEF Waiting, Recorded
    <3>2. \A j \in Texts : Undecided(j)' = Undecided(j)  BY <1>1 DEF Undecided
    <3> QED BY <1>1, <2>5, <2>6, <3>1, <3>2 DEF IInv, TextInv
  <2>10. OrderInv'
    <3>1. Before' = Before  BY <1>1 DEF Before
    <3> QED BY <1>1, <2>3, <3>1 DEF IInv, OrderInv
  <2>11. GivesBack(i)
    <3>1. Waiting' = Waiting \ {i} /\ Recorded' = Recorded /\ i \in Waiting
      BY <1>1, <2>3, <2>4, ToSetEmpty DEF Waiting, Recorded
    <3> QED BY <2>5, <2>6, <3>1 DEF GivesBack
  <2> QED BY <2>7, <2>8, <2>9, <2>10, <2>11 DEF IInv
<1> QED BY <1>2, <1>3 DEF Cancel

-----------------------------------------------------------------------------
(* The run.                                                                *)

LEMMA AnswersDiffer == <<>> # <<TRUE>> /\ <<>> # <<FALSE>> /\ <<TRUE>> # <<FALSE>>
<1>1. Len(<<>>) = 0 /\ Len(<<TRUE>>) = 1 /\ Len(<<FALSE>>) = 1  OBVIOUS
<1>2. <<TRUE>>[1] = TRUE /\ <<FALSE>>[1] = FALSE  OBVIOUS
<1>3. <<TRUE>> # <<FALSE>>  OBVIOUS
<1> QED BY <1>1, <1>3

LEMMA PassPreparesKeeps ==
  ASSUME IInv, TypeOK', PassPrepares
  PROVE  IInv' /\ Waiting' = Waiting /\ Recorded' = Recorded \cup ({opener} \ {None})
<1>1. /\ phase = "pre" /\ phase' = "ready"
      /\ replay' = <<>> /\ retried' = <<>> /\ mirror' = <<>>
      /\ UNCHANGED <<pc, results, owed, queue, consumed, drained, accepted, opened, opener, reminders>>
  BY DEF PassPrepares, handlerVars, toldVars, ghostVars
<1>2. /\ replay = <<>> /\ mirror = <<>> /\ kept = <<>> /\ consumed = <<>> /\ drained = <<>>
  BY <1>1 DEF IInv, LoopInv
<1>3. /\ history \in Seq(Items) /\ queue \in Seq(Texts) /\ opener \in Texts \cup {None}
      /\ ToSet(history) \subseteq Items /\ ToSet(queue) \subseteq Texts
  BY Typed DEF IInv, TypeOK
<1>4. Before' = Before  BY <1>1 DEF Before
<1>5. /\ ToSet(history') \cup ToSet(kept') = ToSet(history) \cup ({opener} \ {None})
      /\ Ordered(history', Before) /\ Ordered(kept', Before)
      /\ ToSet(history') \X ToSet(kept') \subseteq Before
      /\ (ToSet(history') \cup ToSet(kept')) \X ToSet(queue) \subseteq Before
      /\ opener # None => opener \in ToSet(kept')
  <2>1. CASE opener # None
    <3>1. kept' = <<opener>> /\ history' = history  BY <1>1, <2>1 DEF PassPrepares
    <3>2. ToSet(kept') = {opener} /\ Ordered(kept', Before)  BY <3>1, OrderedShort
    <3>3. opener \in Texts /\ opener \in opened /\ opener \notin ToSet(accepted) /\ opener \notin ToSet(history)
      BY <1>1, <1>3, <2>1 DEF IInv, LoopInv, PlaceInv
    <3>4. opener \notin ToSet(queue)  BY <3>3 DEF IInv, PlaceInv, Waiting
    <3>5. ToSet(history) \X {opener} \subseteq Before
      BY <1>3, <3>3, UncommittedIsFree DEF Items
    <3>6. {opener} \X ToSet(queue) \subseteq Before
      BY <1>3, <3>3, <3>4, UncommittedIsFree DEF Items
    <3>7. Ordered(history, Before) /\ ToSet(history) \X ToSet(queue) \subseteq Before
      BY DEF IInv, OrderInv
    <3> QED BY <2>1, <3>1, <3>2, <3>5, <3>6, <3>7
  <2>2. CASE opener = None /\ Replayed = <<>>
    <3>1. kept' = <<>> /\ history' = history  BY <1>1, <2>2 DEF PassPrepares
    <3>2. Ordered(history, Before) /\ ToSet(history) \X ToSet(queue) \subseteq Before
      BY DEF IInv, OrderInv
    <3> QED BY <2>2, <3>1, <3>2, ToSetEmpty, OrderedShort
  <2>3. CASE opener = None /\ Replayed # <<>>
    <3> DEFINE last == history[Len(history)]
    <3>1. history # <<>> /\ Replayed = <<last>>  BY <2>3 DEF Replayed, EndsWith
    <3>2. kept' = <<last>> /\ history' = Front(history)  BY <1>1, <2>3, <3>1 DEF PassPrepares
    <3>3. Front(history) \in Seq(Items) /\ last \in Items /\ history = Front(history) \o <<last>>
      BY <1>3, <3>1, FrontAndLast
    <3> HIDE DEF last
    <3>4. <<last>> \in Seq(Items) /\ ToSet(<<last>>) = {last}  BY <3>3, OrderedShort
    <3>5. ToSet(history) = ToSet(Front(history)) \cup {last}
      <4>1. \A t \in Seq(Items) : ToSet(Front(history) \o t) = ToSet(Front(history)) \cup ToSet(t)
        BY <3>3, ToSetConcat, ZenonT(40)
      <4> QED BY <3>3, <3>4, <4>1
    <3>6. /\ Ordered(Front(history), Before) /\ Ordered(<<last>>, Before)
          /\ ToSet(Front(history)) \X ToSet(<<last>>) \subseteq Before
      <4>1. Ordered(Front(history) \o <<last>>, Before)  BY <3>3 DEF IInv, OrderInv
      <4> QED BY <3>3, <3>4, <4>1, OrderedConcat, Zenon
    <3>7. ToSet(history) \X ToSet(queue) \subseteq Before
      BY DEF IInv, OrderInv
    <3> QED BY <2>3, <3>2, <3>4, <3>5, <3>6, <3>7
  <2> QED BY <2>1, <2>2, <2>3
<1>6. opener # None => opener \in opened  BY DEF IInv, LoopInv
<1>7. LoopInv'  BY <1>1, <1>2, <1>5, <1>6 DEF IInv, LoopInv, WindowOpen, WindowPhases
<1>8. None \notin Texts  BY InjectionAssumption
<1>9. Waiting' = Waiting  BY <1>1 DEF Waiting
<1>10. Recorded' = Recorded \cup ({opener} \ {None})
  <2>1. ToSet(kept) = {} /\ ToSet(consumed) = {}  BY <1>2, ToSetEmpty
  <2>2. consumed' = consumed  BY <1>1
  <2> QED BY <1>5, <2>1, <2>2 DEF Recorded
<1>11. PlaceInv'
  <2>1. ConsumedStaysInReach'  BY <1>1, <1>2, ToSetEmpty DEF ConsumedStaysInReach
  <2>2. ReminderHasItsText'
    <3>1. ToSet(kept) = {}  BY <1>2, ToSetEmpty
    <3>2. reminders \subseteq ToSet(queue) \cup Held  BY DEF IInv, PlaceInv, ReminderHasItsText
    <3>3. Held \subseteq Held'  BY <1>1, <1>5, <3>1 DEF Held
    <3>4. queue' = queue /\ reminders' = reminders  BY <1>1
    <3> QED BY <3>2, <3>3, <3>4 DEF ReminderHasItsText
  <2>3. ToSet(mirror') \cup ToSet(replay') = {}  BY <1>1, ToSetEmpty
  <2>4. opener # None => opener \in opened  BY <1>6
  <2>5. Waiting' \cap (Recorded' \cup opened' \cup owed') = {}
    BY <1>1, <1>6, <1>9, <1>10 DEF IInv, PlaceInv
  <2>6. Recorded' \cap Texts \subseteq ToSet(accepted) \cup opened
    BY <1>6, <1>10 DEF IInv, PlaceInv
  <2> QED BY <1>1, <1>9, <2>1, <2>2, <2>3, <2>5, <2>6 DEF IInv, PlaceInv
<1>12. TextInv'
  <2>1. \A j \in Texts : Undecided(j)' = Undecided(j)  BY <1>1 DEF Undecided
  <2>2. opener # None => results[opener] = <<>>  BY <1>3, <1>6 DEF IInv, TextInv
  <2>3. \A j \in Texts : results[j] = <<FALSE>> => j \notin Recorded'
    <3>1. ASSUME NEW j \in Texts, results[j] = <<FALSE>> PROVE j \notin Recorded'
      <4>1. j \notin Recorded  BY <3>1 DEF IInv, TextInv
      <4>2. j # opener
        <5>1. SUFFICES ASSUME j = opener PROVE FALSE  OBVIOUS
        <5>2. results[j] = <<>>  BY <1>8, <2>2, <5>1
        <5> QED BY <3>1, <5>2, AnswersDiffer
      <4> QED BY <1>10, <4>1, <4>2
    <3> QED BY <3>1
  <2> QED BY <1>1, <1>9, <2>1, <2>3 DEF IInv, TextInv
<1>13. OrderInv'
  BY <1>1, <1>2, <1>4, <1>5, ToSetEmpty, OrderedShort DEF IInv, OrderInv
<1> QED BY <1>7, <1>9, <1>10, <1>11, <1>12, <1>13 DEF IInv

\* What a request consumes anew is what waited: what a failed call took is on record.
LEMMA NewlyConsumedIsQueue ==
  ASSUME IInv
  PROVE  /\ Batch \in Seq(Texts) /\ ToSet(Batch) = ToSet(replay) \cup ToSet(queue)
         /\ NewlyConsumed \in Seq(Texts) /\ ToSet(NewlyConsumed) = ToSet(queue)
         /\ Ordered(Batch, Before) /\ Ordered(NewlyConsumed, Before)
<1>1. replay \in Seq(Texts) /\ queue \in Seq(Texts)  BY Typed DEF IInv
<1>2. Batch \in Seq(Texts) /\ ToSet(Batch) = ToSet(replay) \cup ToSet(queue)
  BY <1>1, ToSetConcat, ZenonT(40) DEF Batch
<1>3. Ordered(Batch, Before)
  <2>1. /\ Ordered(replay, Before) /\ Ordered(queue, Before)
        /\ ToSet(replay) \X ToSet(queue) \subseteq Before
    BY DEF IInv, OrderInv
  <2> QED BY <1>1, <2>1, OrderedConcat, Zenon DEF Batch
<1>4. /\ NewlyConsumed \in Seq(Texts) /\ Thins(NewlyConsumed, Batch)
      /\ ToSet(NewlyConsumed) = ToSet(Batch) \ ToSet(consumed)
  BY <1>2, WithoutThins, Zenon DEF NewlyConsumed
<1>5. Ordered(NewlyConsumed, Before)  BY <1>2, <1>3, <1>4, ThinsKeepsOrder
<1>6. ToSet(NewlyConsumed) = ToSet(queue)
  <2>1. ToSet(replay) \subseteq ToSet(consumed) /\ ToSet(queue) \cap ToSet(consumed) = {}
    BY DEF IInv, PlaceInv, Waiting, Recorded
  <2> QED BY <1>2, <1>4, <2>1
<1> QED BY <1>2, <1>3, <1>4, <1>5, <1>6

LEMMA ConsumeKeeps ==
  ASSUME IInv, TypeOK', Consume
  PROVE  IInv' /\ Waiting' = {} /\ Recorded' = Recorded \cup Waiting
         /\ ToSet(consumed') = ToSet(consumed) \cup Waiting
<1>1. /\ phase = "ready" /\ ~tokenLive /\ phase' \in {"wire", "consuming"}
      /\ consumed' = consumed \o NewlyConsumed /\ owed' = owed \cup ToSet(NewlyConsumed)
      /\ mirror' = mirror \o Batch /\ retried' = retried \o Batch
      /\ replay' = <<>> /\ queue' = <<>>
      /\ UNCHANGED <<pc, results, drained, kept, history, accepted, opened, opener, reminders, tokenLive>>
  BY DEF Consume, handlerVars, turnVars, ghostVars
<1>2. /\ Batch \in Seq(Texts) /\ ToSet(Batch) = ToSet(replay) \cup ToSet(queue)
      /\ NewlyConsumed \in Seq(Texts) /\ ToSet(NewlyConsumed) = ToSet(queue)
      /\ Ordered(Batch, Before) /\ Ordered(NewlyConsumed, Before)
  BY NewlyConsumedIsQueue
<1>3. mirror = <<>> /\ retried = <<>> /\ drained = <<>>  BY <1>1 DEF IInv, LoopInv
<1>4. mirror' = Batch /\ retried' = Batch  BY <1>1, <1>2, <1>3, ConcatEmptySeq
<1>5. /\ consumed \in Seq(Texts) /\ ToSet(queue) \subseteq Texts  BY Typed DEF IInv
<1>6. ToSet(consumed') = ToSet(consumed) \cup ToSet(queue)
  <2>1. \A t \in Seq(Texts) : ToSet(consumed \o t) = ToSet(consumed) \cup ToSet(t)
    BY <1>5, ToSetConcat, ZenonT(40)
  <2> QED BY <1>1, <1>2, <2>1
<1>7. ToSet(consumed) \subseteq ToSet(kept) \cup ToSet(replay)
  BY <1>1, <1>3, ToSetEmpty DEF IInv, PlaceInv, ConsumedStaysInReach
<1>8. ToSet(mirror') = ToSet(replay) \cup ToSet(queue)  BY <1>2, <1>4
<1>9. LoopInv'
  BY <1>1, <1>3, <1>4 DEF IInv, LoopInv, WindowOpen, WindowPhases
<1>10. Waiting' = {} /\ Recorded' = Recorded \cup ToSet(queue) /\ Waiting = ToSet(queue)
  BY <1>1, <1>3, <1>6, ToSetEmpty DEF Waiting, Recorded
<1>11. PlaceInv'
  <2>1. ConsumedStaysInReach'
    BY <1>1, <1>6, <1>7, <1>8 DEF ConsumedStaysInReach
  <2>2. ReminderHasItsText'
    BY <1>1, <1>6 DEF IInv, PlaceInv, ReminderHasItsText, Held
  <2>3. ToSet(mirror') \cup ToSet(replay') \subseteq ToSet(consumed')
    BY <1>1, <1>6, <1>8, ToSetEmpty DEF IInv, PlaceInv
  <2> QED BY <1>1, <1>2, <1>6, <1>10, <2>1, <2>2, <2>3 DEF IInv, PlaceInv
<1>12. TextInv'
  <2>1. \A j \in Texts : Undecided(j)' = Undecided(j)  BY <1>1 DEF Undecided
  <2>2. owed' = owed \cup Waiting /\ results' = results /\ accepted' = accepted /\ opened' = opened
    BY <1>1, <1>2, <1>10
  <2> SUFFICES ASSUME NEW j \in Texts
               PROVE  /\ Undecided(j) => j \notin ToSet(accepted) \cup opened /\ results[j] = <<>>
                      /\ results[j] \in {<<>>, <<TRUE>>, <<FALSE>>}
                      /\ j \in Waiting' \cup owed' \cup opened => results[j] = <<>>
                      /\ j \in ToSet(accepted) => j \in Waiting' \cup owed' \/ results[j] # <<>>
                      /\ results[j] = <<FALSE>> => j \notin Recorded'
                      /\ results[j] = <<TRUE>> => j \in ToSet(accepted)
                      /\ pc[j] = "publishing" => j \in ToSet(accepted)
    BY <1>1, <2>1, <2>2 DEF TextInv
  <2>3. j \in Waiting \cup owed \cup opened => results[j] = <<>>  BY DEF IInv, TextInv
  <2>4. results[j] = <<FALSE>> => j \notin Recorded'
    <3>1. j \in Waiting => results[j] # <<FALSE>>  BY <2>3, AnswersDiffer
    <3>2. results[j] = <<FALSE>> => j \notin Recorded  BY DEF IInv, TextInv
    <3> QED BY <1>10, <3>1, <3>2
  <2>5. /\ Undecided(j) => j \notin ToSet(accepted) \cup opened /\ results[j] = <<>>
        /\ results[j] \in {<<>>, <<TRUE>>, <<FALSE>>}
        /\ j \in ToSet(accepted) => j \in Waiting \cup owed \/ results[j] # <<>>
        /\ results[j] = <<TRUE>> => j \in ToSet(accepted)
        /\ pc[j] = "publishing" => j \in ToSet(accepted)
    BY DEF IInv, TextInv
  <2> QED BY <1>10, <2>2, <2>3, <2>4, <2>5
<1>13. OrderInv'
  <2>1. Before' = Before  BY <1>1 DEF Before
  <2>2. Ordered(consumed', Before)
    <3>1. Ordered(consumed, Before) /\ ToSet(consumed) \X ToSet(NewlyConsumed) \subseteq Before
      BY <1>2, <1>7 DEF IInv, OrderInv
    <3>2. Ordered(consumed \o NewlyConsumed, Before)
      BY <1>2, <1>5, <3>1, OrderedConcat, Zenon
    <3> QED BY <1>1, <3>2
  <2>3. (ToSet(history) \cup ToSet(kept)) \X (ToSet(consumed') \ (ToSet(history) \cup ToSet(kept))) \subseteq Before
    BY <1>6 DEF IInv, OrderInv
  <2> QED BY <1>1, <1>2, <1>4, <1>8, <2>1, <2>2, <2>3, ToSetEmpty, OrderedShort DEF IInv, OrderInv
<1> QED BY <1>6, <1>9, <1>10, <1>11, <1>12, <1>13 DEF IInv

\* An answered call: the loop keeps the texts the call took.
LEMMA AnsweredKeeps ==
  ASSUME IInv, TypeOK', Answered
  PROVE  IInv' /\ Waiting' = Waiting /\ Recorded' \cap Texts = Recorded \cap Texts
<1> DEFINE H == ToSet(history)
           K == ToSet(kept)
           M == ToSet(mirror)
           Q == ToSet(queue)
<1>1. /\ phase = "wire" /\ phase' \in {"ready", "returning"} /\ tokenLive' = FALSE
      /\ replay' = <<>> /\ retried' = <<>> /\ mirror' = <<>>
      /\ kept' = kept \o mirror \/ kept' = kept \o mirror \o <<Work>>
      /\ UNCHANGED <<pc, results, owed, queue, consumed, drained, history, accepted, opened, opener, reminders>>
  BY DEF Answered, handlerVars, toldVars, turnVars, ghostVars
<1>2. replay = <<>> /\ drained = <<>>  BY <1>1 DEF IInv, LoopInv
<1>3. /\ kept \in Seq(Items) /\ mirror \in Seq(Items) /\ H \subseteq Items /\ K \subseteq Items
      /\ M \subseteq Texts /\ Q \subseteq Items /\ ToSet(consumed) \subseteq Texts
  BY Typed DEF IInv, Items
<1>4. Work \notin Texts /\ Work \in Items  BY InjectionAssumption DEF Items
<1>5. kept \o mirror \in Seq(Items) /\ ToSet(kept \o mirror) = K \cup M
  BY <1>3, ToSetConcat, ZenonT(40)
<1>6. Ordered(kept \o mirror, Before)
  <2>1. Ordered(kept, Before) /\ Ordered(mirror, Before) /\ K \X M \subseteq Before
    BY DEF IInv, OrderInv
  <2> QED BY <1>3, <2>1, OrderedConcat, Zenon
<1>7. <<Work>> \in Seq(Items) /\ ToSet(<<Work>>) = {Work} /\ Ordered(<<Work>>, Before)
  BY <1>4, OrderedShort
<1>8. /\ kept \o mirror \o <<Work>> \in Seq(Items)
      /\ ToSet(kept \o mirror \o <<Work>>) = K \cup M \cup {Work}
  <2>1. \A t \in Seq(Items) : /\ (kept \o mirror) \o t \in Seq(Items)
                              /\ ToSet((kept \o mirror) \o t) = ToSet(kept \o mirror) \cup ToSet(t)
    BY <1>5, ToSetConcat, ZenonT(40)
  <2> QED BY <1>5, <1>7, <2>1
<1>9. Ordered(kept \o mirror \o <<Work>>, Before)
  <2>1. (K \cup M) \X {Work} \subseteq Before  BY <1>3, WorkIsFree DEF Items
  <2>2. ToSet(kept \o mirror) \X ToSet(<<Work>>) \subseteq Before  BY <1>5, <1>7, <2>1
  <2> QED BY <1>5, <1>6, <1>7, <2>2, OrderedConcat, Zenon
<1>10. Ordered(kept', Before) /\ K \cup M \subseteq ToSet(kept') /\ ToSet(kept') \subseteq K \cup M \cup {Work}
  BY <1>1, <1>5, <1>6, <1>8, <1>9
<1>11. M \subseteq ToSet(consumed) /\ ToSet(consumed) \subseteq K \cup M
  <2>1. ToSet(replay) = {}  BY <1>2, ToSetEmpty
  <2> QED BY <1>1, <2>1 DEF IInv, PlaceInv, ConsumedStaysInReach
<1>12. LoopInv'
  BY <1>1, <1>10 DEF IInv, LoopInv, WindowOpen, WindowPhases
<1>13. Recorded' \cap Texts = Recorded \cap Texts /\ Recorded \subseteq Recorded' /\ Waiting' = Waiting
  BY <1>1, <1>4, <1>10, <1>11 DEF Recorded, Waiting
<1>14. PlaceInv'
  <2>1. ToSet(mirror') = {} /\ ToSet(replay') = {}  BY <1>1, ToSetEmpty
  <2>2. ConsumedStaysInReach'  BY <1>1, <1>10, <1>11 DEF ConsumedStaysInReach
  <2>3. ReminderHasItsText'
    BY <1>1, <1>10 DEF IInv, PlaceInv, ReminderHasItsText, Held
  <2>4. Waiting \subseteq Texts  BY Typed DEF IInv, Waiting
  <2> QED BY <1>1, <1>13, <2>1, <2>2, <2>3, <2>4 DEF IInv, PlaceInv
<1>15. TextInv'  BY <1>1, <1>13, TextUntouched DEF IInv
<1>16. OrderInv'
  <2>1. Before' = Before  BY <1>1 DEF Before
  <2>2. ToSet(mirror') = {} /\ ToSet(replay') = {} /\ Ordered(<<>>, Before)
    BY <1>1, ToSetEmpty, OrderedShort
  <2>3. H \X (ToSet(kept') \cup Q) \subseteq Before
    <3>1. H \X (K \cup M \cup Q) \subseteq Before  BY DEF IInv, OrderInv
    <3>2. H \X {Work} \subseteq Before  BY <1>3, WorkIsFree
    <3> QED BY <1>10, <3>1, <3>2
  <2>4. ToSet(kept') \X Q \subseteq Before
    <3>1. (K \cup M) \X Q \subseteq Before  BY DEF IInv, OrderInv
    <3>2. {Work} \X Q \subseteq Before  BY <1>3, WorkIsFree
    <3> QED BY <1>10, <3>1, <3>2
  <2>5. ToSet(consumed) \ (H \cup ToSet(kept')) = {}  BY <1>10, <1>11
  <2> QED BY <1>1, <1>10, <2>1, <2>2, <2>3, <2>4, <2>5 DEF IInv, OrderInv
<1> QED BY <1>12, <1>13, <1>14, <1>15, <1>16 DEF IInv

\* A stop may take the unanswered work out of the loop's messages, never a text.
LEMMA InterruptedKeeps ==
  ASSUME IInv, TypeOK', Interrupted
  PROVE  IInv' /\ Waiting' = Waiting /\ Recorded' \cap Texts = Recorded \cap Texts
<1>1. /\ phase \in {"ready", "consuming", "wire"} /\ phase' = "returning"
      /\ replay' = <<>> /\ retried' = <<>> /\ mirror' = <<>>
      /\ kept' = kept \/ (EndsWith(kept, {Work}) /\ kept' = Front(kept))
      /\ UNCHANGED <<pc, results, owed, queue, consumed, drained, history, accepted, opened, opener, reminders>>
  BY DEF Interrupted, EndRetry, handlerVars, toldVars, turnVars, ghostVars
<1>2. /\ kept \in Seq(Items) /\ ToSet(consumed) \subseteq Texts /\ ToSet(queue) \subseteq Texts
      /\ ToSet(drained) \subseteq Texts /\ opener \in Texts \cup {None}
  BY Typed DEF IInv, TypeOK
<1>3. Work \notin Texts  BY InjectionAssumption
<1>4. /\ ToSet(kept') \subseteq ToSet(kept) /\ ToSet(kept) \subseteq ToSet(kept') \cup {Work}
      /\ Ordered(kept', Before)
  <2>1. CASE kept' = kept  BY <2>1 DEF IInv, OrderInv
  <2>2. CASE EndsWith(kept, {Work}) /\ kept' = Front(kept)
    <3>1. kept # <<>> /\ kept[Len(kept)] = Work  BY <2>2 DEF EndsWith
    <3>2. Front(kept) \in Seq(Items) /\ Work \in Items /\ kept = Front(kept) \o <<Work>>
      BY <1>2, <3>1, FrontAndLast
    <3>3. <<Work>> \in Seq(Items) /\ ToSet(<<Work>>) = {Work}  BY <3>2, OrderedShort
    <3>4. ToSet(kept) = ToSet(Front(kept)) \cup {Work}
      <4>1. \A t \in Seq(Items) : ToSet(Front(kept) \o t) = ToSet(Front(kept)) \cup ToSet(t)
        BY <3>2, ToSetConcat, ZenonT(40)
      <4> QED BY <3>2, <3>3, <4>1
    <3>5. Ordered(Front(kept), Before)
      <4>1. Ordered(Front(kept) \o <<Work>>, Before)  BY <3>2 DEF IInv, OrderInv
      <4> QED BY <3>2, <3>3, <4>1, OrderedConcat, Zenon
    <3> QED BY <2>2, <3>4, <3>5
  <2> QED BY <1>1, <2>1, <2>2
<1>5. opener # None => opener \in ToSet(kept) /\ opener \in ToSet(kept')
  BY <1>1, <1>2, <1>3, <1>4 DEF IInv, LoopInv
<1>6. LoopInv'
  BY <1>1, <1>5 DEF IInv, LoopInv, WindowOpen, WindowPhases
<1>7. Recorded' \cap Texts = Recorded \cap Texts /\ Waiting' = Waiting
  BY <1>1, <1>3, <1>4 DEF Recorded, Waiting
<1>8. PlaceInv'
  <2>1. ToSet(mirror') = {} /\ ToSet(replay') = {}  BY <1>1, ToSetEmpty
  <2>2. ConsumedStaysInReach'  BY <1>1 DEF ConsumedStaysInReach
  <2>3. ReminderHasItsText'
    <3>1. reminders \subseteq Texts  BY DEF IInv, TypeOK
    <3> QED BY <1>1, <1>3, <1>4, <3>1 DEF IInv, PlaceInv, ReminderHasItsText, Held
  <2>4. Waiting \subseteq Texts  BY <1>2 DEF Waiting
  <2> QED BY <1>1, <1>7, <2>1, <2>2, <2>3, <2>4 DEF IInv, PlaceInv
<1>9. TextInv'  BY <1>1, <1>7, TextUntouched DEF IInv
<1>10. OrderInv'
  <2>1. Before' = Before  BY <1>1 DEF Before
  <2>2. ToSet(mirror') = {} /\ ToSet(replay') = {} /\ Ordered(<<>>, Before)
    BY <1>1, ToSetEmpty, OrderedShort
  <2>3. ToSet(consumed) \ (ToSet(history) \cup ToSet(kept')) = ToSet(consumed) \ (ToSet(history) \cup ToSet(kept))
    BY <1>2, <1>3, <1>4
  <2> QED BY <1>1, <1>4, <2>1, <2>2, <2>3 DEF IInv, OrderInv
<1> QED BY <1>6, <1>7, <1>8, <1>9, <1>10 DEF IInv

-----------------------------------------------------------------------------
(* The finalizer and the notification.                                     *)

\* The queue moves to the drained texts as a whole.
LEMMA PassReturnsKeeps ==
  ASSUME IInv, TypeOK', PassReturns
  PROVE  IInv' /\ Waiting' = Waiting /\ Recorded' = Recorded
<1>1. /\ phase = "returning" /\ phase' = "drain"
      /\ drained' = queue /\ queue' = <<>> /\ reminders' = reminders \ ToSet(queue)
      /\ UNCHANGED <<pc, results, owed, replay, retried, mirror, consumed, kept, history>>
      /\ UNCHANGED <<accepted, opened, opener, tokenLive>>
  BY DEF PassReturns, DrainPending, WithdrawDrained, handlerVars, toldVars, ghostVars
<1>2. drained = <<>> /\ replay = <<>> /\ mirror = <<>>  BY <1>1 DEF IInv, LoopInv
<1>3. ToSet(drained) = {} /\ ToSet(queue') = {}  BY <1>1, <1>2, ToSetEmpty
<1>4. LoopInv'
  BY <1>1, <1>2 DEF IInv, LoopInv, WindowOpen, WindowPhases
<1>5. Waiting' = Waiting /\ Recorded' = Recorded
  BY <1>1, <1>3 DEF Waiting, Recorded
<1>6. PlaceInv'
  <2>1. ConsumedStaysInReach'  BY <1>1 DEF ConsumedStaysInReach
  <2>2. ReminderHasItsText'  BY <1>1 DEF IInv, PlaceInv, ReminderHasItsText, Held
  <2> QED BY <1>1, <1>5, <2>1, <2>2 DEF IInv, PlaceInv
<1>7. TextInv'  BY <1>1, <1>5 DEF IInv, TextInv, Undecided
<1>8. OrderInv'
  <2>1. Before' = Before  BY <1>1 DEF Before
  <2> QED BY <1>1, <1>3, <2>1, OrderedShort DEF IInv, OrderInv
<1> QED BY <1>4, <1>5, <1>6, <1>7, <1>8 DEF IInv

LEMMA ReturnDrainedKeeps ==
  ASSUME IInv, TypeOK', ReturnDrained
  PROVE  IInv' /\ \E i \in Texts : GivesBack(i)
<1> DEFINE i == Head(drained)
<1>1. /\ phase = "drain" /\ drained # <<>> /\ drained' = Tail(drained) /\ Publish(i, FALSE)
      /\ UNCHANGED <<pc, owed, queue, replay, retried, mirror, consumed, kept, history>>
      /\ UNCHANGED <<accepted, opened, opener, phase, tokenLive, reminders>>
  BY DEF ReturnDrained, handlerVars, queueVars, runVars, turnVars, ghostVars
<1>2. queue = <<>> /\ drained \in Seq(Texts) /\ results \in [Texts -> Seq(BOOLEAN)]
  BY <1>1, Typed DEF IInv, TypeOK, LoopInv, WindowOpen, WindowPhases
<1>3. /\ i \in Texts /\ Tail(drained) \in Seq(Texts) /\ drained = <<i>> \o Tail(drained)
  BY <1>1, <1>2, HeadAndTail
<1> HIDE DEF i
<1>4. /\ ToSet(drained) = {i} \cup ToSet(Tail(drained)) /\ Ordered(Tail(drained), Before)
      /\ {i} \X ToSet(Tail(drained)) \subseteq Before
  <2>1. <<i>> \in Seq(Texts) /\ ToSet(<<i>>) = {i}  BY <1>3, OrderedShort
  <2> DEFINE first == <<i>>
  <2>2. ToSet(first) = {i} /\ drained = first \o Tail(drained)
    BY <1>3, <2>1
  <2>3. first \in Seq(Texts)  BY <1>3
  <2>4. Tail(drained) \in Seq(Texts)  BY <1>3
  <2> HIDE DEF first
  <2>5. \A t \in Seq(Texts) : ToSet(first \o t) = ToSet(first) \cup ToSet(t)
    BY <2>3, ToSetConcat, ZenonT(40)
  <2>6. ToSet(drained) = ToSet(first) \cup ToSet(Tail(drained))  BY <1>3, <2>2, <2>5
  <2>7. Ordered(first \o Tail(drained), Before)  BY <2>2 DEF IInv, OrderInv
  <2>8. Ordered(Tail(drained), Before) /\ ToSet(first) \X ToSet(Tail(drained)) \subseteq Before
    BY <2>3, <2>4, <2>7, OrderedConcat, Zenon
  <2> QED BY <2>2, <2>6, <2>8
<1>5. i \notin ToSet(Tail(drained)) /\ i \in Waiting
  <2>1. <<i, i>> \notin Before  BY <1>3, BeforeFacts
  <2> QED BY <1>4, <2>1 DEF Waiting
<1>6. Waiting' = Waiting \ {i} /\ Recorded' = Recorded
  <2>1. ToSet(queue) = {} /\ queue' = queue  BY <1>1, <1>2, ToSetEmpty
  <2>2. Waiting = {i} \cup ToSet(Tail(drained)) /\ Waiting' = ToSet(Tail(drained))
    BY <1>1, <1>4, <2>1 DEF Waiting
  <2> QED BY <1>1, <1>5, <2>2 DEF Recorded
<1>7. /\ results[i] = <<>> /\ i \notin Recorded /\ i \notin opened /\ i \notin owed
      /\ i \in ToSet(accepted) /\ ~Undecided(i)
  BY <1>3, <1>5 DEF IInv, PlaceInv, TextInv
<1>8. results' = [results EXCEPT ![i] = <<FALSE>>]
  BY <1>1, <1>2, <1>3, <1>7 DEF Publish
<1>9. LoopInv'  BY <1>1, <1>2 DEF IInv, LoopInv, WindowOpen
<1>10. PlaceInv'
  <2>1. ConsumedStaysInReach' /\ ReminderHasItsText'
    BY <1>1 DEF IInv, PlaceInv, ConsumedStaysInReach, ReminderHasItsText, Held
  <2> QED BY <1>1, <1>6, <2>1 DEF IInv, PlaceInv
<1>11. TextInv'
  <2>1. \A j \in Texts : Undecided(j)' = Undecided(j)  BY <1>1 DEF Undecided
  <2> QED BY <1>1, <1>2, <1>6, <1>7, <1>8, <2>1 DEF IInv, TextInv
<1>12. OrderInv'
  <2>1. Before' = Before  BY <1>1 DEF Before
  <2> QED BY <1>1, <1>4, <2>1 DEF IInv, OrderInv
<1>13. GivesBack(i)  BY <1>5, <1>6, <1>7, <1>8 DEF GivesBack
<1> QED BY <1>3, <1>9, <1>10, <1>11, <1>12, <1>13 DEF IInv

\* What the history gains is what the pass has on record, in order.
LEMMA PersistedIsRecorded ==
  ASSUME IInv
  PROVE  /\ Persisted \in Seq(Items) /\ ToSet(Persisted) = Recorded
         /\ Ordered(Persisted, Before)
<1> DEFINE own  == history \o kept
           rest == Without(consumed, ToSet(own))
<1>1. history \in Seq(Items) /\ kept \in Seq(Items) /\ consumed \in Seq(Texts)
  BY Typed DEF IInv
<1>2. consumed \in Seq(Items)
  <2>1. Texts \subseteq Items  BY DEF Items
  <2> QED BY <1>1, <2>1
<1>3. own \in Seq(Items) /\ ToSet(own) = ToSet(history) \cup ToSet(kept)
  BY <1>1, ToSetConcat, ZenonT(40)
<1>4. Ordered(own, Before)
  <2>1. Ordered(history, Before) /\ Ordered(kept, Before) /\ ToSet(history) \X ToSet(kept) \subseteq Before
    BY DEF IInv, OrderInv
  <2> QED BY <1>1, <2>1, OrderedConcat, Zenon
<1>5. rest \in Seq(Items) /\ Thins(rest, consumed) /\ ToSet(rest) = ToSet(consumed) \ ToSet(own)
  <2>1. \A S : LET w == Without(consumed, S)
                IN  w \in Seq(Items) /\ Thins(w, consumed) /\ ToSet(w) = ToSet(consumed) \ S
    BY <1>2, WithoutThins, Zenon
  <2> HIDE DEF own
  <2> QED BY <2>1
<1>6. Persisted = own \o rest  BY DEF Persisted
<1> HIDE DEF own, rest
<1>7. own \in Seq(Items)  BY <1>3
<1>8. rest \in Seq(Items)  BY <1>5
<1>9. Thins(rest, consumed)  BY <1>5
<1>10. Ordered(rest, Before)
  <2>1. Ordered(consumed, Before)  BY DEF IInv, OrderInv
  <2> QED BY <1>2, <1>8, <1>9, <2>1, ThinsKeepsOrder, Zenon
<1>11. ToSet(own) \X ToSet(rest) \subseteq Before
  BY <1>3, <1>5 DEF IInv, OrderInv
<1>12. own \o rest \in Seq(Items) /\ ToSet(own \o rest) = ToSet(own) \cup ToSet(rest)
  BY <1>7, <1>8, ToSetConcat, ZenonT(40)
<1>13. Ordered(own \o rest, Before)
  BY <1>7, <1>8, <1>4, <1>10, <1>11, OrderedConcat, Zenon
<1> QED BY <1>3, <1>5, <1>6, <1>12, <1>13 DEF Recorded

LEMMA PassSavesKeeps ==
  ASSUME IInv, TypeOK', PassSaves
  PROVE  IInv' /\ Waiting' = Waiting /\ Recorded' = Recorded /\ ToSet(consumed') = {}
         /\ (opener # None => opener \in Recorded)
<1>1. /\ phase = "drain" /\ drained = <<>> /\ phase' = "save" /\ history' = Persisted
      /\ kept' = <<>> /\ consumed' = <<>> /\ opener' = None
      /\ UNCHANGED <<pc, results, owed, queue, replay, retried, mirror, drained, accepted, opened>>
      /\ UNCHANGED <<tokenLive, reminders>>
  BY DEF PassSaves, handlerVars, toldVars, queueVars, turnVars, ghostVars
<1>2. replay = <<>> /\ mirror = <<>> /\ queue = <<>>
  BY <1>1 DEF IInv, LoopInv, WindowOpen, WindowPhases
<1>3. /\ ToSet(kept') = {} /\ ToSet(consumed') = {} /\ ToSet(replay) = {} /\ ToSet(mirror) = {}
      /\ ToSet(queue) = {}
  BY <1>1, <1>2, ToSetEmpty
<1>4. ToSet(history') = Recorded /\ Ordered(history', Before)
  BY <1>1, PersistedIsRecorded
<1>5. LoopInv'  BY <1>1, <1>2 DEF IInv, LoopInv
<1>6. Waiting' = Waiting /\ Recorded' = Recorded
  BY <1>1, <1>3, <1>4 DEF Waiting, Recorded
<1>7. PlaceInv'
  <2>1. ConsumedStaysInReach'  BY <1>1 DEF ConsumedStaysInReach
  <2>2. ReminderHasItsText'
    <3>1. reminders \subseteq Texts /\ None \notin Texts  BY InjectionAssumption DEF IInv, TypeOK
    <3>2. opener # None => opener \in ToSet(kept)  BY <1>1 DEF IInv, LoopInv
    <3>3. reminders \subseteq Recorded
      BY <1>3, <3>1, <3>2 DEF IInv, PlaceInv, ReminderHasItsText, Held, Recorded
    <3> QED BY <1>1, <1>4, <3>3 DEF ReminderHasItsText, Held
  <2>3. ToSet(mirror') = {} /\ ToSet(replay') = {}  BY <1>1, <1>3
  <2>4. Waiting \cup owed \subseteq ToSet(accepted)  BY DEF IInv, PlaceInv
  <2> QED BY <1>1, <1>3, <1>6, <2>1, <2>2, <2>3, <2>4 DEF IInv, PlaceInv
<1>8. TextInv'  BY <1>1, <1>6, TextUntouched DEF IInv
<1>9. OrderInv'
  <2>1. Before' = Before  BY <1>1 DEF Before
  <2> QED BY <1>1, <1>3, <1>4, <2>1, OrderedShort DEF IInv, OrderInv
<1>10. opener # None => opener \in Recorded  BY <1>1 DEF IInv, LoopInv, Recorded
<1> QED BY <1>3, <1>5, <1>6, <1>10, <1>7, <1>8, <1>9 DEF IInv

LEMMA NotifyKeeps ==
  ASSUME IInv, TypeOK', NEW i \in Texts, Notify(i)
  PROVE  IInv'
<1>1. /\ i \in owed /\ owed' = owed \ {i} /\ Publish(i, TRUE)
      /\ UNCHANGED <<pc, queue, replay, retried, mirror, consumed, drained, kept, history>>
      /\ UNCHANGED <<accepted, opened, opener, phase, tokenLive, reminders>>
  BY DEF Notify, handlerVars, queueVars, recordVars, runVars, turnVars, ghostVars
<1>2. /\ results[i] = <<>> /\ i \in ToSet(accepted) /\ i \notin opened /\ i \notin Waiting /\ ~Undecided(i)
  BY <1>1 DEF IInv, PlaceInv, TextInv
<1>3. results' = [results EXCEPT ![i] = <<TRUE>>] /\ results \in [Texts -> Seq(BOOLEAN)]
  BY <1>1, <1>2 DEF IInv, TypeOK, Publish
<1>4. Waiting' = Waiting /\ Recorded' = Recorded  BY <1>1 DEF Waiting, Recorded
<1>5. LoopInv'  BY <1>1 DEF IInv, LoopInv, WindowOpen
<1>6. PlaceInv'
  <2>1. ConsumedStaysInReach' /\ ReminderHasItsText'
    BY <1>1 DEF IInv, PlaceInv, ConsumedStaysInReach, ReminderHasItsText, Held
  <2> QED BY <1>1, <1>4, <2>1 DEF IInv, PlaceInv
<1>7. TextInv'
  <2>1. \A j \in Texts : Undecided(j)' = Undecided(j)  BY <1>1 DEF Undecided
  <2> QED BY <1>1, <1>2, <1>3, <1>4, <2>1, AnswersDiffer DEF IInv, TextInv
<1>8. OrderInv'  BY <1>1, OrderUntouched DEF IInv
<1> QED BY <1>5, <1>6, <1>7, <1>8 DEF IInv

-----------------------------------------------------------------------------
(* Every step keeps the invariant.                                         *)

LEMMA NextKeeps ==
  ASSUME IInv, [Next]_vars
  PROVE  IInv'
<1>1. TypeOK'  BY TypesStay DEF IInv
<1>2. TypeOK  BY DEF IInv
<1>3. CASE \E i \in Texts : Submit(i) \/ HandlerStep(i) \/ Cancel(i) \/ Notify(i)
  <2>1. PICK i \in Texts : Submit(i) \/ HandlerStep(i) \/ Cancel(i) \/ Notify(i)  BY <1>3
  <2>2. CASE \/ Submit(i) \/ EnterRun(i) \/ AwaitCleanup(i) \/ Reserve(i) \/ WaitForOtherAdmission(i)
             \/ HooksDone(i) \/ RefuseCommit(i) \/ CommitPublished(i) \/ RefuseTurn(i)
    <3>1. HandlerOnly(i)  BY <1>2, <2>2, HandlerOnlySteps
    <3> QED BY <1>1, <3>1, HandlerOnlyKeeps
  <2>3. CASE Commit(i)  BY <1>1, <2>3, CommitKeeps
  <2>4. CASE OpenTurn(i)  BY <1>1, <2>4, OpenTurnKeeps
  <2>5. CASE Cancel(i)  BY <1>1, <2>5, CancelKeeps
  <2>6. CASE Notify(i)  BY <1>1, <2>6, NotifyKeeps
  <2> QED BY <2>1, <2>2, <2>3, <2>4, <2>5, <2>6 DEF HandlerStep
<1>4. CASE RunStep
  <2>1. CASE PassPrepares  BY <1>1, <2>1, PassPreparesKeeps
  <2>2. CASE Consume  BY <1>1, <2>2, ConsumeKeeps
  <2>3. CASE Poll \/ CheckpointFlushed \/ RunEnds  BY <1>1, <2>3, PhaseStepsKeep
  <2>4. CASE PassReturns  BY <1>1, <2>4, PassReturnsKeeps
  <2>5. CASE ReturnDrained  BY <1>1, <2>5, ReturnDrainedKeeps
  <2>6. CASE PassSaves  BY <1>1, <2>6, PassSavesKeeps
  <2> QED BY <1>4, <2>1, <2>2, <2>3, <2>4, <2>5, <2>6 DEF RunStep
<1>5. CASE CallEnds
  BY <1>1, <1>5, AnsweredKeeps, CallFailsKeeps, InterruptedKeeps DEF CallEnds
<1>6. CASE Announced \/ Stop \/ RetryTurn  BY <1>1, <1>6, PhaseStepsKeep
<1>7. CASE UNCHANGED vars
  <2> USE DEF vars, handlerVars, toldVars, queueVars, recordVars, runVars, turnVars, countVars, ghostVars
  <2>1. LoopInv'  BY <1>7 DEF IInv, LoopInv, WindowOpen
  <2>2. PlaceInv'
    BY <1>7 DEF IInv, PlaceInv, ConsumedStaysInReach, ReminderHasItsText, Held, Waiting, Recorded
  <2>3. TextInv'  BY <1>7 DEF IInv, TextInv, Undecided, Waiting, Recorded
  <2>4. OrderInv'  BY <1>7, OrderUntouched DEF IInv
  <2> QED BY <1>1, <2>1, <2>2, <2>3, <2>4 DEF IInv
<1> QED BY <1>3, <1>4, <1>5, <1>6, <1>7 DEF Next

\* In every reachable state the records of each text agree and the sequences of texts
\* are in the order of their commits.
THEOREM PlaceInvHolds == Spec => []IInv
<1>1. Init => IInv  BY InitEstablishes
<1>2. IInv /\ [Next]_vars => IInv'  BY NextKeeps
<1> QED BY <1>1, <1>2, PTL DEF Spec

\* Every variable keeps its type (the records of coordinator, middleware, run task and
\* finalizer).
THEOREM InjectionsTyped == Spec => []TypeOK
<1>1. IInv => TypeOK  BY DEF IInv
<1> QED BY <1>1, PlaceInvHolds, PTL

-----------------------------------------------------------------------------
(* What the invariant says of the texts.                                   *)

\* The line of what the model has read and is to read is in order as a whole.
LEMMA LineIsOrdered ==
  ASSUME IInv
  PROVE  Line \in Seq(Items) /\ Ordered(Line, Before)
<1>1. /\ history \in Seq(Items) /\ kept \in Seq(Items) /\ mirror \in Seq(Items)
      /\ replay \in Seq(Items) /\ queue \in Seq(Items)
  <2>1. Texts \subseteq Items  BY DEF Items
  <2> QED BY <2>1, Typed DEF IInv
<1> DEFINE L1 == history \o kept
           L2 == L1 \o mirror
           L3 == L2 \o replay
           L4 == L3 \o queue
<1>2. /\ Ordered(history, Before) /\ Ordered(kept, Before) /\ Ordered(mirror, Before)
      /\ Ordered(replay, Before) /\ Ordered(queue, Before)
      /\ ToSet(history) \X ToSet(kept) \subseteq Before
      /\ (ToSet(history) \cup ToSet(kept)) \X ToSet(mirror) \subseteq Before
      /\ (ToSet(history) \cup ToSet(kept)) \X ToSet(replay) \subseteq Before
      /\ (ToSet(history) \cup ToSet(kept) \cup ToSet(mirror) \cup ToSet(replay)) \X ToSet(queue) \subseteq Before
  BY DEF IInv, OrderInv
<1>3. ToSet(mirror) = {} \/ ToSet(replay) = {}
  <2>1. mirror = <<>> \/ replay = <<>>  BY DEF IInv, LoopInv, TypeOK, Phases
  <2> QED BY <2>1, ToSetEmpty
<1>4. L1 \in Seq(Items) /\ ToSet(L1) = ToSet(history) \cup ToSet(kept)
  BY <1>1, ToSetConcat, ZenonT(40)
<1>5. Ordered(L1, Before)
  <2>1. Ordered(history, Before) /\ Ordered(kept, Before) /\ ToSet(history) \X ToSet(kept) \subseteq Before
    BY <1>2
  <2> QED BY <1>1, <2>1, OrderedConcat, Zenon
<1> HIDE DEF L1
<1>6. L2 \in Seq(Items) /\ ToSet(L2) = ToSet(history) \cup ToSet(kept) \cup ToSet(mirror)
  <2>1. L1 \in Seq(Items)  BY <1>4
  <2>2. \A t \in Seq(Items) : L1 \o t \in Seq(Items) /\ ToSet(L1 \o t) = ToSet(L1) \cup ToSet(t)
    BY <2>1, ToSetConcat, ZenonT(40)
  <2> QED BY <1>1, <1>4, <2>2
<1>7. Ordered(L2, Before)
  <2>1. L1 \in Seq(Items)  BY <1>4
  <2>2. Ordered(mirror, Before) /\ ToSet(L1) \X ToSet(mirror) \subseteq Before
    BY <1>2, <1>4
  <2> QED BY <1>1, <1>5, <2>1, <2>2, OrderedConcat, Zenon
<1> HIDE DEF L2
<1>8. L3 \in Seq(Items)
      /\ ToSet(L3) = ToSet(history) \cup ToSet(kept) \cup ToSet(mirror) \cup ToSet(replay)
  <2>1. L2 \in Seq(Items)  BY <1>6
  <2>2. \A t \in Seq(Items) : L2 \o t \in Seq(Items) /\ ToSet(L2 \o t) = ToSet(L2) \cup ToSet(t)
    BY <2>1, ToSetConcat, ZenonT(40)
  <2> QED BY <1>1, <1>6, <2>2
<1>9. Ordered(L3, Before)
  <2>1. L2 \in Seq(Items)  BY <1>6
  <2>2. Ordered(replay, Before) /\ ToSet(L2) \X ToSet(replay) \subseteq Before
    BY <1>2, <1>3, <1>6
  <2> QED BY <1>1, <1>7, <2>1, <2>2, OrderedConcat, Zenon
<1> HIDE DEF L3
<1>10. L4 \in Seq(Items)
  <2>1. L3 \in Seq(Items)  BY <1>8
  <2> QED BY <1>1, <2>1, ToSetConcat, ZenonT(40)
<1>11. Ordered(L4, Before)
  <2>1. L3 \in Seq(Items)  BY <1>8
  <2>2. Ordered(queue, Before) /\ ToSet(L3) \X ToSet(queue) \subseteq Before
    BY <1>2, <1>8
  <2> QED BY <1>1, <1>9, <2>1, <2>2, OrderedConcat, Zenon
<1>12. Line = L4  BY DEF Line, L1, L2, L3
<1> QED BY <1>10, <1>11, <1>12

LEMMA NoTextTwiceInLine == IInv => NoTextTwice
<1> SUFFICES ASSUME IInv, NEW j \in DOMAIN Line, NEW k \in DOMAIN Line,
                    Line[j] \in Texts, Line[j] = Line[k]
             PROVE  j = k
  BY DEF NoTextTwice
<1>1. Line \in Seq(Items) /\ Ordered(Line, Before)  BY LineIsOrdered
<1>2. j \in Int /\ k \in Int  BY <1>1
<1>3. <<Line[j], Line[k]>> \notin Before /\ <<Line[k], Line[j]>> \notin Before  BY BeforeFacts
<1>4. ~(j < k) /\ ~(k < j)  BY <1>1, <1>3 DEF Ordered
<1> QED BY <1>2, <1>4

\* At every moment a text is in exactly the places its answer and its record allow: it
\* is answered once and given back only if no request had it, what the middleware
\* consumed stays in reach of the model, no request shows a text twice, and a hook
\* reminder rides only with its text.
THEOREM TextsKeepTheirPlace == Spec => []EveryTextHasItsPlace
<1>1. ASSUME IInv PROVE EveryTextHasItsPlace
  <2>1. TypeOK /\ ConsumedStaysInReach /\ ReminderHasItsText  BY <1>1 DEF IInv, PlaceInv
  <2>2. NoTextTwice  BY <1>1, NoTextTwiceInLine
  <2>3. ReturnedIsNeverSent
    <3> SUFFICES ASSUME NEW i \in Texts
                 PROVE  /\ Len(results[i]) + (IF i \in owed THEN 1 ELSE 0) <= 1
                        /\ results[i] = <<FALSE>> =>
                             i \notin Held \cup opened \cup ToSet(queue) \cup ToSet(replay) \cup ToSet(drained)
      BY DEF ReturnedIsNeverSent
    <3>1. results[i] \in {<<>>, <<TRUE>>, <<FALSE>>} /\ (i \in owed => results[i] = <<>>)
      BY <1>1 DEF IInv, TextInv
    <3>2. Len(results[i]) + (IF i \in owed THEN 1 ELSE 0) <= 1
      <4>1. CASE results[i] = <<>>
        <5>1. Len(results[i]) = 0  BY <4>1
        <5> QED BY <5>1
      <4>2. CASE results[i] # <<>>
        <5>1. i \notin owed  BY <3>1, <4>2
        <5>2. Len(<<TRUE>>) = 1 /\ Len(<<FALSE>>) = 1  OBVIOUS
        <5>3. Len(results[i]) = 1  BY <3>1, <4>2, <5>2
        <5> QED BY <5>1, <5>3
      <4> QED BY <4>1, <4>2
    <3>3. ASSUME results[i] = <<FALSE>>
          PROVE  i \notin Held \cup opened \cup ToSet(queue) \cup ToSet(replay) \cup ToSet(drained)
      <4>1. results[i] # <<>>  BY <3>3, AnswersDiffer
      <4>2. i \notin opened /\ i \notin Waiting /\ i \notin Recorded
        BY <1>1, <3>3, <4>1 DEF IInv, TextInv
      <4>3. i # opener
        <5>1. opener # None => opener \in opened  BY <1>1 DEF IInv, LoopInv
        <5> QED BY <4>2, <5>1, InjectionAssumption
      <4>4. ToSet(replay) \subseteq ToSet(consumed)  BY <1>1 DEF IInv, PlaceInv
      <4> QED BY <4>2, <4>3, <4>4 DEF Held, Waiting, Recorded
    <3> QED BY <3>2, <3>3
  <2> QED BY <2>1, <2>2, <2>3 DEF EveryTextHasItsPlace
<1> QED BY <1>1, PlaceInvHolds, PTL

\* The model reads injections in the order of their commits, and the history keeps it,
\* however calls fail, are polled or replayed and passes are retried.
THEOREM TextsKeepTheirOrder == Spec => []OrderOfCommit
<1>1. ASSUME IInv PROVE OrderOfCommit
  <2> SUFFICES ASSUME NEW j \in DOMAIN Line, NEW k \in DOMAIN Line,
                      NEW m \in DOMAIN accepted, NEW n \in DOMAIN accepted,
                      j < k, Line[j] = accepted[m], Line[k] = accepted[n]
               PROVE  m < n
    BY DEF OrderOfCommit
  <2>1. <<Line[j], Line[k]>> \in Before  BY <1>1, LineIsOrdered DEF Ordered
  <2>2. accepted[m] \in Texts /\ accepted[n] \in Texts
    BY <1>1, Typed DEF IInv
  <2> QED BY <2>1, <2>2, BeforeTexts
<1> QED BY <1>1, PlaceInvHolds, PTL

-----------------------------------------------------------------------------
(* What leaves the record.                                                 *)

\* Only a prompt that opens a turn takes a text off the record.
LEMMA OthersDropNothing ==
  ASSUME IInv, [Next]_vars, \A i \in Texts : ~OpenTurn(i)
  PROVE  Held \cap Texts \subseteq Held'
<1> USE DEF Held
<1>1. opener \in Texts \cup {None} /\ None \notin Texts  BY InjectionAssumption DEF IInv, TypeOK
<1>2. TypeOK' /\ TypeOK  BY TypesStay DEF IInv
<1>3. CASE UNCHANGED <<consumed, kept, history, opener>>  BY <1>3
<1>4. ASSUME NEW i \in Texts, Submit(i) \/ HandlerStep(i) \/ Cancel(i) \/ Notify(i)
      PROVE  UNCHANGED <<consumed, kept, history, opener>>
  <2> USE DEF recordVars, runVars
  <2>1. CASE \/ Submit(i) \/ EnterRun(i) \/ AwaitCleanup(i) \/ Reserve(i) \/ WaitForOtherAdmission(i)
             \/ HooksDone(i) \/ RefuseCommit(i) \/ CommitPublished(i) \/ RefuseTurn(i)
    <3>1. HandlerOnly(i)  BY <1>2, <2>1, HandlerOnlySteps
    <3> QED BY <3>1 DEF HandlerOnly, recordedVars
  <2>2. CASE Commit(i) \/ Cancel(i) \/ Notify(i)  BY <2>2 DEF Commit, Cancel, Notify
  <2> QED BY <1>4, <2>1, <2>2 DEF HandlerStep
<1>5. CASE Poll \/ CheckpointFlushed \/ RunEnds \/ PassReturns \/ ReturnDrained \/ CallFails
           \/ Announced \/ Stop \/ RetryTurn \/ UNCHANGED vars
  <2>1. UNCHANGED <<consumed, kept, history, opener>>
    BY <1>5 DEF Poll, CheckpointFlushed, RunEnds, PassReturns, ReturnDrained, CallFails, Announced, Stop,
       RetryTurn, vars, recordVars, runVars
  <2> QED BY <1>3, <2>1
<1>6. CASE PassPrepares
  <2>1. Recorded \subseteq Recorded' /\ opener' = opener
    BY <1>2, <1>6, PassPreparesKeeps DEF PassPrepares
  <2> QED BY <2>1 DEF Recorded
<1>7. CASE Consume
  <2>1. Recorded \subseteq Recorded' /\ opener' = opener
    BY <1>2, <1>7, ConsumeKeeps DEF Consume
  <2> QED BY <2>1 DEF Recorded
<1>8. CASE Answered \/ Interrupted
  <2>1. Recorded \cap Texts \subseteq Recorded' /\ opener' = opener
    BY <1>2, <1>8, AnsweredKeeps, InterruptedKeeps DEF Answered, Interrupted
  <2> QED BY <2>1 DEF Recorded
<1>9. CASE PassSaves
  <2>1. Recorded' = Recorded /\ (opener # None => opener \in Recorded)
    BY <1>2, <1>9, PassSavesKeeps
  <2> QED BY <1>1, <2>1 DEF Recorded
<1> QED BY <1>3, <1>4, <1>5, <1>6, <1>7, <1>8, <1>9 DEF Next, HandlerStep, RunStep, CallEnds

\* No failure, stop, retry or save loses a text that is on record as sent: only the
\* unanswered last message of a failed turn goes, when a new prompt opens.
THEOREM OrphansAlone == Spec => OnlyOrphansAreDropped
<1>1. ASSUME IInv, [Next]_vars, NEW i \in Texts, i \in Held \ Held'
      PROVE  phase = "none" /\ outcome # "ok" /\ EndsWith(history, {i})
  <2>1. PICK j \in Texts : OpenTurn(j)  BY <1>1, OthersDropNothing
  <2>2. phase = "none" /\ history' = WithoutOrphan /\ opener' = j
    BY <2>1 DEF OpenTurn, MayOpen
  <2>3. opener = None /\ kept = <<>> /\ consumed = <<>>  BY <1>1, <2>2 DEF IInv, LoopInv
  <2>4. i \in ToSet(history) \ ToSet(WithoutOrphan)
    <3>1. ToSet(kept) = {} /\ ToSet(consumed) = {}  BY <2>3, ToSetEmpty
    <3>2. i # opener  BY <2>3, InjectionAssumption
    <3> QED BY <1>1, <2>2, <3>1, <3>2 DEF Held
  <2> QED BY <1>1, <2>2, <2>4, OrphanIsLast
<1>2. ASSUME IInv, [Next]_vars
      PROVE  [\A i \in Texts : i \in Held \ Held' =>
                phase = "none" /\ outcome # "ok" /\ EndsWith(history, {i})]_vars
  BY <1>1, <1>2
<1> QED BY <1>2, PlaceInvHolds, PTL DEF Spec, OnlyOrphansAreDropped

-----------------------------------------------------------------------------
(* The promise: InjectionDelivery implements InjectionPromise.             *)

\* A text's fate, read off the records the invariant relates.
Standing(i) ==
  IF pc[i] = "new" THEN "new"
  ELSE IF Undecided(i) THEN "asked"
  ELSE IF i \in Waiting THEN "accepted"
  ELSE IF results[i] = <<FALSE>> THEN "returned"
  ELSE IF i = opener THEN "opened"
  ELSE IF i \in ToSet(consumed) THEN "sent"
  ELSE IF i \in Recorded THEN "saved"
  ELSE IF i \in opened \cup ToSet(accepted) THEN "removed"
  ELSE "refused"

FateIsStanding == \A i \in Texts : FateOf(i) = Standing(i)

\* The opener of the run is on record nowhere but in its messages.
LEMMA OpenerOpened ==
  ASSUME IInv, opener # None
  PROVE  /\ opener \in opened /\ opener \notin ToSet(accepted) /\ opener \notin ToSet(consumed)
         /\ opener \notin Waiting /\ opener \notin owed
         /\ results[opener] = <<>> /\ ~Undecided(opener) /\ opener \in Texts
<1>1. opener \in opened /\ opener \in Texts  BY DEF IInv, TypeOK, LoopInv
<1>2. opener \notin ToSet(accepted) /\ results[opener] = <<>> /\ ~Undecided(opener)
  BY <1>1 DEF IInv, PlaceInv, TextInv
<1> QED BY <1>1, <1>2 DEF IInv, PlaceInv

LEMMA StandingIsFate == IInv => FateIsStanding
<1> SUFFICES ASSUME IInv, NEW i \in Texts PROVE FateOf(i) = Standing(i)
  BY DEF FateIsStanding
<1>1. pc[i] \in HandlerPcs /\ None \notin Texts  BY InjectionAssumption DEF IInv, TypeOK
<1>2. CASE Undecided(i)
  <2>1. /\ i \notin ToSet(accepted) /\ i \notin opened /\ results[i] = <<>>
        /\ i \notin Recorded /\ i \notin Waiting /\ i \notin owed
    BY <1>2, UndecidedIsNowhere
  <2>2. i # opener  BY <1>1, <2>1, OpenerOpened
  <2>3. results[i] # <<FALSE>> /\ results[i] # <<TRUE>>  BY <2>1, AnswersDiffer
  <2> QED BY <1>1, <1>2, <2>1, <2>2, <2>3 DEF FateOf, Standing, Recorded, Waiting, Undecided
<1>3. CASE ~Undecided(i)
  <2>1. pc[i] # "new" /\ (pc[i] # "out" => i \in ToSet(accepted))
    BY <1>1, <1>3 DEF IInv, TextInv, Undecided, HandlerPcs
  <2>2. CASE i = opener
    <3>1. i \notin Waiting /\ results[i] # <<FALSE>>  BY <1>1, <2>2, OpenerOpened, AnswersDiffer
    <3> QED BY <1>3, <2>1, <2>2, <3>1 DEF FateOf, Standing
  <2>3. CASE i # opener /\ i \in Recorded
    <3>1. i \notin Waiting /\ results[i] # <<FALSE>>  BY <2>3 DEF IInv, PlaceInv, TextInv
    <3> QED BY <1>3, <2>1, <2>3, <3>1 DEF FateOf, Standing, Recorded
  <2>4. CASE i # opener /\ i \notin Recorded /\ i \in Waiting
    BY <1>3, <2>1, <2>4 DEF FateOf, Standing, Recorded, Waiting
  <2>5. CASE i # opener /\ i \notin Recorded /\ i \notin Waiting /\ results[i] = <<FALSE>>
    BY <1>3, <2>1, <2>5 DEF FateOf, Standing, Recorded, Waiting
  <2>6. CASE i # opener /\ i \notin Recorded /\ i \notin Waiting /\ results[i] # <<FALSE>>
    <3>1. i \in ToSet(accepted) => i \in owed \/ results[i] = <<TRUE>>
      BY <2>6 DEF IInv, TextInv
    <3>2. i \in owed \/ results[i] = <<TRUE>> => i \in ToSet(accepted)
      BY DEF IInv, PlaceInv, TextInv
    <3> QED BY <1>3, <2>1, <2>6, <3>1, <3>2 DEF FateOf, Standing, Recorded, Waiting
  <2> QED BY <2>2, <2>3, <2>4, <2>5, <2>6
<1> QED BY <1>2, <1>3

\* Texts move together, and no answer but theirs changes.
LEMMA MoveSome ==
  ASSUME FateIsStanding, FateIsStanding', NEW S \in SUBSET Texts, S # {}, NEW from, NEW to,
         \A j \in S : Standing(j) = from /\ Standing(j)' = to,
         \A j \in Texts \ S : Standing(j)' = Standing(j)
  PROVE  Promise!Move(S, from, to)
BY DEF FateIsStanding, Promise!Move

LEMMA MoveOne ==
  ASSUME FateIsStanding, FateIsStanding', NEW i \in Texts, NEW from, NEW to,
         Standing(i) = from, Standing(i)' = to,
         \A j \in Texts \ {i} : Standing(j)' = Standing(j)
  PROVE  Promise!Move({i}, from, to)
<1>1. \A j \in {i} : Standing(j) = from /\ Standing(j)' = to  OBVIOUS
<1>2. {i} \in SUBSET Texts /\ {i} # {}  OBVIOUS
<1> QED BY <1>1, <1>2, MoveSome

promiseVars == <<[i \in Texts |-> FateOf(i)], results>>

LEMMA StandStill ==
  ASSUME FateIsStanding, FateIsStanding', UNCHANGED results,
         \A j \in Texts : Standing(j)' = Standing(j)
  PROVE  UNCHANGED promiseVars
BY DEF FateIsStanding, promiseVars

\* What Standing is read off does not change for a text.
LEMMA StandingStays ==
  ASSUME NEW j, pc'[j] = "new" <=> pc[j] = "new", Undecided(j)' <=> Undecided(j),
         j \in Waiting' <=> j \in Waiting, j \in Recorded' <=> j \in Recorded,
         j \in ToSet(consumed') <=> j \in ToSet(consumed), j = opener' <=> j = opener,
         results'[j] = <<FALSE>> <=> results[j] = <<FALSE>>,
         j \in opened' \cup ToSet(accepted') <=> j \in opened \cup ToSet(accepted)
  PROVE  Standing(j)' = Standing(j)
BY DEF Standing

\* A text given back: Return.
LEMMA GivesBackReturns ==
  ASSUME IInv, FateIsStanding, FateIsStanding', NEW i \in Texts, GivesBack(i),
         UNCHANGED <<pc, opener, consumed, opened, accepted>>
  PROVE  Promise!Next
<1>1. results \in [Texts -> Seq(BOOLEAN)]  BY DEF IInv, TypeOK
<1>2. /\ i \in Waiting /\ results[i] = <<>> /\ results' = [results EXCEPT ![i] = <<FALSE>>]
      /\ Waiting' = Waiting \ {i} /\ Recorded' = Recorded
  BY DEF GivesBack
<1>3. ~Undecided(i) /\ pc[i] # "new"  BY <1>2, UndecidedIsNowhere DEF Undecided
<1>4. Standing(i) = "accepted"  BY <1>2, <1>3 DEF Standing
<1>5. Standing(i)' = "returned"  BY <1>1, <1>2, <1>3 DEF Standing, Undecided
<1>6. \A j \in Texts \ {i} : Standing(j)' = Standing(j)
  <2> TAKE j \in Texts \ {i}
  <2>1. results'[j] = results[j]  BY <1>1, <1>2
  <2>2. Undecided(j)' <=> Undecided(j)  BY DEF Undecided
  <2> QED BY <1>2, <2>1, <2>2, StandingStays
<1>7. Promise!Move({i}, "accepted", "returned")  BY <1>4, <1>5, <1>6, MoveOne
<1>8. Promise!Return  BY <1>2, <1>7 DEF Promise!Return
<1> QED BY <1>8 DEF Promise!Next

\* A handler's step: Ask, Return, Refuse or nothing.
LEMMA HandlerKeepsPromise ==
  ASSUME IInv, FateIsStanding, FateIsStanding', NEW i \in Texts, HandlerOnly(i)
  PROVE  Promise!Next \/ UNCHANGED promiseVars
<1>1. results \in [Texts -> Seq(BOOLEAN)] /\ pc \in [Texts -> HandlerPcs]  BY DEF IInv, TypeOK
<1>2. /\ UNCHANGED <<Waiting, Recorded, opener, consumed, opened, accepted>>
      /\ \A j \in Texts \ {i} : pc'[j] = pc[j]
      /\ pc'[i] # "new" /\ (pc[i] = "new" => Undecided(i)') /\ (Undecided(i)' => Undecided(i))
  BY DEF HandlerOnly, recordedVars, queueVars, recordVars, ghostVars, runVars, Waiting, Recorded
<1>3. \A j \in Texts \ {i} : results'[j] = results[j]
  BY <1>1 DEF HandlerOnly
<1>4. \A j \in Texts \ {i} : Standing(j)' = Standing(j)
  <2> TAKE j \in Texts \ {i}
  <2>1. results'[j] = results[j] /\ pc'[j] = pc[j]  BY <1>2, <1>3
  <2>2. Undecided(j)' <=> Undecided(j)  BY <2>1 DEF Undecided
  <2> QED BY <1>2, <2>1, <2>2, StandingStays
<1>5. CASE Undecided(i) /\ Undecided(i)'
  <2>1. results' = results  BY <1>5 DEF HandlerOnly
  <2>2. Standing(i)' = "asked"  BY <1>2, <1>5 DEF Standing
  <2>3. CASE pc[i] = "new"
    <3>1. Promise!Move({i}, "new", "asked")  BY <1>4, <2>2, <2>3, MoveOne DEF Standing
    <3>2. Promise!Ask  BY <2>1, <3>1 DEF Promise!Ask
    <3> QED BY <3>2 DEF Promise!Next
  <2>4. CASE pc[i] # "new"
    <3>1. Standing(i)' = Standing(i)  BY <1>5, <2>2, <2>4 DEF Standing
    <3> QED BY <1>4, <2>1, <3>1, StandStill
  <2> QED BY <2>3, <2>4
<1>6. CASE Undecided(i) /\ ~Undecided(i)'
  <2>1. /\ i \notin ToSet(accepted) /\ i \notin opened /\ results[i] = <<>>
        /\ i \notin Recorded /\ i \notin Waiting
    BY <1>6, UndecidedIsNowhere
  <2>2. Standing(i) = "asked"  BY <1>2, <1>6 DEF Standing
  <2>3. CASE results' = results
    <3>1. i # opener  BY <2>1, OpenerOpened, InjectionAssumption
    <3>2. i \notin ToSet(consumed)  BY <2>1 DEF Recorded
    <3>3. results'[i] # <<FALSE>>  BY <2>1, <2>3, AnswersDiffer
    <3>4. Standing(i)' = "refused"  BY <1>2, <1>6, <2>1, <3>1, <3>2, <3>3 DEF Standing
    <3>5. Promise!Move({i}, "asked", "refused")  BY <1>4, <2>2, <3>4, MoveOne
    <3>6. Promise!Refuse  BY <2>3, <3>5 DEF Promise!Refuse
    <3> QED BY <3>6 DEF Promise!Next
  <2>4. CASE results' = [results EXCEPT ![i] = Append(@, FALSE)]
    <3>1. results' = [results EXCEPT ![i] = <<FALSE>>]  BY <1>1, <2>1, <2>4
    <3>2. Standing(i)' = "returned"  BY <1>1, <1>2, <1>6, <2>1, <3>1 DEF Standing
    <3>3. Promise!Move({i}, "asked", "returned")  BY <1>4, <2>2, <3>2, MoveOne
    <3>4. Promise!Return  BY <2>1, <3>1, <3>3 DEF Promise!Return
    <3> QED BY <3>4 DEF Promise!Next
  <2> QED BY <2>3, <2>4 DEF HandlerOnly
<1>7. CASE ~Undecided(i)
  <2>1. results' = results /\ ~Undecided(i)'  BY <1>2, <1>7 DEF HandlerOnly
  <2>2. pc[i] # "new"  BY <1>7 DEF Undecided
  <2>3. Standing(i)' = Standing(i)  BY <1>2, <1>7, <2>1, <2>2, StandingStays
  <2> QED BY <1>4, <2>1, <2>3, StandStill
<1> QED BY <1>2, <1>5, <1>6, <1>7

LEMMA CommitKeepsPromise ==
  ASSUME IInv, TypeOK', FateIsStanding, FateIsStanding', NEW i \in Texts, Commit(i)
  PROVE  Promise!Next
<1>1. pc \in [Texts -> HandlerPcs]  BY DEF IInv, TypeOK
<1>2. /\ pc[i] = "staging" /\ pc' = [pc EXCEPT ![i] = "publishing"]
      /\ UNCHANGED <<results, consumed, opener, opened>>
  BY DEF Commit, MoveTo, recordVars, runVars
<1>3. Waiting' = Waiting \cup {i} /\ Recorded' = Recorded /\ ToSet(accepted') = ToSet(accepted) \cup {i}
  BY CommitKeeps
<1>4. Standing(i) = "asked"  BY <1>2 DEF Standing, Undecided
<1>5. Standing(i)' = "accepted"  BY <1>1, <1>2, <1>3 DEF Standing, Undecided
<1>6. \A j \in Texts \ {i} : Standing(j)' = Standing(j)
  <2> TAKE j \in Texts \ {i}
  <2>1. pc'[j] = pc[j]  BY <1>1, <1>2
  <2>2. Undecided(j)' <=> Undecided(j)  BY <2>1 DEF Undecided
  <2> QED BY <1>2, <1>3, <2>1, <2>2, StandingStays
<1>7. Promise!Move({i}, "asked", "accepted")  BY <1>4, <1>5, <1>6, MoveOne
<1>8. Promise!Accept  BY <1>2, <1>7 DEF Promise!Accept
<1> QED BY <1>8 DEF Promise!Next

LEMMA OpenTurnKeepsPromise ==
  ASSUME IInv, FateIsStanding, FateIsStanding', NEW i \in Texts, OpenTurn(i)
  PROVE  Promise!Next
<1> DEFINE R == ToSet(history) \ ToSet(history')
<1>1. pc \in [Texts -> HandlerPcs] /\ None \notin Texts  BY InjectionAssumption DEF IInv, TypeOK
<1>2. /\ pc[i] = "starting" /\ phase = "none" /\ pc' = [pc EXCEPT ![i] = "out"]
      /\ history' = WithoutOrphan /\ opener' = i /\ opened' = opened \cup {i}
      /\ UNCHANGED <<results, queue, drained, kept, consumed, accepted>>
  BY DEF OpenTurn, MayOpen, Leave, toldVars, queueVars
<1>3. kept = <<>> /\ consumed = <<>> /\ opener = None
  BY <1>2 DEF IInv, LoopInv
<1>4. ToSet(kept) = {} /\ ToSet(consumed) = {}  BY <1>3, ToSetEmpty
<1>5. /\ Recorded = ToSet(history) /\ Recorded' = Recorded \ R /\ R \subseteq Recorded
      /\ Waiting' = Waiting
  <2>1. ToSet(history') \subseteq ToSet(history)  BY <1>2, OrphanIsLast
  <2> QED BY <1>2, <1>4, <2>1 DEF Recorded, Waiting
<1>6. R \in SUBSET Texts /\ \A a, b \in R : a = b
  BY <1>2, OrphanIsLast DEF EndsWith
<1> HIDE DEF R
<1>7. /\ i \notin ToSet(accepted) /\ i \notin opened /\ results[i] = <<>>
      /\ i \notin Recorded /\ i \notin Waiting
  BY <1>2, UndecidedIsNowhere DEF Undecided
<1>8. Standing(i) = "asked"  BY <1>2 DEF Standing, Undecided
<1>9. Standing(i)' = "opened"
  <2>1. results'[i] # <<FALSE>>  BY <1>2, <1>7, AnswersDiffer
  <2> QED BY <1>1, <1>2, <1>5, <1>7, <2>1 DEF Standing, Undecided
<1>10. \A j \in Texts \ {i} : (Undecided(j)' <=> Undecided(j)) /\ pc'[j] = pc[j]
  BY <1>1, <1>2 DEF Undecided
<1>11. ASSUME NEW j \in R PROVE Standing(j) = "saved" /\ Standing(j)' = "removed" /\ j # i
  <2>1. j \in Texts /\ j \in Recorded /\ j # i  BY <1>5, <1>6, <1>7
  <2>2. j \in opened \cup ToSet(accepted) /\ j \notin Waiting /\ results[j] # <<FALSE>>
    BY <2>1 DEF IInv, PlaceInv, TextInv
  <2>3. ~Undecided(j) /\ pc[j] # "new"  BY <2>1, UndecidedIsNowhere DEF Undecided
  <2>4. Standing(j) = "saved"  BY <1>1, <1>3, <1>4, <2>1, <2>2, <2>3 DEF Standing
  <2>5. Standing(j)' = "removed"
    <3>1. j \notin Recorded' /\ j \notin ToSet(consumed') /\ j # opener'  BY <1>2, <1>4, <1>5, <2>1
    <3>2. j \notin Waiting' /\ results'[j] # <<FALSE>> /\ j \in opened' \cup ToSet(accepted')
      BY <1>2, <1>5, <2>2
    <3>3. ~Undecided(j)' /\ pc'[j] # "new"  BY <1>10, <2>1, <2>3
    <3> QED BY <3>1, <3>2, <3>3 DEF Standing
  <2> QED BY <2>1, <2>4, <2>5
<1>12. ASSUME NEW j \in Texts \ {i}, j \notin R PROVE Standing(j)' = Standing(j)
  <2>1. j # opener /\ j # opener'  BY <1>1, <1>2, <1>3, <1>12
  <2> QED BY <1>2, <1>5, <1>10, <1>12, <2>1, StandingStays
<1>13. Promise!Open
  <2> DEFINE f == [j \in Texts |-> FateOf(j)]
  <2>1. /\ f[i] = "asked" /\ \A j \in R : f[j] = "saved"
    BY <1>6, <1>8, <1>11 DEF FateIsStanding
  <2>2. \A j \in Texts : FateOf(j)' =
          IF j = i THEN "opened" ELSE IF j \in R THEN "removed" ELSE f[j]
    BY <1>6, <1>9, <1>11, <1>12 DEF FateIsStanding
  <2>3. f' = [j \in Texts |-> IF j = i THEN "opened" ELSE IF j \in R THEN "removed" ELSE f[j]]
    BY <2>2
  <2>4. results' = results  BY <1>2
  <2>5. R \in SUBSET Texts  BY <1>6
  <2> HIDE DEF f
  <2>6. \E k \in Texts, Q \in SUBSET Texts :
          /\ f[k] = "asked"
          /\ \A j \in Q : f[j] = "saved" /\ \A l \in Q : l = j
          /\ f' = [j \in Texts |-> IF j = k THEN "opened" ELSE IF j \in Q THEN "removed" ELSE f[j]]
          /\ UNCHANGED results
    <3> WITNESS i \in Texts, R \in SUBSET Texts
    <3> QED BY <1>6, <2>1, <2>3, <2>4
  <2> QED BY <2>6 DEF Promise!Open, f
<1> QED BY <1>13 DEF Promise!Next

LEMMA ConsumeKeepsPromise ==
  ASSUME IInv, TypeOK', FateIsStanding, FateIsStanding', Consume
  PROVE  Promise!Next \/ UNCHANGED promiseVars
<1>1. UNCHANGED <<pc, results, opener, opened, accepted>>
  BY DEF Consume, handlerVars, ghostVars
<1>2. /\ Waiting' = {} /\ Recorded' = Recorded \cup Waiting
      /\ ToSet(consumed') = ToSet(consumed) \cup Waiting
  BY ConsumeKeeps
<1>3. Waiting \subseteq Texts  BY Typed DEF IInv, Waiting
<1>4. \A j \in Texts : Undecided(j)' <=> Undecided(j)  BY <1>1 DEF Undecided
<1>5. ASSUME NEW j \in Texts \ Waiting PROVE Standing(j)' = Standing(j)
  BY <1>1, <1>2, <1>4, StandingStays
<1>6. ASSUME NEW j \in Waiting PROVE Standing(j) = "accepted" /\ Standing(j)' = "sent"
  <2>1. j \in Texts /\ ~Undecided(j) /\ pc[j] # "new"
    BY <1>3, UndecidedIsNowhere DEF Undecided
  <2>2. results[j] = <<>> /\ results[j] # <<FALSE>>
    BY <2>1, AnswersDiffer DEF IInv, TextInv
  <2>3. j # opener  BY <2>1, OpenerOpened, InjectionAssumption
  <2>4. Standing(j) = "accepted"  BY <2>1 DEF Standing
  <2>5. Standing(j)' = "sent"
    <3>1. ~Undecided(j)' /\ pc'[j] # "new" /\ results'[j] # <<FALSE>> /\ j # opener'
      BY <1>1, <1>4, <2>1, <2>2, <2>3
    <3> QED BY <1>2, <3>1 DEF Standing
  <2> QED BY <2>4, <2>5
<1>7. CASE Waiting = {}
  <2>1. \A j \in Texts : Standing(j)' = Standing(j)  BY <1>5, <1>7
  <2> QED BY <1>1, <2>1, StandStill
<1>8. CASE Waiting # {}
  <2>1. \A j \in Waiting : Standing(j) = "accepted" /\ Standing(j)' = "sent"  BY <1>6
  <2>2. \A j \in Texts \ Waiting : Standing(j)' = Standing(j)  BY <1>5
  <2>3. Waiting \in SUBSET Texts  BY <1>3
  <2>4. Promise!Move(Waiting, "accepted", "sent")  BY <1>8, <2>1, <2>2, <2>3, MoveSome
  <2>5. Promise!Send  BY <1>1, <2>3, <2>4 DEF Promise!Send
  <2> QED BY <2>5 DEF Promise!Next
<1> QED BY <1>7, <1>8

LEMMA PassSavesKeepsPromise ==
  ASSUME IInv, TypeOK', FateIsStanding, FateIsStanding', PassSaves
  PROVE  Promise!Next
<1>1. UNCHANGED <<pc, results, opened, accepted>> /\ opener' = None
  BY DEF PassSaves, handlerVars, toldVars, ghostVars
<1>2. /\ Waiting' = Waiting /\ Recorded' = Recorded /\ ToSet(consumed') = {}
      /\ opener # None => opener \in Recorded
  BY PassSavesKeeps
<1>3. None \notin Texts  BY InjectionAssumption
<1>4. ASSUME NEW j \in Texts
      PROVE  Standing(j)' = IF Standing(j) \in {"sent", "opened"} THEN "saved" ELSE Standing(j)
  <2>1. (Undecided(j)' <=> Undecided(j)) /\ j # opener'  BY <1>1, <1>3 DEF Undecided
  <2>2. j \in ToSet(consumed) => j \in Recorded  BY DEF Recorded
  <2>3. j = opener => j \in Recorded  BY <1>2, <1>3
  <2> QED BY <1>1, <1>2, <2>1, <2>2, <2>3 DEF Standing
<1>5. Promise!Save
  BY <1>1, <1>4 DEF FateIsStanding, Promise!Save
<1> QED BY <1>5 DEF Promise!Next

LEMMA NotifyKeepsPromise ==
  ASSUME IInv, FateIsStanding, FateIsStanding', NEW i \in Texts, Notify(i)
  PROVE  Promise!Next
<1>1. /\ i \in owed /\ Publish(i, TRUE)
      /\ UNCHANGED <<pc, queue, consumed, drained, kept, history, opener, opened, accepted>>
  BY DEF Notify, handlerVars, queueVars, recordVars, runVars, ghostVars
<1>2. /\ results[i] = <<>> /\ i \in ToSet(accepted) /\ i \notin opened /\ i \notin Waiting /\ ~Undecided(i)
  BY <1>1 DEF IInv, PlaceInv, TextInv
<1>3. results' = [results EXCEPT ![i] = <<TRUE>>] /\ results \in [Texts -> Seq(BOOLEAN)]
  BY <1>1, <1>2 DEF IInv, TypeOK, Publish
<1>4. Waiting' = Waiting /\ Recorded' = Recorded  BY <1>1 DEF Waiting, Recorded
<1>5. \A j \in Texts : results'[j] = <<FALSE>> <=> results[j] = <<FALSE>>
  BY <1>2, <1>3, AnswersDiffer
<1>6. \A j \in Texts : Standing(j)' = Standing(j)
  <2> TAKE j \in Texts
  <2>1. Undecided(j)' <=> Undecided(j)  BY <1>1 DEF Undecided
  <2>2. results'[j] = <<FALSE>> <=> results[j] = <<FALSE>>  BY <1>5
  <2> QED BY <1>1, <1>4, <2>1, <2>2, StandingStays
<1>7. Standing(i) \in {"sent", "saved", "removed"}
  <2>1. i # opener  BY <1>2, OpenerOpened, InjectionAssumption
  <2>2. results[i] # <<FALSE>> /\ pc[i] # "new"  BY <1>2, AnswersDiffer DEF Undecided
  <2> QED BY <1>2, <2>1, <2>2 DEF Standing
<1>8. FateOf(i) \in {"sent", "saved", "removed"}  BY <1>7 DEF FateIsStanding
<1>9. [j \in Texts |-> FateOf(j)]' = [j \in Texts |-> FateOf(j)]
  BY <1>6 DEF FateIsStanding
<1>10. Promise!Tell  BY <1>2, <1>3, <1>8, <1>9 DEF Promise!Tell
<1> QED BY <1>10 DEF Promise!Next

\* A step that moves no text leaves the promise where it is.
LEMMA RunKeepsPromise ==
  ASSUME IInv, TypeOK', FateIsStanding, FateIsStanding',
         \/ PassPrepares \/ Poll \/ CheckpointFlushed \/ RunEnds \/ PassReturns
         \/ Answered \/ CallFails \/ Interrupted \/ Announced \/ Stop \/ RetryTurn \/ UNCHANGED vars
  PROVE  UNCHANGED promiseVars
<1> USE DEF handlerVars, toldVars, queueVars, recordVars, runVars, ghostVars
<1>1. UNCHANGED <<pc, results, consumed, opener, opened, accepted>>
  BY DEF PassPrepares, Poll, CheckpointFlushed, RunEnds, PassReturns, Answered, CallFails, Interrupted,
     Announced, Stop, RetryTurn, vars
<1>2. Waiting' = Waiting
  <2>1. CASE PassReturns  BY <2>1, PassReturnsKeeps
  <2>2. CASE ~PassReturns
    <3>1. queue' = queue /\ drained' = drained
      BY <2>2 DEF PassPrepares, Poll, CheckpointFlushed, RunEnds, Answered, CallFails, Interrupted,
         Announced, Stop, RetryTurn, vars
    <3> QED BY <3>1 DEF Waiting
  <2> QED BY <2>1, <2>2
<1>3. \/ Recorded' \cap Texts = Recorded \cap Texts
      \/ Recorded' = Recorded \cup ({opener} \ {None})
  <2>1. CASE PassPrepares  BY <2>1, PassPreparesKeeps
  <2>2. CASE Answered \/ Interrupted  BY <2>2, AnsweredKeeps, InterruptedKeeps
  <2>3. CASE ~(PassPrepares \/ Answered \/ Interrupted)
    <3>1. history' = history /\ kept' = kept /\ consumed' = consumed
      BY <2>3 DEF Poll, CheckpointFlushed, RunEnds, PassReturns, CallFails, Announced, Stop, RetryTurn, vars
    <3> QED BY <3>1 DEF Recorded
  <2> QED BY <2>1, <2>2, <2>3
<1>4. ASSUME NEW j \in Texts PROVE Standing(j)' = Standing(j)
  <2>1. Undecided(j)' <=> Undecided(j)  BY <1>1 DEF Undecided
  <2>2. CASE j # opener
    <3>1. j \in Recorded' <=> j \in Recorded  BY <1>3, <2>2
    <3> QED BY <1>1, <1>2, <2>1, <3>1, StandingStays
  <2>3. CASE j = opener
    <3>1. j # None  BY InjectionAssumption
    <3>2. j \notin Waiting /\ results[j] = <<>> /\ ~Undecided(j)  BY <2>3, <3>1, OpenerOpened
    <3>3. results[j] # <<FALSE>> /\ pc[j] # "new"  BY <3>2, AnswersDiffer DEF Undecided
    <3>4. Standing(j) = "opened"  BY <2>3, <3>2, <3>3 DEF Standing
    <3>5. Standing(j)' = "opened"  BY <1>1, <1>2, <2>1, <2>3, <3>2, <3>3 DEF Standing
    <3> QED BY <3>4, <3>5
  <2> QED BY <2>2, <2>3
<1> QED BY <1>1, <1>4, StandStill

LEMMA StepKeepsPromise ==
  ASSUME IInv, FateIsStanding, FateIsStanding', [Next]_vars
  PROVE  Promise!Next \/ UNCHANGED promiseVars
<1>1. TypeOK' /\ TypeOK  BY TypesStay DEF IInv
<1>2. ASSUME NEW i \in Texts, Submit(i) \/ HandlerStep(i) \/ Cancel(i) \/ Notify(i)
      PROVE  Promise!Next \/ UNCHANGED promiseVars
  <2>1. CASE \/ Submit(i) \/ EnterRun(i) \/ AwaitCleanup(i) \/ Reserve(i) \/ WaitForOtherAdmission(i)
             \/ HooksDone(i) \/ RefuseCommit(i) \/ CommitPublished(i) \/ RefuseTurn(i)
    <3>1. HandlerOnly(i)  BY <1>1, <2>1, HandlerOnlySteps
    <3> QED BY <3>1, HandlerKeepsPromise
  <2>2. CASE Commit(i)  BY <1>1, <2>2, CommitKeepsPromise
  <2>3. CASE OpenTurn(i)  BY <2>3, OpenTurnKeepsPromise
  <2>4. CASE Cancel(i)
    <3>1. UNCHANGED <<pc, opener, consumed, opened, accepted>>
      BY <2>4 DEF Cancel, recordVars, runVars, ghostVars
    <3>2. CASE GivesBack(i)  BY <3>1, <3>2, GivesBackReturns
    <3>3. CASE UNCHANGED <<results, Waiting, Recorded>>
      <4>1. \A j \in Texts : Undecided(j)' <=> Undecided(j)  BY <3>1 DEF Undecided
      <4>2. \A j \in Texts : Standing(j)' = Standing(j)  BY <3>1, <3>3, <4>1, StandingStays
      <4> QED BY <3>3, <4>2, StandStill
    <3> QED BY <1>1, <2>4, <3>2, <3>3, CancelKeeps
  <2>5. CASE Notify(i)  BY <2>5, NotifyKeepsPromise
  <2> QED BY <1>2, <2>1, <2>2, <2>3, <2>4, <2>5 DEF HandlerStep
<1>3. CASE Consume  BY <1>1, <1>3, ConsumeKeepsPromise
<1>4. CASE PassSaves  BY <1>1, <1>4, PassSavesKeepsPromise
<1>5. CASE ReturnDrained
  <2>1. UNCHANGED <<pc, opener, consumed, opened, accepted>>
    BY <1>5 DEF ReturnDrained, handlerVars, runVars, ghostVars
  <2>2. PICK i \in Texts : GivesBack(i)  BY <1>1, <1>5, ReturnDrainedKeeps
  <2> QED BY <2>1, <2>2, GivesBackReturns
<1>6. CASE \/ PassPrepares \/ Poll \/ CheckpointFlushed \/ RunEnds \/ PassReturns
           \/ Answered \/ CallFails \/ Interrupted \/ Announced \/ Stop \/ RetryTurn \/ UNCHANGED vars
  BY <1>1, <1>6, RunKeepsPromise
<1> QED BY <1>2, <1>3, <1>4, <1>5, <1>6 DEF Next, RunStep, CallEnds

\* The code implements the promise made to who submits a text: one fate at a time and
\* in one direction, one answer at most, FALSE only to a text no model ever gets.
THEOREM PromiseIsKept == Spec => KeepsPromise
<1>1. Init => Promise!Init
  <2> SUFFICES ASSUME Init PROVE Promise!Init
    OBVIOUS
  <2>1. \A i \in Texts : FateOf(i) = "new"  BY DEF Init, FateOf
  <2>2. results = [i \in Texts |-> <<>>]  BY DEF Init
  <2> QED BY <2>1, <2>2 DEF Promise!Init
<1>2. IInv => FateIsStanding  BY StandingIsFate
<1>3. IInv /\ FateIsStanding /\ FateIsStanding' /\ [Next]_vars => [Promise!Next]_promiseVars
  BY StepKeepsPromise
<1>4. Spec => [](FateIsStanding /\ IInv)  BY <1>2, PlaceInvHolds, PTL
<1> QED BY <1>1, <1>3, <1>4, PTL DEF Spec, KeepsPromise, Promise!Spec, promiseVars

=============================================================================
