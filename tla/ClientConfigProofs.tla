------------------------- MODULE ClientConfigProofs -------------------------
(***************************************************************************)
(* Theorems about ClientConfig, for any number of clients and of configs   *)
(* made from each other, with any options, base URLs and environments.     *)
(* IInv says that a config is what the words it has heard so far amount    *)
(* to, and that nobody else's words are among them.                        *)
(***************************************************************************)
EXTENDS ClientConfig, SequenceTheorems, FiniteSetTheorems, WellFoundedInduction, TLAPS

-----------------------------------------------------------------------------
(* Numbers and their order.                                                 *)

LEMMA LeastOfNaturals ==
  ASSUME NEW S \in SUBSET Nat, S # {}
  PROVE  \E i \in S : \A j \in S : i <= j
  <1>1. PICK i \in S : \A j \in S : <<j, i>> \notin OpToRel(<, Nat)
    BY WFMin, NatLessThanWellFounded, Zenon
  <1>2. \A j \in S : ~(j < i)
    BY <1>1, Zenon DEF OpToRel
  <1>3. \A j \in S : i <= j
    BY <1>2
  <1>4. QED
    BY <1>3

LEMMA MaxIs ==
  ASSUME NEW m \in Nat, NEW S \in SUBSET (0..m), S # {}
  PROVE  Max(S) \in S /\ \A j \in S : j <= Max(S)
  <1> DEFINE T == { m - i : i \in S }
  <1>1. T \in SUBSET Nat /\ T # {}
    <2>1. \A i \in S : m - i \in Nat
      OBVIOUS
    <2>2. QED
      BY <2>1
  <1>2. PICK k \in T : \A j \in T : k <= j
    BY <1>1, LeastOfNaturals
  <1>3. PICK i \in S : k = m - i
    OBVIOUS
  <1>4. \A j \in S : i >= j
    <2>1. TAKE j \in S
    <2>2. m - i <= m - j
      BY <1>2, <1>3
    <2>3. i \in Nat /\ j \in Nat
      OBVIOUS
    <2>4. QED
      BY <2>2, <2>3
  <1>5. Max(S) \in S /\ \A j \in S : Max(S) >= j
    BY <1>4, Zenon DEF Max
  <1>6. QED
    BY <1>5

LEMMA MaxIsThis ==
  ASSUME NEW m \in Nat, NEW S \in SUBSET (0..m), NEW i \in S, \A j \in S : j <= i
  PROVE  Max(S) = i
  <1>1. Max(S) \in S /\ i <= Max(S)
    BY MaxIs
  <1> HIDE DEF Max
  <1>2. Max(S) \in 0..m /\ i \in 0..m /\ Max(S) <= i
    BY <1>1
  <1>3. QED
    BY <1>1, <1>2

\* One more number, above all others, comes last.
LEMMA NthGrows ==
  ASSUME NEW m \in Nat, NEW S \in SUBSET (1..m)
  PROVE  /\ Cardinality(S) \in Nat
         /\ Cardinality(S \cup {m + 1}) = Cardinality(S) + 1
         /\ \A n \in 1..Cardinality(S) : Nth(S \cup {m + 1}, n) = Nth(S, n)
         /\ Nth(S \cup {m + 1}, Cardinality(S) + 1) = m + 1
  <1> DEFINE U == S \cup {m + 1}
             Below(R, x) == { y \in R : y <= x }
             At(R, n) == { x \in R : Cardinality(Below(R, x)) = n }
  <1>1. IsFiniteSet(S) /\ Cardinality(S) \in Nat
    <2>1. IsFiniteSet(1..m)
      BY FS_Interval
    <2>2. QED
      BY <2>1, FS_Subset, FS_CardinalityType
  <1>2. m + 1 \notin S /\ \A x \in S : x \in Nat /\ x <= m
    OBVIOUS
  <1>3. Cardinality(U) = Cardinality(S) + 1
    BY <1>1, <1>2, FS_AddElement
  <1>4. \A x \in S : Below(U, x) = Below(S, x)
    BY <1>2
  <1>5. Below(U, m + 1) = U
    <2>1. \A x \in U : x <= m + 1
      BY <1>2
    <2>2. QED
      BY <2>1
  <1>6. ASSUME NEW x \in S PROVE Cardinality(Below(S, x)) \in Nat /\ Cardinality(Below(S, x)) <= Cardinality(S)
    <2>1. Below(S, x) \in SUBSET S
      OBVIOUS
    <2> HIDE DEF Below
    <2>2. QED
      BY <1>1, <2>1, FS_Subset, FS_CardinalityType
  <1> HIDE DEF Below
  <1>7. ASSUME NEW n \in 1..Cardinality(S) PROVE At(U, n) = At(S, n)
    <2>1. Cardinality(Below(U, m + 1)) # n
      BY <1>1, <1>3, <1>5
    <2>2. QED
      BY <1>4, <2>1
  <1>8. At(U, Cardinality(S) + 1) = {m + 1}
    <2>1. \A x \in S : Cardinality(Below(U, x)) # Cardinality(S) + 1
      BY <1>1, <1>4, <1>6
    <2>2. QED
      BY <1>3, <1>5, <2>1
  <1>9. \A R, n : Nth(R, n) = CHOOSE i \in At(R, n) : TRUE
    BY Zenon DEF Nth, At, Below
  <1> HIDE DEF At
  <1>10. \A n \in 1..Cardinality(S) : Nth(U, n) = Nth(S, n)
    BY <1>7, <1>9
  <1>11. Nth(U, Cardinality(S) + 1) = m + 1
    <2>1. Nth(U, Cardinality(S) + 1) = CHOOSE i \in {m + 1} : TRUE
      BY <1>8, <1>9
    <2>2. QED
      BY <2>1
  <1>12. QED
    BY <1>1, <1>3, <1>10, <1>11

\* A set of numbers has an n-th one.
LEMMA NthIsIn ==
  ASSUME NEW m \in Nat, NEW S \in SUBSET (1..m), NEW n \in 1..Cardinality(S)
  PROVE  Nth(S, n) \in S
  <1> DEFINE Below(i) == { y \in S : y <= i }
             Enough == { i \in 0..m : Cardinality(Below(i)) >= n }
  <1>1. IsFiniteSet(S) /\ Cardinality(S) \in Nat
    <2>1. IsFiniteSet(1..m)
      BY FS_Interval
    <2>2. QED
      BY <2>1, FS_Subset, FS_CardinalityType
  <1>2. \A i \in 0..m : IsFiniteSet(Below(i)) /\ Cardinality(Below(i)) \in Nat
    <2>1. \A i \in 0..m : Below(i) \in SUBSET S
      OBVIOUS
    <2> HIDE DEF Below
    <2>2. QED
      BY <1>1, <2>1, FS_Subset, FS_CardinalityType
  <1>3. Below(m) = S /\ Below(0) = {}
    <2>1. \A y \in S : y <= m /\ ~(y <= 0)
      OBVIOUS
    <2>2. QED
      BY <2>1
  <1>4. \A i \in 0..(m - 1) : Below(i + 1) = IF i + 1 \in S THEN Below(i) \cup {i + 1} ELSE Below(i)
    <2>1. TAKE i \in 0..(m - 1)
    <2>2. \A y \in S : y <= i + 1 <=> y <= i \/ y = i + 1
      OBVIOUS
    <2>3. QED
      BY <2>2
  <1>5. \A i \in 0..(m - 1) : i + 1 \notin Below(i)
    OBVIOUS
  <1> HIDE DEF Below
  <1>6. m \in Enough
    BY <1>1, <1>3
  <1>7. PICK i \in Enough : \A j \in Enough : i <= j
    <2>1. Enough \in SUBSET Nat /\ Enough # {}
      BY <1>6
    <2> HIDE DEF Enough
    <2>2. QED
      BY <2>1, LeastOfNaturals
  <1>8. i # 0
    BY <1>3, <1>7, FS_EmptySet
  <1>9. Cardinality(Below(i - 1)) < n
    <2>1. i - 1 \notin Enough /\ i - 1 \in 0..m
      BY <1>7, <1>8
    <2>2. QED
      BY <1>2, <2>1
  <1>10. i - 1 \in 0..(m - 1) /\ (i - 1) + 1 = i
    BY <1>7, <1>8
  <1>11. i \in S /\ Cardinality(Below(i)) = Cardinality(Below(i - 1)) + 1
    <2>1. Cardinality(Below(i)) >= n
      BY <1>7
    <2>2. Below(i) # Below(i - 1)
      BY <1>2, <1>9, <1>10, <2>1
    <2>3. i \in S /\ Below(i) = Below(i - 1) \cup {i} /\ i \notin Below(i - 1)
      BY <1>4, <1>5, <1>10, <2>2
    <2>4. IsFiniteSet(Below(i - 1))
      <3>1. i - 1 \in 0..m
        BY <1>10
      <3>2. QED
        BY <1>2, <3>1
    <2>5. Cardinality(Below(i - 1) \cup {i}) = Cardinality(Below(i - 1)) + 1
      BY <2>3, <2>4, FS_AddElement
    <2>6. QED
      BY <2>3, <2>5
  <1>12. Cardinality(Below(i)) = n
    BY <1>2, <1>7, <1>9, <1>10, <1>11
  <1>13. i \in { x \in S : Cardinality({ y \in S : y <= x }) = n }
    BY <1>11, <1>12 DEF Below
  <1>14. QED
    BY <1>13, Zenon DEF Nth

-----------------------------------------------------------------------------
(* Base URLs.                                                               *)

LEMMA SuffixIs ==
  ASSUME NEW T, NEW s \in Seq(T), NEW t \in Seq(T)
  PROVE  IsSuffix(s, t) <=> /\ Len(s) <= Len(t)
                            /\ \A k \in 1..Len(s) : s[k] = t[Len(t) - Len(s) + k]
  <1> DEFINE n == Len(s)
             m == Len(t)
             r == Reverse(s)
             u == Reverse(t)
  <1>1. n \in Nat /\ m \in Nat
    OBVIOUS
  <1>2. /\ r \in Seq(T) /\ Len(r) = n /\ \A k \in 1..n : r[k] = s[n - k + 1]
        /\ u \in Seq(T) /\ Len(u) = m /\ \A k \in 1..m : u[k] = t[m - k + 1]
    BY DEF Reverse
  <1>3. IsSuffix(s, t) <=> n <= m /\ SubSeq(r, 1, n) = SubSeq(u, 1, n)
    BY <1>2 DEF IsSuffix, IsPrefix
  <1> HIDE DEF n, m, r, u
  <1>4. ASSUME n <= m
        PROVE  SubSeq(r, 1, n) = SubSeq(u, 1, n) <=> \A k \in 1..n : s[n - k + 1] = t[m - k + 1]
    <2>1. 1..n \subseteq 1..m
      BY <1>1, <1>4
    <2>2. /\ SubSeq(r, 1, n) = [k \in 1..n |-> r[k]]
          /\ SubSeq(u, 1, n) = [k \in 1..n |-> u[k]]
      BY <1>1, <1>2, <1>4
    <2>3. SubSeq(r, 1, n) = SubSeq(u, 1, n) <=> \A k \in 1..n : r[k] = u[k]
      BY <2>2
    <2>4. QED
      BY <1>2, <2>1, <2>3
  <1>5. (\A k \in 1..n : s[n - k + 1] = t[m - k + 1]) <=> \A k \in 1..n : s[k] = t[m - n + k]
    <2>1. \A k \in 1..n : /\ n - k + 1 \in 1..n /\ m - (n - k + 1) + 1 = m - n + k
                          /\ n - (n - k + 1) + 1 = k /\ m - n + (n - k + 1) = m - k + 1
      BY <1>1
    <2>2. ASSUME \A k \in 1..n : s[n - k + 1] = t[m - k + 1], NEW k \in 1..n
          PROVE  s[k] = t[m - n + k]
      <3>1. s[n - (n - k + 1) + 1] = t[m - (n - k + 1) + 1]
        BY <2>1, <2>2, Zenon
      <3>2. QED
        BY <2>1, <3>1, Zenon
    <2>3. ASSUME \A k \in 1..n : s[k] = t[m - n + k], NEW k \in 1..n
          PROVE  s[n - k + 1] = t[m - k + 1]
      <3>1. s[n - k + 1] = t[m - n + (n - k + 1)]
        BY <2>1, <2>3, Zenon
      <3>2. QED
        BY <2>1, <3>1, Zenon
    <2>4. QED
      BY <2>2, <2>3, Zenon
  <1>6. QED
    BY <1>3, <1>4, <1>5 DEF n, m

\* Of two suffixes of one length there is but one.
LEMMA SuffixesAgree ==
  ASSUME NEW T, NEW s \in Seq(T), NEW t \in Seq(T), NEW p \in Seq(T),
         IsSuffix(s, p), IsSuffix(t, p), Len(s) = Len(t)
  PROVE  s = t
  <1>1. \A k \in 1..Len(s) : s[k] = t[k]
    BY SuffixIs
  <1>2. QED
    BY <1>1

LEMMA TrimTo ==
  ASSUME NEW p \in Seq(Segments), NEW n \in Nat, NEW m \in Nat, m <= n, n <= Len(p),
         m = 0 \/ p[m] # Gap, \A k \in (m + 1)..n : p[k] = Gap
  PROVE  TrimSlashes(SubSeq(p, 1, n)) = SubSeq(p, 1, m)
  <1> DEFINE q == SubSeq(p, 1, n)
             S == {0} \cup { i \in 1..Len(q) : q[i] # Gap }
  <1>1. q \in Seq(Segments) /\ Len(q) = n /\ \A k \in 1..n : q[k] = p[k]
    OBVIOUS
  <1>2. TrimSlashes(q) = SubSeq(q, 1, Max(S))
    BY DEF TrimSlashes
  <1> HIDE DEF q
  <1>3. S \in SUBSET (0..n) /\ m \in S
    BY <1>1
  <1>4. \A j \in S : j <= m
    <2>1. TAKE j \in S
    <2>2. CASE j = 0
      BY <2>2
    <2>3. CASE j # 0
      <3>1. j \in 1..n /\ p[j] # Gap
        BY <1>1, <2>3
      <3>2. ~(j \in (m + 1)..n)
        BY <3>1
      <3>3. QED
        BY <3>1, <3>2
    <2>4. QED
      BY <2>2, <2>3
  <1>5. Max(S) = m
    <2> HIDE DEF S
    <2>1. QED
      BY <1>3, <1>4, MaxIsThis
  <1>6. SubSeq(q, 1, m) = SubSeq(p, 1, m)
    BY <1>1 DEF q
  <1>7. QED
    BY <1>2, <1>5, <1>6 DEF q

LEMMA LegacySuffixesAreSpelt ==
  \A x \in LegacySuffixes : x \in Seq(Segments) /\ Len(x) \in Nat \ {0} /\ x[Len(x)] # Gap
  <1>1. /\ "api" # Gap /\ "v1" # Gap /\ "registry" # Gap
        /\ "api" \in Segments /\ "v1" \in Segments /\ "registry" \in Segments
    BY ConfigAssumption DEF Gap
  <1>2. ASSUME NEW a \in Segments, NEW b \in Segments
        PROVE  /\ <<a, b>> \in Seq(Segments) /\ Len(<<a, b>>) = 2 /\ <<a, b>>[2] = b
               /\ <<b>> \in Seq(Segments) /\ Len(<<b>>) = 1 /\ <<b>>[1] = b
    OBVIOUS
  <1>3. \A x, n : x \in Seq(Segments) /\ Len(x) = n /\ n \in {1, 2} /\ x[n] # Gap
               => x \in Seq(Segments) /\ Len(x) \in Nat \ {0} /\ x[Len(x)] # Gap
    OBVIOUS
  <1>4. TAKE x \in LegacySuffixes
  <1>5. CASE x = <<"api", "v1">>
    BY <1>1, <1>2, <1>3, <1>5
  <1>6. CASE x = <<"v1", "registry">>
    BY <1>1, <1>2, <1>3, <1>6
  <1>7. CASE x = <<"v1">>
    BY <1>1, <1>2, <1>3, <1>7
  <1>8. QED
    BY <1>5, <1>6, <1>7, Zenon DEF LegacySuffixes

LEMMA MatchedIs ==
  ASSUME NEW p, TrimSlashes(p) \in Seq(Segments),
         NEW y \in LegacySuffixes \cup {<<>>}, IsSuffix(y, TrimSlashes(p)),
         \A x \in LegacySuffixes : IsSuffix(x, TrimSlashes(p)) => Len(x) <= Len(y)
  PROVE  Matched(p) = y
  <1> DEFINE Ends == { x \in LegacySuffixes \cup {<<>>} : IsSuffix(x, TrimSlashes(p)) }
  <1>1. \A x \in LegacySuffixes \cup {<<>>} : x \in Seq(Segments) /\ Len(x) \in Nat
    <2>1. <<>> \in Seq(Segments) /\ Len(<<>>) = 0
      OBVIOUS
    <2>2. QED
      BY <2>1, LegacySuffixesAreSpelt
  <1>2. y \in Ends /\ \A x \in Ends : Len(x) <= Len(y)
    <2>1. \A x \in Ends : x = <<>> => Len(x) <= Len(y)
      <3>1. Len(<<>>) = 0 /\ Len(y) \in Nat
        BY <1>1
      <3>2. QED
        BY <3>1
    <2>2. QED
      BY <2>1
  <1>3. Matched(p) = CHOOSE x \in Ends : \A z \in Ends : Len(z) <= Len(x)
    BY DEF Matched
  <1>4. \A x \in Ends : (\A z \in Ends : Len(z) <= Len(x)) => x = y
    <2>1. SUFFICES ASSUME NEW x \in Ends, \A z \in Ends : Len(z) <= Len(x)
                   PROVE  x = y
      OBVIOUS
    <2>2. Len(x) = Len(y)
      BY <1>1, <1>2, <2>1
    <2>3. QED
      BY <1>1, <2>2, SuffixesAgree
  <1> HIDE DEF Ends
  <1>5. QED
    BY <1>2, <1>3, <1>4

\* However a base URL is written, it comes down to its root and one slash.
LEMMA NormalForm ==
  ASSUME NEW s \in DOMAIN Spellings
  PROVE  /\ Spellings[s].root \in Seq(Segments)
         /\ NormalizeBaseURL(Written(s)) = Spellings[s].root \o <<Gap>>
  <1> DEFINE root == Spellings[s].root
             rest == Spellings[s].rest
             p == root \o rest
             R == Len(root)
             L == Len(rest)
  <1>1. root \in Seq(Segments) /\ rest \in Seq(Segments)
    BY ConfigAssumption
  <1>2. PICK i \in 0..L : \E j \in i..L : Spelt(Spellings[s], i, j)
    BY ConfigAssumption
  <1>3. PICK j \in i..L : Spelt(Spellings[s], i, j)
    BY <1>2
  <1>4. /\ \A k \in 1..L : k <= i \/ j + 1 <= k => rest[k] = Gap
        /\ SubSeq(rest, i + 1, j) \in LegacySuffixes \cup {<<>>}
        /\ root # <<>> => root[R] # Gap
        /\ \A x \in LegacySuffixes :
             /\ ~IsSuffix(x, root)
             /\ IsSuffix(x, root \o SubSeq(rest, 1, j)) => Len(x) <= j - i
    <2>1. \A k \in 1..L : k <= i \/ j + 1 <= k => k \in (1..i) \cup ((j + 1)..L)
      <3> HIDE DEF L
      <3>1. QED
        OBVIOUS
    <2>2. QED
      BY <1>3, <2>1 DEF Spelt
  <1> HIDE DEF root, rest
  <1>5. R \in Nat /\ L \in Nat /\ i \in Nat /\ j \in Nat /\ i <= j /\ j <= L /\ (R = 0 \/ root # <<>>)
    BY <1>1, <1>2, <1>3
  <1>6. /\ p \in Seq(Segments) /\ Len(p) = R + L /\ SubSeq(p, 1, R + L) = p /\ SubSeq(p, 1, R) = root
        /\ \A k \in 1..R : p[k] = root[k]
        /\ \A k \in 1..L : p[R + k] = rest[k]
    <2>1. /\ p \in Seq(Segments) /\ Len(p) = R + L /\ \A k \in 1..R : p[k] = root[k]
          /\ \A k \in 1..L : p[R + k] = rest[k]
      BY <1>1
    <2> HIDE DEF p
    <2>2. SubSeq(p, 1, R + L) = p
      BY <2>1
    <2>3. SubSeq(p, 1, R) = root
      BY <1>1, <1>5, <2>1
    <2>4. QED
      BY <2>1, <2>2, <2>3
  <1>7. \A k \in (R + 1)..(R + L) : k - R \in 1..L /\ R + (k - R) = k
    BY <1>5
  <1> HIDE DEF p, R, L
  \* Up to n, where slashes are all that follows the root.
  <1>8. ASSUME NEW n \in Nat, R <= n, n <= R + L, \A k \in (R + 1)..n : p[k] = Gap
        PROVE  TrimSlashes(SubSeq(p, 1, n)) = root
    <2>1. R = 0 \/ p[R] # Gap
      <3>1. R # 0 => R \in 1..R
        BY <1>5
      <3>2. QED
        BY <1>4, <1>5, <1>6, <3>1
    <2>2. QED
      BY <1>5, <1>6, <1>8, <2>1, TrimTo
  <1>9. CASE i = j
    <2>1. \A k \in (R + 1)..(R + L) : p[k] = Gap
      <3>1. \A k \in 1..L : rest[k] = Gap
        <4>1. \A k \in 1..L : k <= i \/ j + 1 <= k
          BY <1>5, <1>9
        <4>2. QED
          BY <1>4, <4>1
      <3>2. QED
        BY <1>6, <1>7, <3>1
    <2>2. TrimSlashes(p) = root
      <3>1. R + L \in Nat /\ R <= R + L /\ R + L <= R + L
        BY <1>5
      <3>2. TrimSlashes(SubSeq(p, 1, R + L)) = root
        BY <1>8, <2>1, <3>1
      <3>3. QED
        BY <1>6, <3>2
    <2>3. Matched(p) = <<>>
      <3>1. IsSuffix(<<>>, root)
        <4>1. <<>> \in Seq(Segments) /\ Len(<<>>) = 0 /\ Len(<<>>) <= Len(root) /\ 1..Len(<<>>) = {}
          BY <1>1
        <4>2. QED
          BY <1>1, <4>1, SuffixIs
      <3>2. QED
        BY <1>1, <1>4, <2>2, <3>1, MatchedIs
    <2>4. QED
      BY <1>1, <2>2, <2>3 DEF NormalizeBaseURL, StripLegacyBaseURLSuffix, Written, p, root, rest
  <1>10. CASE i # j
    <2> DEFINE y == SubSeq(rest, i + 1, j)
               q == root \o SubSeq(rest, 1, j)
    <2>1. /\ Len(y) = j - i /\ j - i \in Nat \ {0} /\ y \in Seq(Segments)
          /\ \A k \in 1..(j - i) : y[k] = rest[i + k]
      <3>1. i + 1 \in 1..L /\ j \in 1..L /\ i + 1 <= j
        BY <1>5, <1>10
      <3>2. QED
        BY <1>1, <1>5, <3>1 DEF L
    <2>2. y \in LegacySuffixes
      <3>1. y # <<>>
        BY <2>1
      <3> HIDE DEF y
      <3>2. QED
        BY <1>4, <3>1 DEF y
    <2>3. /\ q \in Seq(Segments) /\ Len(q) = R + j
          /\ \A k \in 1..j : q[R + k] = rest[k]
          /\ \A k \in 1..R : q[k] = root[k]
      <3>1. /\ SubSeq(rest, 1, j) \in Seq(Segments) /\ Len(SubSeq(rest, 1, j)) = j
            /\ \A k \in 1..j : SubSeq(rest, 1, j)[k] = rest[k]
        BY <1>1, <1>5 DEF L
      <3>2. QED
        BY <1>1, <1>5, <3>1 DEF R
    <2> HIDE DEF q
    <2>4. q = SubSeq(p, 1, R + j)
      <3>1. SubSeq(p, 1, R + j) \in Seq(Segments) /\ Len(SubSeq(p, 1, R + j)) = R + j
        BY <1>5, <1>6
      <3>2. \A k \in 1..(R + j) : SubSeq(p, 1, R + j)[k] = p[k]
        BY <1>5, <1>6
      <3>3. \A k \in 1..(R + j) : q[k] = p[k]
        <4>1. TAKE k \in 1..(R + j)
        <4>2. k \in 1..R \/ (k - R \in 1..j /\ k - R \in 1..L /\ R + (k - R) = k)
          BY <1>5
        <4>3. QED
          BY <1>6, <2>3, <4>2
      <3>4. QED
        BY <2>3, <3>1, <3>2, <3>3
    <2>5. p[R + j] # Gap
      <3>1. y[Len(y)] # Gap
        BY <2>2, LegacySuffixesAreSpelt
      <3>2. Len(y) = j - i /\ j - i \in 1..(j - i) /\ i + (j - i) = j /\ j \in 1..L
        BY <1>5, <2>1
      <3>3. y[j - i] = rest[j]
        BY <2>1, <3>2
      <3>4. QED
        BY <1>6, <3>1, <3>2, <3>3
    <2>6. TrimSlashes(p) = q
      <3>1. \A k \in (R + j + 1)..(R + L) : p[k] = Gap
        <4>1. TAKE k \in (R + j + 1)..(R + L)
        <4>2. k - R \in 1..L /\ R + (k - R) = k /\ j + 1 <= k - R
          BY <1>5
        <4>3. QED
          BY <1>4, <1>6, <4>2
      <3>2. R + j \in Nat /\ R + L \in Nat /\ R + j <= R + L /\ R + L <= Len(p)
        BY <1>5, <1>6
      <3>3. TrimSlashes(SubSeq(p, 1, R + L)) = SubSeq(p, 1, R + j)
        BY <1>6, <2>5, <3>1, <3>2, TrimTo
      <3>4. QED
        BY <1>6, <2>4, <3>3
    <2>7. IsSuffix(y, q)
      <3>1. Len(y) <= Len(q)
        BY <1>5, <2>1, <2>3
      <3>2. \A k \in 1..Len(y) : y[k] = q[Len(q) - Len(y) + k]
        <4>1. TAKE k \in 1..Len(y)
        <4>2. k \in 1..(j - i) /\ i + k \in 1..j /\ Len(q) - Len(y) + k = R + (i + k)
          BY <1>5, <2>1, <2>3
        <4>3. QED
          BY <2>1, <2>3, <4>2
      <3>3. QED
        BY <2>1, <2>3, <3>1, <3>2, SuffixIs
    <2> HIDE DEF y
    <2>8. Matched(p) = y
      <3>1. \A x \in LegacySuffixes : IsSuffix(x, q) => Len(x) <= Len(y)
        BY <1>4, <2>1 DEF q
      <3>2. QED
        BY <2>2, <2>3, <2>6, <2>7, <3>1, MatchedIs
    <2>9. StripLegacyBaseURLSuffix(p) = SubSeq(p, 1, R + i)
      <3>1. y # <<>>
        BY <2>1
      <3>2. StripLegacyBaseURLSuffix(p) = SubSeq(q, 1, Len(q) - Len(y))
        BY <2>6, <2>8, <3>1 DEF StripLegacyBaseURLSuffix
      <3>3. Len(q) - Len(y) = R + i
        BY <1>5, <2>1, <2>3
      <3>4. SubSeq(SubSeq(p, 1, R + j), 1, R + i) = SubSeq(p, 1, R + i)
        <4>1. R + j \in Nat /\ R + i \in Nat /\ R + i <= R + j /\ R + j <= Len(p)
          BY <1>5, <1>6
        <4>2. ASSUME NEW a \in Nat, NEW b \in Nat, b <= a, a <= Len(p)
              PROVE  SubSeq(SubSeq(p, 1, a), 1, b) = SubSeq(p, 1, b)
          BY <1>6, <4>2
        <4>3. QED
          BY <4>1, <4>2
      <3>5. QED
        BY <2>4, <3>2, <3>3, <3>4
    <2>10. TrimSlashes(SubSeq(p, 1, R + i)) = root
      <3>1. R + i \in Nat /\ R <= R + i /\ R + i <= R + L
        BY <1>5
      <3>2. \A k \in (R + 1)..(R + i) : p[k] = Gap
        <4>1. TAKE k \in (R + 1)..(R + i)
        <4>2. k - R \in 1..L /\ R + (k - R) = k /\ k - R <= i
          BY <1>5
        <4>3. QED
          BY <1>4, <1>6, <4>2
      <3>3. QED
        BY <1>8, <3>1, <3>2
    <2>11. QED
      BY <1>1, <2>9, <2>10 DEF NormalizeBaseURL, Written, p, root, rest
  <1>11. QED
    BY <1>1, <1>9, <1>10 DEF root
-----------------------------------------------------------------------------
(* The words said to a config, one after another.                           *)

Saying == [word : Word, by : Configs]

LEMMA Grown ==
  ASSUME NEW ws \in Seq(Saying), NEW x \in Saying
  PROVE  /\ Len(ws) \in Nat /\ 1..Len(Append(ws, x)) = 1..(Len(ws) + 1)
         /\ \A i \in 1..Len(ws) : i \in 1..(Len(ws) + 1) /\ i # Len(ws) + 1 /\ Append(ws, x)[i] = ws[i]
         /\ Len(ws) + 1 \in 1..(Len(ws) + 1) /\ Append(ws, x)[Len(ws) + 1] = x
         /\ \A i \in 1..(Len(ws) + 1) : (i \in 1..Len(ws) \/ i = Len(ws) + 1) /\ i <= Len(ws) + 1
  OBVIOUS

LEMMA LastWordGrows ==
  ASSUME NEW ws \in Seq(Saying), NEW x \in Saying, NEW kind, NEW unsaid
  PROVE  LastWord(Append(ws, x), kind, unsaid) =
           IF x.word.kind = kind THEN x.word.name ELSE LastWord(ws, kind, unsaid)
  <1> SUFFICES ASSUME NEW v, v = Append(ws, x), NEW n, n = Len(ws)
               PROVE  LastWord(v, kind, unsaid) =
                        IF x.word.kind = kind THEN x.word.name ELSE LastWord(ws, kind, unsaid)
    OBVIOUS
  <1> DEFINE Places(s) == { i \in 1..Len(s) : s[i].word.kind = kind }
  <1>1. /\ n \in Nat /\ 1..Len(v) = 1..(n + 1) /\ \A i \in 1..n : v[i] = ws[i] /\ i # n + 1
        /\ n + 1 \in 1..(n + 1) /\ v[n + 1] = x
        /\ \A i \in 1..(n + 1) : (i \in 1..n \/ i = n + 1) /\ i <= n + 1
    BY Grown
  <1>2. /\ LastWord(v, kind, unsaid) = IF Places(v) = {} THEN unsaid ELSE v[Max(Places(v))].word.name
        /\ LastWord(ws, kind, unsaid) = IF Places(ws) = {} THEN unsaid ELSE ws[Max(Places(ws))].word.name
    BY DEF LastWord
  <1>3. Places(v) = { i \in 1..(n + 1) : v[i].word.kind = kind } /\ Places(ws) = { i \in 1..n : ws[i].word.kind = kind }
    BY <1>1
  <1> HIDE DEF Places
  <1>4. CASE x.word.kind = kind
    <2>1. n + 1 \in Places(v) /\ \A j \in Places(v) : j <= n + 1
      BY <1>1, <1>3, <1>4
    <2>2. Places(v) \in SUBSET (0..(n + 1)) /\ n + 1 \in Nat
      BY <1>1, <1>3
    <2>3. Max(Places(v)) = n + 1
      BY <2>1, <2>2, MaxIsThis
    <2>4. QED
      BY <1>1, <1>2, <1>4, <2>1, <2>3
  <1>5. CASE x.word.kind # kind
    <2>1. Places(v) = Places(ws)
      <3>1. \A i : i \in Places(v) <=> i \in Places(ws)
        BY <1>1, <1>3, <1>5
      <3>2. QED
        BY <3>1
    <2>2. Places(ws) # {} => Max(Places(ws)) \in 1..n
      <3>1. Places(ws) \in SUBSET (0..n) /\ Places(ws) \in SUBSET (1..n)
        BY <1>1, <1>3
      <3>2. Places(ws) # {} => Max(Places(ws)) \in Places(ws)
        BY <1>1, <3>1, MaxIs
      <3>3. QED
        BY <3>1, <3>2
    <2>3. QED
      BY <1>1, <1>2, <1>5, <2>1, <2>2
  <1>6. QED
    BY <1>4, <1>5

LEMMA ValuesGrow ==
  ASSUME NEW ws \in Seq(Saying), NEW x \in Saying, NEW h
  PROVE  Values(Append(ws, x), h) =
           IF x.word.kind \notin HeaderKinds \/ x.word.name # h THEN Values(ws, h)
           ELSE IF x.word.kind = "set" THEN <<x.by>>
           ELSE IF x.word.kind = "add" THEN Append(Values(ws, h), x.by)
           ELSE <<>>
  <1> SUFFICES ASSUME NEW v, v = Append(ws, x), NEW n, n = Len(ws)
               PROVE  Values(v, h) =
                        IF x.word.kind \notin HeaderKinds \/ x.word.name # h THEN Values(ws, h)
                        ELSE IF x.word.kind = "set" THEN <<x.by>>
                        ELSE IF x.word.kind = "add" THEN Append(Values(ws, h), x.by)
                        ELSE <<>>
    OBVIOUS
  <1> DEFINE About(s, i) == s[i].word.kind \in HeaderKinds /\ s[i].word.name = h
             S == Sources(ws, h)
             k == Cardinality(S)
  <1>1. /\ n \in Nat /\ 1..Len(v) = 1..(n + 1) /\ 1..Len(ws) = 1..n
        /\ \A i \in 1..n : v[i] = ws[i] /\ i # n + 1 /\ i \in 1..(n + 1) /\ ~(n + 1 <= i)
        /\ n + 1 \in 1..(n + 1) /\ v[n + 1] = x
        /\ \A i \in 1..(n + 1) : (i \in 1..n \/ i = n + 1) /\ i <= n + 1
    BY Grown
  <1>2. ASSUME NEW s, NEW m, 1..Len(s) = 1..m
        PROVE  \A i : i \in Sources(s, h) <=>
                 /\ i \in 1..m /\ About(s, i) /\ s[i].word.kind # "del"
                 /\ \A j \in 1..m : About(s, j) /\ s[j].word.kind # "add" => j <= i
    BY <1>2, Zenon DEF Sources
  <1>3. /\ \A i : i \in S <=>
             /\ i \in 1..n /\ About(ws, i) /\ ws[i].word.kind # "del"
             /\ \A j \in 1..n : About(ws, j) /\ ws[j].word.kind # "add" => j <= i
        /\ \A i : i \in Sources(v, h) <=>
             /\ i \in 1..(n + 1) /\ About(v, i) /\ v[i].word.kind # "del"
             /\ \A j \in 1..(n + 1) : About(v, j) /\ v[j].word.kind # "add" => j <= i
    BY <1>1, <1>2
  <1> HIDE DEF S
  <1>4. \A i \in 1..n : About(v, i) <=> About(ws, i)
    BY <1>1
  <1>5. About(v, n + 1) <=> x.word.kind \in HeaderKinds /\ x.word.name = h
    BY <1>1
  <1> HIDE DEF About
  <1>6. S \in SUBSET (1..n) /\ k \in Nat
    BY <1>1, <1>3, NthGrows
  <1>7. /\ Values(v, h) = [i \in 1..Cardinality(Sources(v, h)) |-> v[Nth(Sources(v, h), i)].by]
        /\ Values(ws, h) = [i \in 1..k |-> ws[Nth(S, i)].by]
    BY DEF Values, S
  <1>8. \A i \in 1..k : Nth(S, i) \in 1..n
    BY <1>1, <1>6, NthIsIn
  <1> HIDE DEF k
  <1>9. CASE ~About(v, n + 1)
    <2>1. \A i : i \in Sources(v, h) <=> i \in S
      BY <1>1, <1>3, <1>4, <1>9
    <2>2. Sources(v, h) = S
      BY <2>1
    <2>3. \A i \in 1..k : v[Nth(S, i)].by = ws[Nth(S, i)].by
      BY <1>1, <1>8
    <2>4. Values(v, h) = [i \in 1..k |-> v[Nth(S, i)].by]
      BY <1>7, <2>2, Zenon DEF k
    <2>5. Values(v, h) = Values(ws, h)
      BY <1>7, <2>3, <2>4, Zenon
    <2>6. QED
      BY <1>5, <1>9, <2>5
  <1>10. CASE About(v, n + 1) /\ x.word.kind = "add"
    <2>1. \A i : i \in Sources(v, h) <=> i \in S \cup {n + 1}
      BY <1>1, <1>3, <1>4, <1>10
    <2>2. Sources(v, h) = S \cup {n + 1}
      BY <2>1
    <2>3. /\ Cardinality(S \cup {n + 1}) = k + 1 /\ Nth(S \cup {n + 1}, k + 1) = n + 1
          /\ \A i \in 1..k : Nth(S \cup {n + 1}, i) = Nth(S, i)
      BY <1>1, <1>6, NthGrows DEF k
    <2>4. Values(v, h) = [i \in 1..(k + 1) |-> v[Nth(S \cup {n + 1}, i)].by]
      <3>1. Cardinality(Sources(v, h)) = k + 1
        BY <2>2, <2>3
      <3>2. Values(v, h) = [i \in 1..(k + 1) |-> v[Nth(Sources(v, h), i)].by]
        BY <1>7, <3>1, Zenon
      <3>3. QED
        BY <2>2, <3>2, Zenon
    <2>5. \A i \in 1..(k + 1) : i \in 1..k \/ i = k + 1
      BY <1>6
    <2>6. \A i \in 1..k : v[Nth(S, i)] = ws[Nth(S, i)] /\ i # k + 1
      BY <1>1, <1>6, <1>8
    <2>7. Values(v, h) = [i \in 1..(k + 1) |-> IF i = k + 1 THEN x.by ELSE ws[Nth(S, i)].by]
      <3>1. \A i \in 1..(k + 1) : v[Nth(S \cup {n + 1}, i)].by = IF i = k + 1 THEN x.by ELSE ws[Nth(S, i)].by
        BY <1>1, <2>3, <2>5, <2>6, Zenon
      <3>2. QED
        BY <2>4, <3>1, Zenon
    <2>8. Append(Values(ws, h), x.by) = [i \in 1..(k + 1) |-> IF i = k + 1 THEN x.by ELSE ws[Nth(S, i)].by]
      <3>1. Values(ws, h) \in Seq({ ws[Nth(S, i)].by : i \in 1..k }) /\ Len(Values(ws, h)) = k
        <4> DEFINE by(i) == ws[Nth(S, i)].by
        <4>1. Values(ws, h) = [i \in 1..k |-> by(i)]
          BY <1>7
        <4> HIDE DEF by
        <4>2. [i \in 1..k |-> by(i)] \in Seq({ by(i) : i \in 1..k }) /\ Len([i \in 1..k |-> by(i)]) = k
          BY <1>6
        <4>3. QED
          BY <4>1, <4>2 DEF by
      <3>2. Append(Values(ws, h), x.by) = [i \in 1..(k + 1) |-> IF i = k + 1 THEN x.by ELSE Values(ws, h)[i]]
        BY <1>6, <3>1
      <3>3. QED
        BY <1>7, <2>5, <3>2
    <2>9. QED
      BY <1>5, <1>10, <2>7, <2>8
  <1>11. CASE About(v, n + 1) /\ x.word.kind # "add"
    <2>1. \A i : i \in Sources(v, h) <=> i = n + 1 /\ x.word.kind # "del"
      BY <1>1, <1>3, <1>4, <1>11
    <2>2. CASE x.word.kind = "del"
      <3>1. Sources(v, h) = {} /\ Cardinality(Sources(v, h)) = 0
        BY <2>1, <2>2, FS_EmptySet
      <3>2. Values(v, h) = <<>>
        BY <1>7, <3>1
      <3>3. QED
        BY <1>5, <1>11, <2>2, <3>2 DEF HeaderKinds
    <2>3. CASE x.word.kind # "del"
      <3>1. Sources(v, h) = {n + 1}
        BY <2>1, <2>3
      <3>2. Cardinality({n + 1}) = 1 /\ Nth({n + 1}, 1) = n + 1
        <4>1. Cardinality({}) = 0 /\ {} \in SUBSET (1..n) /\ {} \cup {n + 1} = {n + 1}
          BY FS_EmptySet
        <4>2. /\ Cardinality({} \cup {n + 1}) = Cardinality({}) + 1
              /\ Nth({} \cup {n + 1}, Cardinality({}) + 1) = n + 1
          BY <1>1, <4>1, NthGrows
        <4>3. QED
          BY <4>1, <4>2
      <3>3. Values(v, h) = [i \in 1..1 |-> x.by]
        <4>1. \A i \in 1..1 : i = 1
          OBVIOUS
        <4>2. \A i \in 1..1 : v[Nth({n + 1}, i)].by = x.by
          BY <1>1, <3>2, <4>1
        <4>3. Values(v, h) = [i \in 1..1 |-> v[Nth({n + 1}, i)].by]
          BY <1>7, <3>1, <3>2, ZenonT(30)
        <4>4. QED
          BY <4>2, <4>3, Zenon
      <3>4. Values(v, h) = <<x.by>>
        BY <3>3
      <3>5. x.word.kind = "set"
        BY <1>5, <1>11, <2>3 DEF HeaderKinds
      <3>6. QED
        BY <1>5, <1>11, <3>4, <3>5
    <2>4. QED
      BY <2>2, <2>3
  <1>12. QED
    BY <1>9, <1>10, <1>11

\* The legacy base URLs that c names, one after another.
LEMMA LegacyBasesGrow ==
  ASSUME NEW ws \in Seq(Saying), NEW x \in Saying, NEW c
  PROVE  /\ Cardinality(LegacyBases(ws, c)) \in Nat
         /\ Cardinality(LegacyBases(Append(ws, x), c)) =
              IF x.by = c /\ x.word.kind = "base" /\ Matched(Written(x.word.name)) # <<>>
                THEN Cardinality(LegacyBases(ws, c)) + 1 ELSE Cardinality(LegacyBases(ws, c))
  <1> DEFINE Hit(w) == w.by = c /\ w.word.kind = "base" /\ Matched(Written(w.word.name)) # <<>>
  <1> SUFFICES ASSUME NEW v, v = Append(ws, x), NEW n, n = Len(ws)
               PROVE  /\ Cardinality(LegacyBases(ws, c)) \in Nat
                      /\ Cardinality(LegacyBases(v, c)) =
                           IF Hit(x) THEN Cardinality(LegacyBases(ws, c)) + 1
                                     ELSE Cardinality(LegacyBases(ws, c))
    OBVIOUS
  <1>1. \A s : LegacyBases(s, c) = { i \in 1..Len(s) : Hit(s[i]) }
    BY DEF LegacyBases
  <1> HIDE DEF Hit
  <1>2. /\ n \in Nat /\ 1..Len(v) = 1..(n + 1) /\ 1..Len(ws) = 1..n
        /\ \A i \in 1..n : v[i] = ws[i] /\ i # n + 1 /\ i \in 1..(n + 1)
        /\ n + 1 \in 1..(n + 1) /\ v[n + 1] = x
        /\ \A i \in 1..(n + 1) : i \in 1..n \/ i = n + 1
    BY Grown
  <1>3. \A i : i \in LegacyBases(v, c) <=> i \in LegacyBases(ws, c) \/ (i = n + 1 /\ Hit(x))
    <2>1. /\ \A i : i \in LegacyBases(v, c) <=> i \in 1..(n + 1) /\ Hit(v[i])
          /\ \A i : i \in LegacyBases(ws, c) <=> i \in 1..n /\ Hit(ws[i])
      BY <1>1, <1>2, Zenon
    <2>2. QED
      BY <1>2, <2>1
  <1>4. LegacyBases(ws, c) \in SUBSET (1..n)
    BY <1>1, <1>2
  <1>5. /\ Cardinality(LegacyBases(ws, c)) \in Nat
        /\ Cardinality(LegacyBases(ws, c) \cup {n + 1}) = Cardinality(LegacyBases(ws, c)) + 1
    BY <1>2, <1>4, NthGrows
  <1>6. LegacyBases(v, c) = IF Hit(x) THEN LegacyBases(ws, c) \cup {n + 1} ELSE LegacyBases(ws, c)
    BY <1>3
  <1>7. QED
    BY <1>5, <1>6

LEMMA Unsaid ==
  /\ \A kind, unsaid : LastWord(<<>>, kind, unsaid) = unsaid
  /\ \A h : Values(<<>>, h) = <<>>
  /\ \A c : LegacyBases(<<>>, c) = {} /\ Cardinality(LegacyBases(<<>>, c)) = 0
  <1>1. 1..Len(<<>>) = {}
    OBVIOUS
  <1>2. \A kind, unsaid : LastWord(<<>>, kind, unsaid) = unsaid
    BY <1>1 DEF LastWord
  <1>3. \A h : Values(<<>>, h) = <<>>
    <2>1. TAKE h
    <2>2. Sources(<<>>, h) = {}
      BY <1>1 DEF Sources
    <2>3. Cardinality(Sources(<<>>, h)) = 0
      BY <2>2, FS_EmptySet
    <2>4. QED
      BY <2>3 DEF Values
  <1>4. \A c : LegacyBases(<<>>, c) = {}
    BY <1>1 DEF LegacyBases
  <1>5. QED
    BY <1>2, <1>3, <1>4, FS_EmptySet

-----------------------------------------------------------------------------
(* The inductive invariant.                                                 *)

\* The options of a list, as words said by c.
SaidBy(opts, c) == [i \in 1..Len(opts) |-> [word |-> opts[i], by |-> c]]

Exists(c) == stage[c] \in {"building", "ready"}

\* Config c is what the words it has heard amount to; the others are its own, and
\* still to be applied.
Amounts(c, heard) ==
    /\ said[c] = heard \o SaidBy(left[c], c)
    /\ cfg[c].header = c
    /\ headers[c] = [h \in HeaderNames |-> Values(heard, h)]
    /\ cfg[c].credential = LastWord(heard, "auth", "none")
    /\ cfg[c].retries = LastWord(heard, "retries", "2")
    /\ cfg[c].writer = LastWord(heard, "writer", "discard")
    /\ cfg[c].prefix \in {<<>>, <<"apis", "cloud">>}
    /\ cfg[c].base # NoBase =>
         LET s == LastWord(heard, "base", "none") IN
           s \in DOMAIN Spellings /\ cfg[c].base = Spellings[s].root \o <<Gap>>
    /\ stage[c] = "building" =>
         /\ cfg[c].pending = Cardinality(LegacyBases(heard, c))
         /\ wrote[c] = <<>>
    /\ stage[c] = "ready" =>
         wrote[c] = [n \in 1..Cardinality(LegacyBases(heard, c)) |-> cfg[c].writer]

AmountsInv == \A c \in Configs : Exists(c) => \E heard \in Prefixes(said[c]) : Amounts(c, heard)

\* A config that nobody has begun to make has said nothing.
AuthorInv ==
    \A c \in Configs : stage[c] = "none" =>
        /\ wrote[c] = <<>>
        /\ \A d \in Configs : \A i \in 1..Len(said[d]) : said[d][i].by # c

\* A config that is ready has heard everything said to it.
ReadyInv == \A c \in Configs : stage[c] = "ready" => left[c] = <<>>

IInv == TypeOK /\ AmountsInv /\ AuthorInv /\ ReadyInv

LEMMA PrefixOf ==
  ASSUME NEW T, NEW s \in Seq(T), NEW t \in Seq(T)
  PROVE  s \in Prefixes(s \o t)
  <1> DEFINE n == Len(s)
             v == s \o t
  <1>1. n \in Nat /\ n <= Len(v) /\ Len(v) \in Nat /\ v \in Seq(T) /\ \A i \in 1..n : v[i] = s[i]
    OBVIOUS
  <1> HIDE DEF v
  <1>2. SubSeq(v, 1, n) = s
    BY <1>1
  <1>3. n \in 0..Len(v)
    BY <1>1
  <1>4. QED
    BY <1>2, <1>3 DEF Prefixes, v

LEMMA Joined ==
  ASSUME NEW T, NEW s \in Seq(T), NEW t \in Seq(T)
  PROVE  /\ s \o t \in Seq(T) /\ Len(s \o t) = Len(s) + Len(t)
         /\ \A i \in 1..Len(s) : (s \o t)[i] = s[i]
         /\ \A i \in 1..Len(t) : (s \o t)[Len(s) + i] = t[i]
  OBVIOUS

LEMMA SaidByIs ==
  ASSUME NEW opts \in Seq(Word), NEW c \in Configs
  PROVE  /\ SaidBy(opts, c) \in Seq(Saying) /\ Len(SaidBy(opts, c)) = Len(opts)
         /\ \A i \in 1..Len(opts) : SaidBy(opts, c)[i].by = c
         /\ opts = <<>> => SaidBy(opts, c) = <<>>
  <1> DEFINE say(i) == [word |-> opts[i], by |-> c]
  <1>1. Len(opts) \in Nat /\ \A i \in 1..Len(opts) : say(i) \in Saying /\ say(i).by = c
    BY DEF Saying
  <1>2. SaidBy(opts, c) = [i \in 1..Len(opts) |-> say(i)]
    BY DEF SaidBy
  <1> HIDE DEF say
  <1>3. QED
    BY <1>1, <1>2

\* The next option is the next word heard.
LEMMA HearNext ==
  ASSUME NEW heard \in Seq(Saying), NEW opts \in Seq(Word), opts # <<>>, NEW c \in Configs
  PROVE  heard \o SaidBy(opts, c) =
           Append(heard, [word |-> Head(opts), by |-> c]) \o SaidBy(Tail(opts), c)
  <1> DEFINE n == Len(heard)
             m == Len(opts)
             say(i) == [word |-> opts[i], by |-> c]
             a == heard \o SaidBy(opts, c)
             b == Append(heard, say(1)) \o SaidBy(Tail(opts), c)
  <1>1. /\ n \in Nat /\ m \in Nat /\ m >= 1 /\ Head(opts) = opts[1] /\ opts[1] \in Word
        /\ Tail(opts) \in Seq(Word) /\ Len(Tail(opts)) = m - 1
        /\ \A i \in 1..(m - 1) : Tail(opts)[i] = opts[i + 1]
    OBVIOUS
  <1>2. say(1) \in Saying
    BY <1>1 DEF Saying
  <1>3. /\ SaidBy(opts, c) \in Seq(Saying) /\ Len(SaidBy(opts, c)) = m
        /\ \A i \in 1..m : SaidBy(opts, c)[i] = say(i)
    BY SaidByIs DEF SaidBy
  <1>4. /\ SaidBy(Tail(opts), c) \in Seq(Saying) /\ Len(SaidBy(Tail(opts), c)) = m - 1
        /\ \A i \in 1..(m - 1) : SaidBy(Tail(opts), c)[i] = say(i + 1)
    BY <1>1, SaidByIs DEF SaidBy
  <1> HIDE DEF say
  <1>5. /\ a \in Seq(Saying) /\ Len(a) = n + m
        /\ \A i \in 1..n : a[i] = heard[i]
        /\ \A i \in 1..m : a[n + i] = say(i)
    BY <1>1, <1>3
  <1>6. /\ b \in Seq(Saying) /\ Len(b) = (n + 1) + (m - 1)
        /\ \A i \in 1..n : b[i] = heard[i]
        /\ b[n + 1] = say(1)
        /\ \A i \in 1..(m - 1) : b[(n + 1) + i] = say(i + 1)
    <2> DEFINE e == Append(heard, say(1))
    <2>1. /\ e \in Seq(Saying) /\ Len(e) = n + 1 /\ e[n + 1] = say(1)
          /\ \A i \in 1..n : e[i] = heard[i] /\ i \in 1..(n + 1)
      BY <1>1, <1>2
    <2>2. b = e \o SaidBy(Tail(opts), c)
      OBVIOUS
    <2> HIDE DEF e, b
    <2>3. /\ b \in Seq(Saying) /\ Len(b) = (n + 1) + (m - 1)
          /\ \A i \in 1..(n + 1) : b[i] = e[i]
          /\ \A i \in 1..(m - 1) : b[(n + 1) + i] = say(i + 1)
      <3> DEFINE g == SaidBy(Tail(opts), c)
      <3>1. b = e \o g /\ g \in Seq(Saying) /\ Len(g) = m - 1 /\ \A i \in 1..(m - 1) : g[i] = say(i + 1)
        BY <1>4, <2>2
      <3> HIDE DEF g
      <3>2. /\ b \in Seq(Saying) /\ Len(b) = Len(e) + Len(g)
            /\ \A i \in 1..Len(e) : b[i] = e[i]
            /\ \A i \in 1..Len(g) : b[Len(e) + i] = g[i]
        <4>1. e \in Seq(Saying) /\ g \in Seq(Saying)
          BY <2>1, <3>1
        <4>2. /\ e \o g \in Seq(Saying) /\ Len(e \o g) = Len(e) + Len(g)
              /\ \A i \in 1..Len(e) : (e \o g)[i] = e[i]
              /\ \A i \in 1..Len(g) : (e \o g)[Len(e) + i] = g[i]
          BY <4>1, Joined
        <4>3. QED
          BY <3>1, <4>2
      <3>3. QED
        BY <2>1, <3>1, <3>2
    <2>4. n + 1 \in 1..(n + 1)
      BY <1>1
    <2>5. QED
      BY <2>1, <2>3, <2>4
  <1> HIDE DEF a, b
  <1>7. \A i \in 1..(n + m) : a[i] = b[i]
    <2>1. TAKE i \in 1..(n + m)
    <2>2. CASE i \in 1..n
      BY <1>5, <1>6, <2>2
    <2>3. CASE i = n + 1
      <3>1. 1 \in 1..m
        BY <1>1
      <3>2. QED
        BY <1>5, <1>6, <2>3, <3>1
    <2>4. CASE i > n + 1
      <3>1. i - n \in 1..m /\ i - n - 1 \in 1..(m - 1) /\ n + (i - n) = i /\ (n + 1) + (i - n - 1) = i
            /\ (i - n - 1) + 1 = i - n
        BY <1>1, <2>4
      <3>2. QED
        BY <1>5, <1>6, <3>1
    <2>5. QED
      BY <1>1, <2>2, <2>3, <2>4
  <1>8. a = b
    BY <1>1, <1>5, <1>6, <1>7
  <1>9. QED
    BY <1>1, <1>8 DEF a, b, say

\* A word's name is of the kind of thing that it sets.
LEMMA WordsName ==
  ASSUME NEW w \in Word, ~Rejects(w)
  PROVE  /\ w.kind = "auth" => w.name \in Credentials
         /\ w.kind = "base" => w.name \in DOMAIN Spellings
         /\ w.kind \in HeaderKinds => w.name \in HeaderNames
         /\ w.kind \in {"retries", "writer"} => w.name \in Settings
  <1>1. CASE w \in [kind : {"auth"}, name : Credentials \cup {"blank"}]
    BY <1>1 DEF HeaderKinds, Rejects
  <1>2. CASE w \in [kind : {"base"}, name : DOMAIN Spellings \cup {"malformed"}]
    BY <1>2 DEF HeaderKinds, Rejects
  <1>3. CASE w \in [kind : HeaderKinds, name : HeaderNames]
    BY <1>3 DEF HeaderKinds
  <1>4. CASE w \in [kind : {"retries", "writer"}, name : Settings]
    BY <1>4 DEF HeaderKinds
  <1>5. QED
    BY <1>1, <1>2, <1>3, <1>4, Zenon DEF Word

-----------------------------------------------------------------------------
(* Every step keeps the invariant.                                          *)

\* What a step leaves alone of a config amounts to what it did.
LEMMA Kept ==
  ASSUME AmountsInv, NEW d \in Configs, Exists(d), stage'[d] = stage[d], left'[d] = left[d],
         cfg'[d] = cfg[d], headers'[d] = headers[d], said'[d] = said[d], wrote'[d] = wrote[d]
  PROVE  \E heard \in Prefixes(said'[d]) : Amounts(d, heard)'
  <1>1. PICK heard \in Prefixes(said[d]) : Amounts(d, heard)
    BY DEF AmountsInv
  <1>2. Amounts(d, heard)'
    BY <1>1 DEF Amounts
  <1>3. QED
    BY <1>1, <1>2

\* A config that is ready has heard all that was said to it.
LEMMA ReadyAmounts ==
  ASSUME IInv, NEW p \in Configs, stage[p] = "ready"
  PROVE  Amounts(p, said[p]) /\ left[p] = <<>>
  <1>1. PICK heard \in Prefixes(said[p]) : Amounts(p, heard)
    BY DEF IInv, AmountsInv, Exists
  <1>2. left[p] = <<>> /\ said[p] \in Seq(Saying)
    BY DEF IInv, ReadyInv, TypeOK, Saying
  <1>3. heard \in Seq(Saying)
    BY <1>2 DEF Prefixes
  <1>4. SaidBy(left[p], p) = <<>>
    <2>1. <<>> \in Seq(Word)
      OBVIOUS
    <2>2. SaidBy(<<>>, p) = <<>>
      BY <2>1, SaidByIs
    <2>3. QED
      BY <1>2, <2>2
  <1>5. said[p] = heard
    BY <1>1, <1>3, <1>4 DEF Amounts
  <1>6. QED
    BY <1>1, <1>2, <1>5

LEMMA DefaultIs ==
  /\ Default \in RequestConfig
  /\ Default.base = NoBase /\ Default.prefix = <<>> /\ Default.credential = "none"
  /\ Default.retries = "2" /\ Default.writer = "discard" /\ Default.pending = 0
  <1>1. <<>> \in Seq(Segments) /\ "none" \in Credentials /\ 0 \in Nat
    BY DEF Credentials
  <1>2. "2" \in Settings /\ "discard" \in Settings
    BY ConfigAssumption
  <1>3. QED
    BY <1>1, <1>2 DEF Default, RequestConfig, NoBase

\* A config that sets out with what the words of its parent amount to.
SetsOut(c, start, map, words) ==
    /\ start.header = c /\ start.pending = 0
    /\ start.prefix \in {<<>>, <<"apis", "cloud">>}
    /\ start.credential = LastWord(words, "auth", "none")
    /\ start.retries = LastWord(words, "retries", "2")
    /\ start.writer = LastWord(words, "writer", "discard")
    /\ start.base # NoBase =>
         LET s == LastWord(words, "base", "none") IN
           s \in DOMAIN Spellings /\ start.base = Spellings[s].root \o <<Gap>>
    /\ map = [h \in HeaderNames |-> Values(words, h)]

LEMMA MakeStep ==
  ASSUME IInv, NEW c \in Configs, NEW p, NEW opts \in Seq(Word), NEW start \in RequestConfig,
         NEW map \in [HeaderNames -> Seq(Configs)], Make(c, p, opts, start, map),
         NEW words \in Seq(Saying), words = (IF p = NoConfig THEN <<>> ELSE said[p]),
         p = NoConfig \/ (p \in Configs /\ p # c),
         SetsOut(c, start, map, words)
  PROVE  IInv'
  <1>1. /\ stage[c] = "none" /\ stage' = [stage EXCEPT ![c] = "building"]
        /\ left' = [left EXCEPT ![c] = opts]
        /\ cfg' = [cfg EXCEPT ![c] = start]
        /\ headers' = [headers EXCEPT ![c] = map]
        /\ said' = [said EXCEPT ![c] = words \o SaidBy(opts, c)]
        /\ env' = env /\ wrote' = wrote
    BY DEF Make, SaidBy
  <1>2. SaidBy(opts, c) \in Seq(Saying)
    BY SaidByIs
  <1>3. words \o SaidBy(opts, c) \in Seq(Saying)
    BY <1>2
  <1>4. TypeOK'
    <2>1. TypeOK
      BY DEF IInv
    <2>2. said' \in [Configs -> Seq(Saying)]
      BY <1>1, <1>3, <2>1 DEF TypeOK, Saying
    <2>3. left' \in [Configs -> Seq(Word)] /\ cfg' \in [Configs -> RequestConfig]
      BY <1>1, <2>1 DEF TypeOK
    <2>4. headers' \in [Configs -> [HeaderNames -> Seq(Configs)]]
      BY <1>1, <2>1 DEF TypeOK
    <2>5. stage' \in [Configs -> {"none", "building", "ready", "failed"}]
      BY <1>1, <2>1 DEF TypeOK
    <2>6. \A d \in Configs : stage'[d] = "ready" => cfg'[d].base # NoBase /\ cfg'[d].pending = 0
      <3>1. TAKE d \in Configs
      <3>2. HAVE stage'[d] = "ready"
      <3>3. d # c /\ stage[d] = "ready" /\ cfg'[d] = cfg[d]
        BY <1>1, <2>1, <3>2 DEF TypeOK
      <3>4. QED
        BY <2>1, <3>3 DEF TypeOK
    <2>7. env' \in Environments /\ wrote' \in [Configs -> Seq(Settings)]
      BY <1>1, <2>1 DEF TypeOK
    <2>8. QED
      BY <2>2, <2>3, <2>4, <2>5, <2>6, <2>7 DEF TypeOK, Saying
  <1>5. /\ said'[c] = words \o SaidBy(opts, c) /\ left'[c] = opts /\ cfg'[c] = start
        /\ headers'[c] = map /\ stage'[c] = "building" /\ wrote'[c] = wrote[c]
        /\ \A d \in Configs \ {c} :
             /\ said'[d] = said[d] /\ left'[d] = left[d] /\ cfg'[d] = cfg[d]
             /\ headers'[d] = headers[d] /\ stage'[d] = stage[d] /\ wrote'[d] = wrote[d]
    BY <1>1 DEF IInv, TypeOK
  \* Nothing that anybody said before is c's.
  <1>6. \A i \in 1..Len(words) : words[i].by # c
    <2>1. CASE p = NoConfig
      BY <2>1
    <2>2. CASE p # NoConfig
      BY <1>1, <2>2 DEF IInv, AuthorInv
    <2>3. QED
      BY <2>1, <2>2
  <1>7. Cardinality(LegacyBases(words, c)) = 0
    <2>1. LegacyBases(words, c) = {}
      BY <1>6 DEF LegacyBases
    <2>2. QED
      BY <2>1, FS_EmptySet
  <1>8. AmountsInv'
    <2>1. SUFFICES ASSUME NEW d \in Configs, Exists(d)'
                   PROVE  \E heard \in Prefixes(said'[d]) : Amounts(d, heard)'
      BY DEF AmountsInv
    <2>2. CASE d = c
      <3>1. wrote[c] = <<>>
        BY <1>1 DEF IInv, AuthorInv
      <3>2. Amounts(c, words)'
        BY <1>5, <1>7, <3>1 DEF Amounts, SetsOut
      <3>3. words \in Prefixes(said'[c])
        <4>1. words \in Prefixes(words \o SaidBy(opts, c))
          BY <1>2, PrefixOf
        <4>2. QED
          BY <1>5, <4>1
      <3>4. QED
        BY <2>2, <3>2, <3>3
    <2>3. CASE d # c
      <3>1. Exists(d)
        BY <1>5, <2>1, <2>3 DEF Exists
      <3>2. AmountsInv
        BY DEF IInv
      <3>3. QED
        BY <1>5, <2>3, <3>1, <3>2, Kept
    <2>4. QED
      BY <2>2, <2>3
  <1>9. AuthorInv'
    <2>1. SUFFICES ASSUME NEW d \in Configs, stage'[d] = "none"
                   PROVE  /\ wrote'[d] = <<>>
                          /\ \A e \in Configs : \A i \in 1..Len(said'[e]) : said'[e][i].by # d
      BY DEF AuthorInv
    <2>2. d # c /\ stage[d] = "none"
      BY <1>5, <2>1
    <2>3. wrote'[d] = <<>> /\ \A e \in Configs : \A i \in 1..Len(said[e]) : said[e][i].by # d
      BY <1>1, <2>2 DEF IInv, AuthorInv
    <2>4. \A i \in 1..Len(words) : words[i].by # d
      <3>1. CASE p = NoConfig
        BY <3>1
      <3>2. CASE p # NoConfig
        BY <2>3, <3>2
      <3>3. QED
        BY <3>1, <3>2
    <2>5. \A i \in 1..Len(SaidBy(opts, c)) : SaidBy(opts, c)[i].by # d
      BY <2>2, SaidByIs
    <2>6. ASSUME NEW i \in 1..Len(said'[c]) PROVE said'[c][i].by # d
      <3> DEFINE own == SaidBy(opts, c)
      <3>1. \/ i \in 1..Len(words) /\ said'[c][i] = words[i]
            \/ i - Len(words) \in 1..Len(own) /\ said'[c][i] = own[i - Len(words)]
        <4> HIDE DEF own
        <4>1. said'[c] = words \o own /\ own \in Seq(Saying)
          BY <1>2, <1>5 DEF own
        <4>2. QED
          BY <2>6, <4>1
      <3>2. QED
        BY <2>4, <2>5, <3>1
    <2>7. ASSUME NEW e \in Configs, NEW i \in 1..Len(said'[e]) PROVE said'[e][i].by # d
      <3>1. CASE e = c
        BY <2>6, <3>1
      <3>2. CASE e # c
        BY <1>5, <2>3, <3>2
      <3>3. QED
        BY <3>1, <3>2
    <2>8. QED
      BY <2>3, <2>7
  <1>10. ReadyInv'
    BY <1>5 DEF IInv, ReadyInv
  <1>11. QED
    BY <1>4, <1>8, <1>9, <1>10 DEF IInv

LEMMA EnvironmentSaysWords ==
  ASSUME TypeOK
  PROVE  EnvironmentOptions \in Seq(Word)
  <1> DEFINE bases == IF env.base = "none" THEN <<>> ELSE <<[kind |-> "base", name |-> env.base]>>
             name  == IF "key" \in env.has THEN "key" ELSE "token"
             auths == IF env.has = {} THEN <<>> ELSE <<[kind |-> "auth", name |-> name]>>
  <1>1. env.base \in DOMAIN Spellings \cup {"none", "malformed"}
    BY ConfigAssumption DEF TypeOK
  <1>2. [kind |-> "auth", name |-> name] \in Word
    <2>1. name \in Credentials
      BY DEF Credentials
    <2> HIDE DEF name
    <2>2. QED
      BY <2>1, Zenon DEF Word
  <1>3. env.base # "none" => [kind |-> "base", name |-> env.base] \in Word
    BY <1>1, Zenon DEF Word
  <1> HIDE DEF name
  <1>4. bases \in Seq(Word) /\ auths \in Seq(Word)
    BY <1>2, <1>3
  <1>5. EnvironmentOptions = bases \o auths
    BY DEF EnvironmentOptions, name
  <1> HIDE DEF bases, auths
  <1>6. QED
    BY <1>4, <1>5

LEMMA UnsaidConfig ==
  ASSUME NEW c \in Configs, NEW start, start = [Default EXCEPT !.header = c]
  PROVE  /\ start \in RequestConfig /\ start.header = c /\ start.pending = 0
         /\ start.prefix = <<>> /\ start.base = NoBase
         /\ start.credential = LastWord(<<>>, "auth", "none")
         /\ start.retries = LastWord(<<>>, "retries", "2")
         /\ start.writer = LastWord(<<>>, "writer", "discard")
  <1>1. /\ LastWord(<<>>, "auth", "none") = "none" /\ LastWord(<<>>, "retries", "2") = "2"
        /\ LastWord(<<>>, "writer", "discard") = "discard"
    BY Unsaid
  <1>2. start \in RequestConfig /\ start.header = c
    BY DefaultIs DEF RequestConfig
  <1>3. start.prefix = <<>> /\ start.base = NoBase /\ start.credential = "none" /\ start.retries = "2"
        /\ start.writer = "discard" /\ start.pending = 0
    BY DefaultIs DEF RequestConfig
  <1>4. QED
    BY <1>1, <1>2, <1>3

\* New, or a constructor that predates options.
LEMMA StartStep ==
  ASSUME IInv, NEW c \in Configs, NEW opts \in Seq(Word),
         Make(c, NoConfig, opts, [Default EXCEPT !.header = c], NoHeaders)
  PROVE  IInv'
  <1> SUFFICES ASSUME NEW start, start = [Default EXCEPT !.header = c],
                      Make(c, NoConfig, opts, start, NoHeaders)
               PROVE  IInv'
    BY Zenon
  <1>1. /\ start \in RequestConfig /\ start.header = c /\ start.pending = 0
        /\ start.prefix = <<>> /\ start.base = NoBase
        /\ start.credential = LastWord(<<>>, "auth", "none")
        /\ start.retries = LastWord(<<>>, "retries", "2")
        /\ start.writer = LastWord(<<>>, "writer", "discard")
    BY UnsaidConfig, Zenon
  <1>2. NoHeaders = [h \in HeaderNames |-> Values(<<>>, h)] /\ NoHeaders \in [HeaderNames -> Seq(Configs)]
    BY Unsaid DEF NoHeaders
  <1>3. <<>> \in Seq(Saying)
    OBVIOUS
  <1>4. SetsOut(c, start, NoHeaders, <<>>)
    BY <1>1, <1>2 DEF SetsOut
  <1>5. c \in Configs /\ (NoConfig = NoConfig \/ (NoConfig \in Configs /\ NoConfig # c))
    OBVIOUS
  <1>6. <<>> = IF NoConfig = NoConfig THEN <<>> ELSE said[NoConfig]
    OBVIOUS
  <1>7. QED
    BY <1>1, <1>2, <1>3, <1>4, <1>5, <1>6, MakeStep, Zenon

LEMMA NewStep ==
  ASSUME IInv, NEW c \in Clients, NEW opts \in OptionLists[c], New(c, opts)
  PROVE  IInv'
  <1>1. c \in Configs /\ opts \in Seq(Word)
    BY ConfigAssumption DEF Configs
  <1>2. EnvironmentOptions \in Seq(Word)
    BY EnvironmentSaysWords DEF IInv
  <1>3. EnvironmentOptions \o opts \in Seq(Word)
    BY <1>1, <1>2
  <1>4. QED
    BY <1>1, <1>3, StartStep, Zenon DEF New

LEMMA NewLegacyClientStep ==
  ASSUME IInv, NEW c \in Clients, NEW s \in DOMAIN Spellings, NEW a \in Credentials \ {"provider"},
         NewLegacyClient(c, s, a)
  PROVE  IInv'
  <1> DEFINE w1 == [kind |-> "writer", name |-> "stderr"]
             w2 == [kind |-> "base", name |-> s]
             w3 == [kind |-> "auth", name |-> a]
             w4 == [kind |-> "retries", name |-> "0"]
  <1>1. "stderr" \in Settings /\ "0" \in Settings
    BY ConfigAssumption
  <1>2. w1 \in Word /\ w2 \in Word /\ w3 \in Word /\ w4 \in Word
    BY <1>1, Zenon DEF Word
  <1>3. Make(c, NoConfig, <<w1, w2, w3, w4>>, [Default EXCEPT !.header = c], NoHeaders)
    BY Zenon DEF NewLegacyClient
  <1> HIDE DEF w1, w2, w3, w4
  <1>4. <<w1, w2, w3, w4>> \in Seq(Word)
    BY <1>2
  <1>5. c \in Configs
    BY DEF Configs
  <1>6. QED
    BY <1>3, <1>4, <1>5, StartStep, Zenon

LEMMA CloneStep ==
  ASSUME IInv, NEW c \in Clones, NEW p \in Configs, stage[p] = "ready", NEW opts \in Seq(Word),
         NEW prefix \in {cfg[p].prefix, <<>>, <<"apis", "cloud">>},
         Make(c, p, opts, [Clone(c, p) EXCEPT !.prefix = prefix], headers[cfg[p].header])
  PROVE  IInv'
  <1> SUFFICES ASSUME NEW start, start = [Clone(c, p) EXCEPT !.prefix = prefix],
                      NEW words, words = said[p], NEW map, map = headers[p],
                      Make(c, p, opts, start, headers[cfg[p].header])
               PROVE  IInv'
    BY Zenon
  <1>1. Amounts(p, words) /\ words \in Seq(Saying) /\ cfg[p] \in RequestConfig
        /\ map \in [HeaderNames -> Seq(Configs)]
    BY ReadyAmounts DEF IInv, TypeOK, Saying
  <1>2. c \in Configs
    BY DEF Configs
  <1>3. c # p /\ stage[c] = "none"
    BY DEF Make
  <1>4. p # NoConfig
    BY ConfigAssumption
  <1>5. cfg[p].prefix \in {<<>>, <<"apis", "cloud">>} /\ cfg[p].header = p
    BY <1>1 DEF Amounts
  <1>6. prefix \in Seq(Segments) /\ prefix \in {<<>>, <<"apis", "cloud">>}
    <2>1. "apis" \in Segments /\ "cloud" \in Segments
      BY ConfigAssumption
    <2>2. \A a \in Segments, b \in Segments : <<a, b>> \in Seq(Segments)
      OBVIOUS
    <2>3. <<>> \in Seq(Segments) /\ <<"apis", "cloud">> \in Seq(Segments)
      BY <2>1, <2>2
    <2>4. prefix \in {<<>>, <<"apis", "cloud">>}
      BY <1>5, Zenon
    <2>5. QED
      BY <2>3, <2>4, Zenon
  <1>7. /\ start \in RequestConfig /\ start.header = c /\ start.pending = 0 /\ start.prefix = prefix
        /\ start.credential = cfg[p].credential /\ start.retries = cfg[p].retries
        /\ start.writer = cfg[p].writer /\ start.base = cfg[p].base
    <2>1. 0 \in Nat
      OBVIOUS
    <2>2. QED
      BY <1>1, <1>2, <1>6, <2>1 DEF Clone, RequestConfig
  <1>8. SetsOut(c, start, map, words)
    BY <1>1, <1>6, <1>7 DEF Amounts, SetsOut
  <1>9. Make(c, p, opts, start, map)
    BY <1>5, Zenon
  <1>10. words = (IF p = NoConfig THEN <<>> ELSE said[p]) /\ (p = NoConfig \/ (p \in Configs /\ p # c))
    BY <1>3, <1>4
  <1>11. /\ words \in Seq(Saying) /\ start \in RequestConfig
         /\ map \in [HeaderNames -> Seq(Configs)]
    BY <1>1, <1>7, Zenon
  <1>12. QED
    BY <1>2, <1>8, <1>9, <1>10, <1>11, MakeStep, ZenonT(30)

LEMMA WithStep ==
  ASSUME IInv, NEW c \in Clones, NEW p \in Configs, NEW opts \in OptionLists[c], With(c, p, opts)
  PROVE  IInv'
  <1>1. opts \in Seq(Word)
    BY ConfigAssumption DEF Configs
  <1>2. Clone(c, p) = [Clone(c, p) EXCEPT !.prefix = cfg[p].prefix]
    <2>1. cfg[p] \in RequestConfig
      BY DEF IInv, TypeOK
    <2>2. QED
      BY <2>1 DEF Clone, RequestConfig
  <1>3. Make(c, p, opts, [Clone(c, p) EXCEPT !.prefix = cfg[p].prefix], headers[cfg[p].header])
    BY <1>2, Zenon DEF With
  <1>4. stage[p] = "ready" /\ cfg[p].prefix \in {cfg[p].prefix, <<>>, <<"apis", "cloud">>}
    BY DEF With
  <1>5. QED
    BY <1>1, <1>3, <1>4, CloneStep, Zenon

LEMMA ScopedStep ==
  ASSUME IInv, NEW c \in Clones, NEW p \in Configs, NEW prefix \in {<<>>, <<"apis", "cloud">>},
         Scoped(c, p, prefix)
  PROVE  IInv'
  <1>1. <<>> \in Seq(Word) /\ prefix \in {cfg[p].prefix, <<>>, <<"apis", "cloud">>}
    OBVIOUS
  <1>2. QED
    BY <1>1, CloneStep, Zenon DEF Scoped

\* What one option does to a config.
LEMMA AppliedIs ==
  ASSUME NEW c \in Configs, cfg[c] \in RequestConfig, NEW w \in Word, ~Rejects(w)
  PROVE  LET r == Applied(c, w) IN
           /\ r \in RequestConfig /\ r.header = cfg[c].header /\ r.prefix = cfg[c].prefix
           /\ r.credential = IF w.kind = "auth" THEN w.name ELSE cfg[c].credential
           /\ r.retries = IF w.kind = "retries" THEN w.name ELSE cfg[c].retries
           /\ r.writer = IF w.kind = "writer" THEN w.name ELSE cfg[c].writer
           /\ r.base = IF w.kind = "base" THEN Spellings[w.name].root \o <<Gap>> ELSE cfg[c].base
           /\ r.pending = IF w.kind = "base" /\ Matched(Written(w.name)) # <<>>
                            THEN cfg[c].pending + 1 ELSE cfg[c].pending
  <1> SUFFICES ASSUME NEW r, r = Applied(c, w)
               PROVE  /\ r \in RequestConfig /\ r.header = cfg[c].header /\ r.prefix = cfg[c].prefix
                      /\ r.credential = IF w.kind = "auth" THEN w.name ELSE cfg[c].credential
                      /\ r.retries = IF w.kind = "retries" THEN w.name ELSE cfg[c].retries
                      /\ r.writer = IF w.kind = "writer" THEN w.name ELSE cfg[c].writer
                      /\ r.base = IF w.kind = "base" THEN Spellings[w.name].root \o <<Gap>>
                                                     ELSE cfg[c].base
                      /\ r.pending = IF w.kind = "base" /\ Matched(Written(w.name)) # <<>>
                                       THEN cfg[c].pending + 1 ELSE cfg[c].pending
    BY Zenon
  <1>1. CASE w.kind = "auth"
    <2>1. r = [cfg[c] EXCEPT !.credential = w.name]
      BY <1>1 DEF Applied
    <2>2. w.name \in Credentials
      BY <1>1, WordsName
    <2>3. QED
      BY <1>1, <2>1, <2>2 DEF RequestConfig
  <1>2. CASE w.kind = "retries"
    <2>1. r = [cfg[c] EXCEPT !.retries = w.name]
      BY <1>2 DEF Applied
    <2>2. w.name \in Settings
      BY <1>2, WordsName
    <2>3. QED
      BY <1>2, <2>1, <2>2 DEF RequestConfig
  <1>3. CASE w.kind = "writer"
    <2>1. r = [cfg[c] EXCEPT !.writer = w.name]
      BY <1>3 DEF Applied
    <2>2. w.name \in Settings
      BY <1>3, WordsName
    <2>3. QED
      BY <1>3, <2>1, <2>2 DEF RequestConfig
  <1>4. CASE w.kind = "base"
    <2> DEFINE n == IF Matched(Written(w.name)) = <<>> THEN cfg[c].pending ELSE cfg[c].pending + 1
               b == Spellings[w.name].root \o <<Gap>>
    <2>1. w.name \in DOMAIN Spellings
      BY <1>4, WordsName
    <2>2. Spellings[w.name].root \in Seq(Segments) /\ NormalizeBaseURL(Written(w.name)) = b
      BY <2>1, NormalForm
    <2>3. r = [cfg[c] EXCEPT !.base = b, !.pending = n]
      BY <1>4, <2>2 DEF Applied
    <2>4. b \in Seq(Segments)
      <3>1. Gap \in Segments
        BY ConfigAssumption
      <3>2. QED
        BY <2>2, <3>1
    <2>5. n \in Nat
      BY DEF RequestConfig
    <2> HIDE DEF n, b
    <2>6. /\ r \in RequestConfig /\ r.header = cfg[c].header /\ r.prefix = cfg[c].prefix
          /\ r.credential = cfg[c].credential /\ r.retries = cfg[c].retries
          /\ r.writer = cfg[c].writer /\ r.base = b /\ r.pending = n
      BY <2>3, <2>4, <2>5 DEF RequestConfig
    <2>7. QED
      BY <1>4, <2>6 DEF n, b
  <1>5. CASE w.kind \notin {"auth", "retries", "writer", "base"}
    BY <1>5 DEF Applied
  <1>6. QED
    BY <1>1, <1>2, <1>3, <1>4, <1>5

LEMMA HeaderAfterIs ==
  ASSUME NEW c \in Configs, NEW heard \in Seq(Saying), NEW w \in Word, ~Rejects(w), cfg[c].header = c,
         headers[c] = [h \in HeaderNames |-> Values(heard, h)],
         headers[c] \in [HeaderNames -> Seq(Configs)]
  PROVE  /\ HeaderAfter(c, w) \in [HeaderNames -> Seq(Configs)]
         /\ HeaderAfter(c, w) =
              [h \in HeaderNames |-> Values(Append(heard, [word |-> w, by |-> c]), h)]
  <1> DEFINE x == [word |-> w, by |-> c]
             old == headers[c]
  <1>1. x \in Saying /\ x.word = w /\ x.by = c
    BY DEF Saying
  <1> HIDE DEF x
  <1>2. \A h \in HeaderNames : old[h] = Values(heard, h) /\ old[h] \in Seq(Configs)
    OBVIOUS
  <1>3. \A h \in HeaderNames :
           Values(Append(heard, x), h) =
             IF w.kind \notin HeaderKinds \/ w.name # h THEN old[h]
             ELSE IF w.kind = "set" THEN <<c>>
             ELSE IF w.kind = "add" THEN Append(old[h], c)
             ELSE <<>>
    BY <1>1, <1>2, ValuesGrow
  <1>4. CASE w.kind \in HeaderKinds
    <2>1. w.name \in HeaderNames
      BY <1>4, WordsName
    <2>2. HeaderAfter(c, w) = [old EXCEPT ![w.name] =
            IF w.kind = "set" THEN <<c>> ELSE IF w.kind = "add" THEN Append(@, c) ELSE <<>>]
      BY <1>4, Zenon DEF HeaderAfter, HeaderKinds
    <2> DEFINE new == IF w.kind = "set" THEN <<c>>
                      ELSE IF w.kind = "add" THEN Append(old[w.name], c) ELSE <<>>
    <2>3. HeaderAfter(c, w) = [old EXCEPT ![w.name] = new]
      BY <2>2
    <2>4. new \in Seq(Configs)
      <3>1. <<c>> \in Seq(Configs) /\ <<>> \in Seq(Configs) /\ old[w.name] \in Seq(Configs)
        BY <1>2, <2>1
      <3>2. Append(old[w.name], c) \in Seq(Configs)
        BY <3>1
      <3>3. QED
        BY <3>1, <3>2
    <2>5. \A h \in HeaderNames : Values(Append(heard, x), h) = IF h = w.name THEN new ELSE old[h]
      BY <1>3, <1>4
    <2> HIDE DEF new, old
    <2>6. old \in [HeaderNames -> Seq(Configs)]
      BY DEF old
    <2>7. HeaderAfter(c, w) = [h \in HeaderNames |-> Values(Append(heard, x), h)]
      BY <2>1, <2>3, <2>5, <2>6
    <2>8. QED
      BY <2>1, <2>3, <2>4, <2>6, <2>7 DEF x
  <1>5. CASE w.kind \notin HeaderKinds
    <2>1. HeaderAfter(c, w) = old
      BY <1>5 DEF HeaderAfter, HeaderKinds
    <2>2. QED
      BY <1>3, <1>5, <2>1 DEF x
  <1>6. QED
    BY <1>4, <1>5

LEMMA ApplyNextStep ==
  ASSUME IInv, NEW c \in Configs, ApplyNext(c)
  PROVE  IInv'
  <1> SUFFICES ASSUME NEW w, w = Head(left[c]), NEW x, x = [word |-> w, by |-> c]
               PROVE  IInv'
    OBVIOUS
  <1>1. /\ stage[c] = "building" /\ left[c] # <<>> /\ ~Rejects(w)
        /\ cfg' = [cfg EXCEPT ![c] = Applied(c, w)]
        /\ headers' = [headers EXCEPT ![cfg[c].header] = HeaderAfter(c, w)]
        /\ left' = [left EXCEPT ![c] = Tail(left[c])]
        /\ env' = env /\ stage' = stage /\ said' = said /\ wrote' = wrote
    BY DEF ApplyNext
  <1>2. TypeOK /\ AmountsInv /\ AuthorInv /\ ReadyInv
    BY DEF IInv
  <1>3. PICK heard \in Prefixes(said[c]) : Amounts(c, heard)
    BY <1>1, <1>2 DEF AmountsInv, Exists
  <1>4. left[c] \in Seq(Word) /\ w \in Word /\ Tail(left[c]) \in Seq(Word)
    BY <1>1, <1>2 DEF TypeOK
  <1>5. heard \in Seq(Saying)
    <2>1. said[c] \in Seq(Saying)
      BY <1>2 DEF TypeOK, Saying
    <2>2. QED
      BY <2>1 DEF Prefixes
  <1>6. x \in Saying /\ x.word = w /\ x.by = c
    BY <1>4 DEF Saying
  <1>7. PICK v \in Seq(Saying) : v = Append(heard, x)
    <2>1. Append(heard, x) \in Seq(Saying)
      BY <1>5, <1>6
    <2>2. QED
      BY <2>1
  <1>8. cfg[c].header = c /\ cfg[c] \in RequestConfig
    BY <1>2, <1>3 DEF Amounts, TypeOK
  <1>9. /\ Applied(c, w) \in RequestConfig /\ Applied(c, w).header = c
        /\ Applied(c, w).prefix = cfg[c].prefix
        /\ Applied(c, w).credential = LastWord(v, "auth", "none")
        /\ Applied(c, w).retries = LastWord(v, "retries", "2")
        /\ Applied(c, w).writer = LastWord(v, "writer", "discard")
    <2>1. LET r == Applied(c, w) IN
           /\ r \in RequestConfig /\ r.header = cfg[c].header /\ r.prefix = cfg[c].prefix
           /\ r.credential = IF w.kind = "auth" THEN w.name ELSE cfg[c].credential
           /\ r.retries = IF w.kind = "retries" THEN w.name ELSE cfg[c].retries
           /\ r.writer = IF w.kind = "writer" THEN w.name ELSE cfg[c].writer
      BY <1>1, <1>4, <1>8, AppliedIs
    <2>2. \A kind, unsaid : LastWord(v, kind, unsaid) = IF w.kind = kind THEN w.name ELSE LastWord(heard, kind, unsaid)
      BY <1>5, <1>6, <1>7, LastWordGrows
    <2>3. QED
      BY <1>3, <1>8, <2>1, <2>2 DEF Amounts
  <1>10. Applied(c, w).base # NoBase =>
           LET s == LastWord(v, "base", "none") IN
             s \in DOMAIN Spellings /\ Applied(c, w).base = Spellings[s].root \o <<Gap>>
    <2>1. Applied(c, w).base = IF w.kind = "base" THEN Spellings[w.name].root \o <<Gap>> ELSE cfg[c].base
      BY <1>1, <1>4, <1>8, AppliedIs
    <2>2. LastWord(v, "base", "none") = IF w.kind = "base" THEN w.name ELSE LastWord(heard, "base", "none")
      BY <1>5, <1>6, <1>7, LastWordGrows
    <2>3. w.kind = "base" => w.name \in DOMAIN Spellings
      BY <1>1, <1>4, WordsName
    <2>4. QED
      BY <1>3, <2>1, <2>2, <2>3 DEF Amounts
  <1>11. Applied(c, w).pending = Cardinality(LegacyBases(v, c))
    <2>1. Applied(c, w).pending = IF w.kind = "base" /\ Matched(Written(w.name)) # <<>>
                                    THEN cfg[c].pending + 1 ELSE cfg[c].pending
      BY <1>1, <1>4, <1>8, AppliedIs
    <2>2. Cardinality(LegacyBases(v, c)) =
            IF w.kind = "base" /\ Matched(Written(w.name)) # <<>>
              THEN Cardinality(LegacyBases(heard, c)) + 1 ELSE Cardinality(LegacyBases(heard, c))
      BY <1>5, <1>6, <1>7, LegacyBasesGrow
    <2>3. QED
      BY <1>1, <1>3, <2>1, <2>2 DEF Amounts
  <1>12. /\ HeaderAfter(c, w) \in [HeaderNames -> Seq(Configs)]
         /\ HeaderAfter(c, w) = [h \in HeaderNames |-> Values(v, h)]
    <2>1. headers[c] \in [HeaderNames -> Seq(Configs)] /\ headers[c] = [h \in HeaderNames |-> Values(heard, h)]
      BY <1>2, <1>3 DEF TypeOK, Amounts
    <2>2. QED
      BY <1>1, <1>4, <1>5, <1>7, <1>8, <2>1, HeaderAfterIs
  <1>13. said[c] = v \o SaidBy(Tail(left[c]), c)
    <2>1. said[c] = heard \o SaidBy(left[c], c)
      BY <1>3 DEF Amounts
    <2>2. heard \o SaidBy(left[c], c) = v \o SaidBy(Tail(left[c]), c)
      BY <1>1, <1>4, <1>5, <1>7, HearNext
    <2>3. QED
      BY <2>1, <2>2
  <1>14. v \in Prefixes(said'[c])
    <2>1. SaidBy(Tail(left[c]), c) \in Seq(Saying)
      BY <1>4, SaidByIs
    <2>2. v \in Prefixes(v \o SaidBy(Tail(left[c]), c))
      BY <1>7, <2>1, PrefixOf
    <2>3. QED
      BY <1>1, <1>13, <2>2
  <1>15. /\ cfg'[c] = Applied(c, w) /\ headers'[c] = HeaderAfter(c, w) /\ left'[c] = Tail(left[c])
         /\ \A d \in Configs \ {c} : cfg'[d] = cfg[d] /\ headers'[d] = headers[d] /\ left'[d] = left[d]
    BY <1>1, <1>2, <1>8 DEF TypeOK
  <1>16. TypeOK'
    <2>1. left' \in [Configs -> Seq(Word)]
      BY <1>1, <1>2, <1>4 DEF TypeOK
    <2>2. cfg' \in [Configs -> RequestConfig]
      BY <1>1, <1>2, <1>9 DEF TypeOK
    <2>3. headers' \in [Configs -> [HeaderNames -> Seq(Configs)]]
      BY <1>1, <1>2, <1>12 DEF TypeOK
    <2>4. \A d \in Configs : stage'[d] = "ready" => cfg'[d].base # NoBase /\ cfg'[d].pending = 0
      BY <1>1, <1>2, <1>15 DEF TypeOK
    <2>5. QED
      BY <1>1, <1>2, <2>1, <2>2, <2>3, <2>4 DEF TypeOK
  <1>17. AmountsInv'
    <2>1. SUFFICES ASSUME NEW d \in Configs, Exists(d)'
                   PROVE  \E told \in Prefixes(said'[d]) : Amounts(d, told)'
      BY DEF AmountsInv
    <2>2. CASE d = c
      <3>1. cfg[c].prefix \in {<<>>, <<"apis", "cloud">>} /\ wrote[c] = <<>>
        BY <1>1, <1>3 DEF Amounts
      <3>2. Amounts(c, v)'
        BY <1>1, <1>9, <1>10, <1>11, <1>12, <1>13, <1>15, <3>1 DEF Amounts
      <3>3. QED
        BY <1>14, <2>2, <3>2
    <2>3. CASE d # c
      <3>1. Exists(d)
        BY <1>1, <2>1 DEF Exists
      <3>2. QED
        BY <1>1, <1>2, <1>15, <2>3, <3>1, Kept
    <2>4. QED
      BY <2>2, <2>3
  <1>18. AuthorInv' /\ ReadyInv'
    BY <1>1, <1>2, <1>15 DEF AuthorInv, ReadyInv
  <1>19. QED
    BY <1>16, <1>17, <1>18 DEF IInv

LEMMA ApplyFailsStep ==
  ASSUME IInv, NEW c \in Configs, ApplyFails(c)
  PROVE  IInv'
  <1>1. /\ stage[c] = "building" /\ stage' = [stage EXCEPT ![c] = "failed"]
        /\ left' = [left EXCEPT ![c] = <<>>]
        /\ env' = env /\ cfg' = cfg /\ headers' = headers /\ said' = said /\ wrote' = wrote
    BY DEF ApplyFails
  <1>2. TypeOK /\ AmountsInv /\ AuthorInv /\ ReadyInv
    BY DEF IInv
  <1>3. /\ stage'[c] = "failed"
        /\ \A d \in Configs \ {c} : stage'[d] = stage[d] /\ left'[d] = left[d]
    BY <1>1, <1>2 DEF TypeOK
  <1>4. TypeOK'
    <2>1. left' \in [Configs -> Seq(Word)] /\ stage' \in [Configs -> {"none", "building", "ready", "failed"}]
      BY <1>1, <1>2 DEF TypeOK
    <2>2. \A d \in Configs : stage'[d] = "ready" => cfg'[d].base # NoBase /\ cfg'[d].pending = 0
      BY <1>1, <1>2, <1>3 DEF TypeOK
    <2>3. QED
      BY <1>1, <1>2, <2>1, <2>2 DEF TypeOK
  <1>5. AmountsInv'
    <2>1. SUFFICES ASSUME NEW d \in Configs, Exists(d)'
                   PROVE  \E heard \in Prefixes(said'[d]) : Amounts(d, heard)'
      BY DEF AmountsInv
    <2>2. d # c
      BY <1>3, <2>1 DEF Exists
    <2>3. Exists(d)
      BY <1>3, <2>1, <2>2 DEF Exists
    <2>4. QED
      BY <1>1, <1>2, <1>3, <2>2, <2>3, Kept
  <1>6. AuthorInv'
    <2>1. \A d \in Configs : stage'[d] = "none" => stage[d] = "none"
      BY <1>3
    <2>2. QED
      BY <1>1, <1>2, <2>1 DEF AuthorInv
  <1>7. ReadyInv'
    BY <1>2, <1>3 DEF ReadyInv
  <1>8. QED
    BY <1>4, <1>5, <1>6, <1>7 DEF IInv

LEMMA FinishStep ==
  ASSUME IInv, NEW c \in Configs, Finish(c)
  PROVE  IInv'
  <1> SUFFICES ASSUME NEW notices, notices = [i \in 1..cfg[c].pending |-> cfg[c].writer]
               PROVE  IInv'
    OBVIOUS
  <1>1. /\ stage[c] = "building" /\ left[c] = <<>>
        /\ wrote' = [wrote EXCEPT ![c] = wrote[c] \o notices]
        /\ cfg' = [cfg EXCEPT ![c] = [cfg[c] EXCEPT !.pending = 0]]
        /\ stage' = [stage EXCEPT ![c] = IF cfg[c].base = NoBase THEN "failed" ELSE "ready"]
        /\ env' = env /\ left' = left /\ headers' = headers /\ said' = said
    BY DEF Finish
  <1>2. TypeOK /\ AmountsInv /\ AuthorInv /\ ReadyInv
    BY DEF IInv
  <1>3. PICK heard \in Prefixes(said[c]) : Amounts(c, heard)
    BY <1>1, <1>2 DEF AmountsInv, Exists
  <1>4. cfg[c] \in RequestConfig
    BY <1>2 DEF TypeOK
  <1>5. notices \in Seq(Settings)
    <2> DEFINE n == cfg[c].pending
               u == cfg[c].writer
    <2>1. n \in Nat /\ u \in Settings
      BY <1>4 DEF RequestConfig
    <2>2. notices = [i \in 1..n |-> u]
      OBVIOUS
    <2> HIDE DEF n, u
    <2>3. [i \in 1..n |-> u] \in Seq(Settings)
      BY <2>1
    <2>4. QED
      BY <2>2, <2>3
  <1>6. wrote[c] = <<>> /\ wrote[c] \o notices = notices
    <2>1. wrote[c] = <<>>
      BY <1>1, <1>3 DEF Amounts
    <2>2. <<>> \o notices = notices
      BY <1>5
    <2>3. QED
      BY <2>1, <2>2
  <1> DEFINE last == [cfg[c] EXCEPT !.pending = 0]
  <1>7. /\ last \in RequestConfig /\ last.pending = 0 /\ last.base = cfg[c].base
        /\ last.header = cfg[c].header /\ last.prefix = cfg[c].prefix
        /\ last.credential = cfg[c].credential /\ last.retries = cfg[c].retries
        /\ last.writer = cfg[c].writer
    <2>1. 0 \in Nat
      OBVIOUS
    <2>2. QED
      BY <1>4, <2>1 DEF RequestConfig
  <1>8. cfg' = [cfg EXCEPT ![c] = last]
    BY <1>1
  <1> HIDE DEF last
  <1>9. /\ cfg'[c] = last /\ wrote'[c] = notices
        /\ stage'[c] = IF cfg[c].base = NoBase THEN "failed" ELSE "ready"
        /\ \A d \in Configs \ {c} : cfg'[d] = cfg[d] /\ wrote'[d] = wrote[d] /\ stage'[d] = stage[d]
    BY <1>1, <1>2, <1>6, <1>8 DEF TypeOK
  <1>10. TypeOK'
    <2>1. stage' \in [Configs -> {"none", "building", "ready", "failed"}]
      BY <1>1, <1>2 DEF TypeOK
    <2>2. cfg' \in [Configs -> RequestConfig]
      BY <1>2, <1>7, <1>8 DEF TypeOK
    <2>3. wrote' \in [Configs -> Seq(Settings)]
      BY <1>1, <1>2, <1>5, <1>6 DEF TypeOK
    <2>4. \A d \in Configs : stage'[d] = "ready" => cfg'[d].base # NoBase /\ cfg'[d].pending = 0
      <3>1. TAKE d \in Configs
      <3>2. CASE d = c
        BY <1>7, <1>9, <3>2
      <3>3. CASE d # c
        BY <1>2, <1>9, <3>3 DEF TypeOK
      <3>4. QED
        BY <3>2, <3>3
    <2>5. QED
      BY <1>1, <1>2, <2>1, <2>2, <2>3, <2>4 DEF TypeOK
  <1>11. AmountsInv'
    <2>1. SUFFICES ASSUME NEW d \in Configs, Exists(d)'
                   PROVE  \E told \in Prefixes(said'[d]) : Amounts(d, told)'
      BY DEF AmountsInv
    <2>2. CASE d = c
      <3>1. stage'[c] = "ready"
        BY <1>9, <2>1, <2>2 DEF Exists
      <3>2. wrote'[c] = [n \in 1..Cardinality(LegacyBases(heard, c)) |-> cfg'[c].writer]
        <4>1. cfg[c].pending = Cardinality(LegacyBases(heard, c)) /\ cfg'[c].writer = cfg[c].writer
          BY <1>1, <1>3, <1>7, <1>9 DEF Amounts
        <4>2. wrote'[c] = [i \in 1..cfg[c].pending |-> cfg[c].writer]
          BY <1>9
        <4>3. QED
          BY <4>1, <4>2, Zenon
      <3>3. Amounts(c, heard)'
        BY <1>1, <1>3, <1>7, <1>9, <3>1, <3>2 DEF Amounts
      <3>4. QED
        BY <1>1, <1>3, <2>2, <3>3
    <2>3. CASE d # c
      <3>1. Exists(d)
        BY <1>9, <2>1, <2>3 DEF Exists
      <3>2. QED
        BY <1>1, <1>2, <1>9, <2>3, <3>1, Kept
    <2>4. QED
      BY <2>2, <2>3
  <1>12. AuthorInv'
    <2>1. \A d \in Configs : stage'[d] = "none" => stage[d] = "none" /\ d # c
      BY <1>1, <1>9
    <2>2. QED
      BY <1>1, <1>2, <1>9, <2>1 DEF AuthorInv
  <1>13. ReadyInv'
    BY <1>1, <1>2, <1>9 DEF ReadyInv
  <1>14. QED
    BY <1>10, <1>11, <1>12, <1>13 DEF IInv

LEMMA StutterStep ==
  ASSUME IInv, UNCHANGED vars
  PROVE  IInv'
  <1>1. /\ env' = env /\ stage' = stage /\ left' = left /\ cfg' = cfg
        /\ headers' = headers /\ said' = said /\ wrote' = wrote
    BY DEF vars
  <1>2. TypeOK' /\ AuthorInv' /\ ReadyInv'
    BY <1>1 DEF IInv, TypeOK, AuthorInv, ReadyInv
  <1>3. AmountsInv'
    <2>1. AmountsInv
      BY DEF IInv
    <2>2. \A d \in Configs : Exists(d)' => Exists(d)
      BY <1>1 DEF Exists
    <2>3. QED
      BY <1>1, <2>1, <2>2, Kept DEF AmountsInv
  <1>4. QED
    BY <1>2, <1>3 DEF IInv

LEMMA InitStep ==
  ASSUME Init
  PROVE  IInv
  <1>1. TypeOK
    <2>1. \A h \in HeaderNames : <<>> \in Seq(Configs)
      OBVIOUS
    <2>2. NoHeaders \in [HeaderNames -> Seq(Configs)]
      BY <2>1 DEF NoHeaders
    <2>3. <<>> \in Seq(Word) /\ <<>> \in Seq([word : Word, by : Configs]) /\ <<>> \in Seq(Settings)
      OBVIOUS
    <2>4. QED
      BY <2>2, <2>3, DefaultIs DEF Init, TypeOK
  <1>2. AmountsInv /\ ReadyInv
    BY DEF Init, AmountsInv, ReadyInv, Exists
  <1>3. AuthorInv
    BY DEF Init, AuthorInv
  <1>4. QED
    BY <1>1, <1>2, <1>3 DEF IInv

-----------------------------------------------------------------------------
(* Theorems.                                                                *)

\* IInv holds in every reachable state.
THEOREM Invariance == Spec => []IInv
  <1>1. Init => IInv
    BY InitStep
  <1>2. ASSUME IInv, [Next]_vars PROVE IInv'
    <2>1. CASE \E c \in Clients : \E opts \in OptionLists[c] : New(c, opts)
      BY <1>2, <2>1, NewStep
    <2>2. CASE \E c \in Clients, s \in DOMAIN Spellings, a \in Credentials \ {"provider"} :
                 NewLegacyClient(c, s, a)
      BY <1>2, <2>2, NewLegacyClientStep
    <2>3. CASE \E c \in Clones, p \in Configs : \E opts \in OptionLists[c] : With(c, p, opts)
      BY <1>2, <2>3, WithStep
    <2>4. CASE \E c \in Clones, p \in Configs : \E prefix \in {<<>>, <<"apis", "cloud">>} :
                 Scoped(c, p, prefix)
      BY <1>2, <2>4, ScopedStep
    <2>5. CASE \E c \in Configs : ApplyNext(c)
      BY <1>2, <2>5, ApplyNextStep
    <2>6. CASE \E c \in Configs : ApplyFails(c)
      BY <1>2, <2>6, ApplyFailsStep
    <2>7. CASE \E c \in Configs : Finish(c)
      BY <1>2, <2>7, FinishStep
    <2>8. CASE UNCHANGED vars
      BY <1>2, <2>8, StutterStep
    <2>9. QED
      BY <1>2, <2>1, <2>2, <2>3, <2>4, <2>5, <2>6, <2>7, <2>8, Zenon DEF Next
  <1>3. QED
    BY <1>1, <1>2, PTL DEF Spec

\* Configs, header maps and what was said of them have their types, and a config
\* that is ready has a base URL and no notice left to write.
THEOREM TypeCorrect == Spec => []TypeOK
  <1>1. IInv => TypeOK
    BY DEF IInv
  <1>2. QED
    BY <1>1, Invariance, PTL

LEMMA HeaderOfCredential ==
  ASSUME NEW credential \in Credentials, NEW minted \in BOOLEAN, Resolved(credential, minted) # <<>>
  PROVE  HeaderOf(credential) \in HeaderNames \ {"accept"}
  <1>1. credential # "none"
    BY DEF Resolved
  <1>2. QED
    BY <1>1 DEF Credentials, HeaderOf, HeaderNames

\* A request carries the credential last asked for and, of every header, what its
\* own words amount to, however many clients are derived meanwhile.
THEOREM RequestsAreAsConfigured == Spec => []EveryRequestIsAsConfigured
  <1>1. IInv => EveryRequestIsAsConfigured
    <2>1. SUFFICES ASSUME IInv, NEW c \in Configs, stage[c] = "ready",
                          NEW auth, auth = LastWord(said[c], "auth", "none")
                   PROVE  /\ cfg[c].retries = LastWord(said[c], "retries", "2")
                          /\ \A minted \in BOOLEAN :
                               LET sent   == ApplyHeaders(c, minted)
                                   secret == Resolved(auth, minted)
                               IN  /\ sent["accept"] = <<"wrapper">>
                                   /\ secret # <<>> => sent[HeaderOf(auth)] = secret
                                   /\ \A h \in HeaderNames \ {"accept"} :
                                        (h # HeaderOf(auth) \/ secret = <<>>) =>
                                          sent[h] = IF Values(said[c], h) = <<>> /\ h = "user-agent"
                                                      THEN <<"sdk">> ELSE Values(said[c], h)
      BY Zenon DEF EveryRequestIsAsConfigured
    <2>2. Amounts(c, said[c])
      BY <2>1, ReadyAmounts
    <2>3. cfg[c].credential = auth /\ auth \in Credentials
      <3>1. cfg[c] \in RequestConfig
        BY <2>1 DEF IInv, TypeOK
      <3>2. QED
        BY <2>1, <2>2, <3>1 DEF Amounts, RequestConfig
    <2>4. \A h \in HeaderNames : headers[cfg[c].header][h] = Values(said[c], h)
      BY <2>2 DEF Amounts
    <2>5. ASSUME NEW minted \in BOOLEAN, NEW secret, secret = Resolved(auth, minted),
                 NEW sent, sent = ApplyHeaders(c, minted)
          PROVE  /\ sent["accept"] = <<"wrapper">>
                 /\ secret # <<>> => sent[HeaderOf(auth)] = secret
                 /\ \A h \in HeaderNames \ {"accept"} :
                      (h # HeaderOf(auth) \/ secret = <<>>) =>
                        sent[h] = IF Values(said[c], h) = <<>> /\ h = "user-agent"
                                    THEN <<"sdk">> ELSE Values(said[c], h)
      <3>1. sent = [h \in HeaderNames |->
                      IF h = "accept" THEN <<"wrapper">>
                      ELSE IF h = HeaderOf(auth) /\ secret # <<>> THEN secret
                      ELSE IF headers[cfg[c].header][h] = <<>> /\ h = "user-agent" THEN <<"sdk">>
                      ELSE headers[cfg[c].header][h]]
        BY <2>3, <2>5, Zenon DEF ApplyHeaders
      <3>2. "accept" \in HeaderNames
        BY DEF HeaderNames
      <3>3. secret # <<>> => HeaderOf(auth) \in HeaderNames \ {"accept"}
        BY <2>3, <2>5, HeaderOfCredential
      <3>4. QED
        BY <2>4, <3>1, <3>2, <3>3
    <2>6. QED
      BY <2>2, <2>5 DEF Amounts
  <1>2. QED
    BY <1>1, Invariance, PTL

\* However its base URL is written, a deployment has one key in the gate's cache,
\* and requests go to the paths below its root.
THEOREM OneKeyForADeployment == Spec => []DeploymentHasOneKey
  <1>1. IInv => DeploymentHasOneKey
    <2>1. SUFFICES ASSUME IInv, NEW c \in Configs, stage[c] = "ready",
                          NEW root, root = Spellings[LastWord(said[c], "base", "none")].root
                   PROVE  /\ cfg[c].base = root \o <<Gap>>
                          /\ ResolveURL(c, <<"v1">>)
                               \in { root \o q \o <<"v1">> : q \in {<<>>, <<"apis", "cloud">>} }
      BY Zenon DEF DeploymentHasOneKey
    <2>2. Amounts(c, said[c]) /\ cfg[c].base # NoBase
      BY <2>1, ReadyAmounts DEF IInv, TypeOK
    <2>3. cfg[c].base = root \o <<Gap>> /\ LastWord(said[c], "base", "none") \in DOMAIN Spellings
      BY <2>1, <2>2 DEF Amounts
    <2>4. root \in Seq(Segments) /\ Gap \in Segments
      BY <2>1, <2>3, ConfigAssumption, NormalForm
    <2>5. Front(root \o <<Gap>>) = root
      BY <2>4 DEF Front
    <2>6. cfg[c].prefix \in {<<>>, <<"apis", "cloud">>}
      BY <2>2 DEF Amounts
    <2>7. ResolveURL(c, <<"v1">>) = root \o cfg[c].prefix \o <<"v1">>
      BY <2>3, <2>5 DEF ResolveURL
    <2>8. QED
      BY <2>3, <2>6, <2>7
  <1>2. QED
    BY <1>1, Invariance, PTL

\* A legacy base URL is told of once, by the config whose own option named it.
THEOREM NoticesAreWrittenOnce == Spec => []EveryNoticeOnce
  <1>1. IInv => EveryNoticeOnce
    <2>1. SUFFICES ASSUME IInv, NEW c \in Configs, Exists(c)
                   PROVE  wrote[c] = IF stage[c] = "ready"
                                       THEN [n \in 1..Cardinality(LegacyBases(said[c], c)) |->
                                               LastWord(said[c], "writer", "discard")]
                                       ELSE <<>>
      BY Zenon DEF EveryNoticeOnce, Exists
    <2>2. CASE stage[c] = "ready"
      <3>1. Amounts(c, said[c])
        BY <2>1, <2>2, ReadyAmounts
      <3>2. QED
        BY <2>2, <3>1 DEF Amounts
    <2>3. CASE stage[c] = "building"
      BY <2>1, <2>3 DEF IInv, AmountsInv, Amounts
    <2>4. QED
      BY <2>1, <2>2, <2>3 DEF Exists
  <1>2. QED
    BY <1>1, Invariance, PTL
=============================================================================
