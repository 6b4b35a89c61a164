------------------------- MODULE DerivedStateProofs -------------------------
(***************************************************************************)
(* Proofs about DerivedState.                                              *)
(***************************************************************************)
EXTENDS DerivedState, FiniteSetTheorems, SequenceTheorems, WellFoundedInduction, TLAPS

\* The larger of two numbers.
LEMMA MaxOfTwo ==
  ASSUME NEW a \in Int, NEW b \in Int
  PROVE  Max({a, b}) \in {a, b} /\ Max({a, b}) >= a /\ Max({a, b}) >= b
<1>1. \E x \in {a, b} : \A y \in {a, b} : x >= y
  OBVIOUS
<1> QED  BY <1>1 DEF Max

\* The smaller of two numbers.
LEMMA MinOfTwo ==
  ASSUME NEW a \in Int, NEW b \in Int
  PROVE  Min({a, b}) \in {a, b} /\ Min({a, b}) <= a /\ Min({a, b}) <= b
<1>1. \E x \in {a, b} : \A y \in {a, b} : x <= y
  OBVIOUS
<1> QED  BY <1>1 DEF Min

----------------------------------------------------------------------------
(* Loops *)

Below == {ss \in Nat \X Nat : ss[1] < ss[2]}

\* Induction up to n, over a set.
LEMMA UpTo ==
  ASSUME NEW n \in Nat, NEW T, 0 \in T, \A i \in 1 .. n : i - 1 \in T => i \in T
  PROVE  \A i \in 0 .. n : i \in T
<1> DEFINE Bad == {i \in 0 .. n : i \notin T}
<1> SUFFICES ASSUME Bad # {} PROVE FALSE
  OBVIOUS
<1>1. Bad \subseteq Nat
  OBVIOUS
<1>2. PICK m \in Bad : \A x \in Bad : ~(<<x, m>> \in Below)
  <2> HIDE DEF Bad
  <2>1. IsWellFoundedOn(Below, Nat)
    BY NatLessThanWellFounded DEF OpToRel, Below
  <2> QED BY <1>1, <2>1, WFMin
<1>3. m \in 1 .. n
  OBVIOUS
<1>4. m - 1 \in 0 .. n /\ <<m - 1, m>> \in Below
  BY <1>3 DEF Below
<1>5. m - 1 \in T
  BY <1>2, <1>4
<1> QED BY <1>3, <1>5

IsRun(f, n, b, turn) == f[0] = b /\ \A i \in 1 .. n : f[i] = turn[i][f[i - 1]]

\* A loop of n turns over values of S has a value after each turn.
LEMMA Iteration ==
  ASSUME NEW n \in Nat, NEW S, NEW b \in S, NEW turn \in [1 .. n -> [S -> S]]
  PROVE  \E f \in [0 .. n -> S] : IsRun(f, n, b, turn)
<1> DEFINE Runs(k) == {f \in [0 .. k -> S] : f[0] = b /\ \A i \in 1 .. k : f[i] = turn[i][f[i - 1]]}
           T == {k \in 0 .. n : Runs(k) # {}}
<1>1. 0 \in T
  <2>1. [i \in 0 .. 0 |-> b] \in Runs(0)
    OBVIOUS
  <2> QED BY <2>1
<1>2. ASSUME NEW k \in 1 .. n, k - 1 \in T PROVE k \in T
  <2>1. PICK f \in Runs(k - 1) : TRUE
    BY <1>2
  <2>2. f \in [0 .. k - 1 -> S] /\ f[0] = b /\ \A i \in 1 .. k - 1 : f[i] = turn[i][f[i - 1]]
    OBVIOUS
  <2> DEFINE g == [i \in 0 .. k |-> IF i = k THEN turn[k][f[k - 1]] ELSE f[i]]
  <2>3. k - 1 \in 0 .. k - 1 /\ f[k - 1] \in S /\ turn[k] \in [S -> S]
    BY <2>2
  <2>4. g \in [0 .. k -> S]
    BY <2>2, <2>3
  <2>5. g[0] = b /\ g[k] = turn[k][f[k - 1]]
    BY <2>2
  <2>6. ASSUME NEW i \in 1 .. k PROVE g[i] = turn[i][g[i - 1]]
    <3>1. i - 1 \in 0 .. k /\ i - 1 # k
      OBVIOUS
    <3>2. g[i - 1] = f[i - 1]
      BY <3>1
    <3>3. CASE i = k
      BY <2>5, <3>2, <3>3
    <3>4. CASE i # k
      <4>1. i \in 1 .. k - 1 /\ g[i] = f[i]
        BY <3>4
      <4> QED BY <2>2, <3>2, <4>1
    <3> QED BY <3>3, <3>4
  <2> HIDE DEF g
  <2>7. g \in Runs(k)
    BY <2>4, <2>5, <2>6
  <2> QED BY <2>7
<1>3. n \in T
  <2> HIDE DEF T
  <2>1. \A i \in 1 .. n : i - 1 \in T => i \in T
    BY <1>2
  <2>2. \A i \in 0 .. n : i \in T
    BY ONLY n \in Nat, <1>1, <2>1, UpTo
  <2> QED BY <2>2
<1> QED BY <1>3 DEF IsRun

\* The least of a set of numbers.
LEMMA Least == ASSUME NEW S \in SUBSET Nat, S # {} PROVE Min(S) \in S /\ \A x \in S : Min(S) <= x
<1>1. IsWellFoundedOn(Below, Nat)
  BY NatLessThanWellFounded DEF OpToRel, Below
<1>2. PICK m \in S : \A x \in S : ~(<<x, m>> \in Below)
  BY <1>1, WFMin
<1>3. ASSUME NEW x \in S PROVE m <= x
  <2>1. x \in Nat /\ m \in Nat
    OBVIOUS
  <2>2. x < m => <<x, m>> \in Below
    BY <2>1 DEF Below
  <2> QED BY <1>2, <2>1, <2>2
<1>4. \E m1 \in S : \A x \in S : m1 <= x
  BY <1>3
<1> QED BY <1>4 DEF Min

----------------------------------------------------------------------------
(* Files *)

\* Records with a size: at least a byte and the newline.
IsFile(file) == file \in Seq(Range(file)) /\ \A e \in Range(file) : e.size \in Nat /\ e.size >= 2

LEMMA FileFacts ==
  ASSUME NEW file, IsFile(file)
  PROVE  /\ Len(file) \in Nat /\ DOMAIN file = 1 .. Len(file)
         /\ \A i \in 1 .. Len(file) : file[i] \in Range(file) /\ file[i].size \in Nat /\ file[i].size >= 2
<1>1. Len(file) \in Nat /\ DOMAIN file = 1 .. Len(file)
  BY DEF IsFile
<1>2. \A i \in 1 .. Len(file) : file[i] \in Range(file)
  BY <1>1 DEF Range
<1> QED BY <1>1, <1>2 DEF IsFile

\* The ends of the records add up their sizes.
LEMMA EndsOf ==
  ASSUME NEW file, IsFile(file)
  PROVE  /\ Ends(file) \in [0 .. Len(file) -> Nat] /\ Ends(file)[0] = 0
         /\ \A i \in 1 .. Len(file) : Ends(file)[i] = Ends(file)[i - 1] + file[i].size
<1> DEFINE n == Len(file)
           Is(f) == f = [i \in 0 .. n |-> IF i = 0 THEN 0 ELSE f[i - 1] + file[i].size]
           turn == [i \in 1 .. n |-> [x \in Nat |-> x + file[i].size]]
<1>1. n \in Nat /\ \A i \in 1 .. n : file[i].size \in Nat
  BY FileFacts
<1>2. turn \in [1 .. n -> [Nat -> Nat]]
  BY <1>1
<1>3. PICK f \in [0 .. n -> Nat] : IsRun(f, n, 0, turn)
  <2> HIDE DEF turn, n
  <2> QED BY ONLY <1>1, <1>2, 0 \in Nat, Iteration
<1>4. \A i \in 1 .. n : i - 1 \in 0 .. n /\ f[i - 1] \in Nat
  <2> HIDE DEF n
  <2> QED BY ONLY <1>1, f \in [0 .. n -> Nat]
<1>5. f[0] = 0 /\ \A i \in 1 .. n : f[i] = f[i - 1] + file[i].size
  BY <1>3, <1>4 DEF IsRun
<1>6. Is(f)
  <2>1. f = [i \in 0 .. n |-> f[i]]
    BY <1>3
  <2>2. \A i \in 0 .. n : f[i] = IF i = 0 THEN 0 ELSE f[i - 1] + file[i].size
    BY <1>1, <1>5
  <2> QED BY <2>1, <2>2
<1>7. Ends(file) = CHOOSE g : Is(g)
  BY DEF Ends
<1>8. Is(Ends(file))
  <2> HIDE DEF Is
  <2> QED BY <1>6, <1>7
<1> DEFINE e == Ends(file)
<1>9. DOMAIN e = 0 .. n /\ e[0] = 0 /\ \A i \in 1 .. n : e[i] = e[i - 1] + file[i].size
  BY <1>1, <1>8
<1> HIDE DEF e, n
<1>10. e \in [0 .. n -> Nat]
  <2> DEFINE T == {i \in 0 .. n : e[i] \in Nat}
  <2>1. 0 \in T
    BY <1>1, <1>9
  <2>2. ASSUME NEW i \in 1 .. n, i - 1 \in T PROVE i \in T
    <3>1. i - 1 \in 0 .. n /\ e[i - 1] \in Nat /\ i \in 0 .. n
      BY ONLY <1>1, <2>2
    <3>2. e[i] = e[i - 1] + file[i].size
      BY <1>9
    <3>3. file[i].size \in Nat
      BY <1>1
    <3>4. e[i] \in Nat
      BY ONLY <3>1, <3>2, <3>3
    <3> QED BY <3>1, <3>4
  <2>3. \A i \in 0 .. n : i \in T
    <3> HIDE DEF T
    <3> QED BY <1>1, <2>1, <2>2, UpTo
  <2>4. e = [i \in 0 .. n |-> e[i]]
    BY <1>8 DEF e, n
  <2> QED BY <2>3, <2>4
<1> QED BY <1>9, <1>10 DEF e, n

\* The newest records of a file, from k + 1 on.
From(file, k) == SubSeq(file, k + 1, Len(file))

LEMMA FromIs ==
  ASSUME NEW file, IsFile(file), NEW k \in 0 .. Len(file)
  PROVE  /\ IsFile(From(file, k)) /\ Range(From(file, k)) \subseteq Range(file)
         /\ Len(From(file, k)) = Len(file) - k
         /\ \A i \in 1 .. Len(file) - k : From(file, k)[i] = file[k + i]
<1> DEFINE g == From(file, k)
           n == Len(file)
           R == Range(file)
<1>1. n \in Nat /\ DOMAIN file = 1 .. n /\ \A i \in 1 .. n : file[i] \in R
  BY FileFacts
<1>2. g = SubSeq(file, k + 1, n)
  BY DEF From
<1> HIDE DEF n, R, g
<1>3. k \in Nat /\ k <= n /\ k + 1 \in Int /\ n \in Int
  BY <1>1 DEF n
<1>4. \A i \in k + 1 .. n : file[i] \in R
  BY <1>1, <1>3
<1>5. /\ g \in Seq(R) /\ Len(g) = (IF k + 1 <= n THEN n - (k + 1) + 1 ELSE 0)
      /\ \A i \in 1 .. n - (k + 1) + 1 : g[i] = file[k + 1 + i - 1]
  BY <1>2, <1>3, <1>4, SubSeqProperties
<1>6. Len(g) = n - k
  BY <1>3, <1>5
<1>7. \A i \in 1 .. n - k : g[i] = file[k + i]
  <2> TAKE i \in 1 .. n - k
  <2>1. i \in 1 .. n - (k + 1) + 1 /\ k + 1 + i - 1 = k + i
    BY <1>3
  <2> QED BY <1>5, <2>1
<1>8. Range(g) \subseteq R
  <2>1. \A i \in 1 .. Len(g) : g[i] \in R
    BY <1>5, ElementOfSeq
  <2>2. DOMAIN g = 1 .. Len(g)
    BY <1>5
  <2> QED BY <2>1, <2>2 DEF Range
<1>9. g \in Seq(Range(g))
  BY <1>5 DEF Range
<1>10. IsFile(g)
  BY <1>8, <1>9 DEF IsFile, R
<1> QED BY <1>6, <1>7, <1>8, <1>10 DEF n, R, g

\* What is left weighs what ends behind the cut.
LEMMA FromBytes ==
  ASSUME NEW file, IsFile(file), NEW k \in 0 .. Len(file)
  PROVE  Bytes(From(file, k)) = Bytes(file) - Ends(file)[k]
<1> DEFINE g == From(file, k)
           n == Len(file)
           e == Ends(file)
           f == Ends(g)
           T == {i \in 0 .. n - k : f[i] = e[k + i] - e[k]}
<1>1. /\ e \in [0 .. n -> Nat] /\ e[0] = 0
      /\ \A i \in 1 .. n : e[i] = e[i - 1] + file[i].size
  BY EndsOf
<1>2. /\ IsFile(g) /\ Len(g) = n - k /\ \A i \in 1 .. n - k : g[i] = file[k + i]
  BY FromIs
<1>3. /\ f \in [0 .. n - k -> Nat] /\ f[0] = 0
      /\ \A i \in 1 .. n - k : f[i] = f[i - 1] + g[i].size
  BY <1>2, EndsOf
<1>4. n \in Nat /\ k \in Nat /\ k <= n /\ \A i \in 1 .. n : file[i].size \in Nat
  BY FileFacts
<1>5. Bytes(g) = f[n - k] /\ Bytes(file) = e[n]
  BY <1>2 DEF Bytes
<1> HIDE DEF g, n, e, f
<1>6. 0 \in T
  BY <1>1, <1>3, <1>4
<1>7. ASSUME NEW i \in 1 .. n - k, i - 1 \in T PROVE i \in T
  <2>1. f[i - 1] = e[k + (i - 1)] - e[k] /\ f[i] = f[i - 1] + file[k + i].size
    BY <1>2, <1>3, <1>7
  <2>2. /\ k + i \in 1 .. n /\ k + i - 1 = k + (i - 1) /\ k \in 0 .. n /\ k + i \in 0 .. n
        /\ k + (i - 1) \in 0 .. n /\ i \in 0 .. n - k
    BY <1>4
  <2>3. e[k + i] = e[k + (i - 1)] + file[k + i].size
    BY <1>1, <2>2
  <2>4. e[k + i] \in Nat /\ e[k] \in Nat /\ e[k + (i - 1)] \in Nat /\ file[k + i].size \in Nat
    BY <1>1, <1>4, <2>2
  <2>5. f[i] = e[k + i] - e[k]
    BY ONLY <2>1, <2>3, <2>4
  <2> QED BY <2>2, <2>5
<1>8. n - k \in Nat
  BY <1>4
<1>9. \A i \in 0 .. n - k : i \in T
  <2> HIDE DEF T
  <2> QED BY <1>6, <1>7, <1>8, UpTo
<1>10. n - k \in 0 .. n - k /\ k + (n - k) = n
  BY <1>4
<1> QED BY <1>5, <1>9, <1>10 DEF g, e

\* A file is empty or weighs two bytes at least.
LEMMA FileWeighs ==
  ASSUME NEW file, IsFile(file)
  PROVE  /\ Bytes(file) \in Nat /\ (Len(file) = 0 => Bytes(file) = 0)
         /\ (Len(file) # 0 => Bytes(file) >= 2)
<1> DEFINE n == Len(file)
           e == Ends(file)
<1>1. /\ e \in [0 .. n -> Nat] /\ e[0] = 0
      /\ \A i \in 1 .. n : e[i] = e[i - 1] + file[i].size
  BY EndsOf
<1>2. n \in Nat /\ \A i \in 1 .. n : file[i].size \in Nat /\ file[i].size >= 2
  BY FileFacts
<1>3. Bytes(file) = e[n]
  BY DEF Bytes
<1> HIDE DEF n, e
<1>4. n \in 0 .. n
  BY <1>2
<1>5. CASE n = 0
  BY <1>1, <1>3, <1>5 DEF n
<1>6. CASE n # 0
  <2>1. n \in 1 .. n /\ n - 1 \in 0 .. n
    BY <1>2, <1>6
  <2>2. e[n] = e[n - 1] + file[n].size /\ e[n - 1] \in Nat /\ file[n].size \in Nat /\ file[n].size >= 2
    BY <1>1, <1>2, <2>1
  <2> QED BY ONLY <1>3, <1>6, <2>2 DEF n
<1> QED BY <1>5, <1>6

\* What the tail of a file keeps within m bytes.
LEMMA TailKeeps ==
  ASSUME NEW file, IsFile(file), NEW m \in Nat
  PROVE  \E k \in 0 .. Len(file) :
           /\ compactJSONLTail(file, m) = From(file, k)
           /\ Bytes(file) <= m \/ m < 1 => k = 0
           /\ Bytes(file) > m /\ m >= 1 =>
                /\ k > 0 /\ Bytes(From(file, k)) < m
                /\ file[k].size + Bytes(From(file, k)) >= m
<1> DEFINE n == Len(file)
           e == Ends(file)
           b == Bytes(file)
           S == {i \in DOMAIN file : e[i] > b - m}
<1>1. /\ e \in [0 .. n -> Nat] /\ e[0] = 0
      /\ \A i \in 1 .. n : e[i] = e[i - 1] + file[i].size
  BY EndsOf
<1>2. /\ n \in Nat /\ DOMAIN file = 1 .. n
      /\ \A i \in 1 .. n : file[i].size \in Nat /\ file[i].size >= 2
  BY FileFacts
<1>3. b = e[n] /\ b \in Nat /\ (n = 0 => b = 0)
  BY FileWeighs DEF Bytes
<1>4. CASE b <= m \/ m < 1
  <2>1. compactJSONLTail(file, m) = file
    BY <1>4 DEF compactJSONLTail
  <2>2. From(file, 0) = file
    <3>1. 0 \in 0 .. n
      BY <1>2
    <3>2. /\ Len(From(file, 0)) = n - 0 /\ IsFile(From(file, 0))
          /\ \A i \in 1 .. n - 0 : From(file, 0)[i] = file[0 + i]
      BY <3>1, FromIs
    <3>3. DOMAIN From(file, 0) = 1 .. Len(From(file, 0))
      BY <3>2, FileFacts
    <3>4. \A i \in 1 .. n : From(file, 0)[i] = file[i]
      BY <1>2, <3>2
    <3>5. From(file, 0) = [i \in DOMAIN From(file, 0) |-> From(file, 0)[i]]
      BY <3>2 DEF IsFile
    <3>6. file = [i \in DOMAIN file |-> file[i]]
      BY DEF IsFile
    <3> HIDE DEF n
    <3> QED BY <1>2, <3>2, <3>3, <3>4, <3>5, <3>6
  <2>3. 0 \in 0 .. n
    BY <1>2
  <2>4. ~(b > m /\ m >= 1)
    BY <1>3, <1>4
  <2> QED BY <2>1, <2>2, <2>3, <2>4
<1>5. CASE ~(b <= m \/ m < 1)
  <2>1. b > m /\ m >= 1
    BY <1>3, <1>5
  <2> HIDE DEF e, b, n
  <2>2. n \in S
    <3>1. n # 0
      BY <1>3, <2>1
    <3> QED BY <1>2, <1>3, <2>1, <3>1
  <2>3. S \in SUBSET Nat /\ S # {}
    BY <1>2, <2>2
  <2> DEFINE k == Min(S)
  <2>4. k \in S /\ \A x \in S : k <= x
    <3> HIDE DEF S
    <3> QED BY <2>3, Least
  <2>5. compactJSONLTail(file, m) = From(file, k)
    BY <1>5 DEF compactJSONLTail, Partial, From, e, b
  <2> HIDE DEF k
  <2>6. k \in 1 .. n /\ k \in 0 .. n /\ k - 1 \in 0 .. n /\ e[k] > b - m
    BY <1>2, <2>4
  <2>7. /\ e[k] \in Nat /\ e[k - 1] \in Nat /\ e[k] = e[k - 1] + file[k].size
        /\ file[k].size \in Nat
    BY <1>1, <1>2, <2>6
  <2>8. e[k - 1] <= b - m
    <3>1. CASE k = 1
      BY <1>1, <1>3, <2>1, <3>1
    <3>2. CASE k # 1
      <4>1. k - 1 \in DOMAIN file /\ ~(k <= k - 1)
        BY <1>2, <2>6, <3>2
      <4>2. ~(e[k - 1] > b - m)
        BY <2>4, <4>1
      <4> QED BY <1>3, <2>7, <4>2
    <3> QED BY <3>1, <3>2
  <2>9. Bytes(From(file, k)) = b - e[k]
    BY <2>6, FromBytes DEF b, e, n
  <2>10. Bytes(From(file, k)) < m /\ file[k].size + Bytes(From(file, k)) >= m /\ k > 0
    <3> DEFINE left == Bytes(From(file, k))
               x == e[k]
               y == e[k - 1]
               z == file[k].size
    <3>1. /\ left = b - x /\ x \in Nat /\ y \in Nat /\ z \in Nat /\ x = y + z /\ x > b - m
          /\ y <= b - m /\ b \in Nat
      BY <1>3, <2>6, <2>7, <2>8, <2>9
    <3> HIDE DEF left, x, y, z
    <3>2. left < m /\ z + left >= m
      BY ONLY <3>1, m \in Nat
    <3>3. k > 0
      BY ONLY <1>2, <2>6
    <3> QED BY ONLY <3>2, <3>3 DEF left, z
  <2>11. ~(b <= m \/ m < 1)
    BY <1>5
  <2> QED BY <2>5, <2>6, <2>10, <2>11 DEF b, n
<1> QED BY <1>4, <1>5

LEMMA ReverseIs ==
  ASSUME NEW s, IsFile(s)
  PROVE  /\ Reverse(s) \in Seq(Range(s)) /\ Len(Reverse(s)) = Len(s)
         /\ \A i \in 1 .. Len(s) : Reverse(s)[i] = s[Len(s) - i + 1]
<1> DEFINE n == Len(s)
<1>1. n \in Nat /\ \A i \in 1 .. n : s[i] \in Range(s)
  BY FileFacts
<1>2. Reverse(s) = [i \in 1 .. n |-> s[n - i + 1]]
  BY DEF Reverse
<1> HIDE DEF n
<1>3. \A i \in 1 .. n : n - i + 1 \in 1 .. n
  BY <1>1
<1>4. \A i \in 1 .. n : Reverse(s)[i] \in Range(s) /\ Reverse(s)[i] = s[n - i + 1]
  BY <1>1, <1>2, <1>3
<1>5. Reverse(s) \in [1 .. n -> Range(s)]
  BY <1>2, <1>4
<1>6. Reverse(s) \in Seq(Range(s)) /\ Len(Reverse(s)) = n
  BY <1>1, <1>5
<1> QED BY <1>4, <1>6 DEF n

LEMMA FromIsSuffix ==
  ASSUME NEW file, IsFile(file), NEW k \in 0 .. Len(file)
  PROVE  IsSuffix(From(file, k), file)
<1> DEFINE g == From(file, k)
           n == Len(file)
           m == Len(g)
           a == Reverse(g)
           b == Reverse(file)
<1>1. n \in Nat /\ k \in Nat /\ k <= n
  BY FileFacts
<1>2. IsFile(g) /\ m = n - k /\ \A i \in 1 .. n - k : g[i] = file[k + i]
  BY FromIs
<1>3. a \in Seq(Range(g)) /\ Len(a) = m /\ \A i \in 1 .. m : a[i] = g[m - i + 1]
  BY <1>2, ReverseIs
<1>4. b \in Seq(Range(file)) /\ Len(b) = n /\ \A i \in 1 .. n : b[i] = file[n - i + 1]
  BY ReverseIs
<1> HIDE DEF g, n, m, a, b
<1>5. m \in Nat /\ m <= n
  BY <1>1, <1>2
<1>6. ASSUME NEW i \in 1 .. m PROVE a[i] = b[i]
  <2>1. m - i + 1 \in 1 .. n - k /\ k + (m - i + 1) = n - i + 1 /\ i \in 1 .. n
    BY <1>1, <1>2, <1>5
  <2> QED BY <1>2, <1>3, <1>4, <2>1
<1>7. /\ SubSeq(a, 1, m) \in Seq(Range(g)) /\ Len(SubSeq(a, 1, m)) = m
      /\ \A i \in 1 .. m : SubSeq(a, 1, m)[i] = a[i]
  <2>1. \A i \in 1 .. m : a[i] \in Range(g)
    BY <1>3, ElementOfSeq
  <2>2. /\ SubSeq(a, 1, m) \in Seq(Range(g))
        /\ Len(SubSeq(a, 1, m)) = (IF 1 <= m THEN m - 1 + 1 ELSE 0)
        /\ \A i \in 1 .. m - 1 + 1 : SubSeq(a, 1, m)[i] = a[1 + i - 1]
    BY <1>5, <2>1, SubSeqProperties
  <2> QED BY ONLY <1>5, <2>2
<1>8. /\ SubSeq(b, 1, m) \in Seq(Range(file)) /\ Len(SubSeq(b, 1, m)) = m
      /\ \A i \in 1 .. m : SubSeq(b, 1, m)[i] = b[i]
  <2>1. \A i \in 1 .. m : b[i] \in Range(file)
    <3>1. \A i \in 1 .. m : i \in 1 .. n
      BY <1>1, <1>5
    <3> QED BY <1>4, <3>1, ElementOfSeq
  <2>2. /\ SubSeq(b, 1, m) \in Seq(Range(file))
        /\ Len(SubSeq(b, 1, m)) = (IF 1 <= m THEN m - 1 + 1 ELSE 0)
        /\ \A i \in 1 .. m - 1 + 1 : SubSeq(b, 1, m)[i] = b[1 + i - 1]
    BY <1>5, <2>1, SubSeqProperties
  <2> QED BY ONLY <1>5, <2>2
<1>9. SubSeq(a, 1, m) = SubSeq(b, 1, m)
  BY <1>6, <1>7, <1>8
<1> QED BY <1>3, <1>4, <1>5, <1>9 DEF IsSuffix, IsPrefix, a, b, g

----------------------------------------------------------------------------
(* Parts of a target *)

LEMMA Products ==
  ASSUME NEW a \in Int, NEW b \in Int, NEW c \in Nat, a <= b PROVE a * c <= b * c
OBVIOUS

LEMMA Cancel ==
  ASSUME NEW a \in Int, NEW b \in Int, NEW c \in Nat, c > 0, a * c < b * c PROVE a < b
<1>1. SUFFICES ASSUME b <= a PROVE FALSE
  OBVIOUS
<1>2. b * c <= a * c
  BY <1>1, Products
<1>3. a * c \in Int /\ b * c \in Int
  OBVIOUS
<1> QED BY ONLY a * c < b * c, <1>2, <1>3

LEMMA Division ==
  ASSUME NEW a \in Int, NEW r \in Nat, r > 0
  PROVE  /\ a \div r \in Int
         /\ (a \div r) * r <= a
         /\ a < (a \div r) * r + r
OBVIOUS

\* A part of the target is not more than the target.
LEMMA PartOf ==
  ASSUME NEW t \in Int, NEW s \in Nat, NEW r \in Nat, s <= r, r > 0
  PROVE  /\ t >= 0 => (t * s) \div r <= t
         /\ (t < 0 /\ s > 0) => (t * s) \div r <= 0
<1> DEFINE q == (t * s) \div r
<1>1. t * s \in Int /\ s * t = t * s /\ r * t = t * r /\ t * r \in Int
  OBVIOUS
<1>2. q \in Int /\ q * r <= t * s
  BY <1>1, Division
<1> HIDE DEF q
<1>3. ASSUME t >= 0 PROVE q <= t
  <2>1. s * t <= r * t
    BY <1>3, Products
  <2>2. q * r < t * r + r
    <3>1. q * r \in Int
      BY <1>2
    <3> QED BY <1>1, <1>2, <2>1, <3>1
  <2>3. t * r + r = (t + 1) * r
    OBVIOUS
  <2>4. q < t + 1
    BY <1>2, <2>2, <2>3, Cancel
  <2> QED BY <1>2, <2>4
<1>4. ASSUME t < 0, s > 0 PROVE q <= 0
  <2>1. t * s <= 0
    <3>1. t <= 0
      BY <1>4
    <3>2. t * s <= 0 * s
      BY <3>1, Products
    <3> QED BY <3>2
  <2>2. q * r < 1 * r
    <3>1. q * r \in Int
      BY <1>2
    <3> QED BY <1>1, <1>2, <2>1, <3>1
  <2>3. q < 1
    BY <1>2, <2>2, Cancel
  <2> QED BY <1>2, <2>3
<1> QED BY <1>3, <1>4 DEF q

LEMMA Reorder ==
  ASSUME NEW a \in Int, NEW b \in Int, NEW c \in Int
  PROVE  (a * b) * c = (a * c) * b /\ (a * b) * c = a * (b * c) /\ (a * b) * c \in Int /\ a * b = b * a
OBVIOUS

\* S (t + c) >= T r: of the target T of the whole size S, the part t that is left for
\* the size r lacks less than c bytes.  Then no file gets c bytes less than its part.
LEMMA PartKept ==
  ASSUME NEW T \in Nat, NEW S \in Nat, S > 0, NEW t \in Int, NEW c \in Nat, NEW r \in Nat, r > 0,
         NEW s \in Nat, s <= r, T * r <= (t + c) * S
  PROVE  (T * s) \div S <= (t * s) \div r + c
<1> DEFINE q == (t * s) \div r
           f == (T * s) \div S
<1>1. q \in Int /\ t * s < q * r + r
  BY Division
<1>2. f \in Int /\ f * S <= T * s
  BY Division
<1> HIDE DEF q, f
<1> DEFINE x == q + c + 1
<1>3. (T * s) * r <= ((t + c) * s) * S
  <2>1. (T * r) * s <= ((t + c) * S) * s
    BY Products
  <2>2. (T * r) * s = (T * s) * r /\ ((t + c) * S) * s = ((t + c) * s) * S
    BY Reorder
  <2> QED BY <2>1, <2>2
<1>4. (t + c) * s < x * r
  <2>1. (t + c) * s = t * s + c * s
    OBVIOUS
  <2>2. c * s <= c * r
    <3>1. s * c <= r * c
      BY Products
    <3> QED BY <3>1
  <2>3. x * r = q * r + c * r + r
    BY <1>1
  <2>4. t * s \in Int /\ c * s \in Int /\ c * r \in Int /\ q * r \in Int
    BY <1>1
  <2> HIDE DEF x
  <2> QED BY <1>1, <2>1, <2>2, <2>3, <2>4
<1>5. x \in Int
  BY <1>1
<1> HIDE DEF x
<1>6. ((t + c) * s) * S < (x * r) * S
  <2>1. ((t + c) * s) + 1 <= x * r /\ (t + c) * s \in Int /\ x * r \in Int
    BY <1>4, <1>5
  <2>2. ((t + c) * s + 1) * S <= (x * r) * S
    BY <2>1, Products
  <2>3. ((t + c) * s + 1) * S = ((t + c) * s) * S + S
    BY <2>1
  <2>4. ((t + c) * s) * S \in Int /\ (x * r) * S \in Int
    BY <2>1
  <2> QED BY <2>2, <2>3, <2>4
<1>7. (T * s) * r < (x * S) * r
  <2>1. (x * r) * S = (x * S) * r /\ (x * S) * r \in Int
    BY <1>5, Reorder
  <2>2. (T * s) * r \in Int /\ ((t + c) * s) * S \in Int
    OBVIOUS
  <2> QED BY <1>3, <1>6, <2>1, <2>2
<1>8. T * s < x * S
  BY <1>5, <1>7, Cancel
<1>9. f * S < x * S
  <2>1. f * S \in Int /\ T * s \in Int /\ x * S \in Int
    BY <1>2, <1>5
  <2> QED BY <1>2, <1>8, <2>1
<1>10. f < x
  BY <1>2, <1>5, <1>9, Cancel
<1> QED BY <1>1, <1>2, <1>10 DEF x, q, f

\* A file that takes no more than its part of what is left leaves enough for the others.
LEMMA LeftForOthers ==
  ASSUME NEW T \in Nat, NEW S \in Nat, NEW t \in Int, NEW c \in Nat, NEW r \in Nat, r > 0,
         NEW s \in Nat, s <= r, T * r <= (t + c) * S, NEW share \in Int, share <= (t * s) \div r
  PROVE  T * (r - s) <= (t - share + c) * S
<1> DEFINE q == (t * s) \div r
           u == t - share + c
           p == r - s
<1>1. q \in Int /\ q * r <= t * s /\ share <= q
  BY Division
<1> HIDE DEF q
<1>2. u \in Int /\ p \in Nat /\ p <= r
  OBVIOUS
<1>3. (t + c) * p <= u * r
  <2>1. (t - q + c) * r <= u * r
    <3>1. t - q + c <= u /\ t - q + c \in Int
      BY <1>1
    <3> HIDE DEF u
    <3> QED BY <1>2, <3>1, Products
  <2>2. (t - q + c) * r = t * r - q * r + c * r
    BY <1>1
  <2>3. (t + c) * p = t * r - t * s + c * p
    OBVIOUS
  <2>4. c * p <= c * r
    <3> HIDE DEF p
    <3>1. p * c <= r * c
      BY <1>2, Products
    <3> QED BY <1>2, <3>1
  <2>5. /\ t * r \in Int /\ q * r \in Int /\ c * r \in Int /\ t * s \in Int /\ c * p \in Int
        /\ (t - q + c) * r \in Int
    BY <1>1
  <2>6. u * r \in Int
    BY <1>2
  <2> HIDE DEF u, p
  <2> QED BY <1>1, <2>1, <2>2, <2>3, <2>4, <2>5, <2>6
<1> HIDE DEF u, p
<1>4. ((t + c) * p) * S <= (u * r) * S
  BY <1>2, <1>3, Products
<1>5. (T * r) * p <= ((t + c) * S) * p
  BY <1>2, Products
<1>6. (T * p) * r <= (u * S) * r
  <2>1. ((t + c) * S) * p = ((t + c) * p) * S /\ ((t + c) * S) * p \in Int
    BY <1>2, Reorder
  <2>2. (T * r) * p = (T * p) * r /\ (T * p) * r \in Int
    BY <1>2, Reorder
  <2>3. (u * r) * S = (u * S) * r /\ (u * S) * r \in Int
    BY <1>2, Reorder
  <2> QED BY <1>4, <1>5, <2>1, <2>2, <2>3
<1>7. T * p <= u * S
  <2> SUFFICES ASSUME u * S < T * p PROVE FALSE
    BY <1>2
  <2>1. (u * S + 1) * r <= (T * p) * r /\ (u * S + 1) * r = (u * S) * r + r
    <3>1. u * S \in Int /\ T * p \in Int /\ u * S + 1 <= T * p
      BY <1>2
    <3> QED BY <3>1, Products
  <2>2. (u * S) * r \in Int /\ (T * p) * r \in Int
    BY <1>2
  <2> QED BY <1>6, <2>1, <2>2
<1> QED BY <1>7 DEF u, p

----------------------------------------------------------------------------
(* Three files *)

IsThree(fs) == fs = [i \in 1 .. 3 |-> fs[i]] /\ \A i \in 1 .. 3 : IsFile(fs[i])

LEMMA ThreeLong == ASSUME NEW fs, fs = [i \in 1 .. 3 |-> fs[i]] PROVE Len(fs) = 3
<1> DEFINE S == {fs[1], fs[2], fs[3]}
<1>1. \A i \in 1 .. 3 : fs[i] \in S
  OBVIOUS
<1>2. fs \in [1 .. 3 -> S]
  BY <1>1
<1> HIDE DEF S
<1>3. fs \in Seq(S)
  BY <1>2
<1> QED BY <1>2, <1>3

LEMMA TotalOfThree ==
  ASSUME NEW fs, IsThree(fs)
  PROVE  Total(fs) = Bytes(fs[1]) + Bytes(fs[2]) + Bytes(fs[3])
<1> DEFINE a == Bytes(fs[1])
           b == Bytes(fs[2])
           c == Bytes(fs[3])
           Is(f) == f = [i \in 0 .. Len(fs) |-> IF i = 0 THEN 0 ELSE f[i - 1] + Bytes(fs[i])]
           g == [i \in 0 .. 3 |-> IF i = 0 THEN 0 ELSE IF i = 1 THEN a ELSE IF i = 2 THEN a + b ELSE a + b + c]
<1>1. Len(fs) = 3 /\ a \in Nat /\ b \in Nat /\ c \in Nat
  BY ThreeLong, FileWeighs DEF IsThree
<1>2. Is(g)
  <2>1. ASSUME NEW i \in 0 .. 3 PROVE g[i] = IF i = 0 THEN 0 ELSE g[i - 1] + Bytes(fs[i])
    <3>1. i = 0 \/ i = 1 \/ i = 2 \/ i = 3
      OBVIOUS
    <3>2. g[0] = 0 /\ g[1] = a /\ g[2] = a + b /\ g[3] = a + b + c
      OBVIOUS
    <3>3. 1 - 1 = 0 /\ 2 - 1 = 1 /\ 3 - 1 = 2 /\ 0 + a = a
      BY <1>1
    <3> HIDE DEF g
    <3> QED BY <3>1, <3>2, <3>3
  <2>2. g = [i \in 0 .. 3 |-> g[i]]
    OBVIOUS
  <2> HIDE DEF g
  <2> QED BY <1>1, <2>1, <2>2
<1>3. Total(fs) = (CHOOSE f : Is(f))[Len(fs)]
  BY DEF Total
<1> DEFINE h == CHOOSE f : Is(f)
<1>4. Is(h)
  <2> HIDE DEF Is
  <2> QED BY <1>2
<1> HIDE DEF h
<1>5. /\ h[0] = 0 /\ h[1] = h[1 - 1] + a /\ h[2] = h[2 - 1] + b /\ h[3] = h[3 - 1] + c
  BY <1>1, <1>4
<1>6. 1 - 1 = 0 /\ 2 - 1 = 1 /\ 3 - 1 = 2
  OBVIOUS
<1> QED BY <1>1, <1>3, <1>5, <1>6 DEF h

\* The loop of compactJSONLStorageBudget, turn by turn.
Started(fs, targetBytes) ==
  [files |-> fs, shares |-> [j \in DOMAIN fs |-> 0], target |-> targetBytes, size |-> Total(fs)]

LEMMA CompactionOfThree ==
  ASSUME NEW fs, IsThree(fs), NEW targetBytes
  PROVE  Compaction(fs, targetBytes) =
           CompactNext(CompactNext(CompactNext(Started(fs, targetBytes), 1, Bytes(fs[1])),
                                   2, Bytes(fs[2])), 3, Bytes(fs[3]))
<1> DEFINE a0 == Started(fs, targetBytes)
           a1 == CompactNext(a0, 1, Bytes(fs[1]))
           a2 == CompactNext(a1, 2, Bytes(fs[2]))
           a3 == CompactNext(a2, 3, Bytes(fs[3]))
           Is(f) == f = [i \in 0 .. Len(fs) |->
                           IF i = 0 THEN [files |-> fs, shares |-> [j \in DOMAIN fs |-> 0],
                                          target |-> targetBytes, size |-> Total(fs)]
                           ELSE CompactNext(f[i - 1], i, Bytes(fs[i]))]
           g == [i \in 0 .. 3 |-> IF i = 0 THEN a0 ELSE IF i = 1 THEN a1 ELSE IF i = 2 THEN a2 ELSE a3]
<1>1. Len(fs) = 3
  BY ThreeLong DEF IsThree
<1>2. Is(g)
  <2>1. ASSUME NEW i \in 0 .. 3 PROVE g[i] = IF i = 0 THEN a0 ELSE CompactNext(g[i - 1], i, Bytes(fs[i]))
    <3>1. i = 0 \/ i = 1 \/ i = 2 \/ i = 3
      OBVIOUS
    <3>2. g[0] = a0 /\ g[1] = a1 /\ g[2] = a2 /\ g[3] = a3
      OBVIOUS
    <3>3. 1 - 1 = 0 /\ 2 - 1 = 1 /\ 3 - 1 = 2
      OBVIOUS
    <3> HIDE DEF g, a0
    <3> QED BY <3>1, <3>2, <3>3
  <2>2. g = [i \in 0 .. 3 |-> g[i]]
    OBVIOUS
  <2> HIDE DEF g
  <2> QED BY <1>1, <2>1, <2>2 DEF Started
<1>3. Compaction(fs, targetBytes) = (CHOOSE f : Is(f))[Len(fs)]
  BY DEF Compaction
<1> DEFINE h == CHOOSE f : Is(f)
<1>4. Is(h)
  <2> HIDE DEF Is
  <2> QED BY <1>2
<1> HIDE DEF h
<1>5. /\ h[0] = a0 /\ h[1] = CompactNext(h[1 - 1], 1, Bytes(fs[1]))
      /\ h[2] = CompactNext(h[2 - 1], 2, Bytes(fs[2])) /\ h[3] = CompactNext(h[3 - 1], 3, Bytes(fs[3]))
  BY <1>1, <1>4 DEF Started
<1>6. 1 - 1 = 0 /\ 2 - 1 = 1 /\ 3 - 1 = 2
  OBVIOUS
<1> QED BY <1>1, <1>3, <1>5, <1>6 DEF h

\* What a file of size s gets when t of the target is left for the size r.
Part(s, t, r) == IF s = 0 THEN 0 ELSE Share(s, t, r)

LEMMA PartIs ==
  ASSUME NEW s \in Nat, NEW t \in Int, NEW r \in Nat, s <= r, s # 0
  PROVE  LET m == Part(s, t, r)
             q == (t * s) \div r
         IN  /\ q \in Int /\ m \in Nat /\ 1 <= m /\ m <= s /\ (m <= q \/ m = 1)
             /\ m = s \/ m = q \/ (m = 1 /\ q <= 1)
<1> DEFINE q == (t * s) \div r
           x == Max({1, q})
           m == Part(s, t, r)
<1>1. q \in Int
  <2>1. t * s \in Int /\ r > 0
    OBVIOUS
  <2> QED BY <2>1, Division
<1>2. m = Min({s, x})
  BY DEF Part, Share
<1> HIDE DEF q, m
<1>3. x \in {1, q} /\ x >= 1 /\ x >= q
  BY <1>1, MaxOfTwo
<1> HIDE DEF x
<1>4. m \in {s, x} /\ m <= s /\ m <= x
  <2>1. x \in Int
    BY <1>1, <1>3
  <2>2. Min({s, x}) \in {s, x} /\ Min({s, x}) <= s /\ Min({s, x}) <= x
    <3>1. s \in Int
      OBVIOUS
    <3> QED BY ONLY <2>1, <3>1, MinOfTwo
  <2> QED BY ONLY <1>2, <2>2
<1>5. /\ m \in Nat /\ 1 <= m /\ m <= s /\ (m <= q \/ m = 1)
      /\ m = s \/ m = q \/ (m = 1 /\ q <= 1)
  BY ONLY <1>1, <1>3, <1>4, s \in Nat, s # 0
<1> QED BY <1>1, <1>5 DEF q, m

LEMMA PartType ==
  ASSUME NEW s \in Nat, NEW t \in Int, NEW r \in Nat, s <= r
  PROVE  Part(s, t, r) \in Nat
<1>1. CASE s = 0
  BY <1>1 DEF Part
<1>2. CASE s # 0
  BY <1>2, PartIs
<1> QED BY <1>1, <1>2

\* One turn, for an empty file too.
LEMMA TurnIs ==
  ASSUME NEW i \in 1 .. 3, NEW F, F = [j \in 1 .. 3 |-> F[j]], NEW H, H = [j \in 1 .. 3 |-> H[j]],
         H[i] = 0, NEW t \in Int, NEW r \in Int, NEW s \in Nat
  PROVE  CompactNext([files |-> F, shares |-> H, target |-> t, size |-> r], i, s) =
           [files |-> [F EXCEPT ![i] = compactJSONLTail(F[i], Part(s, t, r))],
            shares |-> [H EXCEPT ![i] = Part(s, t, r)],
            target |-> t - Part(s, t, r), size |-> r - s]
<1>1. CASE s = 0
  <2>1. Part(s, t, r) = 0
    BY <1>1 DEF Part
  <2>2. compactJSONLTail(F[i], 0) = F[i]
    BY DEF compactJSONLTail
  <2>3. [F EXCEPT ![i] = F[i]] = F /\ [H EXCEPT ![i] = 0] = H
    OBVIOUS
  <2>4. t - 0 = t /\ r - s = r
    BY <1>1
  <2> QED BY <1>1, <2>1, <2>2, <2>3, <2>4 DEF CompactNext
<1>2. CASE s # 0
  BY <1>2 DEF CompactNext, Part
<1> QED BY <1>1, <1>2

\* The shares of three files.
Shares(s1, s2, s3, targetBytes) ==
  LET r == s1 + s2 + s3
      m1 == Part(s1, targetBytes, r)
      m2 == Part(s2, targetBytes - m1, r - s1)
      m3 == Part(s3, targetBytes - m1 - m2, r - s1 - s2)
  IN  <<m1, m2, m3>>

LEMMA SharesAre ==
  ASSUME NEW s1 \in Nat, NEW s2 \in Nat, NEW s3 \in Nat, NEW T \in Nat
  PROVE  LET m == Shares(s1, s2, s3, T) IN
         /\ m = <<m[1], m[2], m[3]>> /\ m[1] \in Nat /\ m[2] \in Nat /\ m[3] \in Nat
         /\ m[1] = Part(s1, T, s1 + s2 + s3)
         /\ m[2] = Part(s2, T - m[1], s2 + s3)
         /\ m[3] = Part(s3, T - m[1] - m[2], s3)
<1> DEFINE r == s1 + s2 + s3
           m1 == Part(s1, T, r)
           m2 == Part(s2, T - m1, r - s1)
           m3 == Part(s3, T - m1 - m2, r - s1 - s2)
<1>1. Shares(s1, s2, s3, T) = <<m1, m2, m3>>
  BY DEF Shares
<1>2. /\ r \in Nat /\ s1 <= r /\ r - s1 = s2 + s3 /\ r - s1 - s2 = s3
      /\ s2 + s3 \in Nat /\ s2 <= s2 + s3
  OBVIOUS
<1> HIDE DEF r, m1, m2, m3
<1>3. m1 \in Nat
  BY <1>2, PartType DEF m1
<1>4. m2 \in Nat
  <2>1. T - m1 \in Int
    BY <1>3
  <2> QED BY <1>2, <2>1, PartType DEF m2
<1>5. m3 \in Nat
  <2>1. T - m1 - m2 \in Int /\ s3 <= s3
    BY <1>3, <1>4
  <2> QED BY <1>2, <2>1, PartType DEF m3
<1> QED BY <1>1, <1>2, <1>3, <1>4, <1>5 DEF r, m1, m2, m3

\* What the compaction of three files leaves of each.
LEMMA CompactedThree ==
  ASSUME NEW fs, IsThree(fs), NEW T \in Nat
  PROVE  LET c == Compaction(fs, T)
             m == Shares(Bytes(fs[1]), Bytes(fs[2]), Bytes(fs[3]), T)
         IN  /\ c.files = [i \in 1 .. 3 |-> c.files[i]]
             /\ \A i \in 1 .. 3 : c.shares[i] = m[i] /\ c.files[i] = compactJSONLTail(fs[i], m[i])
<1> DEFINE s1 == Bytes(fs[1])
           s2 == Bytes(fs[2])
           s3 == Bytes(fs[3])
           r == s1 + s2 + s3
           m1 == Part(s1, T, r)
           m2 == Part(s2, T - m1, r - s1)
           m3 == Part(s3, T - m1 - m2, r - s1 - s2)
           m == Shares(s1, s2, s3, T)
           k(i, x) == compactJSONLTail(fs[i], x)
           F1 == [fs EXCEPT ![1] = k(1, m1)]
           F2 == [F1 EXCEPT ![2] = k(2, m2)]
           F3 == [F2 EXCEPT ![3] = k(3, m3)]
           H0 == [j \in 1 .. 3 |-> 0]
           H1 == [H0 EXCEPT ![1] = m1]
           H2 == [H1 EXCEPT ![2] = m2]
           H3 == [H2 EXCEPT ![3] = m3]
           c == Compaction(fs, T)
<1>1. s1 \in Nat /\ s2 \in Nat /\ s3 \in Nat
  BY FileWeighs DEF IsThree
<1>2. m = <<m1, m2, m3>>
  BY DEF Shares
<1>3. m1 \in Nat /\ m2 \in Nat /\ m3 \in Nat
  <2> HIDE DEF s1, s2, s3, m1, m2, m3, m
  <2>1. m[1] \in Nat /\ m[2] \in Nat /\ m[3] \in Nat
    BY <1>1, SharesAre DEF m
  <2> QED BY <1>2, <2>1
<1>4. r \in Int /\ r - s1 \in Int /\ r - s1 - s2 \in Int /\ T - m1 \in Int /\ T - m1 - m2 \in Int
  <2> HIDE DEF s1, s2, s3, m1, m2
  <2> QED BY <1>1, <1>3
<1>5. Total(fs) = r /\ fs = [j \in 1 .. 3 |-> fs[j]]
  BY TotalOfThree DEF IsThree
<1>6. c = CompactNext(CompactNext(CompactNext(Started(fs, T), 1, s1), 2, s2), 3, s3)
  BY CompactionOfThree
<1> HIDE DEF s1, s2, s3, r, m1, m2, m3, k, c
<1>7. Started(fs, T) = [files |-> fs, shares |-> H0, target |-> T, size |-> r]
  BY <1>5 DEF Started
<1>8. /\ F1 = [j \in 1 .. 3 |-> F1[j]] /\ F2 = [j \in 1 .. 3 |-> F2[j]] /\ F3 = [j \in 1 .. 3 |-> F3[j]]
      /\ H0 = [j \in 1 .. 3 |-> H0[j]] /\ H1 = [j \in 1 .. 3 |-> H1[j]] /\ H2 = [j \in 1 .. 3 |-> H2[j]]
  BY <1>5
<1>9. /\ F1[1] = k(1, m1) /\ F1[2] = fs[2] /\ F1[3] = fs[3] /\ F2[1] = k(1, m1) /\ F2[2] = k(2, m2)
      /\ F2[3] = fs[3] /\ F3[1] = k(1, m1) /\ F3[2] = k(2, m2) /\ F3[3] = k(3, m3)
  BY <1>5
<1>10. /\ H0[1] = 0 /\ H1[2] = 0 /\ H2[3] = 0 /\ H3[1] = m1 /\ H3[2] = m2 /\ H3[3] = m3
  OBVIOUS
<1> HIDE DEF F1, F2, F3, H0, H1, H2, H3
<1>11. CompactNext(Started(fs, T), 1, s1)
         = [files |-> F1, shares |-> H1, target |-> T - m1, size |-> r - s1]
  <2>1. 1 \in 1 .. 3 /\ fs = [j \in 1 .. 3 |-> fs[j]] /\ H0 = [j \in 1 .. 3 |-> H0[j]] /\ H0[1] = 0
    BY <1>5, <1>8, <1>10
  <2>2. T \in Int /\ r \in Int /\ s1 \in Nat
    BY <1>1, <1>4
  <2>3. CompactNext([files |-> fs, shares |-> H0, target |-> T, size |-> r], 1, s1) =
           [files |-> [fs EXCEPT ![1] = compactJSONLTail(fs[1], Part(s1, T, r))],
            shares |-> [H0 EXCEPT ![1] = Part(s1, T, r)],
            target |-> T - Part(s1, T, r), size |-> r - s1]
    BY ONLY <2>1, <2>2, TurnIs
  <2> QED BY ONLY <1>7, <2>3 DEF F1, H1, k, m1
<1>12. CompactNext([files |-> F1, shares |-> H1, target |-> T - m1, size |-> r - s1], 2, s2)
         = [files |-> F2, shares |-> H2, target |-> T - m1 - m2, size |-> r - s1 - s2]
  <2> DEFINE u == T - m1
             v == r - s1
  <2>1. u \in Int /\ v \in Int /\ m2 = Part(s2, u, v)
    BY <1>4 DEF m2
  <2> HIDE DEF u, v
  <2>2. CompactNext([files |-> F1, shares |-> H1, target |-> u, size |-> v], 2, s2)
          = [files |-> F2, shares |-> H2, target |-> u - m2, size |-> v - s2]
    BY <1>1, <1>8, <1>9, <1>10, <2>1, TurnIs DEF F2, H2, k
  <2> QED BY <2>2 DEF u, v
<1>13. CompactNext([files |-> F2, shares |-> H2, target |-> T - m1 - m2, size |-> r - s1 - s2], 3, s3)
         = [files |-> F3, shares |-> H3, target |-> T - m1 - m2 - m3, size |-> r - s1 - s2 - s3]
  <2> DEFINE u == T - m1 - m2
             v == r - s1 - s2
  <2>1. u \in Int /\ v \in Int /\ m3 = Part(s3, u, v)
    BY <1>4 DEF m3
  <2> HIDE DEF u, v
  <2>2. CompactNext([files |-> F2, shares |-> H2, target |-> u, size |-> v], 3, s3)
          = [files |-> F3, shares |-> H3, target |-> u - m3, size |-> v - s3]
    BY <1>1, <1>8, <1>9, <1>10, <2>1, TurnIs DEF F3, H3, k
  <2> QED BY <2>2 DEF u, v
<1>14. c.files = F3 /\ c.shares = H3
  BY <1>6, <1>11, <1>12, <1>13
<1>15. \A i \in 1 .. 3 : H3[i] = m[i] /\ F3[i] = k(i, m[i])
  <2> TAKE i \in 1 .. 3
  <2>1. i = 1 \/ i = 2 \/ i = 3
    OBVIOUS
  <2> HIDE DEF m
  <2>2. m[1] = m1 /\ m[2] = m2 /\ m[3] = m3
    BY <1>2
  <2> QED BY <1>9, <1>10, <2>1, <2>2
<1> QED BY <1>8, <1>14, <1>15 DEF c, m, k, s1, s2, s3

\* What is left of the target; a share of one byte may overdraw it.
Left(t) == IF t > 0 THEN t ELSE 0

\* A turn keeps no more than it takes off what is left: a share of one byte is
\* forced, but nothing fits in it.
LEMMA KeptWithin ==
  ASSUME NEW s \in Nat, NEW t \in Int, NEW r \in Nat, s <= r,
         NEW K \in Nat, K <= Part(s, t, r), Part(s, t, r) = 1 => K = 0
  PROVE  K + Left(t - Part(s, t, r)) <= Left(t)
<1> DEFINE m == Part(s, t, r)
           q == (t * s) \div r
<1>1. CASE s = 0
  BY <1>1 DEF Part, Left
<1>2. CASE s # 0
  <2>1. q \in Int /\ m \in Nat /\ 1 <= m /\ (m <= q \/ m = 1)
    BY <1>2, PartIs
  <2>2. (t >= 0 => q <= t) /\ (t < 0 => q <= 0)
    <3>1. r > 0 /\ s > 0
      BY <1>2
    <3> QED BY <3>1, PartOf
  <2>3. K <= m /\ (m = 1 => K = 0)
    OBVIOUS
  <2> HIDE DEF m, q
  <2>4. CASE m = 1
    <3>1. K = 0
      BY <2>3, <2>4
    <3> QED BY <2>4, <3>1 DEF Left, m
  <2>5. CASE m # 1
    <3>1. m <= q /\ m > 1
      BY <2>1, <2>5
    <3>2. t >= 0 /\ m <= t
      BY <2>1, <2>2, <3>1
    <3> QED BY ONLY <2>1, <2>3, <3>1, <3>2, t \in Int, K \in Nat DEF Left, m
  <2> QED BY <2>4, <2>5
<1> QED BY <1>1, <1>2

\* T r <= (t + c) S: what is left of the target is, but for c bytes, the part of
\* what is left of the files.  A turn gives a file its part but for c bytes, and
\* owes one more byte only where it forces a share of one.
Owes(T, S, t, r, c) == T * r <= (t + c) * S

LEMMA Owing ==
  ASSUME NEW T \in Nat, NEW S \in Nat, S > 0, T <= S, NEW t \in Int, NEW c \in Nat,
         NEW r \in Nat, NEW s \in Nat, s <= r, Owes(T, S, t, r, c)
  PROVE  /\ (T * s) \div S <= Part(s, t, r) + c
         /\ \/ Owes(T, S, t - Part(s, t, r), r - s, c)
            \/ Owes(T, S, t - Part(s, t, r), r - s, c + 1) /\ Part(s, t, r) = 1
<1> DEFINE m == Part(s, t, r)
           q == (t * s) \div r
           f == (T * s) \div S
<1>1. CASE s = 0
  <2>1. m = 0
    BY <1>1 DEF Part
  <2>2. T * s = 0 /\ t - 0 = t /\ r - s = r
    BY <1>1
  <2>3. 0 \div S = 0
    OBVIOUS
  <2> QED BY <2>1, <2>2, <2>3
<1>2. CASE s # 0
  <2>1. q \in Int /\ m \in Nat /\ 1 <= m /\ m <= s /\ (m <= q \/ m = 1)
        /\ (m = s \/ m = q \/ (m = 1 /\ q <= 1))
    BY <1>2, PartIs
  <2>2. r > 0 /\ T * r <= (t + c) * S
    BY <1>2 DEF Owes
  <2>3. f <= q + c
    BY <2>2, PartKept
  <2>4. f \in Int /\ f <= s
    <3>1. T * s \in Int /\ f \in Int /\ f * S <= T * s
      BY Division
    <3>2. T * s <= S * s
      BY Products
    <3>3. S * s = s * S /\ s * S \in Int
      OBVIOUS
    <3> HIDE DEF f
    <3>4. f * S < s * S + S
      <4>1. f * S \in Int
        BY <3>1
      <4> QED BY <3>1, <3>2, <3>3, <4>1
    <3>5. s * S + S = (s + 1) * S
      OBVIOUS
    <3>6. f < s + 1
      BY <3>1, <3>4, <3>5, Cancel
    <3> QED BY <3>1, <3>6
  <2> HIDE DEF f
  <2>5. f <= m + c
    <3> HIDE DEF m, q
    <3> QED BY ONLY <2>1, <2>3, <2>4, c \in Nat, s \in Nat
  <2>6. CASE m <= q
    <3>1. T * (r - s) <= (t - m + c) * S
      BY <2>1, <2>2, <2>6, LeftForOthers
    <3> QED BY <2>5, <3>1 DEF Owes, f
  <2>7. CASE ~(m <= q)
    <3>1. m = 1
      BY <2>1, <2>7
    <3>2. t - m + (c + 1) = t + c
      BY <3>1
    <3>3. T * (r - s) <= T * r
      <4>1. (r - s) * T <= r * T
        BY Products
      <4> QED BY <4>1
    <3>4. T * (r - s) <= (t + c) * S
      <4>1. T * (r - s) \in Int /\ T * r \in Int /\ (t + c) * S \in Int
        OBVIOUS
      <4> QED BY ONLY <2>2, <3>3, <4>1
    <3>5. Owes(T, S, t - m, r - s, c + 1)
      <4> HIDE DEF m
      <4> QED BY <3>2, <3>4 DEF Owes
    <3> QED BY <2>5, <3>1, <3>5 DEF f
  <2> QED BY <2>6, <2>7
<1> QED BY <1>1, <1>2

\* The last file gets its part but for one byte even when both others forced theirs.
LEMMA LastShare ==
  ASSUME NEW T \in Nat, NEW S \in Nat, NEW s \in Nat, T < S, s < S, s # 0
  PROVE  (T * s) \div S <= Part(s, T - 1 - 1, s) + 1
<1> DEFINE f == (T * s) \div S
           t == T - 1 - 1
           m == Part(s, t, s)
           q == (t * s) \div s
<1>0. T = 0 \/ T > 0
  OBVIOUS
<1>1. q \in Int /\ m \in Nat /\ 1 <= m /\ (m = s \/ m = q \/ (m = 1 /\ q <= 1))
  <2>1. t \in Int /\ s <= s
    OBVIOUS
  <2> HIDE DEF t
  <2> QED BY <2>1, PartIs
<1>2. q = t
  <2>1. t \in Int /\ s > 0
    OBVIOUS
  <2> HIDE DEF t
  <2>2. t * s \in Int
    BY <2>1
  <2>3. q \in Int /\ q * s <= t * s /\ t * s < q * s + s
    BY <2>1, <2>2, Division
  <2> HIDE DEF q
  <2>4. q * s < (t + 1) * s
    <3>1. (t + 1) * s = t * s + s
      BY <2>1
    <3>2. q * s \in Int
      BY <2>3
    <3> QED BY <2>1, <2>2, <2>3, <3>1, <3>2
  <2>5. t * s < (q + 1) * s
    <3>1. (q + 1) * s = q * s + s
      BY <2>3
    <3> QED BY <2>3, <3>1
  <2>6. q < t + 1
    BY <2>1, <2>3, <2>4, Cancel
  <2>7. t < q + 1
    BY <2>1, <2>3, <2>5, Cancel
  <2> QED BY <2>1, <2>3, <2>6, <2>7
<1>3. f \in Int /\ f * S <= T * s
  <2>1. T * s \in Int /\ S > 0
    OBVIOUS
  <2> QED BY <2>1, Division
<1> HIDE DEF f, m, q
<1>4. f <= s
  <2>1. T * s <= S * s
    BY Products
  <2>2. S * s = s * S /\ s * S \in Int /\ f * S \in Int /\ (s + 1) * S = s * S + S /\ T * s \in Int
    BY <1>3
  <2>3. f * S < (s + 1) * S
    BY <1>3, <2>1, <2>2
  <2>4. f < s + 1
    BY <1>3, <2>3, Cancel
  <2> QED BY <1>3, <2>4
<1>5. f <= T
  <2>1. s * T <= S * T
    BY Products
  <2>2. S * T = T * S /\ s * T = T * s /\ T * S \in Int /\ f * S \in Int /\ (T + 1) * S = T * S + S /\ T * s \in Int
    BY <1>3
  <2>3. f * S < (T + 1) * S
    BY <1>3, <2>1, <2>2
  <2>4. f < T + 1
    BY <1>3, <2>3, Cancel
  <2> QED BY <1>3, <2>4
<1>6. T > 0 => f < T
  <2> SUFFICES ASSUME T > 0 PROVE f < T
    OBVIOUS
  <2>1. s + 1 <= S /\ s + 1 \in Int
    OBVIOUS
  <2>2. (s + 1) * T <= S * T
    BY <2>1, Products
  <2>3. /\ (s + 1) * T = T * s + T /\ S * T = T * S /\ T * S \in Int /\ T * s \in Int /\ f * S \in Int
    BY <1>3
  <2>4. f * S < T * S
    BY <1>3, <2>2, <2>3
  <2> QED BY <1>3, <2>4, Cancel
<1>7. f <= m + 1
  BY ONLY <1>0, <1>1, <1>2, <1>3, <1>4, <1>5, <1>6, T \in Nat, s \in Nat DEF t
<1> QED BY <1>7 DEF f, m

\* The three files together.
LEMMA BudgetOfThree ==
  ASSUME NEW T \in Nat, NEW s1 \in Nat, NEW s2 \in Nat, NEW s3 \in Nat, T < s1 + s2 + s3,
         NEW m, m = Shares(s1, s2, s3, T),
         NEW K1 \in Nat, K1 <= m[1], m[1] = 1 => K1 = 0,
         NEW K2 \in Nat, K2 <= m[2], m[2] = 1 => K2 = 0,
         NEW K3 \in Nat, K3 <= m[3], m[3] = 1 => K3 = 0
  PROVE  K1 + K2 + K3 <= T
<1> DEFINE m1 == m[1]
           m2 == m[2]
           m3 == m[3]
           t1 == T - m1
           t2 == t1 - m2
           t3 == t2 - m3
<1>1. /\ m1 \in Nat /\ m2 \in Nat /\ m3 \in Nat /\ m1 = Part(s1, T, s1 + s2 + s3)
      /\ m2 = Part(s2, t1, s2 + s3) /\ m3 = Part(s3, t2, s3)
  BY SharesAre
<1> HIDE DEF m1, m2, m3
<1>2. t1 \in Int /\ t2 \in Int /\ t3 \in Int
  BY <1>1
<1> HIDE DEF t1, t2, t3
<1>3. K1 + Left(t1) <= Left(T)
  <2>1. s1 + s2 + s3 \in Nat /\ s1 <= s1 + s2 + s3 /\ T \in Int
    OBVIOUS
  <2> QED BY <1>1, <2>1, KeptWithin DEF t1, m1
<1>4. K2 + Left(t2) <= Left(t1)
  <2>1. s2 + s3 \in Nat /\ s2 <= s2 + s3
    OBVIOUS
  <2> QED BY <1>1, <1>2, <2>1, KeptWithin DEF t2, m2
<1>5. K3 + Left(t3) <= Left(t2)
  <2>1. s3 <= s3
    OBVIOUS
  <2> QED BY <1>1, <1>2, <2>1, KeptWithin DEF t3, m3
<1>6. Left(T) = T /\ Left(t1) \in Nat /\ Left(t2) \in Nat /\ Left(t3) \in Nat
  BY <1>2 DEF Left
<1> QED BY ONLY <1>3, <1>4, <1>5, <1>6, K1 \in Nat, K2 \in Nat, K3 \in Nat, T \in Nat

LEMMA SharesOfThree ==
  ASSUME NEW T \in Nat, NEW s1 \in Nat, NEW s2 \in Nat, NEW s3 \in Nat, T < s1 + s2 + s3,
         NEW m, m = Shares(s1, s2, s3, T), NEW S, S = s1 + s2 + s3
  PROVE  /\ (T * s1) \div S <= m[1] + 1 /\ (T * s2) \div S <= m[2] + 1
         /\ (T * s3) \div S <= m[3] + 1
<1> DEFINE m1 == m[1]
           m2 == m[2]
           m3 == m[3]
           t1 == T - m1
           t2 == t1 - m2
           r1 == s2 + s3
           F(s) == (T * s) \div S
<1>1. /\ m1 \in Nat /\ m2 \in Nat /\ m3 \in Nat /\ m1 = Part(s1, T, S)
      /\ m2 = Part(s2, t1, r1) /\ m3 = Part(s3, t2, s3)
  BY SharesAre
<1>2. /\ S \in Nat /\ S > 0 /\ T <= S /\ r1 \in Nat /\ S - s1 = r1 /\ r1 - s2 = s3 /\ s1 <= S
      /\ s2 <= r1 /\ T \in Int
  OBVIOUS
<1> HIDE DEF m1, m2, m3
<1>3. t1 \in Int /\ t2 \in Int
  BY <1>1
<1> HIDE DEF t1, t2, r1, F
<1>4. F(s1) \in Int /\ F(s2) \in Int /\ F(s3) \in Int
  <2>1. T * s1 \in Int /\ T * s2 \in Int /\ T * s3 \in Int
    OBVIOUS
  <2> QED BY <1>2, <2>1, Division DEF F
<1>5. Owes(T, S, T, S, 0)
  <2>1. (T + 0) * S = T * S /\ T * S \in Int
    BY <1>2
  <2> QED BY <2>1 DEF Owes
<1>6. /\ F(s1) <= m1 + 0
      /\ Owes(T, S, t1, r1, 0) \/ (Owes(T, S, t1, r1, 1) /\ m1 = 1)
  <2>1. /\ F(s1) <= m1 + 0
        /\ Owes(T, S, T - m1, S - s1, 0) \/ (Owes(T, S, T - m1, S - s1, 0 + 1) /\ m1 = 1)
    <3>1. 0 \in Nat
      OBVIOUS
    <3> DEFINE p == Part(s1, T, S)
    <3>2. /\ (T * s1) \div S <= p + 0
          /\ Owes(T, S, T - p, S - s1, 0) \/ (Owes(T, S, T - p, S - s1, 0 + 1) /\ p = 1)
      BY ONLY T \in Nat, s1 \in Nat, <1>2, <1>5, <3>1, Owing
    <3> HIDE DEF p
    <3>3. m1 = p
      BY <1>1 DEF p
    <3> QED BY ONLY <3>2, <3>3 DEF F
  <2> QED BY <1>2, <2>1 DEF t1
<1>7. ASSUME NEW c \in {0, 1}, Owes(T, S, t1, r1, c)
      PROVE  /\ F(s2) <= m2 + c
             /\ Owes(T, S, t2, s3, c) \/ (Owes(T, S, t2, s3, c + 1) /\ m2 = 1)
  <2>1. c \in Nat
    OBVIOUS
  <2>2. /\ F(s2) <= m2 + c
        /\ Owes(T, S, t1 - m2, r1 - s2, c) \/ (Owes(T, S, t1 - m2, r1 - s2, c + 1) /\ m2 = 1)
    <3> DEFINE p == Part(s2, t1, r1)
    <3>1. /\ (T * s2) \div S <= p + c
          /\ Owes(T, S, t1 - p, r1 - s2, c) \/ (Owes(T, S, t1 - p, r1 - s2, c + 1) /\ p = 1)
      BY ONLY T \in Nat, s2 \in Nat, <1>2, <1>3, <1>7, <2>1, Owing
    <3> HIDE DEF p
    <3>2. m2 = p
      BY <1>1 DEF p
    <3> QED BY ONLY <3>1, <3>2 DEF F
  <2> QED BY <1>2, <2>2 DEF t2
<1>8. ASSUME NEW c \in {0, 1}, Owes(T, S, t2, s3, c)
      PROVE  F(s3) <= m3 + c
  <2>1. c \in Nat /\ s3 <= s3
    OBVIOUS
  <2> QED BY ONLY T \in Nat, s3 \in Nat, <1>1, <1>2, <1>3, <1>8, <2>1, Owing DEF F
<1>9. F(s1) <= m1 + 1 /\ F(s2) <= m2 + 1
  BY <1>1, <1>4, <1>6, <1>7
<1>10. F(s3) <= m3 + 1
  <2>1. CASE Owes(T, S, t2, s3, 0) \/ Owes(T, S, t2, s3, 1)
    BY <1>1, <1>4, <1>8, <2>1
  <2>2. CASE ~(Owes(T, S, t2, s3, 0) \/ Owes(T, S, t2, s3, 1))
    <3>1. m1 = 1 /\ m2 = 1
      <4>1. 0 + 1 = 1 /\ 0 \in {0, 1} /\ 1 \in {0, 1}
        OBVIOUS
      <4> QED BY <1>6, <1>7, <2>2, <4>1
    <3>2. t2 = T - 1 - 1
      BY <3>1 DEF t1, t2
    <3>3. s3 < S
      <4>1. s1 # 0
        BY <1>1, <3>1 DEF Part
      <4> QED BY <4>1
    <3>4. CASE s3 # 0
      BY <1>1, <1>2, <3>2, <3>3, <3>4, LastShare DEF F
    <3>5. CASE s3 = 0
      <4>1. T * s3 = 0 /\ 0 \div S = 0
        BY <1>2, <3>5
      <4> QED BY <1>1, <4>1 DEF F
    <3> QED BY <3>4, <3>5
  <2> QED BY <2>1, <2>2
<1> QED BY <1>9, <1>10 DEF F, m1, m2, m3

----------------------------------------------------------------------------
(* Scores *)

\* Points(ss, h, signals) falls only where the commands pass the limit, and then
\* by no more than Drop.
LEMMA DepthRises ==
  ASSUME NEW ss, NEW tt, ss.depth \in Nat, tt.depth \in Nat, ss.depth <= tt.depth
  PROVE  DepthPoints(ss) \in Int /\ DepthPoints(tt) \in Int /\ DepthPoints(ss) <= DepthPoints(tt)
BY DEF DepthPoints

LEMMA FamiliesRise ==
  ASSUME NEW h, NEW g, IsFiniteSet(g.families), h.families \subseteq g.families
  PROVE  /\ FamilyPoints(h) \in Int /\ FamilyPoints(g) \in Int
         /\ FamilyPoints(h) <= FamilyPoints(g)
<1>1. /\ IsFiniteSet(h.families) /\ Cardinality(h.families) <= Cardinality(g.families)
      /\ Cardinality(h.families) \in Nat /\ Cardinality(g.families) \in Nat
  BY FS_Subset, FS_CardinalityType
<1> QED  BY <1>1 DEF FamilyPoints

LEMMA SignalsRise ==
  ASSUME NEW S, NEW T, S \subseteq T
  PROVE  SignalPoints(S) \in Int /\ SignalPoints(T) \in Int /\ SignalPoints(S) <= SignalPoints(T)
<1>1. ASSUME NEW x, NEW n \in Nat
      PROVE  /\ PointsFor(S, x, n) \in Int /\ PointsFor(T, x, n) \in Int
             /\ PointsFor(S, x, n) <= PointsFor(T, x, n)
  BY DEF PointsFor
<1> QED  BY <1>1 DEF SignalPoints

LEMMA CommandsRise ==
  ASSUME NEW h, NEW g, h.commands \in Nat, g.commands \in Nat,
         h.commands <= g.commands, g.commands <= h.commands + 1
  PROVE  /\ CommandPoints(h) \in Int /\ CommandPoints(g) \in Int /\ Drop \in Nat
         /\ CommandPoints(h) <= CommandPoints(g) + Drop
         /\ CommandPoints(h) <= CommandPoints(g) \/ g.commands > Limits.manyCommands
<1>1. /\ Limits.manyCommands \in Nat /\ Limits.manyScore \in Nat
      /\ Limits.manyScore <= 2 * Limits.manyCommands
  BY DerivedAssumption
<1>2. Drop \in Nat /\ Limits.manyScore + Drop = 2 * Limits.manyCommands
  BY <1>1 DEF Drop
<1>3. CASE g.commands <= Limits.manyCommands
  BY <1>1, <1>2, <1>3 DEF CommandPoints
<1>4. CASE g.commands > Limits.manyCommands
  BY <1>1, <1>2, <1>4 DEF CommandPoints
<1> QED  BY <1>1, <1>3, <1>4

LEMMA PointsRise ==
  ASSUME NEW ss, NEW tt, ss.depth \in Nat, tt.depth \in Nat, ss.depth <= tt.depth,
         NEW h, NEW g, h.commands \in Nat, g.commands \in Nat,
         h.commands <= g.commands, g.commands <= h.commands + 1,
         IsFiniteSet(g.families), h.families \subseteq g.families,
         NEW S, NEW T, S \subseteq T
  PROVE  /\ Points(ss, h, S) \in Int /\ Points(tt, g, T) \in Int /\ Drop \in Nat
         /\ Points(ss, h, S) <= Points(tt, g, T) + Drop
         /\ Points(ss, h, S) <= Points(tt, g, T) \/ g.commands > Limits.manyCommands
<1>1. /\ DepthPoints(ss) \in Int /\ DepthPoints(tt) \in Int
      /\ DepthPoints(ss) <= DepthPoints(tt)
  BY DepthRises
<1>2. /\ FamilyPoints(h) \in Int /\ FamilyPoints(g) \in Int
      /\ FamilyPoints(h) <= FamilyPoints(g)
  BY FamiliesRise
<1>3. /\ SignalPoints(S) \in Int /\ SignalPoints(T) \in Int
      /\ SignalPoints(S) <= SignalPoints(T)
  BY SignalsRise
<1>4. /\ CommandPoints(h) \in Int /\ CommandPoints(g) \in Int /\ Drop \in Nat
      /\ CommandPoints(h) <= CommandPoints(g) + Drop
      /\ CommandPoints(h) <= CommandPoints(g) \/ g.commands > Limits.manyCommands
  BY CommandsRise
<1> QED  BY <1>1, <1>2, <1>3, <1>4 DEF Points

\* What a highlight stands on when its signals are the stored ones.  A session
\* with more commands than the limit may score too little.
Standing(ss, h) ==
  /\ Scored(ss, h) /\ Notable(h, h.signals)
  /\ Points(ss, h, h.signals) >= sshHighlightMinScore \/ h.commands > Limits.manyCommands

\* What an event does to a session and to its highlight state.
LEMMA SessionGrows ==
  ASSUME NEW ss, NEW e, SessionOK(ss), e.depth \in Nat
  PROVE  /\ SessionOK(sessionAfter(ss, e)) /\ ss.depth <= sessionAfter(ss, e).depth
         /\ ss.accepted => sessionAfter(ss, e).accepted
         /\ sessionAfter(ss, e).active =>
              ~IsEnd(e) /\ (ss.active \/ e.type \in {"connect", "shell"})
<1>1. Max({ss.depth, e.depth}) \in Nat /\ Max({ss.depth, e.depth}) >= ss.depth
  <2>1. ss.depth \in Int /\ e.depth \in Int
    BY DEF SessionOK
  <2> QED  BY <2>1, MaxOfTwo DEF SessionOK
<1> QED  BY <1>1 DEF sessionAfter, SessionOK, sessionEnds

LEMMA NotedGrows ==
  ASSUME NEW h, NEW e, HighlightOK(h)
  PROVE  /\ HighlightOK(Noted(h, e)) /\ Noted(h, e).acceptedAt = h.acceptedAt
         /\ h.commands <= Noted(h, e).commands /\ Noted(h, e).commands <= h.commands + 1
         /\ h.families \subseteq Noted(h, e).families /\ h.signals \subseteq Noted(h, e).signals
<1>1. IsFiniteSet(h.families \cup ({e.family} \ {""}))
  <2>1. IsFiniteSet(h.families \cup {e.family}) /\ IsFiniteSet(h.families)
    BY FS_AddElement DEF HighlightOK
  <2>2. \/ h.families \cup ({e.family} \ {""}) = h.families
        \/ h.families \cup ({e.family} \ {""}) = h.families \cup {e.family}
    OBVIOUS
  <2> QED  BY <2>1, <2>2
<1>2. CASE IsCommand(e)
  <2>1. /\ DOMAIN Noted(h, e) = DOMAIN h /\ Noted(h, e).acceptedAt = h.acceptedAt
        /\ Noted(h, e).families = h.families \cup ({e.family} \ {""})
        /\ Noted(h, e).signals = h.signals \cup e.signals
    BY <1>2 DEF Noted, HighlightOK
  <2>2. Noted(h, e).commands = h.commands + 1
    BY <1>2 DEF Noted, HighlightOK
  <2>3. h.commands \in Nat
    BY DEF HighlightOK
  <2>4. /\ Noted(h, e).commands \in Nat /\ h.commands <= Noted(h, e).commands
        /\ Noted(h, e).commands <= h.commands + 1
    BY <2>2, <2>3
  <2>5. HighlightOK(Noted(h, e))
    BY <1>1, <2>1, <2>4 DEF HighlightOK
  <2>6. h.families \subseteq Noted(h, e).families /\ h.signals \subseteq Noted(h, e).signals
    BY <2>1
  <2> QED  BY <2>1, <2>4, <2>5, <2>6
<1>3. CASE ~IsCommand(e)
  <2>1. /\ DOMAIN Noted(h, e) = DOMAIN h /\ Noted(h, e).acceptedAt = h.acceptedAt
        /\ Noted(h, e).commands = h.commands /\ Noted(h, e).families = h.families
        /\ Noted(h, e).signals = h.signals \cup e.signals
    BY <1>3 DEF Noted, HighlightOK
  <2> QED  BY <2>1 DEF HighlightOK
<1> QED  BY <1>2, <1>3

LEMMA HighlightGrows ==
  ASSUME NEW h, NEW e, HighlightOK(h)
  PROVE  LET g == highlightAfter(h, e) IN
         /\ HighlightOK(g) /\ (h.acceptedAt # 0 => g.acceptedAt # 0)
         /\ h.commands <= g.commands /\ g.commands <= h.commands + 1
         /\ h.families \subseteq g.families /\ h.signals \subseteq g.signals
<1>1. CASE h.acceptedAt # 0 /\ e.at >= h.acceptedAt
  BY <1>1, NotedGrows DEF highlightAfter
<1>2. CASE h.acceptedAt = 0 /\ e.type = "auth" /\ e.accepted
  <2> DEFINE k == [h EXCEPT !.acceptedAt = e.at]
  <2>1. /\ HighlightOK(k) /\ k.commands = h.commands /\ k.families = h.families
        /\ k.signals = h.signals
    BY DEF HighlightOK
  <2>2. highlightAfter(h, e) = Noted(k, e)
    BY <1>2 DEF highlightAfter
  <2> HIDE DEF k
  <2> QED  BY <2>1, <2>2, <1>2, NotedGrows
<1>3. CASE /\ ~(h.acceptedAt # 0 /\ e.at >= h.acceptedAt)
           /\ ~(h.acceptedAt = 0 /\ e.type = "auth" /\ e.accepted)
  <2>1. highlightAfter(h, e) = h
    BY <1>3 DEF highlightAfter
  <2> QED  BY <2>1 DEF HighlightOK
<1> QED  BY <1>1, <1>2, <1>3

----------------------------------------------------------------------------
(* What the profile's operators leave alone *)

\* q has the sessions, highlights, history and peak of p.
Same(p, q) ==
  /\ HasTables(q) /\ q.sessions = p.sessions /\ q.highlights = p.highlights
  /\ q.history = p.history /\ q.peak = p.peak

LEMMA SameTrans ==
  ASSUME NEW p, NEW q, NEW r, Same(p, q), Same(q, r)
  PROVE  Same(p, r)
BY DEF Same

LEMMA EnsureSame ==
  ASSUME NEW p, NEW at, HasTables(p)
  PROVE  Same(p, ensureActor(p, at))
BY DEF ensureActor, Same, HasTables

LEMMA JudgeSame ==
  ASSUME NEW p, NEW e, NEW labels, NEW automated, HasTables(p)
  PROVE  Same(p, Judge(p, e, labels, automated))
BY DEF Judge, Same, HasTables

LEMMA EngagementSame ==
  ASSUME NEW p, NEW protocol, NEW activity, NEW at, HasTables(p)
  PROVE  Same(p, addActorEngagement(p, protocol, activity, at))
BY DEF addActorEngagement, EngagedSince, Same, HasTables

LEMMA ActivitySame ==
  ASSUME NEW p, NEW protocol, NEW kind, NEW at, HasTables(p)
  PROVE  Same(p, appendActorActivity(p, protocol, kind, at))
BY DEF appendActorActivity, Same, HasTables

LEMMA SequenceSame ==
  ASSUME NEW p, NEW e, HasTables(p)
  PROVE  Same(p, updateHTTPSequenceFingerprint(p, e))
<1>1. ASSUME NEW seq PROVE Same(p, Sequenced(p, e, seq))
  <2> DEFINE q == [p EXCEPT !.sequences = Put(@, e.sid, seq)]
  <2>1. Same(p, q)
    BY DEF Same, HasTables
  <2>2. ASSUME NEW rows PROVE Same(q, Sighted(q, e, seq, rows))
    <3> HIDE DEF q
    <3>1. HasTables(q)
      BY <2>1 DEF Same
    <3> QED  BY <3>1 DEF Sighted, Same, HasTables
  <2> HIDE DEF q
  <2>3. ASSUME NEW rows PROVE Same(p, Sighted(q, e, seq, rows))
    BY <2>1, <2>2, SameTrans
  <2> QED  BY <2>1, <2>3 DEF Sequenced, q
<1> QED  BY <1>1 DEF updateHTTPSequenceFingerprint

LEMMA HttpJudgedSame ==
  ASSUME NEW p, NEW e, NEW chain, NEW periodic, NEW agents, NEW claims, HasTables(p)
  PROVE  Same(p, HttpJudged(p, e, chain, periodic, agents, claims))
<1> DEFINE q == Judge(p, IF periodic THEN [e EXCEPT !.class = "hostile", !.risk = Max({@, 82})] ELSE e,
                      HttpLabels(e, chain, periodic, agents, claims), chain \/ periodic)
<1>1. Same(p, q)
  BY JudgeSame
<1>2. HttpJudged(p, e, chain, periodic, agents, claims) =
        [q EXCEPT !.protocols = @ \cup {"http"}, !.agents = agents, !.claims = claims,
                  !.counts = bumpActorBehaviors(Bump(@, {<<"actorHttp">>}), HttpBehaviors(e))]
  BY DEF HttpJudged
<1> HIDE DEF q
<1> QED  BY <1>1, <1>2 DEF Same, HasTables

LEMMA HttpSame ==
  ASSUME NEW p, NEW e, HasTables(p)
  PROVE  Same(p, ApplyEvent(p, e))
<1>1. ASSUME NEW q, HasTables(q) PROVE Same(q, applyActorHTTPEvent(q, e))
  <2> DEFINE a == ensureActor(q, e.at)
             b == updateHTTPSequenceFingerprint(a, e)
             c == HttpJudged(b, e, httpPHPUnitDockerExecChain(q.events, e),
                             httpPeriodicAuthValidator(q.events, e),
                             agentsAfter(q, e), q.claims \cup ({e.claim} \ {""}))
             f == addActorEngagement(c, "http", <<e.sid, e.visit>>, e.at)
             g == appendActorActivity(f, "http", e.category, e.at)
  <2>1. e.self => applyActorHTTPEvent(q, e) = [a EXCEPT !.counts = Bump(@, {<<"selfOrigin">>})]
    BY DEF applyActorHTTPEvent
  <2>2. ~e.self => applyActorHTTPEvent(q, e) = g
    BY DEF applyActorHTTPEvent
  <2> HIDE DEF a, b, c, f, g
  <2>3. Same(q, a)
    BY <1>1, EnsureSame DEF a
  <2>4. Same(a, b)
    BY <2>3, SequenceSame DEF Same, b
  <2>5. Same(b, c)
    <3>1. HasTables(b)
      BY <2>4 DEF Same
    <3> QED  BY <3>1, HttpJudgedSame, Zenon DEF c
  <2>6. Same(c, f)
    BY <2>5, EngagementSame DEF Same, f
  <2>7. Same(f, g)
    BY <2>6, ActivitySame DEF Same, g
  <2>8. CASE e.self
    BY <2>1, <2>3, <2>8 DEF Same, HasTables
  <2>9. CASE ~e.self
    BY <2>2, <2>3, <2>4, <2>5, <2>6, <2>7, <2>9, SameTrans
  <2> QED  BY <2>8, <2>9
<1> DEFINE q == [p EXCEPT !.counts = Bump(@, HttpKeys(p, e)),
                          !.events = Newest(Append(@, e), MaxRing)]
<1>2. Same(p, q)
  BY DEF Same, HasTables
<1>3. ApplyEvent(p, e) = applyActorHTTPEvent(q, e)
  BY DEF ApplyEvent
<1> HIDE DEF q
<1> QED  BY <1>1, <1>2, <1>3, SameTrans DEF Same

LEMMA FingerprintSame ==
  ASSUME NEW p, NEW e, NEW signals, HasTables(p)
  PROVE  Same(p, ApplyHTTPActorFingerprint(p, e, signals))
<1>1. CASE e.self
  BY <1>1 DEF ApplyHTTPActorFingerprint, Same
<1>2. CASE ~e.self
  <2> DEFINE a == IF signals # {} \/ Promoted(e, signals) THEN ensureActor(p, e.at) ELSE p
  <2>1. Same(p, a)
    BY EnsureSame DEF Same
  <2>2. ApplyHTTPActorFingerprint(p, e, signals) =
          [a EXCEPT !.fps = @ \cup {<<f>> : f \in signals},
                    !.counts = bumpActorBehaviors(@, Fingerprints({<<f>> : f \in signals})),
                    !.actor = IF Promoted(e, signals) THEN "automated" ELSE @]
    BY <1>2 DEF ApplyHTTPActorFingerprint
  <2> HIDE DEF a
  <2> QED  BY <2>1, <2>2 DEF Same, HasTables
<1> QED  BY <1>1, <1>2

LEMMA IntelSame ==
  ASSUME NEW p, NEW e, HasTables(p)
  PROVE  Same(p, ApplyIntel(p, e))
<1> DEFINE a == ensureActor(p, e.at)
           b == [a EXCEPT !.counts = Bump(@, {<<"signal", e.kind>>})]
<1>1. Same(p, a)
  BY EnsureSame
<1>2. Same(p, b)
  <2> HIDE DEF a
  <2> QED  BY <1>1 DEF Same, HasTables
<1>3. ApplyIntel(p, e) = appendActorActivity(b, "intel", e.kind, e.at)
  BY DEF ApplyIntel
<1> HIDE DEF a, b
<1> QED  BY <1>2, <1>3, ActivitySame, SameTrans DEF Same

----------------------------------------------------------------------------
(* An SSH event *)

\* The profile after an SSH event: its session and its highlight state are new,
\* the peak may rise to the number of active sessions.
LEMMA SSHTables ==
  ASSUME NEW p, NEW e, HasTables(p)
  PROVE  LET ss == Lookup(p.sessions, e.sid, NoSession(e.at))
             h == Lookup(p.highlights, e.sid, NoHighlight)
             q == ApplySSHEvent(p, e)
         IN  /\ HasTables(q) /\ q.history = p.history
             /\ q.sessions = Put(p.sessions, e.sid, sessionAfter(ss, e))
             /\ q.highlights = Put(p.highlights, e.sid, highlightAfter(h, e))
             /\ q.peak \in {p.peak, Max({p.peak, Cardinality(Active(q))})}
<1> DEFINE ss == Lookup(p.sessions, e.sid, NoSession(e.at))
           h == Lookup(p.highlights, e.sid, NoHighlight)
           a == Updated(p, e, ss, h)
           recur == sshRecurrence(a.sshEvents, e.at)
           playbook == sshReconPlaybookFingerprint(a.sshEvents, e)
           verdicts == playbook \cup ConnectLabels(e, recur) \cup AuthLabels(a, e)
                       \cup CommandLabels(a, e, a.sessions[e.sid])
           b == ensureActor(a, e.at)
           c == Judge(b, e, verdicts \cup PlainLabels(a, e), verdicts # {})
           f == SSHJudged(a, e, recur, playbook, verdicts)
           g == addActorEngagement(f, "ssh", e.sid, e.at)
           q == appendActorActivity(g, "ssh", e.type, e.at)
<1>1. ApplySSHEvent(p, e) = q
  BY DEF ApplySSHEvent, applyActorSSHEvent, SSHWeighed
<1>2. f = [c EXCEPT
     !.protocols = @ \cup {"ssh"},
     !.peak = IF e.type = "connect" THEN Max({@, Cardinality(Active(a))}) ELSE @,
     !.revisit = IF e.type = "connect" THEN <<recur.median, recur.jitter>> ELSE @,
     !.users = IF e.type = "auth" THEN @ \cup ({e.user} \ {""}) ELSE @,
     !.perMinute = IF e.type = "auth"
                   THEN Max({@, AttemptsWithin(a.sshEvents, e.at, Limits.minute)}) ELSE @,
     !.lastCommand = IF IsCommand(e) /\ IsProbe(e) THEN <<e.command, e.at>> ELSE @,
     !.counts = bumpActorBehaviors(@, SSHBehaviors(e, playbook))]
  BY DEF SSHJudged
<1> HIDE DEF ss, h, a, recur, playbook, verdicts, b, c, f, g, q
<1>3. /\ HasTables(a) /\ a.history = p.history /\ a.peak = p.peak
      /\ a.sessions = Put(p.sessions, e.sid, sessionAfter(ss, e))
      /\ a.highlights = Put(p.highlights, e.sid, highlightAfter(h, e))
  BY DEF a, Updated, HasTables
<1>4. Same(a, b)
  BY <1>3, EnsureSame DEF b
<1>5. Same(b, c)
  <2>1. HasTables(b)
    BY <1>4 DEF Same
  <2> QED  BY <2>1, JudgeSame, Zenon DEF c
<1>6. /\ HasTables(f) /\ f.sessions = c.sessions /\ f.highlights = c.highlights
      /\ f.history = c.history
      /\ f.peak \in {c.peak, Max({c.peak, Cardinality(Active(a))})}
  BY <1>2, <1>5 DEF Same, HasTables
<1>7. Same(f, g)
  BY <1>6, EngagementSame DEF g
<1>8. Same(g, q)
  BY <1>7, ActivitySame DEF Same, q
<1>9. q.sessions = a.sessions /\ q.highlights = a.highlights /\ q.history = a.history
  BY <1>4, <1>5, <1>6, <1>7, <1>8 DEF Same
<1>10. Active(q) = Active(a)
  BY <1>9 DEF Active
<1>11. q.peak \in {a.peak, Max({a.peak, Cardinality(Active(q))})} /\ HasTables(q)
  BY <1>4, <1>5, <1>6, <1>7, <1>8, <1>10 DEF Same
<1> QED  BY <1>1, <1>3, <1>9, <1>11 DEF ss, h

LEMMA SSHMatch ==
  ASSUME NEW p, NEW e, TablesMatch(p), e.sid \in Sids, e.depth \in Nat
  PROVE  TablesMatch(ApplySSHEvent(p, e))
<1> DEFINE ss == Lookup(p.sessions, e.sid, NoSession(e.at))
           h == Lookup(p.highlights, e.sid, NoHighlight)
           q == ApplySSHEvent(p, e)
<1>1. /\ HasTables(q)
      /\ q.sessions = Put(p.sessions, e.sid, sessionAfter(ss, e))
      /\ q.highlights = Put(p.highlights, e.sid, highlightAfter(h, e))
      /\ q.peak \in {p.peak, Max({p.peak, Cardinality(Active(q))})}
  BY SSHTables DEF TablesMatch
<1>2. SessionOK(ss)
  BY DEF Lookup, NoSession, SessionOK, TablesMatch
<1>3. HighlightOK(h)
  BY FS_EmptySet DEF Lookup, NoHighlight, HighlightOK, TablesMatch
<1> HIDE DEF ss, h, q
<1>4. SessionOK(sessionAfter(ss, e))
  BY <1>2, SessionGrows
<1>5. HighlightOK(highlightAfter(h, e))
  BY <1>3, HighlightGrows
<1>6. /\ DOMAIN q.sessions = DOMAIN p.sessions \cup {e.sid}
      /\ DOMAIN q.highlights = DOMAIN p.highlights \cup {e.sid}
      /\ \A s \in DOMAIN q.sessions :
           q.sessions[s] = IF s = e.sid THEN sessionAfter(ss, e) ELSE p.sessions[s]
      /\ \A s \in DOMAIN q.highlights :
           q.highlights[s] = IF s = e.sid THEN highlightAfter(h, e) ELSE p.highlights[s]
  BY <1>1 DEF Put
<1>7. q.peak \in Nat
  <2>1. Active(q) \subseteq Sids
    BY <1>6 DEF Active, TablesMatch
  <2>2. Cardinality(Active(q)) \in Nat
    BY <2>1, DerivedAssumption, FS_Subset, FS_CardinalityType
  <2>3. p.peak \in Nat
    BY DEF TablesMatch
  <2> QED  BY <1>1, <2>2, <2>3, MaxOfTwo
<1>8. DOMAIN q.sessions \subseteq Sids /\ DOMAIN q.highlights = DOMAIN q.sessions
  BY <1>6 DEF TablesMatch
<1>9. ASSUME NEW s \in DOMAIN q.sessions
      PROVE  SessionOK(q.sessions[s]) /\ HighlightOK(q.highlights[s])
  BY <1>4, <1>5, <1>6, <1>8 DEF TablesMatch
<1> QED  BY <1>1, <1>7, <1>8, <1>9 DEF TablesMatch, q

\* Removing sessions keeps the rest, and the highlights among the removed ones.
LEMMA PruneKeeps ==
  ASSUME NEW p, NEW most, NEW target, TablesMatch(p)
  PROVE  LET q == PruneAbove(p, most, target) IN
         /\ TablesMatch(q) /\ q.peak = p.peak /\ Active(q) \subseteq Active(p)
         /\ DOMAIN p.history \subseteq DOMAIN q.history
         /\ DOMAIN q.sessions \subseteq DOMAIN p.sessions
         /\ \A s \in DOMAIN q.sessions :
              q.sessions[s] = p.sessions[s] /\ q.highlights[s] = p.highlights[s]
         /\ \A s \in DOMAIN p.sessions \ DOMAIN q.sessions :
              scoreSSHHighlightState(p.sessions[s], p.highlights[s]) => s \in DOMAIN q.history
<1> DEFINE q == PruneAbove(p, most, target)
<1>1. CASE Cardinality(DOMAIN p.sessions) > most
  <2> DEFINE gone == Oldest(p.sessions, Cardinality(DOMAIN p.sessions) - target)
             left == DOMAIN p.sessions \ gone
             marks == [s \in Highlighted(p, gone) |-> HighlightAt(p.sessions[s])]
  <2>1. q = [p EXCEPT !.history = Over(marks, @),
                      !.sessions = [s \in left |-> @[s]], !.highlights = [s \in left |-> @[s]]]
    BY <1>1 DEF PruneAbove, pruneSSHSessions, Without
  <2>2. gone \subseteq DOMAIN p.sessions
    BY DEF Oldest
  <2> HIDE DEF q, gone, marks
  <2>3. /\ HasTables(q) /\ q.peak = p.peak /\ q.history = Over(marks, p.history)
        /\ q.sessions = [s \in left |-> p.sessions[s]]
        /\ q.highlights = [s \in left |-> p.highlights[s]]
    BY <2>1 DEF TablesMatch, HasTables
  <2>4. DOMAIN q.history = Highlighted(p, gone) \cup DOMAIN p.history
    BY <2>3 DEF Over, marks
  <2>5. /\ DOMAIN q.sessions = left /\ DOMAIN q.highlights = left
        /\ \A s \in left : q.sessions[s] = p.sessions[s] /\ q.highlights[s] = p.highlights[s]
    BY <2>3
  <2>6. TablesMatch(q)
    BY <2>3, <2>5 DEF TablesMatch
  <2>7. Active(q) \subseteq Active(p)
    BY <2>5 DEF Active
  <2>8. \A s \in DOMAIN p.sessions \ DOMAIN q.sessions :
          scoreSSHHighlightState(p.sessions[s], p.highlights[s]) => s \in DOMAIN q.history
    BY <2>4, <2>5 DEF Highlighted
  <2> QED  BY <2>3, <2>4, <2>5, <2>6, <2>7, <2>8 DEF q
<1>2. CASE ~(Cardinality(DOMAIN p.sessions) > most)
  BY <1>2 DEF PruneAbove
<1> QED  BY <1>1, <1>2

\* Nothing that the session does afterwards takes its standing from a highlight;
\* and if it scores too little afterwards, then it passed the limit of commands
\* with less than Drop points to spare.
LEMMA StandingStays ==
  ASSUME NEW ss, NEW h, NEW e, SessionOK(ss), HighlightOK(h), e.depth \in Nat,
         Standing(ss, h)
  PROVE  LET tt == sessionAfter(ss, e)
             g == highlightAfter(h, e)
         IN  /\ Standing(tt, g)
             /\ \/ Points(tt, g, g.signals) >= sshHighlightMinScore
                \/ /\ h.commands >= Limits.manyCommands
                   /\ Points(ss, h, h.signals) < sshHighlightMinScore + Drop
<1> DEFINE tt == sessionAfter(ss, e)
           g == highlightAfter(h, e)
<1>1. SessionOK(tt) /\ ss.depth <= tt.depth /\ (ss.accepted => tt.accepted)
  BY SessionGrows
<1>2. /\ HighlightOK(g) /\ (h.acceptedAt # 0 => g.acceptedAt # 0)
      /\ h.commands <= g.commands /\ g.commands <= h.commands + 1
      /\ h.families \subseteq g.families /\ h.signals \subseteq g.signals
  BY HighlightGrows
<1> HIDE DEF tt, g
<1>3. /\ Points(ss, h, h.signals) \in Int /\ Points(tt, g, g.signals) \in Int /\ Drop \in Nat
      /\ Points(ss, h, h.signals) <= Points(tt, g, g.signals) + Drop
      /\ \/ Points(ss, h, h.signals) <= Points(tt, g, g.signals)
         \/ g.commands > Limits.manyCommands
  BY <1>1, <1>2, PointsRise DEF SessionOK, HighlightOK
<1>4. h.commands \in Nat /\ g.commands \in Nat /\ Limits.manyCommands \in Nat
  BY <1>2, DerivedAssumption DEF HighlightOK
<1>5. Scored(tt, g)
  BY <1>1, <1>2, <1>4 DEF Scored, Standing
<1>6. Notable(g, g.signals)
  <2>1. /\ Cardinality(h.families) \in Nat /\ Cardinality(g.families) \in Nat
        /\ Cardinality(h.families) <= Cardinality(g.families)
    BY <1>2, FS_Subset, FS_CardinalityType DEF HighlightOK
  <2>2. CASE h.signals \cap HighSignals # {}
    BY <1>2, <2>2 DEF Notable
  <2>3. CASE h.commands >= 4 /\ Cardinality(h.families) >= 2
    BY <1>2, <1>4, <2>1, <2>3 DEF Notable
  <2> QED  BY <2>2, <2>3 DEF Standing, Notable
<1>7. \/ Points(ss, h, h.signals) >= sshHighlightMinScore
      \/ h.commands > Limits.manyCommands
  BY DEF Standing
<1>8. \/ Points(tt, g, g.signals) >= sshHighlightMinScore
      \/ g.commands > Limits.manyCommands
  BY <1>2, <1>3, <1>4, <1>7 DEF sshHighlightMinScore
<1>9. ASSUME ~(Points(tt, g, g.signals) >= sshHighlightMinScore)
      PROVE  /\ h.commands >= Limits.manyCommands
             /\ Points(ss, h, h.signals) < sshHighlightMinScore + Drop
  BY <1>2, <1>3, <1>4, <1>8, <1>9 DEF sshHighlightMinScore
<1> QED  BY <1>5, <1>6, <1>8, <1>9 DEF Standing, tt, g

\* A session with standing and enough points is in the list.
LEMMA StandingShown ==
  ASSUME NEW ss, NEW h, SessionOK(ss), HighlightOK(h), Standing(ss, h),
         Points(ss, h, h.signals) >= sshHighlightMinScore
  PROVE  scoreSSHHighlightState(ss, h)
<1>1. h.signals \subseteq Signals(h)
  BY DEF Signals
<1>2. /\ SignalPoints(h.signals) \in Int /\ SignalPoints(Signals(h)) \in Int
      /\ SignalPoints(h.signals) <= SignalPoints(Signals(h))
  BY <1>1, SignalsRise
<1>3. DepthPoints(ss) \in Int /\ FamilyPoints(h) \in Int /\ CommandPoints(h) \in Int
  BY DepthRises, FamiliesRise, CommandsRise DEF SessionOK, HighlightOK
<1>4. Points(ss, h, Signals(h)) >= sshHighlightMinScore
  BY <1>2, <1>3 DEF Points, sshHighlightMinScore
<1>5. Notable(h, Signals(h))
  BY <1>1 DEF Standing, Notable
<1> QED  BY <1>4, <1>5 DEF scoreSSHHighlightState, Standing

----------------------------------------------------------------------------
(* The logs *)

\* A record that was logged: its size, and the session of an SSH event.
Row(i, e) ==
  /\ e.size \in Nat /\ e.size >= 2 /\ e.at \in Nat
  /\ i # 3 => IsScored(e)
  /\ i = 2 => e.sid \in Sids
LogOK(i, file) == file \in Seq(Range(file)) /\ \A e \in Range(file) : Row(i, e)
LogsOK(ls) == ls = [i \in 1 .. 3 |-> ls[i]] /\ \A i \in 1 .. 3 : LogOK(i, ls[i])

\* Files made of records of a log.
LEMMA PartOfLog ==
  ASSUME NEW i, NEW file, LogOK(i, file), NEW g \in Seq(Range(file))
  PROVE  LogOK(i, g)
<1>1. DOMAIN g = 1 .. Len(g) /\ \A j \in 1 .. Len(g) : g[j] \in Range(file)
  BY ElementOfSeq
<1>2. Range(g) \subseteq Range(file)
  BY <1>1 DEF Range
<1>3. g \in Seq(Range(g))
  BY <1>1 DEF Range
<1> QED BY <1>2, <1>3 DEF LogOK

LEMMA LogIsFile == ASSUME NEW i, NEW file, LogOK(i, file) PROVE IsFile(file)
BY DEF LogOK, IsFile, Row

LEMMA AppendLog ==
  ASSUME NEW i, NEW file, LogOK(i, file), NEW e, Row(i, e)
  PROVE  LogOK(i, Append(file, e))
<1> DEFINE g == Append(file, e)
           S == Range(file) \cup {e}
<1>1. file \in Seq(S)
  BY DEF LogOK
<1> HIDE DEF S
<1>2. e \in S
  BY DEF S
<1>3. g \in Seq(S)
  BY <1>1, <1>2, AppendProperties
<1> HIDE DEF g
<1>4. DOMAIN g = 1 .. Len(g) /\ \A j \in 1 .. Len(g) : g[j] \in S
  BY <1>3, ElementOfSeq
<1>5. Range(g) \subseteq S
  BY <1>4 DEF Range
<1>6. g \in Seq(Range(g))
  BY <1>3, <1>4 DEF Range
<1> QED BY <1>5, <1>6 DEF LogOK, S, g

\* compactJSONL writes records of the file.
LEMMA CompactLog ==
  ASSUME NEW i, NEW file, LogOK(i, file), NEW limit
  PROVE  LogOK(i, compactJSONL(file, limit))
<1> DEFINE n == Len(file)
           S == Seq(Range(file))
           turn == [j \in 1 .. n |-> [x \in S |-> IF file[j].at >= limit THEN Append(x, file[j]) ELSE x]]
           Is(f) == f = [j \in 0 .. n |->
                           IF j = 0 THEN << >>
                           ELSE IF file[j].at >= limit THEN Append(f[j - 1], file[j]) ELSE f[j - 1]]
<1>1. n \in Nat /\ \A j \in 1 .. n : file[j] \in Range(file)
  BY LogIsFile, FileFacts
<1>2. << >> \in S
  BY EmptySeq
<1>3. ASSUME NEW j \in 1 .. n, NEW x \in S PROVE Append(x, file[j]) \in S
  BY <1>1, <1>3, AppendProperties
<1> HIDE DEF n, S
<1>4. turn \in [1 .. n -> [S -> S]]
  BY <1>3
<1>5. PICK f \in [0 .. n -> S] : IsRun(f, n, << >>, turn)
  <2> HIDE DEF turn
  <2> QED BY ONLY <1>1, <1>2, <1>4, Iteration
<1>6. \A j \in 1 .. n : j - 1 \in 0 .. n /\ f[j - 1] \in S
  BY ONLY <1>1, f \in [0 .. n -> S]
<1>7. /\ f[0] = << >>
      /\ \A j \in 1 .. n : f[j] = IF file[j].at >= limit THEN Append(f[j - 1], file[j]) ELSE f[j - 1]
  BY <1>5, <1>6 DEF IsRun
<1>8. Is(f)
  <2>1. f = [j \in 0 .. n |-> f[j]]
    BY <1>5
  <2>2. \A j \in 0 .. n : j = 0 \/ j \in 1 .. n
    BY <1>1
  <2> QED BY <1>7, <2>1, <2>2
<1> DEFINE h == CHOOSE g : Is(g)
<1>9. compactJSONL(file, limit) = h[n]
  BY DEF compactJSONL, n
<1>10. Is(h)
  <2> HIDE DEF Is
  <2> QED BY <1>8
<1> HIDE DEF h
<1>11. /\ h[0] = << >>
       /\ \A j \in 1 .. n : h[j] = IF file[j].at >= limit THEN Append(h[j - 1], file[j]) ELSE h[j - 1]
  <2> DEFINE value(j) == IF j = 0 THEN << >>
                         ELSE IF file[j].at >= limit THEN Append(h[j - 1], file[j]) ELSE h[j - 1]
  <2>1. h = [j \in 0 .. n |-> value(j)]
    BY <1>10
  <2> HIDE DEF value
  <2>2. \A j \in 0 .. n : h[j] = value(j)
    BY <2>1
  <2>3. 0 \in 0 .. n /\ \A j \in 1 .. n : j \in 0 .. n /\ j # 0
    BY <1>1
  <2> QED BY ONLY <2>2, <2>3 DEF value
<1> DEFINE T == {j \in 0 .. n : h[j] \in S}
<1>12. 0 \in T
  BY <1>1, <1>2, <1>11
<1>13. ASSUME NEW j \in 1 .. n, j - 1 \in T PROVE j \in T
  <2>1. h[j - 1] \in S /\ j \in 0 .. n
    BY <1>1, <1>13
  <2>2. h[j] = Append(h[j - 1], file[j]) \/ h[j] = h[j - 1]
    BY <1>11
  <2>3. h[j] \in S
    BY <1>3, <2>1, <2>2
  <2> QED BY <2>1, <2>3
<1>14. \A j \in 0 .. n : j \in T
  <2> HIDE DEF T
  <2> QED BY <1>1, <1>12, <1>13, UpTo
<1>15. h[n] \in Seq(Range(file))
  <2>1. n \in 0 .. n
    BY <1>1
  <2> QED BY <1>14, <2>1 DEF S
<1> QED BY <1>9, <1>15, PartOfLog

\* compactJSONLTail keeps records of the file.
LEMMA TailLog ==
  ASSUME NEW i, NEW file, LogOK(i, file), NEW m \in Nat
  PROVE  LogOK(i, compactJSONLTail(file, m))
<1>1. IsFile(file)
  BY LogIsFile
<1>2. PICK k \in 0 .. Len(file) : compactJSONLTail(file, m) = From(file, k)
  BY <1>1, TailKeeps
<1>3. IsFile(From(file, k)) /\ Range(From(file, k)) \subseteq Range(file)
  BY <1>1, FromIs
<1> QED BY <1>2, <1>3 DEF LogOK, IsFile

LEMMA LogsAreThree == ASSUME NEW ls, LogsOK(ls) PROVE IsThree(ls)
BY LogIsFile DEF LogsOK, IsThree

\* What a sweep, or the beginning of a start, leaves of the logs.
LEMMA SweptLogs ==
  ASSUME NEW ls, LogsOK(ls), NEW limit
  PROVE  LogsOK(Relieve(pruneJSONLPaths(ls, limit)))
<1> DEFINE ms == pruneJSONLPaths(ls, limit)
<1>1. DOMAIN ls = 1 .. 3
  BY DEF LogsOK
<1>2. ms = [i \in 1 .. 3 |-> compactJSONL(ls[i], limit)]
  BY <1>1 DEF pruneJSONLPaths
<1>3. LogsOK(ms)
  <2>1. \A i \in 1 .. 3 : LogOK(i, compactJSONL(ls[i], limit))
    BY CompactLog DEF LogsOK
  <2> QED BY <1>2, <2>1 DEF LogsOK
<1> HIDE DEF ms
<1>4. CASE ~(Total(ms) >= CritBytes)
  BY <1>3, <1>4 DEF Relieve, ms
<1>5. CASE Total(ms) >= CritBytes
  <2>1. Relieve(ms) = compactJSONLStorageBudget(ms, TargetBytes)
    BY <1>5 DEF Relieve
  <2>2. CASE Total(ms) <= TargetBytes
    BY <1>3, <2>1, <2>2 DEF compactJSONLStorageBudget, ms
  <2>3. CASE ~(Total(ms) <= TargetBytes)
    <3> DEFINE c == Compaction(ms, TargetBytes)
               m == Shares(Bytes(ms[1]), Bytes(ms[2]), Bytes(ms[3]), TargetBytes)
    <3>1. Relieve(ms) = c.files
      BY <2>1, <2>3 DEF compactJSONLStorageBudget
    <3>2. IsThree(ms) /\ TargetBytes \in Nat
      BY <1>3, LogsAreThree, DerivedAssumption
    <3>3. /\ c.files = [i \in 1 .. 3 |-> c.files[i]]
          /\ \A i \in 1 .. 3 : c.files[i] = compactJSONLTail(ms[i], m[i])
      BY <3>2, CompactedThree
    <3>4. Bytes(ms[1]) \in Nat /\ Bytes(ms[2]) \in Nat /\ Bytes(ms[3]) \in Nat
      BY <3>2, FileWeighs DEF IsThree
    <3>5. m[1] \in Nat /\ m[2] \in Nat /\ m[3] \in Nat
      BY <3>2, <3>4, SharesAre
    <3> HIDE DEF c, m
    <3>6. ASSUME NEW i \in 1 .. 3 PROVE LogOK(i, c.files[i])
      <4>1. m[i] \in Nat
        <5>1. i = 1 \/ i = 2 \/ i = 3
          OBVIOUS
        <5> QED BY <3>5, <5>1
      <4>2. LogOK(i, ms[i])
        BY <1>3 DEF LogsOK
      <4> QED BY <3>3, <4>1, <4>2, TailLog
    <3>7. LogsOK(c.files)
      BY <3>3, <3>6 DEF LogsOK
    <3> QED BY <3>1, <3>7 DEF ms
  <2> QED BY <2>2, <2>3
<1> QED BY <1>4, <1>5

----------------------------------------------------------------------------
(* Loading *)

LEMMA EmptyTables == TablesMatch(NoProfile)
<1>1. /\ HasTables(NoProfile) /\ NoProfile.peak = 0 /\ NoProfile.sessions = << >>
      /\ NoProfile.highlights = << >>
  BY DEF NoProfile, HasTables
<1> QED BY <1>1 DEF TablesMatch

LEMMA SameTables ==
  ASSUME NEW p, NEW q, TablesMatch(p), Same(p, q)
  PROVE  TablesMatch(q)
BY DEF TablesMatch, Same

LEMMA LoadEventMatch ==
  ASSUME NEW p, TablesMatch(p), NEW i \in 1 .. 3, NEW e, Row(i, e)
  PROVE  TablesMatch(LoadEvent(p, i, e))
<1>1. HasTables(p)
  BY DEF TablesMatch
<1>2. CASE i = 1
  <2>1. LoadEvent(p, i, e) = ApplyEvent(p, e)
    BY <1>2 DEF LoadEvent
  <2>2. Same(p, ApplyEvent(p, e))
    BY <1>1, HttpSame
  <2> QED BY <2>1, <2>2, SameTables
<1>3. CASE i = 2
  <2> DEFINE q == ApplySSHEvent(p, e)
  <2>1. LoadEvent(p, i, e) = PruneAbove(q, MaxSessions + PruneSlack, MaxSessions)
    BY <1>3 DEF LoadEvent, LoadSSHEvent
  <2>2. e.sid \in Sids /\ e.depth \in Nat
    BY <1>3 DEF Row, IsScored
  <2>3. TablesMatch(q)
    BY <2>2, SSHMatch
  <2> HIDE DEF q
  <2> QED BY <2>1, <2>3, PruneKeeps
<1>4. CASE i = 3
  <2>1. LoadEvent(p, i, e) = ApplyIntel(p, e)
    BY <1>4 DEF LoadEvent
  <2>2. Same(p, ApplyIntel(p, e))
    BY <1>1, IntelSame
  <2> QED BY <2>1, <2>2, SameTables
<1> QED BY <1>2, <1>3, <1>4

\* The profiles while a log is read.
Loads(h, p, i, rows) ==
  h[0] = p /\ \A j \in 1 .. Len(rows) : h[j] = LoadEvent(h[j - 1], i, rows[j])

\* A log that is read gives a profile after each of its records.
LEMMA LoadRun ==
  ASSUME NEW p, NEW i, NEW rows, Len(rows) \in Nat
  PROVE  \E h : Loads(h, p, i, rows) /\ LoadLog(p, i, rows) = h[Len(rows)]
<1> DEFINE n == Len(rows)
           Turns(f, k) == /\ f = [j \in 0 .. k |-> f[j]] /\ f[0] = p
                          /\ \A j \in 1 .. k : f[j] = LoadEvent(f[j - 1], i, rows[j])
           E == {k \in 0 .. n : \E f : Turns(f, k)}
           value(f, j) == IF j = 0 THEN p ELSE LoadEvent(f[j - 1], i, rows[j])
           Is(f) == f = [j \in 0 .. n |-> IF j = 0 THEN p ELSE LoadEvent(f[j - 1], i, rows[j])]
<1>1. n \in Nat
  OBVIOUS
<1> HIDE DEF n
<1>2. 0 \in E
  <2>1. Turns([j \in 0 .. 0 |-> p], 0)
    OBVIOUS
  <2>2. 0 \in 0 .. n
    BY <1>1
  <2> HIDE DEF Turns
  <2> QED BY <2>1, <2>2
<1>3. ASSUME NEW k \in 1 .. n, k - 1 \in E PROVE k \in E
  <2>1. PICK f : Turns(f, k - 1)
    BY <1>3
  <2>2. f[0] = p /\ \A j \in 1 .. k - 1 : f[j] = LoadEvent(f[j - 1], i, rows[j])
    BY <2>1
  <2> DEFINE g == [j \in 0 .. k |-> IF j = k THEN LoadEvent(f[k - 1], i, rows[k]) ELSE f[j]]
  <2>3. g[0] = p /\ g[k] = LoadEvent(f[k - 1], i, rows[k]) /\ g = [j \in 0 .. k |-> g[j]]
    BY <2>2
  <2>4. ASSUME NEW j \in 1 .. k PROVE g[j] = LoadEvent(g[j - 1], i, rows[j])
    <3>1. j - 1 \in 0 .. k /\ j - 1 # k
      OBVIOUS
    <3>2. g[j - 1] = f[j - 1]
      BY <3>1
    <3>3. CASE j = k
      BY <2>3, <3>2, <3>3
    <3>4. CASE j # k
      <4>1. j \in 1 .. k - 1 /\ g[j] = f[j]
        BY <3>4
      <4> QED BY <2>2, <3>2, <4>1
    <3> QED BY <3>3, <3>4
  <2> HIDE DEF g
  <2>5. Turns(g, k)
    BY <2>3, <2>4
  <2>6. k \in 0 .. n
    BY <1>1
  <2> HIDE DEF Turns
  <2> QED BY <2>5, <2>6
<1>4. PICK f : Turns(f, n)
  <2>1. \A k \in 0 .. n : k \in E
    <3> HIDE DEF E
    <3> QED BY ONLY <1>1, <1>2, <1>3, UpTo
  <2>2. n \in 0 .. n
    BY <1>1
  <2> HIDE DEF Turns
  <2> QED BY <2>1, <2>2
<1>5. Is(f)
  <2>1. \A j \in 0 .. n : j = 0 \/ j \in 1 .. n
    BY <1>1
  <2>2. \A j \in 0 .. n : f[j] = value(f, j)
    BY <1>4, <2>1
  <2>3. f = [j \in 0 .. n |-> f[j]]
    BY <1>4
  <2> QED BY <2>2, <2>3
<1> DEFINE h == CHOOSE g : Is(g)
<1>6. LoadLog(p, i, rows) = h[n]
  BY DEF LoadLog, n
<1>7. Is(h)
  <2> HIDE DEF Is
  <2> QED BY <1>5
<1> HIDE DEF h
<1>8. h[0] = p /\ \A j \in 1 .. n : h[j] = LoadEvent(h[j - 1], i, rows[j])
  <2>1. h = [j \in 0 .. n |-> value(h, j)]
    BY <1>7
  <2> HIDE DEF value
  <2>2. \A j \in 0 .. n : h[j] = value(h, j)
    BY <2>1
  <2>3. 0 \in 0 .. n /\ \A j \in 1 .. n : j \in 0 .. n /\ j # 0
    BY <1>1
  <2> QED BY ONLY <2>2, <2>3 DEF value
<1> QED BY <1>6, <1>8 DEF Loads, n

\* A log that is read keeps the tables of sessions and highlight states matching.
LEMMA LoadLogMatch ==
  ASSUME NEW p, TablesMatch(p), NEW i \in 1 .. 3, NEW rows, LogOK(i, rows)
  PROVE  TablesMatch(LoadLog(p, i, rows))
<1> DEFINE n == Len(rows)
<1>1. n \in Nat /\ \A j \in 1 .. n : Row(i, rows[j])
  <2>1. IsFile(rows)
    BY LogIsFile
  <2> QED BY <2>1, FileFacts DEF LogOK
<1>2. PICK h : Loads(h, p, i, rows) /\ LoadLog(p, i, rows) = h[n]
  BY <1>1, LoadRun
<1>3. h[0] = p /\ \A j \in 1 .. n : h[j] = LoadEvent(h[j - 1], i, rows[j])
  BY <1>2 DEF Loads
<1> HIDE DEF n
<1> DEFINE T == {j \in 0 .. n : TablesMatch(h[j])}
<1>4. 0 \in T
  BY <1>1, <1>3
<1>5. ASSUME NEW j \in 1 .. n, j - 1 \in T PROVE j \in T
  <2>1. TablesMatch(h[j - 1]) /\ j \in 0 .. n
    BY <1>1, <1>5
  <2>2. TablesMatch(h[j])
    BY <1>1, <1>3, <2>1, LoadEventMatch
  <2> QED BY <2>1, <2>2
<1>6. \A j \in 0 .. n : j \in T
  <2> HIDE DEF T
  <2> QED BY <1>1, <1>4, <1>5, UpTo
<1>7. n \in 0 .. n
  BY <1>1
<1> QED BY <1>2, <1>6, <1>7 DEF n

\* Whatever logs a start finds, it rebuilds tables that match.
LEMMA StartMatch ==
  ASSUME NEW ls, LogsOK(ls)
  PROVE  TablesMatch(Load(ls)) /\ TablesMatch(initSSH(Load(ls)))
<1> DEFINE p1 == LoadLog(NoProfile, 1, ls[1])
           p2 == LoadLog(p1, 3, ls[3])
           p3 == LoadLog(p2, 2, ls[2])
           q == PruneAbove(p3, MaxSessions, MaxSessions)
           r == initSSH(p3)
<1>1. LogOK(1, ls[1]) /\ LogOK(2, ls[2]) /\ LogOK(3, ls[3])
  BY DEF LogsOK
<1>2. Load(ls) = p3
  BY DEF Load
<1>3. TablesMatch(p1)
  BY <1>1, EmptyTables, LoadLogMatch
<1> HIDE DEF p1
<1>4. TablesMatch(p2)
  BY <1>1, <1>3, LoadLogMatch
<1> HIDE DEF p2
<1>5. TablesMatch(p3)
  BY <1>1, <1>4, LoadLogMatch
<1> HIDE DEF p3
<1>6. TablesMatch(q)
  BY <1>5, PruneKeeps
<1>7. r = [q EXCEPT !.sessions = [s \in DOMAIN @ |-> [@[s] EXCEPT !.active = FALSE]]]
  BY DEF initSSH
<1> HIDE DEF q, r
<1>8. /\ HasTables(r) /\ r.peak = q.peak /\ r.highlights = q.highlights
      /\ r.sessions = [s \in DOMAIN q.sessions |-> [q.sessions[s] EXCEPT !.active = FALSE]]
  BY <1>6, <1>7 DEF TablesMatch, HasTables
<1>9. \A s \in DOMAIN q.sessions : SessionOK([q.sessions[s] EXCEPT !.active = FALSE])
  BY <1>6 DEF TablesMatch, SessionOK
<1>10. TablesMatch(r)
  BY <1>6, <1>8, <1>9 DEF TablesMatch
<1> QED BY <1>2, <1>5, <1>10 DEF r
----------------------------------------------------------------------------
(* The budget *)

\* What the tail of a file weighs.
LEMMA KeptWeighs ==
  ASSUME NEW file, IsFile(file), NEW m \in Nat, m = 0 => Bytes(file) = 0
  PROVE  LET K == Bytes(compactJSONLTail(file, m)) IN K \in Nat /\ K <= m /\ (m = 1 => K = 0)
<1> DEFINE g == compactJSONLTail(file, m)
<1>1. PICK k \in 0 .. Len(file) :
           /\ g = From(file, k)
           /\ Bytes(file) > m /\ m >= 1 => k > 0 /\ Bytes(From(file, k)) < m
  BY TailKeeps
<1>2. IsFile(g)
  BY <1>1, FromIs
<1>3. Bytes(g) \in Nat
  BY <1>2, FileWeighs
<1>4. Bytes(file) \in Nat /\ (Bytes(file) = 0 \/ Bytes(file) >= 2)
  BY FileWeighs
<1>5. CASE Bytes(file) > m /\ m >= 1
  BY <1>1, <1>3, <1>5
<1>6. CASE ~(Bytes(file) > m /\ m >= 1)
  <2>1. Bytes(file) <= m \/ m < 1
    BY <1>4, <1>6
  <2>2. g = file
    BY <2>1 DEF compactJSONLTail
  <2>3. Bytes(file) <= m
    BY <1>4, <2>1
  <2> QED BY <1>4, <2>2, <2>3
<1> QED BY <1>5, <1>6

LEMMA BudgetHolds ==
  ASSUME IsThree(logs), Total(logs) > TargetBytes
  PROVE  Compacted(Compaction(logs, TargetBytes))
<1> DEFINE T == TargetBytes
           c == Compaction(logs, T)
           s1 == Bytes(logs[1])
           s2 == Bytes(logs[2])
           s3 == Bytes(logs[3])
           S == s1 + s2 + s3
           m == Shares(s1, s2, s3, T)
<1>1. T \in Nat
  BY DerivedAssumption
<1>2. s1 \in Nat /\ s2 \in Nat /\ s3 \in Nat /\ \A i \in 1 .. 3 : IsFile(logs[i])
  BY FileWeighs DEF IsThree
<1>3. Total(logs) = S
  BY TotalOfThree
<1>4. /\ c.files = [i \in 1 .. 3 |-> c.files[i]]
      /\ \A i \in 1 .. 3 : c.shares[i] = m[i] /\ c.files[i] = compactJSONLTail(logs[i], m[i])
  BY <1>1, CompactedThree
<1> HIDE DEF c, s1, s2, s3
<1>5. /\ m[1] \in Nat /\ m[2] \in Nat /\ m[3] \in Nat /\ m[1] = Part(s1, T, s1 + s2 + s3)
      /\ m[2] = Part(s2, T - m[1], s2 + s3) /\ m[3] = Part(s3, T - m[1] - m[2], s3)
  BY <1>1, <1>2, SharesAre
<1> HIDE DEF m
<1>6. (m[1] = 0 => s1 = 0) /\ (m[2] = 0 => s2 = 0) /\ (m[3] = 0 => s3 = 0)
  <2>1. /\ s1 + s2 + s3 \in Nat /\ s1 <= s1 + s2 + s3 /\ s2 + s3 \in Nat /\ s2 <= s2 + s3
        /\ s3 <= s3 /\ T \in Int /\ T - m[1] \in Int /\ T - m[1] - m[2] \in Int
    BY <1>1, <1>2, <1>5
  <2>2. s1 # 0 => 1 <= Part(s1, T, s1 + s2 + s3)
    BY <1>2, <2>1, PartIs
  <2>3. s2 # 0 => 1 <= Part(s2, T - m[1], s2 + s3)
    BY <1>2, <2>1, PartIs
  <2>4. s3 # 0 => 1 <= Part(s3, T - m[1] - m[2], s3)
    BY <1>2, <2>1, PartIs
  <2> QED BY <1>5, <2>2, <2>3, <2>4
<1>7. \A i \in 1 .. 3 : m[i] \in Nat /\ (m[i] = 0 => Bytes(logs[i]) = 0)
  <2>1. \A i \in 1 .. 3 : i = 1 \/ i = 2 \/ i = 3
    OBVIOUS
  <2> QED BY <1>5, <1>6, <2>1 DEF s1, s2, s3
<1>8. ASSUME NEW i \in 1 .. 3
      PROVE  /\ Bytes(c.files[i]) \in Nat /\ Bytes(c.files[i]) <= m[i]
             /\ m[i] = 1 => Bytes(c.files[i]) = 0
  BY <1>2, <1>4, <1>7, KeptWeighs
<1>9. Total(c.files) <= T
  <2>1. IsThree(c.files)
    <3>1. \A i \in 1 .. 3 : IsFile(c.files[i])
      <4> TAKE i \in 1 .. 3
      <4>1. PICK k \in 0 .. Len(logs[i]) : compactJSONLTail(logs[i], m[i]) = From(logs[i], k)
        BY <1>2, <1>7, TailKeeps
      <4> QED BY <1>2, <1>4, <4>1, FromIs
    <3> QED BY <1>4, <3>1 DEF IsThree
  <2>2. Total(c.files) = Bytes(c.files[1]) + Bytes(c.files[2]) + Bytes(c.files[3])
    BY <2>1, TotalOfThree
  <2>3. T < s1 + s2 + s3 /\ m = Shares(s1, s2, s3, T)
    BY <1>1, <1>2, <1>3 DEF m
  <2> DEFINE K1 == Bytes(c.files[1])
             K2 == Bytes(c.files[2])
             K3 == Bytes(c.files[3])
  <2>4. /\ K1 \in Nat /\ K1 <= m[1] /\ (m[1] = 1 => K1 = 0)
        /\ K2 \in Nat /\ K2 <= m[2] /\ (m[2] = 1 => K2 = 0)
        /\ K3 \in Nat /\ K3 <= m[3] /\ (m[3] = 1 => K3 = 0)
    BY <1>8
  <2> HIDE DEF K1, K2, K3, T
  <2>5. K1 + K2 + K3 <= T
    BY ONLY <1>1, <1>2, <2>3, <2>4, BudgetOfThree
  <2> QED BY <2>2, <2>5 DEF K1, K2, K3
<1>10. ASSUME NEW i \in 1 .. 3 PROVE (T * Bytes(logs[i])) \div Total(logs) <= m[i] + 1
  <2>1. T < s1 + s2 + s3 /\ m = Shares(s1, s2, s3, T)
    BY <1>1, <1>2, <1>3 DEF m
  <2> HIDE DEF T
  <2>2. /\ (T * s1) \div S <= m[1] + 1 /\ (T * s2) \div S <= m[2] + 1
        /\ (T * s3) \div S <= m[3] + 1
    BY ONLY <1>1, <1>2, <2>1, SharesOfThree
  <2>3. i = 1 \/ i = 2 \/ i = 3
    OBVIOUS
  <2> QED BY <1>3, <2>2, <2>3 DEF s1, s2, s3
<1>11. ASSUME NEW i \in 1 .. 3
       PROVE  /\ IsSuffix(c.files[i], logs[i])
              /\ c.files[i] # logs[i] =>
                   logs[i][Len(logs[i]) - Len(c.files[i])].size + Bytes(c.files[i]) >= c.shares[i]
  <2> DEFINE f == logs[i]
             g == c.files[i]
  <2>1. g = compactJSONLTail(f, m[i]) /\ c.shares[i] = m[i] /\ m[i] \in Nat /\ IsFile(f)
    BY <1>2, <1>4, <1>7
  <2> HIDE DEF f, g
  <2>2. PICK k \in 0 .. Len(f) :
           /\ g = From(f, k)
           /\ Bytes(f) > m[i] /\ m[i] >= 1 => f[k].size + Bytes(From(f, k)) >= m[i]
    BY <2>1, TailKeeps
  <2>3. IsSuffix(g, f)
    BY <2>1, <2>2, FromIsSuffix
  <2>4. Len(f) - Len(g) = k
    <3>1. Len(f) \in Nat /\ k \in Nat
      BY ONLY <2>1, <2>2, FileFacts
    <3>2. Len(From(f, k)) = Len(f) - k
      BY ONLY <2>1, k \in 0 .. Len(f), FromIs
    <3> QED BY ONLY <2>2, <3>1, <3>2
  <2>5. ASSUME g # f PROVE f[k].size + Bytes(g) >= m[i]
    <3>1. ~(Bytes(f) <= m[i] \/ m[i] < 1)
      BY <2>1, <2>5 DEF compactJSONLTail
    <3>2. Bytes(f) \in Nat
      BY <2>1, FileWeighs
    <3> QED BY <2>1, <2>2, <3>1, <3>2
  <2> QED BY <2>1, <2>3, <2>4, <2>5 DEF f, g
<1>12. \A i \in DOMAIN logs : i \in 1 .. 3
  BY DEF IsThree
<1>13. \A i \in 1 .. 3 : (T * Bytes(logs[i])) \div Total(logs) <= c.shares[i] + 1
  BY <1>4, <1>10
<1>14. \A i \in 1 .. 3 : c.shares[i] + 1 >= (T * Bytes(logs[i])) \div Total(logs)
  BY <1>13
<1>15. Compacted(c)
  BY <1>9, <1>11, <1>12, <1>14 DEF Compacted
<1> QED BY <1>15 DEF c

----------------------------------------------------------------------------
(* The invariant *)

SceneOK == "ssh" \in DOMAIN scene /\ \A r \in scene.ssh : IsSSHRecord(r)
ConnOK == DOMAIN conn = Sids /\ ghosts \subseteq Sids
ActiveOpen == Active(d) \subseteq Open \cup ghosts
SeenStand ==
  \A s \in seen :
    \/ s \in DOMAIN d.history
    \/ s \in DOMAIN d.sessions /\ Standing(d.sessions[s], d.highlights[s])

DerivedInv == TablesMatch(d) /\ SceneOK /\ ConnOK /\ ActiveOpen /\ SeenStand

LEMMA InitInv == Init => DerivedInv
<1> SUFFICES ASSUME Init PROVE DerivedInv
  OBVIOUS
<1>1. /\ d = NoProfile /\ conn = [s \in Sids |-> "new"] /\ ghosts = {} /\ seen = {}
      /\ scene \in Scenes
  BY DEF Init
<1>2. /\ HasTables(d) /\ d.peak = 0 /\ d.sessions = << >> /\ d.highlights = << >>
  BY <1>1 DEF NoProfile, HasTables
<1>3. TablesMatch(d) /\ ActiveOpen
  BY <1>2 DEF TablesMatch, ActiveOpen, Active
<1>4. SceneOK
  BY <1>1, DerivedAssumption DEF SceneOK
<1> QED  BY <1>1, <1>3, <1>4 DEF DerivedInv, ConnOK, SeenStand

\* Steps that leave the tables, the connections and the view alone.
LEMMA SameInv ==
  ASSUME DerivedInv, Same(d, d'), UNCHANGED <<conn, ghosts, seen>>, SceneOK'
  PROVE  DerivedInv' /\ d'.peak = d.peak /\ seen' = seen
<1>1. TablesMatch(d)'
  BY DEF DerivedInv, TablesMatch, Same
<1>2. ConnOK' /\ Open' = Open /\ Active(d)' = Active(d)
  BY DEF DerivedInv, ConnOK, Same, Active, Open
<1>3. ActiveOpen'
  BY <1>2 DEF DerivedInv, ActiveOpen
<1>4. SeenStand'
  BY DEF DerivedInv, SeenStand, Same
<1> QED  BY <1>1, <1>2, <1>3, <1>4 DEF DerivedInv, Same

LEMMA HappensScene ==
  ASSUME SceneOK, NEW step, Happens(step)
  PROVE  SceneOK'
<1>1. "ssh" \in DOMAIN scene' /\ scene'.ssh = scene.ssh
  BY DEF Happens, SceneOK
<1> QED  BY <1>1 DEF SceneOK, IsSSHRecord, IsScored

LEMMA AddEventInv ==
  ASSUME DerivedInv, NEW r, NEW step, AddEvent(r, step)
  PROVE  DerivedInv' /\ d'.peak = d.peak /\ seen' = seen
<1>1. HasTables(d)
  BY DEF DerivedInv, TablesMatch
<1>2. PICK e, signals : Handle(e, signals)
  BY DEF AddEvent, Receive
<1> DEFINE a == ApplyHTTPActorFingerprint(d, e, signals)
<1>3. Same(d, a)
  BY <1>1, FingerprintSame
<1>4. Same(a, ApplyEvent(a, e))
  BY <1>3, HttpSame DEF Same
<1>5. d' = a \/ d' = ApplyEvent(a, e)
  BY <1>2 DEF Handle
<1> HIDE DEF a
<1>6. Same(d, d')
  BY <1>3, <1>4, <1>5, SameTrans
<1>7. SceneOK'
  BY HappensScene DEF AddEvent, DerivedInv
<1> QED  BY <1>6, <1>7, SameInv DEF AddEvent

LEMMA AddIntelInv ==
  ASSUME DerivedInv, NEW r, NEW step, AddIntelSignal(r, step)
  PROVE  DerivedInv' /\ d'.peak = d.peak /\ seen' = seen
<1>1. HasTables(d)
  BY DEF DerivedInv, TablesMatch
<1>2. d' = d \/ d' = ApplyIntel(d, Stamped(r))
  BY DEF AddIntelSignal
<1>3. Same(d, ApplyIntel(d, Stamped(r)))
  BY <1>1, IntelSame
<1>4. Same(d, d')
  BY <1>1, <1>2, <1>3 DEF Same
<1>5. SceneOK'
  BY HappensScene DEF AddIntelSignal, DerivedInv
<1> QED  BY <1>4, <1>5, SameInv DEF AddIntelSignal

\* The connection that an event belongs to, and the sessions the store thinks
\* are open.
LEMMA ActiveAfter ==
  ASSUME DerivedInv, NEW e, e.sid \in Sids, e.depth \in Nat, Follows(e),
         conn' = [conn EXCEPT ![e.sid] = connAfter(e)]
  PROVE  /\ DOMAIN conn' = Sids
         /\ Active(ApplySSHEvent(d, e))
              \subseteq Open' \cup ghosts \cup (IF LateShell(e) THEN {e.sid} ELSE {})
         /\ Open \ Open' \subseteq {e.sid} /\ (e.sid \in Open \ Open' => IsEnd(e))
<1> DEFINE ss == Lookup(d.sessions, e.sid, NoSession(e.at))
           q == ApplySSHEvent(d, e)
<1>1. SessionOK(ss)
  BY DEF Lookup, NoSession, SessionOK, TablesMatch, DerivedInv
<1>2. q.sessions = Put(d.sessions, e.sid, sessionAfter(ss, e))
  BY SSHTables DEF TablesMatch, DerivedInv
<1>3. ss.active => e.sid \in Active(d)
  BY DEF Lookup, NoSession, Active
<1> HIDE DEF ss, q
<1>4. /\ DOMAIN conn = Sids /\ conn'[e.sid] = connAfter(e)
      /\ \A s \in Sids : s # e.sid => conn'[s] = conn[s]
  BY DEF DerivedInv, ConnOK
<1>5. Open \ Open' \subseteq {e.sid}
  BY <1>4 DEF Open
<1>6. e.sid \in Open \ Open' => IsEnd(e)
  BY <1>4 DEF Open, connAfter, IsEnd, Follows
<1>7. ASSUME e.sid \notin Open', ~IsEnd(e) PROVE conn[e.sid] = "left" /\ e.type # "connect"
  BY <1>4, <1>7 DEF Open, connAfter, Follows, IsEnd
<1>8. ASSUME NEW s \in Active(q), s \notin Open'
      PROVE  s \in ghosts \cup (IF LateShell(e) THEN {e.sid} ELSE {})
  <2>1. CASE s = e.sid
    <3>1. sessionAfter(ss, e).active
      BY <1>2, <1>8, <2>1 DEF Active, Put
    <3>2. ~IsEnd(e) /\ (ss.active \/ e.type \in {"connect", "shell"})
      BY <1>1, <3>1, SessionGrows
    <3>3. conn[e.sid] = "left" /\ e.type # "connect"
      BY <1>7, <1>8, <2>1, <3>2
    <3>4. CASE e.type = "shell"
      BY <2>1, <3>3, <3>4 DEF LateShell
    <3>5. CASE ss.active
      <4>1. e.sid \in Open \cup ghosts
        BY <1>3, <3>5 DEF DerivedInv, ActiveOpen
      <4>2. e.sid \notin Open
        BY <3>3 DEF Open
      <4> QED  BY <2>1, <4>1, <4>2
    <3> QED  BY <3>2, <3>3, <3>4, <3>5
  <2>2. CASE s # e.sid
    <3>1. s \in Active(d)
      BY <1>2, <1>8, <2>2 DEF Active, Put
    <3>2. s \in Open \cup ghosts
      BY <3>1 DEF DerivedInv, ActiveOpen
    <3> QED  BY <1>5, <1>8, <2>2, <3>2
  <2> QED  BY <2>1, <2>2
<1>9. DOMAIN conn' = Sids
  BY DEF DerivedInv, ConnOK
<1> QED  BY <1>5, <1>6, <1>8, <1>9 DEF q

\* The peak after a step, for a store that thinks no other sessions open than
\* are open or could not be closed.
PeakBound == d'.peak <= Max({d.peak, Cardinality(Open' \cup ghosts')})

LEMMA PeakArith ==
  ASSUME NEW peak \in Nat, NEW active \in Nat, NEW open \in Nat, active <= open,
         NEW new \in {peak, Max({peak, active})}
  PROVE  new <= Max({peak, open})
<1>1. /\ Max({peak, active}) \in {peak, active}
      /\ Max({peak, open}) \in {peak, open} /\ Max({peak, open}) >= peak
      /\ Max({peak, open}) >= open
  BY MaxOfTwo
<1> QED  BY <1>1

LEMMA PeakSame ==
  ASSUME DerivedInv, ConnOK', d'.peak = d.peak
  PROVE  PeakBound
<1>1. IsFiniteSet(Open' \cup ghosts')
  BY DerivedAssumption, FS_Subset DEF Open, ConnOK
<1>2. d.peak \in Int /\ Cardinality(Open' \cup ghosts') \in Int
  BY <1>1, FS_CardinalityType DEF DerivedInv, TablesMatch
<1> QED  BY <1>2, MaxOfTwo DEF PeakBound

\* A session with standing has enough points or is near the edge.
LEMMA StandingEdge ==
  ASSUME NEW s \in DOMAIN d.sessions, SessionOK(d.sessions[s]), HighlightOK(d.highlights[s]),
         Standing(d.sessions[s], d.highlights[s])
  PROVE  \/ Points(d.sessions[s], d.highlights[s], d.highlights[s].signals)
              >= sshHighlightMinScore
         \/ NearTheEdge(s)
<1> DEFINE ss == d.sessions[s]
           h == d.highlights[s]
<1>1. Points(ss, h, h.signals) \in Int /\ Drop \in Nat
  BY PointsRise DEF SessionOK, HighlightOK
<1>2. h.commands \in Nat /\ Limits.manyCommands \in Nat
  BY DerivedAssumption DEF HighlightOK
<1>3. \/ Points(ss, h, h.signals) >= sshHighlightMinScore
      \/ h.commands > Limits.manyCommands /\ ~(Points(ss, h, h.signals) >= sshHighlightMinScore)
  BY DEF Standing
<1> HIDE DEF ss, h
<1>4. \/ Points(ss, h, h.signals) >= sshHighlightMinScore
      \/ /\ h.commands >= Limits.manyCommands
         /\ Points(ss, h, h.signals) < sshHighlightMinScore + Drop
  BY <1>1, <1>2, <1>3 DEF sshHighlightMinScore
<1> QED  BY <1>4 DEF ss, h, NearTheEdge

\* Where a highlight that was shown is after an SSH event of some session.
LEMMA SeenAfter ==
  ASSUME DerivedInv, NEW e, e.sid \in Sids, e.depth \in Nat, NEW s \in seen,
         NEW most, NEW target
  PROVE  LET q == PruneAbove(ApplySSHEvent(d, e), most, target) IN
         /\ s \in Shown(q) \/ NearTheEdge(s)
         /\ s \in Shown(q) =>
              \/ s \in DOMAIN q.history
              \/ s \in DOMAIN q.sessions /\ Standing(q.sessions[s], q.highlights[s])
<1> DEFINE ss == Lookup(d.sessions, e.sid, NoSession(e.at))
           h == Lookup(d.highlights, e.sid, NoHighlight)
           p == ApplySSHEvent(d, e)
           q == PruneAbove(p, most, target)
<1>1. TablesMatch(d) /\ TablesMatch(p)
  BY SSHMatch DEF DerivedInv
<1>2. /\ TablesMatch(q) /\ DOMAIN p.history \subseteq DOMAIN q.history
      /\ DOMAIN q.sessions \subseteq DOMAIN p.sessions
      /\ \A t \in DOMAIN q.sessions :
           q.sessions[t] = p.sessions[t] /\ q.highlights[t] = p.highlights[t]
      /\ \A t \in DOMAIN p.sessions \ DOMAIN q.sessions :
           scoreSSHHighlightState(p.sessions[t], p.highlights[t]) => t \in DOMAIN q.history
  BY <1>1, PruneKeeps
<1>3. /\ p.history = d.history
      /\ p.sessions = Put(d.sessions, e.sid, sessionAfter(ss, e))
      /\ p.highlights = Put(d.highlights, e.sid, highlightAfter(h, e))
  BY <1>1, SSHTables DEF TablesMatch
<1> HIDE DEF ss, h, p, q
<1>4. CASE s \in DOMAIN d.history
  BY <1>2, <1>3, <1>4 DEF Shown, q, p
<1>5. CASE s \notin DOMAIN d.history
  <2>1. s \in DOMAIN d.sessions /\ Standing(d.sessions[s], d.highlights[s])
    BY <1>5 DEF DerivedInv, SeenStand
  <2>2. SessionOK(d.sessions[s]) /\ HighlightOK(d.highlights[s])
    BY <1>1, <2>1 DEF TablesMatch
  <2>3. s \in DOMAIN p.sessions /\ SessionOK(p.sessions[s]) /\ HighlightOK(p.highlights[s])
    BY <1>1, <1>3, <2>1 DEF TablesMatch, Put
  <2>4. /\ Standing(p.sessions[s], p.highlights[s])
        /\ \/ Points(p.sessions[s], p.highlights[s], p.highlights[s].signals)
                >= sshHighlightMinScore
           \/ NearTheEdge(s)
    <3>1. CASE s = e.sid
      <4>1. ss = d.sessions[s] /\ h = d.highlights[s]
        BY <1>1, <2>1, <3>1 DEF ss, h, Lookup, TablesMatch
      <4>2. p.sessions[s] = sessionAfter(ss, e) /\ p.highlights[s] = highlightAfter(h, e)
        BY <1>3, <3>1 DEF Put
      <4> QED  BY <2>1, <2>2, <4>1, <4>2, StandingStays DEF NearTheEdge
    <3>2. CASE s # e.sid
      <4>1. p.sessions[s] = d.sessions[s] /\ p.highlights[s] = d.highlights[s]
        BY <1>1, <1>3, <2>1, <3>2 DEF Put, TablesMatch
      <4> QED  BY <2>1, <2>2, <4>1, StandingEdge
    <3> QED  BY <3>1, <3>2
  <2>5. CASE Points(p.sessions[s], p.highlights[s], p.highlights[s].signals)
               >= sshHighlightMinScore
    <3>1. scoreSSHHighlightState(p.sessions[s], p.highlights[s])
      BY <2>3, <2>4, <2>5, StandingShown
    <3>2. s \in Shown(q)
      BY <1>2, <2>3, <3>1 DEF Shown, Highlighted
    <3> QED  BY <1>2, <2>3, <2>4, <3>1, <3>2 DEF q, p
  <2>6. CASE NearTheEdge(s)
    <3>1. s \in Shown(q) => s \in DOMAIN q.history \/ s \in DOMAIN q.sessions
      BY DEF Shown, Highlighted
    <3> QED  BY <1>2, <2>4, <2>6, <3>1 DEF q, p
  <2> QED  BY <2>4, <2>5, <2>6
<1> QED  BY <1>4, <1>5

\* What the two theorems say of a step within one life of the process.
SeenLeave == \A s \in seen \ seen' : Expired(s) \/ NearTheEdge(s)

LEMMA AddSSHEventInv ==
  ASSUME DerivedInv, NEW r \in scene.ssh, NEW step, AddSSHEvent(r, step)
  PROVE  DerivedInv' /\ PeakBound /\ SeenLeave
<1> DEFINE e == Stamped(r)
           a == ApplySSHEvent(d, e)
           q == PruneAbove(a, MaxSessions, MaxSessions - PruneSlack)
<1>1. e.sid \in Sids /\ e.depth \in Nat
  <2>1. {"sid", "depth"} \subseteq DOMAIN r /\ r.sid \in Sids /\ r.depth \in Nat
    BY DEF DerivedInv, SceneOK, IsSSHRecord, IsScored
  <2> QED  BY <2>1 DEF Stamped, Put
<1>2. /\ Happens(step) /\ Follows(e) /\ conn' = [conn EXCEPT ![e.sid] = connAfter(e)]
      /\ seen' = seen \cap Shown(d')
      /\ \/ /\ d' = q
            /\ ghosts' = IF LateShell(e) THEN ghosts \cup {e.sid} ELSE ghosts
         \/ /\ d' = d
            /\ ghosts' = IF IsEnd(e) THEN ghosts \cup {e.sid} ELSE ghosts
  BY DEF AddSSHEvent
<1> HIDE DEF e, a, q
<1>3. SceneOK'
  BY <1>2, HappensScene DEF DerivedInv
<1>4. /\ DOMAIN conn' = Sids
      /\ Active(a) \subseteq Open' \cup ghosts \cup (IF LateShell(e) THEN {e.sid} ELSE {})
      /\ Open \ Open' \subseteq {e.sid} /\ (e.sid \in Open \ Open' => IsEnd(e))
  BY <1>1, <1>2, ActiveAfter DEF a
<1>5. ConnOK'
  BY <1>1, <1>2, <1>4 DEF ConnOK, DerivedInv
<1>6. CASE d' = q /\ ghosts' = IF LateShell(e) THEN ghosts \cup {e.sid} ELSE ghosts
  <2>0. Active(a) \subseteq Open' \cup ghosts'
    BY <1>4, <1>6
  <2>1. TablesMatch(a)
    BY <1>1, SSHMatch DEF DerivedInv, a
  <2>2. TablesMatch(q) /\ q.peak = a.peak /\ Active(q) \subseteq Active(a)
    BY <2>1, PruneKeeps DEF q
  <2>3. TablesMatch(d)' /\ ActiveOpen'
    BY <1>6, <2>0, <2>2 DEF ActiveOpen, TablesMatch, Active
  <2>4. ASSUME NEW s \in seen
        PROVE  /\ s \in Shown(q) \/ NearTheEdge(s)
               /\ s \in Shown(q) =>
                    \/ s \in DOMAIN q.history
                    \/ s \in DOMAIN q.sessions /\ Standing(q.sessions[s], q.highlights[s])
    BY <1>1, SeenAfter DEF q, a
  <2>5. SeenStand'
    BY <1>2, <1>6, <2>4 DEF SeenStand
  <2>6. SeenLeave
    BY <1>2, <1>6, <2>4 DEF SeenLeave
  <2>7. PeakBound
    <3>1. a.peak \in {d.peak, Max({d.peak, Cardinality(Active(a))})}
      BY SSHTables DEF a, DerivedInv, TablesMatch
    <3>2. IsFiniteSet(Open' \cup ghosts')
      BY <1>5, DerivedAssumption, FS_Subset DEF Open, ConnOK
    <3>3. /\ Cardinality(Active(a)) \in Nat /\ Cardinality(Open' \cup ghosts') \in Nat
          /\ Cardinality(Active(a)) <= Cardinality(Open' \cup ghosts')
      BY <2>0, <3>2, FS_Subset, FS_CardinalityType
    <3>4. d.peak \in Nat /\ d'.peak = a.peak
      BY <1>6, <2>2 DEF DerivedInv, TablesMatch
    <3> QED  BY <3>1, <3>3, <3>4, PeakArith DEF PeakBound
  <2> QED  BY <1>3, <1>5, <2>3, <2>5, <2>6, <2>7 DEF DerivedInv
<1>7. CASE /\ d' = d
           /\ ghosts' = IF IsEnd(e) THEN ghosts \cup {e.sid} ELSE ghosts
  <2>1. TablesMatch(d)' /\ Active(d)' = Active(d)
    BY <1>7 DEF DerivedInv, TablesMatch, Active
  <2>2. ActiveOpen'
    BY <1>4, <1>7, <2>1 DEF DerivedInv, ActiveOpen
  <2>3. SeenStand'
    BY <1>2, <1>7 DEF DerivedInv, SeenStand
  <2>4. PeakBound
    BY <1>5, <1>7, PeakSame
  <2>5. ASSUME NEW s \in seen PROVE s \in Shown(d) \/ NearTheEdge(s)
    <3>1. CASE s \in DOMAIN d.history
      BY <3>1 DEF Shown
    <3>2. CASE s \in DOMAIN d.sessions /\ Standing(d.sessions[s], d.highlights[s])
      <4>1. SessionOK(d.sessions[s]) /\ HighlightOK(d.highlights[s])
        BY <3>2 DEF DerivedInv, TablesMatch
      <4>2. CASE NearTheEdge(s)
        BY <4>2
      <4>3. CASE Points(d.sessions[s], d.highlights[s], d.highlights[s].signals)
                   >= sshHighlightMinScore
        <5>1. scoreSSHHighlightState(d.sessions[s], d.highlights[s])
          BY <3>2, <4>1, <4>3, StandingShown
        <5> QED  BY <3>2, <5>1 DEF Shown, Highlighted
      <4> QED  BY <3>2, <4>1, <4>2, <4>3, StandingEdge
    <3> QED  BY <3>1, <3>2 DEF DerivedInv, SeenStand
  <2>6. SeenLeave
    BY <1>2, <1>7, <2>5 DEF SeenLeave
  <2> QED  BY <1>3, <1>5, <2>1, <2>2, <2>3, <2>4, <2>6 DEF DerivedInv
<1> QED  BY <1>2, <1>6, <1>7

\* A session that is in the list has standing with its stored signals once the
\* signal that scoring found is one of them.
LEMMA ShownStands ==
  ASSUME NEW ss, NEW h, HighlightOK(h), scoreSSHHighlightState(ss, h)
  PROVE  Standing(ss, [h EXCEPT !.signals = Signals(h)])
<1> DEFINE g == [h EXCEPT !.signals = Signals(h)]
<1>1. /\ g.signals = Signals(h) /\ g.commands = h.commands /\ g.families = h.families
      /\ g.acceptedAt = h.acceptedAt
  BY DEF HighlightOK
<1> HIDE DEF g
<1>2. Scored(ss, g) /\ Notable(g, g.signals)
  BY <1>1 DEF scoreSSHHighlightState, Scored, Notable
<1>3. Points(ss, g, g.signals) = Points(ss, h, Signals(h))
  BY <1>1 DEF Points, CommandPoints, FamilyPoints
<1> QED  BY <1>2, <1>3 DEF Standing, scoreSSHHighlightState, g

\* The signal that scoring found raises what a session stands on.
LEMMA WrittenStands ==
  ASSUME NEW ss, NEW h, SessionOK(ss), HighlightOK(h), Standing(ss, h)
  PROVE  Standing(ss, [h EXCEPT !.signals = Signals(h)])
<1> DEFINE g == [h EXCEPT !.signals = Signals(h)]
<1>1. /\ g.signals = Signals(h) /\ g.commands = h.commands /\ g.families = h.families
      /\ g.acceptedAt = h.acceptedAt
  BY DEF HighlightOK
<1> HIDE DEF g
<1>2. h.signals \subseteq g.signals
  BY <1>1 DEF Signals
<1>3. Scored(ss, g) /\ Notable(g, g.signals)
  BY <1>1, <1>2 DEF Standing, Scored, Notable
<1>4. CASE h.commands > Limits.manyCommands
  BY <1>1, <1>3, <1>4 DEF Standing, g
<1>5. CASE Points(ss, h, h.signals) >= sshHighlightMinScore
  <2>1. scoreSSHHighlightState(ss, h)
    BY <1>5, StandingShown
  <2> QED  BY <2>1, ShownStands
<1> QED  BY <1>4, <1>5 DEF Standing

LEMMA SSHHighlightsInv ==
  ASSUME DerivedInv, SSHHighlights
  PROVE  DerivedInv' /\ d'.peak = d.peak /\ seen \subseteq seen'
<1> DEFINE Written(s) == s \notin DOMAIN d.history /\ Scored(d.sessions[s], d.highlights[s])
           after == [s \in DOMAIN d.highlights |->
                       IF Written(s) THEN [d.highlights[s] EXCEPT !.signals = Signals(d.highlights[s])]
                       ELSE d.highlights[s]]
<1>1. TablesMatch(d) /\ HasTables(d)
  BY DEF DerivedInv, TablesMatch
<1>2. d' = [d EXCEPT !.highlights = after]
  BY DEF SSHHighlights
<1>3. /\ seen' = seen \cup Shown(d) /\ conn' = conn /\ ghosts' = ghosts /\ scene' = scene
  BY DEF SSHHighlights
<1>4. /\ HasTables(d') /\ d'.sessions = d.sessions /\ d'.history = d.history
      /\ d'.peak = d.peak /\ d'.highlights = after
  BY <1>1, <1>2 DEF HasTables
<1>5. ASSUME NEW s \in DOMAIN d.sessions
      PROVE  HighlightOK(d'.highlights[s])
  <2>1. HighlightOK(d.highlights[s]) /\ s \in DOMAIN d.highlights
    BY <1>1 DEF TablesMatch
  <2>2. HighlightOK([d.highlights[s] EXCEPT !.signals = Signals(d.highlights[s])])
    <3> DEFINE h == d.highlights[s]
               g == [h EXCEPT !.signals = Signals(h)]
    <3> HIDE DEF h
    <3>1. /\ DOMAIN g = DOMAIN h /\ g.commands = h.commands /\ g.families = h.families
      BY <2>1 DEF HighlightOK, h
    <3> HIDE DEF g
    <3>2. HighlightOK(g)
      BY <2>1, <3>1 DEF HighlightOK, h
    <3> QED  BY <3>2 DEF g, h
  <2> QED  BY <1>4, <2>1, <2>2
<1>6. DOMAIN d'.highlights = DOMAIN d.highlights
  BY <1>4
<1>7. TablesMatch(d)'
  BY <1>1, <1>4, <1>5, <1>6 DEF TablesMatch
<1>8. ConnOK' /\ SceneOK' /\ ActiveOpen'
  BY <1>3, <1>4 DEF DerivedInv, ConnOK, SceneOK, ActiveOpen, Active, Open, IsSSHRecord, IsScored
<1>9. ASSUME NEW s \in seen', s \notin DOMAIN d.history
      PROVE  s \in DOMAIN d.sessions /\ Standing(d.sessions[s], d'.highlights[s])
  <2>1. s \in DOMAIN d.sessions
    BY <1>3, <1>9 DEF DerivedInv, SeenStand, Shown, Highlighted
  <2>2. /\ SessionOK(d.sessions[s]) /\ HighlightOK(d.highlights[s])
        /\ s \in DOMAIN d.highlights
    BY <1>1, <2>1 DEF TablesMatch
  <2>3. \/ Standing(d.sessions[s], d.highlights[s])
        \/ scoreSSHHighlightState(d.sessions[s], d.highlights[s])
    BY <1>3, <1>9 DEF DerivedInv, SeenStand, Shown, Highlighted
  <2>4. Written(s)
    BY <1>9, <2>3 DEF Standing, scoreSSHHighlightState
  <2>5. d'.highlights[s] = [d.highlights[s] EXCEPT !.signals = Signals(d.highlights[s])]
    BY <1>4, <2>2, <2>4
  <2> QED  BY <2>1, <2>2, <2>3, <2>5, ShownStands, WrittenStands
<1>10. SeenStand'
  BY <1>4, <1>9 DEF SeenStand
<1> QED  BY <1>3, <1>4, <1>7, <1>8, <1>10 DEF DerivedInv

LEMMA PruneExpiredInv ==
  ASSUME DerivedInv, pruneExpired
  PROVE  DerivedInv' /\ d'.peak = d.peak /\ SeenLeave
<1> DEFINE limit == clock - Retention
           old == {s \in DOMAIN d.history : d.history[s] < limit}
<1>1. TablesMatch(d) /\ HasTables(d)
  BY DEF DerivedInv, TablesMatch
<1>2. /\ d' = [d EXCEPT !.counts = pruneActivityAggregates(@, limit),
                         !.history = [s \in DOMAIN @ \ old |-> @[s]]]
      /\ seen' = seen \ old /\ conn' = conn /\ ghosts' = ghosts /\ scene' = scene
  BY DEF pruneExpired
<1>3. /\ HasTables(d') /\ d'.sessions = d.sessions /\ d'.highlights = d.highlights
      /\ d'.peak = d.peak /\ DOMAIN d'.history = DOMAIN d.history \ old
  BY <1>1, <1>2 DEF HasTables
<1>4. TablesMatch(d)'
  BY <1>1, <1>3 DEF TablesMatch
<1>5. ConnOK' /\ SceneOK' /\ ActiveOpen'
  BY <1>2, <1>3 DEF DerivedInv, ConnOK, SceneOK, ActiveOpen, Active, Open, IsSSHRecord, IsScored
<1>6. SeenStand'
  BY <1>2, <1>3 DEF DerivedInv, SeenStand
<1>7. SeenLeave
  BY <1>2 DEF SeenLeave, Expired
<1> QED  BY <1>3, <1>4, <1>5, <1>6, <1>7 DEF DerivedInv

----------------------------------------------------------------------------
(* The logs hold records with a size, and SSH events of known sessions *)

RecordsOK ==
  /\ {"http", "ssh", "intel", "steps"} \subseteq DOMAIN scene
  /\ \A r \in scene.http \cup scene.ssh \cup scene.intel : IsRecord(r)
  /\ \A r \in scene.http : IsScored(r)
  /\ scene.steps \subseteq Nat /\ clock \in Nat
FilesInv == SceneOK /\ RecordsOK /\ LogsOK(logs) /\ LogsOK(kept)

LEMMA HappensRecords ==
  ASSUME RecordsOK, NEW step \in scene.steps, Happens(step)
  PROVE  RecordsOK' /\ clock' \in Nat
<1>1. /\ {"http", "ssh", "intel", "steps"} \subseteq DOMAIN scene' /\ scene'.http = scene.http
      /\ scene'.ssh = scene.ssh /\ scene'.intel = scene.intel /\ scene'.steps = scene.steps
  BY DEF Happens, RecordsOK
<1>2. clock' \in Nat
  BY DEF Happens, RecordsOK
<1> QED  BY <1>1, <1>2 DEF RecordsOK, IsRecord, IsScored

\* A stamp leaves the rest of a record alone.
LEMMA StampedRecord ==
  ASSUME NEW r, clock' \in Nat
  PROVE  /\ IsRecord(r) => IsRecord(Stamped(r)) /\ Stamped(r).at \in Nat
         /\ IsRecord(r) /\ IsScored(r) => IsScored(Stamped(r))
         /\ IsSSHRecord(r) => Stamped(r).sid \in Sids
<1> DEFINE e == Stamped(r)
<1>1. DOMAIN e = DOMAIN r \cup {"at"} /\ e.at = clock'
  BY DEF Stamped, Put
<1>2. \A f \in DOMAIN r : f # "at" => e[f] = r[f]
  BY DEF Stamped, Put
<1> HIDE DEF e
<1>3. IsRecord(r) => IsRecord(e) /\ e.at \in Nat
  BY <1>1, <1>2 DEF IsRecord
<1>4. IsScored(r) => IsScored(e)
  BY <1>1, <1>2 DEF IsScored
<1>5. IsSSHRecord(r) => e.sid \in Sids
  BY <1>1, <1>2 DEF IsSSHRecord
<1> QED  BY <1>3, <1>4, <1>5 DEF e

LEMMA LoggedLogs ==
  ASSUME NEW ls, LogsOK(ls), NEW i \in 1 .. 3, NEW e
  PROVE  LET more == [ls EXCEPT ![i] = Append(@, e)]
         IN  /\ Row(i, e) => LogsOK(more)
             /\ more[i] = Append(ls[i], e) /\ \A j \in 1 .. 3 : j # i => more[j] = ls[j]
<1> DEFINE more == [ls EXCEPT ![i] = Append(@, e)]
<1>1. /\ more = [j \in 1 .. 3 |-> more[j]] /\ more[i] = Append(ls[i], e)
      /\ \A j \in 1 .. 3 : j # i => more[j] = ls[j]
  BY DEF LogsOK
<1> HIDE DEF more
<1>2. ASSUME Row(i, e), NEW j \in 1 .. 3 PROVE LogOK(j, more[j])
  <2>1. LogOK(i, Append(ls[i], e))
    BY <1>2, AppendLog DEF LogsOK
  <2>2. CASE j = i
    BY <1>1, <2>1, <2>2
  <2>3. CASE j # i
    BY <1>1, <2>3 DEF LogsOK
  <2> QED  BY <2>2, <2>3
<1>3. Row(i, e) => LogsOK(more)
  BY <1>1, <1>2 DEF LogsOK
<1> QED  BY <1>1, <1>3 DEF more

\* A handler logs its record or leaves the logs alone.
BothOK == LogsOK(logs) /\ LogsOK(kept)
LEMMA BothSame == ASSUME BothOK, logs' = logs, kept' = kept PROVE BothOK'
<1>1. LogsOK(logs') /\ LogsOK(kept')
  BY DEF BothOK
<1> QED  BY <1>1 DEF BothOK

LEMMA BothLogged ==
  ASSUME BothOK, NEW i \in 1 .. 3, NEW e, Row(i, e), Logged(i, e) \/ NotLogged
  PROVE  BothOK'
<1>1. CASE NotLogged
  BY <1>1, BothSame DEF NotLogged
<1>2. CASE Logged(i, e)
  <2>1. logs' = [logs EXCEPT ![i] = Append(@, e)] /\ kept' = [kept EXCEPT ![i] = Append(@, e)]
    BY <1>2 DEF Logged
  <2>2. LogsOK([logs EXCEPT ![i] = Append(@, e)]) /\ LogsOK([kept EXCEPT ![i] = Append(@, e)])
    BY LoggedLogs DEF BothOK
  <2>3. LogsOK(logs') /\ LogsOK(kept')
    BY <2>1, <2>2
  <2> QED  BY <2>3 DEF BothOK
<1> QED  BY <1>1, <1>2

\* The record that AddEvent logs.
LEMMA AssessedRow ==
  ASSUME NEW e, IsRecord(e), IsScored(e), e.at \in Nat, NEW signals
  PROVE  Row(1, Assessed(e, signals))
<1> DEFINE a == Assessed(e, signals)
<1>1. /\ DOMAIN a = DOMAIN e /\ a.size = e.size /\ a.at = e.at /\ a.risk = e.risk
      /\ a.depth = e.depth /\ a.class = e.class
  BY DEF Assessed, IsRecord, IsScored
<1> HIDE DEF a
<1>2. Row(1, a)
  BY <1>1 DEF Row, IsRecord, IsScored
<1> QED  BY <1>2 DEF a

LEMMA AddEventFiles ==
  ASSUME FilesInv, NEW r \in scene.http, NEW step \in scene.steps, AddEvent(r, step)
  PROVE  BothOK'
<1> DEFINE e == Stamped(r)
<1>1. IsRecord(r) /\ IsScored(r) /\ clock' \in Nat
  BY HappensRecords DEF FilesInv, RecordsOK, AddEvent
<1>2. PICK signals : Handle(Assessed(e, signals), signals)
  BY DEF AddEvent, Receive
<1>3. IsRecord(e) /\ IsScored(e) /\ e.at \in Nat
  BY <1>1, StampedRecord
<1> HIDE DEF e
<1> DEFINE a == Assessed(e, signals)
<1>4. Row(1, a)
  BY <1>3, AssessedRow
<1>5. Logged(1, a) \/ NotLogged
  BY <1>2 DEF Handle
<1> HIDE DEF a
<1> QED  BY <1>4, <1>5, BothLogged DEF FilesInv, BothOK

LEMMA AddSSHEventFiles ==
  ASSUME FilesInv, NEW r \in scene.ssh, NEW step \in scene.steps, AddSSHEvent(r, step)
  PROVE  BothOK'
<1> DEFINE e == Stamped(r)
<1>1. IsRecord(r) /\ IsSSHRecord(r) /\ IsScored(r) /\ clock' \in Nat
  BY HappensRecords DEF FilesInv, RecordsOK, SceneOK, IsSSHRecord, AddSSHEvent
<1>2. IsRecord(e) /\ IsScored(e) /\ e.at \in Nat /\ e.sid \in Sids
  BY <1>1, StampedRecord
<1>3. Logged(2, e) \/ NotLogged
  BY DEF AddSSHEvent
<1> HIDE DEF e
<1>4. Row(2, e)
  BY <1>2 DEF Row, IsRecord
<1> QED  BY <1>3, <1>4, BothLogged DEF FilesInv, BothOK

LEMMA AddIntelFiles ==
  ASSUME FilesInv, NEW r \in scene.intel, NEW step \in scene.steps, AddIntelSignal(r, step)
  PROVE  BothOK'
<1> DEFINE e == Stamped(r)
<1>1. IsRecord(r) /\ clock' \in Nat
  BY HappensRecords DEF FilesInv, RecordsOK, AddIntelSignal
<1>2. IsRecord(e) /\ e.at \in Nat
  BY <1>1, StampedRecord
<1>3. Logged(3, e) \/ NotLogged
  BY DEF AddIntelSignal
<1> HIDE DEF e
<1>4. Row(3, e)
  BY <1>2 DEF Row, IsRecord
<1> QED  BY <1>3, <1>4, BothLogged DEF FilesInv, BothOK

LEMMA FilesInit == Init => FilesInv
<1> SUFFICES ASSUME Init PROVE FilesInv
  OBVIOUS
<1>1. logs = << << >>, << >>, << >> >> /\ kept = logs /\ scene \in Scenes
  BY DEF Init
<1>2. SceneOK /\ RecordsOK
  BY <1>1, DerivedAssumption DEF SceneOK, RecordsOK, Init
<1>3. \A i \in 1 .. 3 : LogOK(i, << >>)
  <2>1. Range(<< >>) = {} /\ << >> \in Seq({})
    BY EmptySeq DEF Range
  <2> QED  BY <2>1 DEF LogOK
<1>4. logs = [i \in 1 .. 3 |-> logs[i]] /\ \A i \in 1 .. 3 : logs[i] = << >>
  BY <1>1
<1>5. LogsOK(logs)
  BY <1>3, <1>4 DEF LogsOK
<1> QED  BY <1>1, <1>2, <1>5 DEF FilesInv

LEMMA FilesStep == FilesInv /\ [Next]_vars => FilesInv'
<1> SUFFICES ASSUME FilesInv, [Next]_vars PROVE FilesInv'
  OBVIOUS
<1>1. ASSUME scene' = scene, clock' = clock PROVE SceneOK' /\ RecordsOK'
  BY <1>1 DEF FilesInv, SceneOK, RecordsOK, IsRecord, IsSSHRecord, IsScored
<1>2. ASSUME NEW step \in scene.steps, Happens(step) PROVE SceneOK' /\ RecordsOK'
  BY <1>2, HappensScene, HappensRecords DEF FilesInv
<1>3. ASSUME logs' = logs, kept' = kept PROVE BothOK'
  BY <1>3, BothSame DEF FilesInv, BothOK
<1>4. CASE UNCHANGED vars
  BY <1>1, <1>3, <1>4 DEF FilesInv, BothOK, vars, history
<1>5. ASSUME NEW step \in scene.steps, NEW r \in scene.http, AddEvent(r, step) PROVE FilesInv'
  BY <1>2, <1>5, AddEventFiles DEF AddEvent, FilesInv, BothOK
<1>6. ASSUME NEW step \in scene.steps, NEW r \in scene.ssh, AddSSHEvent(r, step) PROVE FilesInv'
  BY <1>2, <1>6, AddSSHEventFiles DEF AddSSHEvent, FilesInv, BothOK
<1>7. ASSUME NEW step \in scene.steps, NEW r \in scene.intel, AddIntelSignal(r, step) PROVE FilesInv'
  BY <1>2, <1>7, AddIntelFiles DEF AddIntelSignal, FilesInv, BothOK
<1>8. CASE SSHHighlights
  BY <1>1, <1>3, <1>8 DEF SSHHighlights, FilesInv, BothOK
<1>12. ASSUME NEW sid \in Sids, Panic(sid) PROVE FilesInv'
  BY <1>1, <1>3, <1>12 DEF Panic, FilesInv, BothOK
<1>9. ASSUME logs' = Relieve(pruneJSONLPaths(logs, clock - Retention)), scene' = scene, clock' = clock,
             kept' \in {kept, logs'}
      PROVE  FilesInv'
  <2>1. LogsOK(logs') /\ LogsOK(kept')
    BY <1>9, SweptLogs DEF FilesInv
  <2> QED  BY <1>1, <1>9, <2>1 DEF FilesInv
<1>10. CASE pruneExpired
  BY <1>9, <1>10 DEF pruneExpired
<1>11. CASE Restart
  BY <1>9, <1>11 DEF Restart, StartFrom, StartWith
<1> QED  BY <1>4, <1>5, <1>6, <1>7, <1>8, <1>10, <1>11, <1>12 DEF Next, Add

LEMMA FilesAlways == Spec => []FilesInv
BY FilesInit, FilesStep, PTL DEF Spec

----------------------------------------------------------------------------
(* Starts, and all steps *)

LEMMA RestartInv ==
  ASSUME DerivedInv, FilesInv, Restart
  PROVE  DerivedInv'
<1> DEFINE ls == Relieve(pruneJSONLPaths(logs, clock - Retention))
           base == PruneAbove(Load(ls), MaxSessions, MaxSessions)
<1>1. /\ ghosts' = {} /\ seen' = {} /\ scene' = scene
      /\ conn' = [s \in Sids |-> IF conn[s] = "new" THEN "new" ELSE "closed"]
      /\ d' = initSSH(Load(ls))
  BY DEF Restart, StartFrom, StartWith
<1>2. LogsOK(ls)
  BY SweptLogs DEF FilesInv
<1> HIDE DEF ls
<1>3. TablesMatch(d')
  BY <1>1, <1>2, StartMatch
<1>4. d' = [base EXCEPT !.sessions = [s \in DOMAIN @ |-> [@[s] EXCEPT !.active = FALSE]]]
  BY <1>1 DEF initSSH
<1> HIDE DEF base
<1>5. d'.sessions = [s \in DOMAIN base.sessions |-> [base.sessions[s] EXCEPT !.active = FALSE]]
  BY <1>3, <1>4 DEF TablesMatch, HasTables
<1>6. ASSUME NEW s \in DOMAIN d'.sessions PROVE ~d'.sessions[s].active
  <2>1. d'.sessions[s] = [base.sessions[s] EXCEPT !.active = FALSE]
    BY <1>5
  <2>2. "active" \in DOMAIN d'.sessions[s]
    BY <1>3 DEF TablesMatch, SessionOK
  <2> QED  BY <2>1, <2>2
<1>7. ActiveOpen'
  BY <1>6 DEF ActiveOpen, Active
<1>8. ConnOK' /\ SceneOK' /\ SeenStand' /\ TablesMatch(d)'
  BY <1>1, <1>3 DEF DerivedInv, ConnOK, SceneOK, SeenStand, TablesMatch, IsSSHRecord, IsScored
<1> QED  BY <1>7, <1>8 DEF DerivedInv

\* A recovered panic ends a connection behind the back of the store.
LEMMA PanicInv ==
  ASSUME DerivedInv, NEW sid \in Sids, Panic(sid)
  PROVE  DerivedInv' /\ d'.peak = d.peak /\ seen' = seen
<1>1. /\ d' = d /\ seen' = seen /\ scene' = scene /\ ghosts' = ghosts \cup {sid}
      /\ DOMAIN conn' = DOMAIN conn /\ \A s \in DOMAIN conn : s # sid => conn'[s] = conn[s]
  BY DEF Panic
<1>2. Open \subseteq Open' \cup {sid}
  BY <1>1 DEF Open, DerivedInv, ConnOK
<1>3. ActiveOpen'
  BY <1>1, <1>2 DEF DerivedInv, ActiveOpen, Active
<1>4. ConnOK' /\ SceneOK' /\ SeenStand' /\ TablesMatch(d)'
  BY <1>1 DEF DerivedInv, ConnOK, SceneOK, SeenStand, TablesMatch, IsSSHRecord, IsScored
<1> QED  BY <1>1, <1>3, <1>4 DEF DerivedInv

LEMMA LivesCount ==
  ASSUME lives \in Nat, [Next]_vars
  PROVE  lives' \in Nat /\ (Restart => lives' # lives)
<1>1. Restart => lives' = lives + 1
  BY DEF Restart
<1>2. ~Restart => lives' = lives
  BY DEF Next, Add, AddEvent, AddSSHEvent, AddIntelSignal, Panic, SSHHighlights, pruneExpired,
         vars, history
<1> QED  BY <1>1, <1>2

LEMMA StepInv ==
  ASSUME DerivedInv, FilesInv, lives \in Nat, [Next]_vars
  PROVE  /\ DerivedInv' /\ lives' \in Nat
         /\ lives' = lives => PeakBound /\ SeenLeave
<1>1. CASE UNCHANGED vars
  <2>1. /\ d' = d /\ conn' = conn /\ ghosts' = ghosts /\ seen' = seen /\ lives' = lives
        /\ scene' = scene
    BY <1>1 DEF vars, history
  <2>2. Same(d, d') /\ SceneOK'
    BY <2>1 DEF Same, DerivedInv, TablesMatch, SceneOK, IsSSHRecord, IsScored
  <2>3. DerivedInv' /\ d'.peak = d.peak
    BY <2>1, <2>2, SameInv
  <2> QED  BY <2>1, <2>3, PeakSame DEF SeenLeave, DerivedInv
<1>2. ASSUME NEW step \in scene.steps, NEW r \in scene.http, AddEvent(r, step)
      PROVE  DerivedInv' /\ PeakBound /\ SeenLeave
  <2>1. DerivedInv' /\ d'.peak = d.peak /\ seen' = seen
    BY <1>2, AddEventInv
  <2> QED  BY <2>1, PeakSame DEF SeenLeave, DerivedInv
<1>3. ASSUME NEW step \in scene.steps, NEW r \in scene.ssh, AddSSHEvent(r, step)
      PROVE  DerivedInv' /\ PeakBound /\ SeenLeave
  BY <1>3, AddSSHEventInv
<1>4. ASSUME NEW step \in scene.steps, NEW r \in scene.intel, AddIntelSignal(r, step)
      PROVE  DerivedInv' /\ PeakBound /\ SeenLeave
  <2>1. DerivedInv' /\ d'.peak = d.peak /\ seen' = seen
    BY <1>4, AddIntelInv
  <2> QED  BY <2>1, PeakSame DEF SeenLeave, DerivedInv
<1>5. CASE SSHHighlights
  <2>1. DerivedInv' /\ d'.peak = d.peak /\ seen \subseteq seen'
    BY <1>5, SSHHighlightsInv
  <2> QED  BY <2>1, LivesCount, PeakSame DEF SeenLeave, DerivedInv
<1>6. CASE pruneExpired
  <2>1. DerivedInv' /\ d'.peak = d.peak /\ SeenLeave
    BY <1>6, PruneExpiredInv
  <2> QED  BY <2>1, LivesCount, PeakSame DEF DerivedInv
<1>7. CASE Restart
  <2>1. lives' \in Nat /\ lives' # lives
    BY <1>7, LivesCount
  <2> QED  BY <1>7, <2>1, RestartInv
<1>8. lives' \in Nat
  BY LivesCount
<1>9. ASSUME NEW sid \in Sids, Panic(sid)
      PROVE  DerivedInv' /\ PeakBound /\ SeenLeave
  <2>1. DerivedInv' /\ d'.peak = d.peak /\ seen' = seen
    BY <1>9, PanicInv
  <2> QED  BY <2>1, PeakSame DEF SeenLeave, DerivedInv
<1> QED  BY <1>1, <1>2, <1>3, <1>4, <1>5, <1>6, <1>7, <1>8, <1>9 DEF Next, Add

LivesOK == lives \in Nat

LEMMA AlwaysInv == Spec => [](DerivedInv /\ LivesOK)
<1>1. Init => DerivedInv /\ LivesOK
  BY InitInv DEF Init, LivesOK
<1>2. DerivedInv /\ LivesOK /\ FilesInv /\ [Next]_vars => DerivedInv' /\ LivesOK'
  BY StepInv DEF LivesOK
<1> QED  BY <1>1, <1>2, FilesAlways, PTL DEF Spec

\* In every state, after a start from whatever logs, swept and compacted, too: every
\* session in the store's table has its highlight state and no highlight state is
\* left over, so that scoring finds what it reads.  This is the first half of
\* ReplayFaithful.  A session is taken for open only while its connection is, but for
\* one whose end could not be logged, one that a recovered panic ended and one whose
\* shell was recorded after its end; and what was shown as a highlight stands.
THEOREM TablesAlwaysMatch == Spec => []DerivedInv
BY AlwaysInv, PTL

\* While the process runs, a highlight that an administrator was shown leaves the
\* list only by expiring or, near the threshold, with the command that passes the
\* limit: pruning, further events, failed writes and sweeps do not remove it.  For
\* any number of sessions, events and starts.
THEOREM HighlightsStay == Spec => HighlightsKept
<1>1. DerivedInv /\ LivesOK /\ FilesInv /\ [Next]_vars
      => [\A s \in seen \ seen' : lives' # lives \/ Expired(s) \/ NearTheEdge(s)]_vars
  BY StepInv DEF SeenLeave, LivesOK
<1> QED  BY <1>1, AlwaysInv, FilesAlways, PTL DEF Spec, HighlightsKept

\* The peak of concurrent SSH sessions rises only to the number of connections that are
\* open together and of those that went without the store knowing (ghosts), since no
\* other session stays active in the table.
THEOREM PeakStaysReal == Spec => PeakIsReal
<1>1. DerivedInv /\ LivesOK /\ FilesInv /\ [Next]_vars
      => [lives' = lives => d'.peak <= Max({d.peak, Cardinality(Open' \cup ghosts')})]_vars
  BY StepInv DEF PeakBound, LivesOK
<1> QED  BY <1>1, AlwaysInv, FilesAlways, PTL DEF Spec, PeakIsReal

\* compactJSONLStorageBudget, run on the logs of any state: what is left fits the
\* target though every file is given a byte at least; each file keeps its newest
\* records, gives up at most one that its share had room for, and loses at most one
\* byte of its part of the target to rounding and to the bytes given to the others.
\* For any number and sizes of records.
THEOREM BudgetKept == Spec => []WithinBudget
<1>1. FilesInv => WithinBudget
  BY LogsAreThree, BudgetHolds DEF FilesInv, WithinBudget
<1> QED  BY <1>1, FilesAlways, PTL

----------------------------------------------------------------------------
(* Replay: fields that come from one log alone *)

\* Fields that only requests write, and fields that only SSH events write.
OfHttp == {"events", "sequences", "sightings", "agents", "claims"}
OfSSH == {"sshEvents", "users", "perMinute", "revisit", "lastCommand"}

HttpLike(p, q) ==
  /\ p.events = q.events /\ p.sequences = q.sequences /\ p.sightings = q.sightings
  /\ p.agents = q.agents /\ p.claims = q.claims
SSHLike(p, q) ==
  /\ p.sshEvents = q.sshEvents /\ p.users = q.users /\ p.perMinute = q.perMinute
  /\ p.revisit = q.revisit /\ p.lastCommand = q.lastCommand
HasLogFields(p) == OfHttp \cup OfSSH \subseteq DOMAIN p
Alike(p, q) == HasLogFields(q) /\ HttpLike(p, q) /\ SSHLike(p, q)

LEMMA AlikeTrans == ASSUME NEW p, NEW q, NEW r, Alike(p, q), Alike(q, r) PROVE Alike(p, r)
BY DEF Alike, HttpLike, SSHLike

LEMMA EnsureAlike ==
  ASSUME NEW p, NEW at, HasLogFields(p) PROVE Alike(p, ensureActor(p, at))
BY DEF ensureActor, Alike, HttpLike, SSHLike, HasLogFields, OfHttp, OfSSH

LEMMA JudgeAlike ==
  ASSUME NEW p, NEW e, NEW labels, NEW automated, HasLogFields(p)
  PROVE  Alike(p, Judge(p, e, labels, automated))
BY DEF Judge, Alike, HttpLike, SSHLike, HasLogFields, OfHttp, OfSSH

LEMMA EngagementAlike ==
  ASSUME NEW p, NEW protocol, NEW activity, NEW at, HasLogFields(p)
  PROVE  Alike(p, addActorEngagement(p, protocol, activity, at))
BY DEF addActorEngagement, EngagedSince, Alike, HttpLike, SSHLike, HasLogFields, OfHttp, OfSSH

LEMMA ActivityAlike ==
  ASSUME NEW p, NEW protocol, NEW kind, NEW at, HasLogFields(p)
  PROVE  Alike(p, appendActorActivity(p, protocol, kind, at))
BY DEF appendActorActivity, Alike, HttpLike, SSHLike, HasLogFields, OfHttp, OfSSH

LEMMA PruneAlike ==
  ASSUME NEW p, NEW most, NEW target, HasLogFields(p)
  PROVE  Alike(p, PruneAbove(p, most, target))
BY DEF PruneAbove, pruneSSHSessions, Without, Alike, HttpLike, SSHLike, HasLogFields, OfHttp, OfSSH

LEMMA FingerprintAlike ==
  ASSUME NEW p, NEW e, NEW signals, HasLogFields(p)
  PROVE  Alike(p, ApplyHTTPActorFingerprint(p, e, signals))
<1>1. CASE e.self
  BY <1>1 DEF ApplyHTTPActorFingerprint, Alike, HttpLike, SSHLike
<1>2. CASE ~e.self
  <2> DEFINE a == IF signals # {} \/ Promoted(e, signals) THEN ensureActor(p, e.at) ELSE p
  <2>1. Alike(p, a)
    BY EnsureAlike DEF Alike, HttpLike, SSHLike
  <2>2. ApplyHTTPActorFingerprint(p, e, signals) =
          [a EXCEPT !.fps = @ \cup {<<f>> : f \in signals},
                    !.counts = bumpActorBehaviors(@, Fingerprints({<<f>> : f \in signals})),
                    !.actor = IF Promoted(e, signals) THEN "automated" ELSE @]
    BY <1>2 DEF ApplyHTTPActorFingerprint
  <2> HIDE DEF a
  <2> QED  BY <2>1, <2>2 DEF Alike, HttpLike, SSHLike, HasLogFields, OfHttp, OfSSH
<1> QED  BY <1>1, <1>2

LEMMA IntelAlike ==
  ASSUME NEW p, NEW e, HasLogFields(p)
  PROVE  Alike(p, ApplyIntel(p, e))
<1> DEFINE a == ensureActor(p, e.at)
           b == [a EXCEPT !.counts = Bump(@, {<<"signal", e.kind>>})]
<1>1. Alike(p, a)
  BY EnsureAlike
<1>2. Alike(p, b)
  <2> HIDE DEF a
  <2> QED  BY <1>1 DEF Alike, HttpLike, SSHLike, HasLogFields, OfHttp, OfSSH
<1>3. ApplyIntel(p, e) = appendActorActivity(b, "intel", e.kind, e.at)
  BY DEF ApplyIntel
<1> HIDE DEF a, b
<1> QED  BY <1>2, <1>3, ActivityAlike, AlikeTrans DEF Alike

\* What a request does to the fields of its log.
SequenceAfter(p, e) == Extended(Lookup(p.sequences, e.sid, << >>), e)
SightingsAfter(p, e, seq) ==
  IF Len(seq) = Limits.sequence
  THEN {r \in p.sightings : r.seq # seq \/ r.at >= e.at - Limits.workerWindow}
       \cup {[seq |-> seq, target |-> e.target, ua |-> e.ua, at |-> e.at]}
  ELSE p.sightings
HttpAfter(p, e, q) ==
  /\ HasLogFields(q) /\ SSHLike(p, q) /\ q.events = Newest(Append(p.events, e), MaxRing)
  /\ IF e.self THEN /\ q.sequences = p.sequences /\ q.sightings = p.sightings
                    /\ q.agents = p.agents /\ q.claims = p.claims
     ELSE /\ q.sequences = Put(p.sequences, e.sid, SequenceAfter(p, e))
          /\ q.sightings = SightingsAfter(p, e, SequenceAfter(p, e))
          /\ q.agents = agentsAfter(p, e) /\ q.claims = p.claims \cup ({e.claim} \ {""})

LEMMA SequenceFields ==
  ASSUME NEW p, NEW e, HasLogFields(p)
  PROVE  LET q == updateHTTPSequenceFingerprint(p, e)
             seq == SequenceAfter(p, e)
         IN  /\ HasLogFields(q) /\ SSHLike(p, q) /\ q.events = p.events /\ q.agents = p.agents
             /\ q.claims = p.claims /\ q.sequences = Put(p.sequences, e.sid, seq)
             /\ q.sightings = SightingsAfter(p, e, seq)
<1> DEFINE q == updateHTTPSequenceFingerprint(p, e)
           seq == SequenceAfter(p, e)
           a == [p EXCEPT !.sequences = Put(@, e.sid, seq)]
           rows == {r \in p.sightings : r.seq # seq \/ r.at >= e.at - Limits.workerWindow}
<1>1. q = IF Len(seq) = Limits.sequence THEN Sighted(a, e, seq, rows) ELSE a
  BY DEF updateHTTPSequenceFingerprint, Sequenced, SequenceAfter
<1> HIDE DEF q, seq
<1>2. /\ HasLogFields(a) /\ SSHLike(p, a) /\ a.events = p.events /\ a.agents = p.agents
      /\ a.claims = p.claims /\ a.sequences = Put(p.sequences, e.sid, seq)
      /\ a.sightings = p.sightings
  BY DEF SSHLike, HasLogFields, OfHttp, OfSSH
<1> HIDE DEF a, rows
<1>3. CASE Len(seq) = Limits.sequence
  <2>1. q = Sighted(a, e, seq, rows)
    BY <1>1, <1>3
  <2>2. /\ HasLogFields(q) /\ SSHLike(a, q) /\ q.events = a.events /\ q.agents = a.agents
        /\ q.claims = a.claims /\ q.sequences = a.sequences
        /\ q.sightings = rows \cup {[seq |-> seq, target |-> e.target, ua |-> e.ua, at |-> e.at]}
    BY <1>2, <2>1 DEF Sighted, SSHLike, HasLogFields, OfHttp, OfSSH
  <2>3. SSHLike(p, q)
    BY <1>2, <2>2 DEF SSHLike
  <2>4. q.sightings = SightingsAfter(p, e, seq)
    BY <1>3, <2>2 DEF SightingsAfter, rows
  <2> QED BY <1>2, <2>2, <2>3, <2>4 DEF q, seq
<1>4. CASE Len(seq) # Limits.sequence
  <2>1. q = a /\ SightingsAfter(p, e, seq) = p.sightings
    BY <1>1, <1>4 DEF SightingsAfter
  <2> QED BY <1>2, <2>1 DEF q, seq
<1> QED BY <1>3, <1>4

LEMMA HttpFields ==
  ASSUME NEW p, NEW e, HasLogFields(p)
  PROVE  HttpAfter(p, e, ApplyEvent(p, e))
<1> DEFINE p0 == [p EXCEPT !.counts = Bump(@, HttpKeys(p, e)),
                           !.events = Newest(Append(@, e), MaxRing)]
           a == ensureActor(p0, e.at)
           b == updateHTTPSequenceFingerprint(a, e)
           chain == httpPHPUnitDockerExecChain(p0.events, e)
           periodic == httpPeriodicAuthValidator(p0.events, e)
           agents == agentsAfter(p0, e)
           claims == p0.claims \cup ({e.claim} \ {""})
           c0 == Judge(b, IF periodic THEN [e EXCEPT !.class = "hostile", !.risk = Max({@, 82})] ELSE e,
                       HttpLabels(e, chain, periodic, agents, claims), chain \/ periodic)
           c == HttpJudged(b, e, chain, periodic, agents, claims)
           f == addActorEngagement(c, "http", <<e.sid, e.visit>>, e.at)
           g == appendActorActivity(f, "http", e.category, e.at)
           q == ApplyEvent(p, e)
<1>1. q = applyActorHTTPEvent(p0, e)
  BY DEF ApplyEvent
<1>2. e.self => q = [a EXCEPT !.counts = Bump(@, {<<"selfOrigin">>})]
  BY <1>1 DEF applyActorHTTPEvent
<1>3. ~e.self => q = g
  BY <1>1 DEF applyActorHTTPEvent
<1>4. c = [c0 EXCEPT !.protocols = @ \cup {"http"}, !.agents = agents, !.claims = claims,
                     !.counts = bumpActorBehaviors(Bump(@, {<<"actorHttp">>}), HttpBehaviors(e))]
  BY DEF HttpJudged
<1>5. /\ HasLogFields(p0) /\ SSHLike(p, p0) /\ p0.events = Newest(Append(p.events, e), MaxRing)
      /\ p0.sequences = p.sequences /\ p0.sightings = p.sightings /\ p0.agents = p.agents
      /\ p0.claims = p.claims
  BY DEF SSHLike, HasLogFields, OfHttp, OfSSH
<1>6. agents = agentsAfter(p, e) /\ claims = p.claims \cup ({e.claim} \ {""})
  BY <1>5 DEF agentsAfter
<1> HIDE DEF p0, q, chain, periodic, agents, claims
<1>7. Alike(p0, a)
  BY <1>5, EnsureAlike
<1> HIDE DEF a
<1>8. /\ HasLogFields(b) /\ SSHLike(a, b) /\ b.events = a.events
      /\ b.sequences = Put(a.sequences, e.sid, SequenceAfter(a, e))
      /\ b.sightings = SightingsAfter(a, e, SequenceAfter(a, e))
  BY <1>7, SequenceFields DEF Alike
<1> HIDE DEF b
<1>9. Alike(b, c0)
  BY <1>8, JudgeAlike, Zenon
<1> HIDE DEF c0, c
<1>10. /\ HasLogFields(c) /\ SSHLike(c0, c) /\ c.events = c0.events /\ c.sequences = c0.sequences
       /\ c.sightings = c0.sightings /\ c.agents = agents /\ c.claims = claims
  BY <1>4, <1>9 DEF Alike, SSHLike, HasLogFields, OfHttp, OfSSH
<1>11. Alike(c, f)
  BY <1>10, EngagementAlike
<1> HIDE DEF f
<1>12. Alike(f, g)
  BY <1>11, ActivityAlike DEF Alike
<1> HIDE DEF g
<1>13. SequenceAfter(a, e) = SequenceAfter(p, e)
  BY <1>5, <1>7 DEF SequenceAfter, Alike, HttpLike
<1>14. ASSUME NEW seq PROVE SightingsAfter(a, e, seq) = SightingsAfter(p, e, seq)
  BY <1>5, <1>7 DEF SightingsAfter, Alike, HttpLike
<1>15. CASE e.self
  <2>1. /\ HasLogFields(q) /\ SSHLike(a, q) /\ HttpLike(a, q)
    BY <1>2, <1>7, <1>15 DEF Alike, HttpLike, SSHLike, HasLogFields, OfHttp, OfSSH
  <2>2. SSHLike(p, q) /\ HttpLike(p0, q)
    BY <1>5, <1>7, <2>1 DEF Alike, HttpLike, SSHLike
  <2> QED BY <1>5, <1>15, <2>1, <2>2 DEF HttpAfter, HttpLike, q
<1>16. CASE ~e.self
  <2>1. HasLogFields(q) /\ HttpLike(c, q) /\ SSHLike(c, q)
    BY <1>3, <1>11, <1>12, <1>16 DEF Alike, HttpLike, SSHLike
  <2>2. SSHLike(p, q)
    BY <1>5, <1>7, <1>8, <1>9, <1>10, <2>1 DEF Alike, SSHLike
  <2>3. q.events = p0.events /\ q.agents = agents /\ q.claims = claims
    BY <1>7, <1>8, <1>9, <1>10, <2>1 DEF Alike, HttpLike
  <2>4. q.sequences = b.sequences /\ q.sightings = b.sightings
    BY <1>9, <1>10, <2>1 DEF Alike, HttpLike
  <2>5. a.sequences = p.sequences
    BY <1>5, <1>7 DEF Alike, HttpLike
  <2> QED BY <1>5, <1>6, <1>8, <1>13, <1>14, <1>16, <2>1, <2>2, <2>3, <2>4, <2>5 DEF HttpAfter, q
<1> QED BY <1>15, <1>16

\* What an SSH event does to the fields of its log.
SSHAfter(p, e, q) ==
  /\ HasLogFields(q) /\ HttpLike(p, q) /\ q.sshEvents = Newest(Append(p.sshEvents, e), MaxRing)
  /\ q.users = IF e.type = "auth" THEN p.users \cup ({e.user} \ {""}) ELSE p.users
  /\ q.perMinute = IF e.type = "auth"
                   THEN Max({p.perMinute, AttemptsWithin(q.sshEvents, e.at, Limits.minute)})
                   ELSE p.perMinute
  /\ q.revisit = IF e.type = "connect"
                 THEN <<sshRecurrence(q.sshEvents, e.at).median, sshRecurrence(q.sshEvents, e.at).jitter>>
                 ELSE p.revisit
  /\ q.lastCommand = IF IsCommand(e) /\ IsProbe(e) THEN <<e.command, e.at>> ELSE p.lastCommand

LEMMA SSHFields ==
  ASSUME NEW p, NEW e, HasLogFields(p)
  PROVE  SSHAfter(p, e, ApplySSHEvent(p, e))
<1> DEFINE ss == Lookup(p.sessions, e.sid, NoSession(e.at))
           h == Lookup(p.highlights, e.sid, NoHighlight)
           a == Updated(p, e, ss, h)
           recur == sshRecurrence(a.sshEvents, e.at)
           playbook == sshReconPlaybookFingerprint(a.sshEvents, e)
           verdicts == playbook \cup ConnectLabels(e, recur) \cup AuthLabels(a, e)
                       \cup CommandLabels(a, e, a.sessions[e.sid])
           b == ensureActor(a, e.at)
           c == Judge(b, e, verdicts \cup PlainLabels(a, e), verdicts # {})
           f == SSHJudged(a, e, recur, playbook, verdicts)
           g == addActorEngagement(f, "ssh", e.sid, e.at)
           q == appendActorActivity(g, "ssh", e.type, e.at)
<1>1. ApplySSHEvent(p, e) = q
  BY DEF ApplySSHEvent, applyActorSSHEvent, SSHWeighed
<1>2. f = [c EXCEPT
     !.protocols = @ \cup {"ssh"},
     !.peak = IF e.type = "connect" THEN Max({@, Cardinality(Active(a))}) ELSE @,
     !.revisit = IF e.type = "connect" THEN <<recur.median, recur.jitter>> ELSE @,
     !.users = IF e.type = "auth" THEN @ \cup ({e.user} \ {""}) ELSE @,
     !.perMinute = IF e.type = "auth"
                   THEN Max({@, AttemptsWithin(a.sshEvents, e.at, Limits.minute)}) ELSE @,
     !.lastCommand = IF IsCommand(e) /\ IsProbe(e) THEN <<e.command, e.at>> ELSE @,
     !.counts = bumpActorBehaviors(@, SSHBehaviors(e, playbook))]
  BY DEF SSHJudged
<1>3. a = [p EXCEPT !.counts = Bump(@, SSHKeys(ss, e)),
                    !.sshEvents = Newest(Append(@, e), MaxRing),
                    !.sessions = Put(@, e.sid, sessionAfter(ss, e)),
                    !.highlights = Put(@, e.sid, highlightAfter(h, e))]
  BY DEF Updated
<1> HIDE DEF ss, h, a, f, playbook, verdicts
<1>4. /\ HasLogFields(a) /\ HttpLike(p, a) /\ a.sshEvents = Newest(Append(p.sshEvents, e), MaxRing)
      /\ a.users = p.users /\ a.perMinute = p.perMinute /\ a.revisit = p.revisit
      /\ a.lastCommand = p.lastCommand
  BY <1>3 DEF HttpLike, HasLogFields, OfHttp, OfSSH
<1>5. Alike(a, b)
  BY <1>4, EnsureAlike
<1> HIDE DEF b
<1>6. Alike(b, c)
  BY <1>5, JudgeAlike, Zenon DEF Alike
<1> HIDE DEF c, recur
<1>7. Alike(a, c)
  BY <1>5, <1>6, AlikeTrans
<1>8. /\ HasLogFields(f) /\ HttpLike(c, f) /\ f.sshEvents = c.sshEvents
      /\ f.users = (IF e.type = "auth" THEN c.users \cup ({e.user} \ {""}) ELSE c.users)
  BY <1>2, <1>7 DEF Alike, HttpLike, HasLogFields, OfHttp, OfSSH
<1>9. /\ f.revisit = (IF e.type = "connect" THEN <<recur.median, recur.jitter>> ELSE c.revisit)
      /\ f.lastCommand = (IF IsCommand(e) /\ IsProbe(e) THEN <<e.command, e.at>> ELSE c.lastCommand)
  BY <1>2, <1>7 DEF Alike, HasLogFields, OfHttp, OfSSH
<1>10. f.perMinute = IF e.type = "auth"
                     THEN Max({c.perMinute, AttemptsWithin(a.sshEvents, e.at, Limits.minute)})
                     ELSE c.perMinute
  BY <1>2, <1>7 DEF Alike, HasLogFields, OfHttp, OfSSH
<1>11. Alike(f, g)
  BY <1>8, EngagementAlike
<1> HIDE DEF g
<1>12. Alike(g, q)
  BY <1>11, ActivityAlike DEF Alike
<1> HIDE DEF q
<1>13. Alike(f, q)
  BY <1>11, <1>12, AlikeTrans
<1>14. /\ c.users = p.users /\ c.perMinute = p.perMinute /\ c.revisit = p.revisit
       /\ c.lastCommand = p.lastCommand /\ c.sshEvents = a.sshEvents /\ HttpLike(p, c)
  BY <1>4, <1>7 DEF Alike, SSHLike, HttpLike
<1>15. /\ HasLogFields(q) /\ q.sshEvents = f.sshEvents /\ q.users = f.users /\ q.revisit = f.revisit
       /\ q.perMinute = f.perMinute /\ q.lastCommand = f.lastCommand /\ HttpLike(f, q)
  BY <1>13 DEF Alike, SSHLike
<1>16. HttpLike(p, q)
  BY <1>8, <1>14, <1>15 DEF HttpLike
<1>17. q.sshEvents = a.sshEvents
  BY <1>8, <1>14, <1>15
<1>18. recur = sshRecurrence(q.sshEvents, e.at)
  BY <1>17 DEF recur
<1>19. SSHAfter(p, e, q)
  BY <1>4, <1>8, <1>9, <1>10, <1>14, <1>15, <1>16, <1>17, <1>18 DEF SSHAfter
<1> QED BY <1>1, <1>19

\* The fields of a log after an event hang only on themselves before it.
LEMMA HttpOwn ==
  ASSUME NEW p, NEW q, HasLogFields(p), HasLogFields(q), HttpLike(p, q), NEW e
  PROVE  HttpLike(ApplyEvent(p, e), ApplyEvent(q, e))
<1> DEFINE a == ApplyEvent(p, e)
           b == ApplyEvent(q, e)
<1>1. HttpAfter(p, e, a) /\ HttpAfter(q, e, b)
  BY HttpFields
<1> HIDE DEF a, b
<1>2. SequenceAfter(p, e) = SequenceAfter(q, e) /\ agentsAfter(p, e) = agentsAfter(q, e)
  BY DEF SequenceAfter, agentsAfter, HttpLike
<1>3. SightingsAfter(p, e, SequenceAfter(p, e)) = SightingsAfter(q, e, SequenceAfter(q, e))
  BY <1>2 DEF SightingsAfter, HttpLike
<1>4. a.events = b.events
  BY <1>1 DEF HttpAfter, HttpLike
<1>5. CASE e.self
  BY <1>1, <1>4, <1>5 DEF HttpAfter, HttpLike, a, b
<1>6. CASE ~e.self
  <2>1. a.sequences = b.sequences
    BY <1>1, <1>2, <1>6 DEF HttpAfter, HttpLike
  <2>2. a.sightings = b.sightings
    BY <1>1, <1>3, <1>6 DEF HttpAfter
  <2>3. a.agents = b.agents /\ a.claims = b.claims
    BY <1>1, <1>2, <1>6 DEF HttpAfter, HttpLike
  <2> QED BY <1>4, <2>1, <2>2, <2>3 DEF HttpLike, a, b
<1> QED BY <1>5, <1>6

LEMMA SSHOwn ==
  ASSUME NEW p, NEW q, HasLogFields(p), HasLogFields(q), SSHLike(p, q), NEW e
  PROVE  SSHLike(ApplySSHEvent(p, e), ApplySSHEvent(q, e))
<1> DEFINE a == ApplySSHEvent(p, e)
           b == ApplySSHEvent(q, e)
<1>1. SSHAfter(p, e, a) /\ SSHAfter(q, e, b)
  BY SSHFields
<1> HIDE DEF a, b
<1>2. a.sshEvents = b.sshEvents
  BY <1>1 DEF SSHAfter, SSHLike
<1>3. a.users = b.users /\ a.lastCommand = b.lastCommand
  BY <1>1 DEF SSHAfter, SSHLike
<1>4. a.perMinute = b.perMinute
  BY <1>1, <1>2 DEF SSHAfter, SSHLike
<1>5. a.revisit = b.revisit
  BY <1>1, <1>2 DEF SSHAfter, SSHLike
<1> QED BY <1>2, <1>3, <1>4, <1>5 DEF SSHLike, a, b

\* The same for a step of a start.
LEMMA LoadFields ==
  ASSUME NEW p, HasLogFields(p), NEW e
  PROVE  /\ HasLogFields(LoadEvent(p, 1, e)) /\ SSHLike(p, LoadEvent(p, 1, e))
         /\ HasLogFields(LoadEvent(p, 2, e)) /\ HttpLike(p, LoadEvent(p, 2, e))
         /\ SSHLike(ApplySSHEvent(p, e), LoadEvent(p, 2, e))
         /\ Alike(p, LoadEvent(p, 3, e)) /\ LoadEvent(p, 1, e) = ApplyEvent(p, e)
<1> DEFINE a == ApplySSHEvent(p, e)
           b == PruneAbove(a, MaxSessions + PruneSlack, MaxSessions)
<1>1. /\ LoadEvent(p, 1, e) = ApplyEvent(p, e) /\ LoadEvent(p, 3, e) = ApplyIntel(p, e)
      /\ LoadEvent(p, 2, e) = b
  BY DEF LoadEvent, LoadSSHEvent
<1>2. HttpAfter(p, e, ApplyEvent(p, e)) /\ SSHAfter(p, e, a) /\ Alike(p, ApplyIntel(p, e))
  BY HttpFields, SSHFields, IntelAlike
<1> HIDE DEF a
<1>3. Alike(a, b)
  BY <1>2, PruneAlike DEF SSHAfter
<1> HIDE DEF b
<1>4. HttpLike(p, b)
  BY <1>2, <1>3 DEF SSHAfter, Alike, HttpLike
<1> QED BY <1>1, <1>2, <1>3, <1>4 DEF HttpAfter, Alike, a

\* Reading one record more.
LEMMA LoadAppend ==
  ASSUME NEW p, NEW i, NEW rows, rows \in Seq(Range(rows)), NEW e
  PROVE  LoadLog(p, i, Append(rows, e)) = LoadEvent(LoadLog(p, i, rows), i, e)
<1> DEFINE n == Len(rows)
           more == Append(rows, e)
           X == Range(rows) \cup {e}
<1>1. rows \in Seq(X) /\ e \in X
  OBVIOUS
<1>2. /\ n \in Nat /\ Len(more) = n + 1 /\ more[n + 1] = e
      /\ \A j \in 1 .. n : more[j] = rows[j]
  <2> HIDE DEF X
  <2> QED BY <1>1, AppendProperties
<1> HIDE DEF more
<1>3. PICK h : Loads(h, p, i, rows) /\ LoadLog(p, i, rows) = h[n]
  BY <1>2, LoadRun
<1>4. PICK g : Loads(g, p, i, more) /\ LoadLog(p, i, more) = g[Len(more)]
  <2>1. Len(more) \in Nat
    BY <1>2
  <2> QED BY <2>1, LoadRun
<1> HIDE DEF n
<1>5. h[0] = p /\ \A j \in 1 .. n : h[j] = LoadEvent(h[j - 1], i, rows[j])
  BY <1>3 DEF Loads, n
<1>6. g[0] = p /\ \A j \in 1 .. n + 1 : g[j] = LoadEvent(g[j - 1], i, more[j])
  BY <1>2, <1>4 DEF Loads
<1> DEFINE T == {j \in 0 .. n : g[j] = h[j]}
<1>7. 0 \in T
  BY <1>2, <1>5, <1>6
<1>8. ASSUME NEW j \in 1 .. n, j - 1 \in T PROVE j \in T
  <2>1. j \in 0 .. n /\ j \in 1 .. n + 1 /\ g[j - 1] = h[j - 1]
    BY <1>2, <1>8
  <2>2. g[j] = LoadEvent(g[j - 1], i, more[j]) /\ h[j] = LoadEvent(h[j - 1], i, rows[j])
    BY <1>5, <1>6, <2>1
  <2>3. more[j] = rows[j]
    BY <1>2
  <2> QED BY <2>1, <2>2, <2>3
<1>9. \A j \in 0 .. n : j \in T
  <2> HIDE DEF T
  <2> QED BY <1>2, <1>7, <1>8, UpTo
<1>10. n \in 0 .. n /\ n + 1 \in 1 .. n + 1 /\ (n + 1) - 1 = n
  BY <1>2
<1>11. g[n + 1] = LoadEvent(g[n], i, e)
  BY <1>2, <1>6, <1>10
<1>12. g[n] = h[n]
  BY <1>9, <1>10
<1> QED BY <1>2, <1>3, <1>4, <1>11, <1>12 DEF more, n

\* A log that is read leaves the fields of the other logs alone.
LEMMA LoadLeaves ==
  ASSUME NEW p, HasLogFields(p), NEW i \in 1 .. 3, NEW rows, Len(rows) \in Nat
  PROVE  /\ HasLogFields(LoadLog(p, i, rows))
         /\ i # 1 => HttpLike(p, LoadLog(p, i, rows))
         /\ i # 2 => SSHLike(p, LoadLog(p, i, rows))
<1> DEFINE n == Len(rows)
           Kept(q) == HasLogFields(q) /\ (i # 1 => HttpLike(p, q)) /\ (i # 2 => SSHLike(p, q))
<1>1. PICK h : Loads(h, p, i, rows) /\ LoadLog(p, i, rows) = h[n]
  BY LoadRun
<1>2. n \in Nat /\ h[0] = p /\ \A j \in 1 .. n : h[j] = LoadEvent(h[j - 1], i, rows[j])
  BY <1>1 DEF Loads
<1>3. Kept(p)
  BY DEF HttpLike, SSHLike
<1>4. ASSUME NEW q, Kept(q), NEW e PROVE Kept(LoadEvent(q, i, e))
  <2>1. HasLogFields(q)
    BY <1>4
  <2> DEFINE q1 == LoadEvent(q, 1, e)
             q2 == LoadEvent(q, 2, e)
             q3 == LoadEvent(q, 3, e)
  <2>2. /\ HasLogFields(q1) /\ SSHLike(q, q1) /\ HasLogFields(q2) /\ HttpLike(q, q2) /\ Alike(q, q3)
    BY <2>1, LoadFields
  <2> HIDE DEF q1, q2, q3
  <2>3. CASE i = 1
    BY <1>4, <2>2, <2>3 DEF q1, SSHLike
  <2>4. CASE i = 2
    BY <1>4, <2>2, <2>4 DEF q2, HttpLike
  <2>5. CASE i = 3
    BY <1>4, <2>2, <2>5 DEF q3, HttpLike, SSHLike, Alike
  <2> QED BY <2>3, <2>4, <2>5
<1> HIDE DEF n, Kept
<1> DEFINE T == {j \in 0 .. n : Kept(h[j])}
<1>5. 0 \in T
  BY <1>2, <1>3
<1>6. ASSUME NEW j \in 1 .. n, j - 1 \in T PROVE j \in T
  BY <1>2, <1>4, <1>6
<1>7. \A j \in 0 .. n : j \in T
  <2> HIDE DEF T
  <2> QED BY <1>2, <1>5, <1>6, UpTo
<1>8. n \in 0 .. n
  BY <1>2
<1>9. Kept(h[n])
  BY <1>7, <1>8
<1> QED BY <1>1, <1>9 DEF Kept, n

\* What the SSH log gives hangs only on itself.
LEMMA LoadSSHOwn ==
  ASSUME NEW p, NEW q, HasLogFields(p), HasLogFields(q), SSHLike(p, q), NEW rows, Len(rows) \in Nat
  PROVE  SSHLike(LoadLog(p, 2, rows), LoadLog(q, 2, rows))
<1> DEFINE n == Len(rows)
<1>1. PICK g : Loads(g, p, 2, rows) /\ LoadLog(p, 2, rows) = g[n]
  BY LoadRun
<1>2. PICK h : Loads(h, q, 2, rows) /\ LoadLog(q, 2, rows) = h[n]
  BY LoadRun
<1>3. n \in Nat /\ g[0] = p /\ \A j \in 1 .. n : g[j] = LoadEvent(g[j - 1], 2, rows[j])
  BY <1>1 DEF Loads
<1>4. h[0] = q /\ \A j \in 1 .. n : h[j] = LoadEvent(h[j - 1], 2, rows[j])
  BY <1>2 DEF Loads
<1> HIDE DEF n
<1> DEFINE T == {j \in 0 .. n : HasLogFields(g[j]) /\ HasLogFields(h[j]) /\ SSHLike(g[j], h[j])}
<1>5. 0 \in T
  BY <1>3, <1>4
<1>6. ASSUME NEW a, NEW b, HasLogFields(a), HasLogFields(b), SSHLike(a, b), NEW e
      PROVE  /\ HasLogFields(LoadEvent(a, 2, e)) /\ HasLogFields(LoadEvent(b, 2, e))
             /\ SSHLike(LoadEvent(a, 2, e), LoadEvent(b, 2, e))
  <2>1. /\ HasLogFields(LoadEvent(a, 2, e)) /\ SSHLike(ApplySSHEvent(a, e), LoadEvent(a, 2, e))
    BY <1>6, LoadFields
  <2>2. /\ HasLogFields(LoadEvent(b, 2, e)) /\ SSHLike(ApplySSHEvent(b, e), LoadEvent(b, 2, e))
    BY <1>6, LoadFields
  <2>3. SSHLike(ApplySSHEvent(a, e), ApplySSHEvent(b, e))
    BY <1>6, SSHOwn
  <2> QED BY <2>1, <2>2, <2>3 DEF SSHLike
<1>7. ASSUME NEW j \in 1 .. n, j - 1 \in T PROVE j \in T
  <2>1. HasLogFields(g[j - 1]) /\ HasLogFields(h[j - 1]) /\ SSHLike(g[j - 1], h[j - 1])
    BY <1>7
  <2>2. /\ HasLogFields(LoadEvent(g[j - 1], 2, rows[j])) /\ HasLogFields(LoadEvent(h[j - 1], 2, rows[j]))
        /\ SSHLike(LoadEvent(g[j - 1], 2, rows[j]), LoadEvent(h[j - 1], 2, rows[j]))
    BY <1>6, <2>1
  <2>3. j \in 0 .. n
    BY <1>3
  <2> QED BY <1>3, <1>4, <2>2, <2>3
<1>8. \A j \in 0 .. n : j \in T
  <2> HIDE DEF T
  <2> QED BY <1>3, <1>5, <1>7, UpTo
<1>9. n \in 0 .. n
  BY <1>3
<1> QED BY <1>1, <1>2, <1>8, <1>9 DEF n

\* Before anything is read.
LEMMA EmptyFields == HasLogFields(NoProfile)
BY DEF HasLogFields, OfHttp, OfSSH, NoProfile

LEMMA ThreeLogs == 1 \in 1 .. 3 /\ 2 \in 1 .. 3 /\ 3 \in 1 .. 3 /\ 1 # 2 /\ 2 # 3 /\ 1 # 3
OBVIOUS

\* What a start rebuilds of the fields of a log is what that log alone gives.
LEMMA LoadOwn ==
  ASSUME NEW ls, \A i \in 1 .. 3 : Len(ls[i]) \in Nat
  PROVE  /\ HasLogFields(Load(ls)) /\ HttpLike(Load(ls), LoadLog(NoProfile, 1, ls[1]))
         /\ SSHLike(Load(ls), LoadLog(NoProfile, 2, ls[2]))
<1> DEFINE p0 == NoProfile
           p1 == LoadLog(p0, 1, ls[1])
           p2 == LoadLog(p1, 3, ls[3])
           p3 == LoadLog(p2, 2, ls[2])
           q == LoadLog(p0, 2, ls[2])
<1>1. Load(ls) = p3 /\ Len(ls[1]) \in Nat /\ Len(ls[2]) \in Nat /\ Len(ls[3]) \in Nat
  BY DEF Load
<1>2. HasLogFields(p0)
  BY EmptyFields
<1> HIDE DEF p0, p1, p2, p3, q
<1>3. HasLogFields(p1) /\ SSHLike(p0, p1)
  BY ONLY <1>1, <1>2, ThreeLogs, LoadLeaves DEF p1
<1>4. HasLogFields(p2) /\ SSHLike(p1, p2) /\ HttpLike(p1, p2)
  BY ONLY <1>1, <1>3, ThreeLogs, LoadLeaves DEF p2
<1>5. HasLogFields(p3) /\ HttpLike(p2, p3)
  BY ONLY <1>1, <1>4, ThreeLogs, LoadLeaves DEF p3
<1>6. SSHLike(p2, p0)
  BY <1>3, <1>4 DEF SSHLike
<1>7. SSHLike(p3, q)
  BY <1>1, <1>2, <1>4, <1>6, LoadSSHOwn DEF p3, q
<1>8. HttpLike(p3, p1)
  BY <1>4, <1>5 DEF HttpLike
<1> QED BY <1>1, <1>5, <1>7, <1>8 DEF p0, p1, q

----------------------------------------------------------------------------
(* Replay: sums and maxima over both logs *)

\* Fields that both protocols write.
Sums == {"protocols", "risk", "depth", "class", "engagement", "wall", "lastAt"}
HasSums(p) == Sums \subseteq DOMAIN p
SumsSame(p, q) ==
  /\ HasSums(q) /\ p.protocols = q.protocols /\ p.risk = q.risk /\ p.depth = q.depth
  /\ p.class = q.class /\ p.engagement = q.engagement /\ p.wall = q.wall /\ p.lastAt = q.lastAt

LEMMA SumsTrans == ASSUME NEW p, NEW q, NEW r, SumsSame(p, q), SumsSame(q, r) PROVE SumsSame(p, r)
BY DEF SumsSame

LEMMA EnsureSums ==
  ASSUME NEW p, NEW at, HasSums(p) PROVE SumsSame(p, ensureActor(p, at))
BY DEF ensureActor, SumsSame, HasSums, Sums

LEMMA ActivitySums ==
  ASSUME NEW p, NEW protocol, NEW kind, NEW at, HasSums(p)
  PROVE  SumsSame(p, appendActorActivity(p, protocol, kind, at))
BY DEF appendActorActivity, SumsSame, HasSums, Sums

LEMMA PruneSums ==
  ASSUME NEW p, NEW most, NEW target, HasSums(p)
  PROVE  SumsSame(p, PruneAbove(p, most, target))
BY DEF PruneAbove, pruneSSHSessions, Without, SumsSame, HasSums, Sums

LEMMA FingerprintSums ==
  ASSUME NEW p, NEW e, NEW signals, HasSums(p)
  PROVE  SumsSame(p, ApplyHTTPActorFingerprint(p, e, signals))
<1>1. CASE e.self
  BY <1>1 DEF ApplyHTTPActorFingerprint, SumsSame
<1>2. CASE ~e.self
  <2> DEFINE a == IF signals # {} \/ Promoted(e, signals) THEN ensureActor(p, e.at) ELSE p
  <2>1. SumsSame(p, a)
    BY EnsureSums DEF SumsSame
  <2>2. ApplyHTTPActorFingerprint(p, e, signals) =
          [a EXCEPT !.fps = @ \cup {<<f>> : f \in signals},
                    !.counts = bumpActorBehaviors(@, Fingerprints({<<f>> : f \in signals})),
                    !.actor = IF Promoted(e, signals) THEN "automated" ELSE @]
    BY <1>2 DEF ApplyHTTPActorFingerprint
  <2> HIDE DEF a
  <2> QED  BY <2>1, <2>2 DEF SumsSame, HasSums, Sums
<1> QED  BY <1>1, <1>2

LEMMA IntelSums ==
  ASSUME NEW p, NEW e, HasSums(p)
  PROVE  SumsSame(p, ApplyIntel(p, e))
<1> DEFINE a == ensureActor(p, e.at)
           b == [a EXCEPT !.counts = Bump(@, {<<"signal", e.kind>>})]
<1>1. SumsSame(p, a)
  BY EnsureSums
<1>2. SumsSame(p, b)
  <2> HIDE DEF a
  <2> QED  BY <1>1 DEF SumsSame, HasSums, Sums
<1>3. ApplyIntel(p, e) = appendActorActivity(b, "intel", e.kind, e.at)
  BY DEF ApplyIntel
<1> HIDE DEF a, b
<1> QED  BY <1>2, <1>3, ActivitySums, SumsTrans DEF SumsSame

----------------------------------------------------------------------------
(* What an event adds to the sums and maxima of a profile *)

\* An event of an activity: the gap since the last one, the time it leaves, the score.
Gained(last, at) == at > last /\ at - last <= Limits.idle
LastTime(p, protocol, activity, at) == Lookup(p.lastAt, <<protocol, activity>>, at)
EngagedBy(p, q, protocol, activity, at) ==
  /\ q.lastAt = Put(p.lastAt, <<protocol, activity>>, at)
  /\ Gained(LastTime(p, protocol, activity, at), at) =>
       /\ q.engagement = p.engagement + at - LastTime(p, protocol, activity, at)
       /\ q.wall = [p.wall EXCEPT ![protocol] =
                      addActorWallSegment(@, LastTime(p, protocol, activity, at), at)]
  /\ ~Gained(LastTime(p, protocol, activity, at), at) => q.engagement = p.engagement /\ q.wall = p.wall
JudgedBy(p, q, risk, depth, class) ==
  /\ q.risk = Max({p.risk, risk}) /\ q.depth = Max({p.depth, depth})
  /\ q.class = strongerClassification(p.class, class)
JudgedOnly(p, q, risk, depth, class) ==
  /\ HasSums(q) /\ JudgedBy(p, q, risk, depth, class) /\ q.protocols = p.protocols
  /\ q.engagement = p.engagement /\ q.wall = p.wall /\ q.lastAt = p.lastAt
Effect(p, q, protocol, activity, at, risk, depth, class) ==
  /\ HasSums(q) /\ q.protocols = p.protocols \cup {protocol}
  /\ EngagedBy(p, q, protocol, activity, at) /\ JudgedBy(p, q, risk, depth, class)

LEMMA EngagementSums ==
  ASSUME NEW p, NEW protocol, NEW activity, NEW at, HasSums(p)
  PROVE  LET q == addActorEngagement(p, protocol, activity, at)
         IN  /\ HasSums(q) /\ EngagedBy(p, q, protocol, activity, at)
             /\ q.protocols = p.protocols /\ q.risk = p.risk /\ q.depth = p.depth /\ q.class = p.class
<1> DEFINE last == LastTime(p, protocol, activity, at)
           q == addActorEngagement(p, protocol, activity, at)
<1>1. q = EngagedSince(p, protocol, <<protocol, activity>>, last, at)
  BY DEF addActorEngagement, LastTime
<1> HIDE DEF q
<1>2. CASE Gained(last, at)
  <2>1. q = [p EXCEPT !.engagement = @ + at - last,
                      !.wall[protocol] = addActorWallSegment(@, last, at),
                      !.lastAt = Put(@, <<protocol, activity>>, at)]
    <3> HIDE DEF last
    <3> QED BY <1>1, <1>2 DEF EngagedSince, Gained
  <2>2. /\ HasSums(q) /\ q.engagement = p.engagement + at - last
        /\ q.wall = [p.wall EXCEPT ![protocol] = addActorWallSegment(@, last, at)]
        /\ q.lastAt = Put(p.lastAt, <<protocol, activity>>, at)
        /\ q.protocols = p.protocols /\ q.risk = p.risk /\ q.depth = p.depth /\ q.class = p.class
    <3> HIDE DEF last
    <3> QED BY <2>1 DEF HasSums, Sums
  <2>3. EngagedBy(p, q, protocol, activity, at)
    BY <1>2, <2>2 DEF EngagedBy
  <2> QED BY <2>2, <2>3 DEF q
<1>3. CASE ~Gained(last, at)
  <2>1. q = [p EXCEPT !.lastAt = Put(@, <<protocol, activity>>, at)]
    <3> HIDE DEF last
    <3> QED BY <1>1, <1>3 DEF EngagedSince, Gained
  <2>2. /\ HasSums(q) /\ q.engagement = p.engagement /\ q.wall = p.wall
        /\ q.lastAt = Put(p.lastAt, <<protocol, activity>>, at)
        /\ q.protocols = p.protocols /\ q.risk = p.risk /\ q.depth = p.depth /\ q.class = p.class
    BY <2>1 DEF HasSums, Sums
  <2>3. EngagedBy(p, q, protocol, activity, at)
    BY <1>3, <2>2 DEF EngagedBy
  <2> QED BY <2>2, <2>3 DEF q
<1> QED BY <1>2, <1>3

LEMMA JudgeSums ==
  ASSUME NEW p, NEW e, NEW labels, NEW automated, HasSums(p)
  PROVE  JudgedOnly(p, Judge(p, e, labels, automated), e.risk, e.depth, e.class)
BY DEF Judge, JudgedOnly, JudgedBy, HasSums, Sums

\* The parts of an event's effect, one after the other.
LEMMA EffectChain ==
  ASSUME NEW p, NEW b, NEW c0, NEW c, NEW f, NEW q, NEW protocol, NEW activity, NEW at, NEW risk,
         NEW depth, NEW class, SumsSame(p, b), JudgedOnly(b, c0, risk, depth, class),
         HasSums(c), c.protocols = c0.protocols \cup {protocol}, c.engagement = c0.engagement,
         c.wall = c0.wall, c.lastAt = c0.lastAt, c.risk = c0.risk, c.depth = c0.depth, c.class = c0.class,
         HasSums(f), EngagedBy(c, f, protocol, activity, at), f.protocols = c.protocols, f.risk = c.risk,
         f.depth = c.depth, f.class = c.class, SumsSame(f, q)
  PROVE  Effect(p, q, protocol, activity, at, risk, depth, class)
<1>1. HasSums(q) /\ q.protocols = p.protocols \cup {protocol}
  BY DEF SumsSame, JudgedOnly
<1>2. JudgedBy(p, q, risk, depth, class)
  BY DEF SumsSame, JudgedBy, JudgedOnly
<1>3. /\ c.engagement = p.engagement /\ c.wall = p.wall /\ c.lastAt = p.lastAt
      /\ q.engagement = f.engagement /\ q.wall = f.wall /\ q.lastAt = f.lastAt
  BY DEF SumsSame, JudgedOnly
<1>4. LastTime(c, protocol, activity, at) = LastTime(p, protocol, activity, at)
  BY <1>3 DEF LastTime
<1>5. EngagedBy(p, q, protocol, activity, at)
  BY <1>3, <1>4 DEF EngagedBy
<1> QED BY <1>1, <1>2, <1>5 DEF Effect

\* A periodic login check is judged hostile, whatever its own score.
Periodic(p, e) == httpPeriodicAuthValidator(Newest(Append(p.events, e), MaxRing), e)
HttpRisk(p, e) == IF Periodic(p, e) THEN Max({e.risk, 82}) ELSE e.risk
HttpClass(p, e) == IF Periodic(p, e) THEN "hostile" ELSE e.class

LEMMA SequenceSums ==
  ASSUME NEW p, NEW e, HasSums(p)
  PROVE  SumsSame(p, updateHTTPSequenceFingerprint(p, e))
<1> DEFINE q == updateHTTPSequenceFingerprint(p, e)
           seq == SequenceAfter(p, e)
           a == [p EXCEPT !.sequences = Put(@, e.sid, seq)]
           rows == {r \in p.sightings : r.seq # seq \/ r.at >= e.at - Limits.workerWindow}
<1>1. q = IF Len(seq) = Limits.sequence THEN Sighted(a, e, seq, rows) ELSE a
  BY DEF updateHTTPSequenceFingerprint, Sequenced, SequenceAfter
<1> HIDE DEF q, seq
<1>2. SumsSame(p, a)
  BY DEF SumsSame, HasSums, Sums
<1> HIDE DEF a, rows
<1>3. SumsSame(a, Sighted(a, e, seq, rows))
  BY <1>2 DEF Sighted, SumsSame, HasSums, Sums
<1>4. CASE Len(seq) = Limits.sequence
  <2>1. q = Sighted(a, e, seq, rows)
    BY <1>1, <1>4
  <2> QED BY <1>2, <1>3, <2>1, SumsTrans DEF q
<1>5. CASE Len(seq) # Limits.sequence
  <2>1. q = a
    BY <1>1, <1>5
  <2> QED BY <1>2, <2>1 DEF q
<1> QED BY <1>4, <1>5

LEMMA HttpEffect ==
  ASSUME NEW p, NEW e, HasSums(p), HasLogFields(p), IsScored(e)
  PROVE  /\ e.self => SumsSame(p, ApplyEvent(p, e))
         /\ ~e.self => Effect(p, ApplyEvent(p, e), "http", <<e.sid, e.visit>>, e.at,
                              HttpRisk(p, e), e.depth, HttpClass(p, e))
<1> DEFINE p0 == [p EXCEPT !.counts = Bump(@, HttpKeys(p, e)),
                           !.events = Newest(Append(@, e), MaxRing)]
           a == ensureActor(p0, e.at)
           b == updateHTTPSequenceFingerprint(a, e)
           chain == httpPHPUnitDockerExecChain(p0.events, e)
           periodic == httpPeriodicAuthValidator(p0.events, e)
           agents == agentsAfter(p0, e)
           claims == p0.claims \cup ({e.claim} \ {""})
           e1 == IF periodic THEN [e EXCEPT !.class = "hostile", !.risk = Max({@, 82})] ELSE e
           labels == HttpLabels(e, chain, periodic, agents, claims)
           automated == chain \/ periodic
           c0 == Judge(b, e1, labels, automated)
           c == HttpJudged(b, e, chain, periodic, agents, claims)
           f == addActorEngagement(c, "http", <<e.sid, e.visit>>, e.at)
           g == appendActorActivity(f, "http", e.category, e.at)
           q == ApplyEvent(p, e)
<1>1. q = applyActorHTTPEvent(p0, e)
  BY DEF ApplyEvent
<1>2. e.self => q = [a EXCEPT !.counts = Bump(@, {<<"selfOrigin">>})]
  BY <1>1 DEF applyActorHTTPEvent
<1>3. ~e.self => q = g
  BY <1>1 DEF applyActorHTTPEvent
<1>4. c = [c0 EXCEPT !.protocols = @ \cup {"http"}, !.agents = agents, !.claims = claims,
                     !.counts = bumpActorBehaviors(Bump(@, {<<"actorHttp">>}), HttpBehaviors(e))]
  BY DEF HttpJudged
<1>5. SumsSame(p, p0) /\ p0.events = Newest(Append(p.events, e), MaxRing)
  BY DEF SumsSame, HasSums, Sums, HasLogFields, OfHttp
<1>6. e1.risk = HttpRisk(p, e) /\ e1.depth = e.depth /\ e1.class = HttpClass(p, e)
  <2>1. periodic <=> Periodic(p, e)
    BY <1>5, Zenon DEF Periodic
  <2> HIDE DEF periodic
  <2> QED BY <2>1 DEF HttpRisk, HttpClass, IsScored
<1> HIDE DEF p0, q, chain, periodic, agents, claims, e1, labels, automated
<1>7. SumsSame(p, a)
  BY <1>5, EnsureSums, SumsTrans DEF SumsSame
<1> HIDE DEF a
<1>8. SumsSame(p, b)
  BY <1>7, SequenceSums, SumsTrans DEF SumsSame
<1> HIDE DEF b
<1>9. JudgedOnly(b, c0, e1.risk, e1.depth, e1.class)
  BY <1>8, JudgeSums, Zenon DEF SumsSame
<1> HIDE DEF c0, c
<1>10. /\ HasSums(c) /\ c.protocols = c0.protocols \cup {"http"} /\ c.engagement = c0.engagement
       /\ c.wall = c0.wall /\ c.lastAt = c0.lastAt /\ c.risk = c0.risk /\ c.depth = c0.depth
       /\ c.class = c0.class
  BY <1>4, <1>9 DEF JudgedOnly, HasSums, Sums
<1>11. /\ HasSums(f) /\ EngagedBy(c, f, "http", <<e.sid, e.visit>>, e.at)
       /\ f.protocols = c.protocols /\ f.risk = c.risk /\ f.depth = c.depth /\ f.class = c.class
  BY <1>10, EngagementSums
<1> HIDE DEF f
<1>12. SumsSame(f, g)
  BY <1>11, ActivitySums
<1> HIDE DEF g
<1>13. CASE e.self
  <2>1. SumsSame(a, q)
    BY <1>2, <1>7, <1>13 DEF SumsSame, HasSums, Sums
  <2> QED BY <1>7, <1>13, <2>1, SumsTrans DEF q
<1>14. CASE ~e.self
  <2>1. Effect(p, g, "http", <<e.sid, e.visit>>, e.at, e1.risk, e1.depth, e1.class)
    BY <1>8, <1>9, <1>10, <1>11, <1>12, EffectChain
  <2> QED BY <1>3, <1>6, <1>14, <2>1 DEF q
<1> QED BY <1>13, <1>14

LEMMA SSHEffect ==
  ASSUME NEW p, NEW e, HasSums(p)
  PROVE  Effect(p, ApplySSHEvent(p, e), "ssh", e.sid, e.at, e.risk, e.depth, e.class)
<1> DEFINE ss == Lookup(p.sessions, e.sid, NoSession(e.at))
           h == Lookup(p.highlights, e.sid, NoHighlight)
           a == Updated(p, e, ss, h)
           recur == sshRecurrence(a.sshEvents, e.at)
           playbook == sshReconPlaybookFingerprint(a.sshEvents, e)
           verdicts == playbook \cup ConnectLabels(e, recur) \cup AuthLabels(a, e)
                       \cup CommandLabels(a, e, a.sessions[e.sid])
           b == ensureActor(a, e.at)
           c == Judge(b, e, verdicts \cup PlainLabels(a, e), verdicts # {})
           f == SSHJudged(a, e, recur, playbook, verdicts)
           g == addActorEngagement(f, "ssh", e.sid, e.at)
           q == appendActorActivity(g, "ssh", e.type, e.at)
<1>1. ApplySSHEvent(p, e) = q
  BY DEF ApplySSHEvent, applyActorSSHEvent, SSHWeighed
<1>2. f = [c EXCEPT
     !.protocols = @ \cup {"ssh"},
     !.peak = IF e.type = "connect" THEN Max({@, Cardinality(Active(a))}) ELSE @,
     !.revisit = IF e.type = "connect" THEN <<recur.median, recur.jitter>> ELSE @,
     !.users = IF e.type = "auth" THEN @ \cup ({e.user} \ {""}) ELSE @,
     !.perMinute = IF e.type = "auth"
                   THEN Max({@, AttemptsWithin(a.sshEvents, e.at, Limits.minute)}) ELSE @,
     !.lastCommand = IF IsCommand(e) /\ IsProbe(e) THEN <<e.command, e.at>> ELSE @,
     !.counts = bumpActorBehaviors(@, SSHBehaviors(e, playbook))]
  BY DEF SSHJudged
<1>3. a = [p EXCEPT !.counts = Bump(@, SSHKeys(ss, e)),
                    !.sshEvents = Newest(Append(@, e), MaxRing),
                    !.sessions = Put(@, e.sid, sessionAfter(ss, e)),
                    !.highlights = Put(@, e.sid, highlightAfter(h, e))]
  BY DEF Updated
<1> HIDE DEF ss, h, a, f, playbook, verdicts, recur
<1>4. SumsSame(p, a)
  BY <1>3 DEF SumsSame, HasSums, Sums
<1>5. SumsSame(p, b)
  BY <1>4, EnsureSums, SumsTrans DEF SumsSame
<1> HIDE DEF b
<1>6. JudgedOnly(b, c, e.risk, e.depth, e.class)
  BY <1>5, JudgeSums, Zenon DEF SumsSame
<1> HIDE DEF c
<1>7. /\ HasSums(f) /\ f.protocols = c.protocols \cup {"ssh"} /\ f.engagement = c.engagement
      /\ f.wall = c.wall /\ f.lastAt = c.lastAt /\ f.risk = c.risk /\ f.depth = c.depth
      /\ f.class = c.class
  BY <1>2, <1>6 DEF JudgedOnly, HasSums, Sums
<1>8. /\ HasSums(g) /\ EngagedBy(f, g, "ssh", e.sid, e.at)
      /\ g.protocols = f.protocols /\ g.risk = f.risk /\ g.depth = f.depth /\ g.class = f.class
  BY <1>7, EngagementSums
<1> HIDE DEF g
<1>9. SumsSame(g, q)
  BY <1>8, ActivitySums
<1> HIDE DEF q
<1>10. Effect(p, q, "ssh", e.sid, e.at, e.risk, e.depth, e.class)
  BY <1>5, <1>6, <1>7, <1>8, <1>9, EffectChain
<1> QED BY <1>1, <1>10

----------------------------------------------------------------------------
(* Replay: the events of two protocols, together and apart *)

\* The values of these fields.
Classes == {"benign", "suspicious", "hostile"}
IsKey(k) == \E x : k = <<"http", x>> \/ k = <<"ssh", x>>
TimesOK(times) ==
  /\ times = [k \in DOMAIN times |-> times[k]]
  /\ \A k \in DOMAIN times : IsKey(k) /\ times[k] \in Nat
WallOK(wall) == wall = [x \in {"http", "ssh"} |-> wall[x]]
SumsOK(p) ==
  /\ HasSums(p) /\ p.risk \in Nat /\ p.depth \in Nat /\ p.class \in Classes
  /\ p.engagement \in Int /\ WallOK(p.wall) /\ TimesOK(p.lastAt)

\* The times of one protocol are the same.
TimesAlike(s, t, protocol) ==
  \A x : LET k == <<protocol, x>>
         IN  (k \in DOMAIN s <=> k \in DOMAIN t) /\ (k \in DOMAIN s => s[k] = t[k])

\* p is what the events of protocol a, which made x, and those of b, which made y,
\* make together.
Joined(p, x, y, a, b) ==
  /\ p.protocols = x.protocols \cup y.protocols
  /\ p.risk = Max({x.risk, y.risk}) /\ p.depth = Max({x.depth, y.depth})
  /\ p.class = strongerClassification(x.class, y.class)
  /\ p.engagement = x.engagement + y.engagement
  /\ p.wall[a] = x.wall[a] /\ p.wall[b] = y.wall[b]
  /\ TimesAlike(p.lastAt, x.lastAt, a) /\ TimesAlike(p.lastAt, y.lastAt, b)

LEMMA MaxIs == ASSUME NEW a \in Int, NEW b \in Int PROVE Max({a, b}) = IF a >= b THEN a ELSE b
<1> DEFINE m == Max({a, b})
<1>1. m \in {a, b} /\ m >= a /\ m >= b
  BY MaxOfTwo
<1> HIDE DEF m
<1>2. m = IF a >= b THEN a ELSE b
  BY <1>1
<1> QED BY <1>2 DEF m

LEMMA MaxShift ==
  ASSUME NEW a \in Nat, NEW b \in Nat, NEW c \in Nat
  PROVE  Max({Max({a, b}), c}) = Max({Max({a, c}), b})
<1>1. /\ Max({a, b}) = (IF a >= b THEN a ELSE b) /\ Max({a, c}) = (IF a >= c THEN a ELSE c)
      /\ Max({a, b}) \in Int /\ Max({a, c}) \in Int
  BY MaxIs
<1> DEFINE m == Max({a, b})
           n == Max({a, c})
<1> HIDE DEF m, n
<1>2. m \in Int /\ n \in Int /\ m = (IF a >= b THEN a ELSE b) /\ n = (IF a >= c THEN a ELSE c)
  BY <1>1 DEF m, n
<1>3. Max({m, c}) = (IF m >= c THEN m ELSE c) /\ Max({n, b}) = (IF n >= b THEN n ELSE b)
  BY <1>2, MaxIs
<1>4. Max({m, c}) = Max({n, b})
  BY <1>2, <1>3
<1> QED BY <1>4 DEF m, n

LEMMA ClassShift ==
  ASSUME NEW a \in Classes, NEW b \in Classes, NEW c \in Classes
  PROVE  /\ strongerClassification(a, b) \in Classes
         /\ strongerClassification(a, b) = strongerClassification(b, a)
         /\ strongerClassification(strongerClassification(a, b), c)
              = strongerClassification(strongerClassification(a, c), b)
<1>1. /\ ClassRank["benign"] = 1 /\ ClassRank["suspicious"] = 2 /\ ClassRank["hostile"] = 3
  BY DEF ClassRank
<1>2. strongerClassification(a, b) \in Classes
  BY DEF strongerClassification
<1>3. strongerClassification(a, b) = strongerClassification(b, a)
  BY <1>1 DEF strongerClassification, Classes
<1>4. strongerClassification(strongerClassification(a, b), c)
        = strongerClassification(strongerClassification(a, c), b)
  BY <1>1 DEF strongerClassification, Classes
<1> QED BY <1>2, <1>3, <1>4

LEMMA JoinSym ==
  ASSUME NEW p, NEW x, NEW y, NEW a, NEW b, SumsOK(x), SumsOK(y), Joined(p, x, y, a, b)
  PROVE  Joined(p, y, x, b, a)
<1>1. strongerClassification(x.class, y.class) = strongerClassification(y.class, x.class)
  BY ClassShift DEF SumsOK
<1>2. x.engagement + y.engagement = y.engagement + x.engagement
  BY DEF SumsOK
<1>3. {x.risk, y.risk} = {y.risk, x.risk} /\ {x.depth, y.depth} = {y.depth, x.depth}
  OBVIOUS
<1>4. x.protocols \cup y.protocols = y.protocols \cup x.protocols
  OBVIOUS
<1>5. Max({x.risk, y.risk}) = Max({y.risk, x.risk}) /\ Max({x.depth, y.depth}) = Max({y.depth, x.depth})
  BY <1>3
<1> QED BY ONLY <1>1, <1>2, <1>4, <1>5, Joined(p, x, y, a, b) DEF Joined

\* One profile alone, beside one that has seen nothing.
LEMMA JoinAlone ==
  ASSUME NEW p, NEW q, NEW y, SumsSame(p, q), SumsOK(p), y = NoProfile,
         TimesAlike(p.lastAt, << >>, "ssh"), p.wall["ssh"] = NoProfile.wall["ssh"]
  PROVE  Joined(q, p, y, "http", "ssh")
<1>1. /\ y.protocols = {} /\ y.risk = 0 /\ y.depth = 0 /\ y.class = "benign" /\ y.engagement = 0
      /\ y.lastAt = << >>
  BY DEF NoProfile
<1>2. Max({p.risk, 0}) = p.risk /\ Max({p.depth, 0}) = p.depth
  <2>1. p.risk \in Nat /\ p.depth \in Nat
    BY DEF SumsOK
  <2> QED BY <2>1, MaxIs
<1>3. strongerClassification(p.class, "benign") = p.class
  BY DEF strongerClassification, ClassRank, SumsOK, Classes
<1>4. p.engagement + 0 = p.engagement
  BY DEF SumsOK
<1>5. TimesAlike(q.lastAt, p.lastAt, "http")
  BY DEF TimesAlike, SumsSame
<1> QED BY <1>1, <1>2, <1>3, <1>4, <1>5 DEF Joined, SumsSame

\* An entry of one protocol.
LEMMA PutTimes ==
  ASSUME NEW s, NEW t, NEW a, NEW x, NEW at, TimesAlike(s, t, a)
  PROVE  /\ TimesAlike(Put(s, <<a, x>>, at), Put(t, <<a, x>>, at), a)
         /\ Lookup(s, <<a, x>>, at) = Lookup(t, <<a, x>>, at)
BY DEF TimesAlike, Put, Lookup

LEMMA PutOther ==
  ASSUME NEW s, NEW t, NEW a, NEW b, a # b, NEW x, NEW at, TimesAlike(s, t, b)
  PROVE  TimesAlike(Put(s, <<a, x>>, at), t, b)
<1>1. \A y : <<b, y>> # <<a, x>>
  OBVIOUS
<1> QED BY <1>1 DEF TimesAlike, Put

\* An event of one protocol adds the same to both.
LEMMA JoinStep ==
  ASSUME NEW p, NEW x, NEW y, NEW q, NEW z, NEW a \in {"http", "ssh"}, NEW b \in {"http", "ssh"}, a # b,
         SumsOK(p), SumsOK(x), SumsOK(y), Joined(p, x, y, a, b), NEW activity, NEW at \in Nat,
         NEW risk \in Nat, NEW depth \in Nat, NEW class \in Classes,
         Effect(p, q, a, activity, at, risk, depth, class),
         Effect(x, z, a, activity, at, risk, depth, class)
  PROVE  Joined(q, z, y, a, b)
<1> DEFINE last == LastTime(p, a, activity, at)
<1>1. q.protocols = z.protocols \cup y.protocols
  BY DEF Effect, Joined
<1>2. q.risk = Max({z.risk, y.risk}) /\ q.depth = Max({z.depth, y.depth})
  <2>1. /\ q.risk = Max({Max({x.risk, y.risk}), risk}) /\ z.risk = Max({x.risk, risk})
        /\ q.depth = Max({Max({x.depth, y.depth}), depth}) /\ z.depth = Max({x.depth, depth})
    BY DEF Effect, JudgedBy, Joined
  <2>2. x.risk \in Nat /\ y.risk \in Nat /\ x.depth \in Nat /\ y.depth \in Nat
    BY DEF SumsOK
  <2>3. Max({Max({x.risk, y.risk}), risk}) = Max({Max({x.risk, risk}), y.risk})
    BY ONLY <2>2, risk \in Nat, MaxShift
  <2>4. Max({Max({x.depth, y.depth}), depth}) = Max({Max({x.depth, depth}), y.depth})
    BY ONLY <2>2, depth \in Nat, MaxShift
  <2> QED BY ONLY <2>1, <2>3, <2>4
<1>3. q.class = strongerClassification(z.class, y.class)
  <2>1. /\ q.class = strongerClassification(strongerClassification(x.class, y.class), class)
        /\ z.class = strongerClassification(x.class, class)
    BY DEF Effect, JudgedBy, Joined
  <2>2. x.class \in Classes /\ y.class \in Classes
    BY DEF SumsOK
  <2>3. strongerClassification(strongerClassification(x.class, y.class), class)
          = strongerClassification(strongerClassification(x.class, class), y.class)
    BY ONLY <2>2, class \in Classes, ClassShift
  <2> QED BY ONLY <2>1, <2>3
<1>4. last = LastTime(x, a, activity, at)
  BY PutTimes DEF LastTime, Joined
<1>5. last \in Nat
  <2>1. p.lastAt = [k \in DOMAIN p.lastAt |-> p.lastAt[k]] /\ \A k \in DOMAIN p.lastAt : p.lastAt[k] \in Nat
    BY DEF SumsOK, TimesOK
  <2> QED BY <2>1 DEF LastTime, Lookup
<1> HIDE DEF last
<1>6. q.engagement = z.engagement + y.engagement
  <2>1. x.engagement \in Int /\ y.engagement \in Int /\ p.engagement = x.engagement + y.engagement
    BY DEF SumsOK, Joined
  <2>2. CASE Gained(last, at)
    <3>1. q.engagement = p.engagement + at - last
      BY <2>2 DEF Effect, EngagedBy, last
    <3>2. z.engagement = x.engagement + at - last
      BY <1>4, <2>2 DEF Effect, EngagedBy
    <3> QED BY ONLY <1>5, <2>1, <3>1, <3>2, at \in Nat
  <2>3. CASE ~Gained(last, at)
    <3>1. q.engagement = p.engagement
      BY <2>3 DEF Effect, EngagedBy, last
    <3>2. z.engagement = x.engagement
      BY <1>4, <2>3 DEF Effect, EngagedBy
    <3> QED BY ONLY <2>1, <3>1, <3>2
  <2> QED BY <2>2, <2>3
<1>7. q.wall[a] = z.wall[a] /\ q.wall[b] = y.wall[b]
  <2>1. p.wall[a] = x.wall[a] /\ p.wall[b] = y.wall[b] /\ WallOK(p.wall) /\ WallOK(x.wall)
    BY DEF SumsOK, Joined
  <2>2. CASE Gained(last, at)
    <3>1. q.wall = [p.wall EXCEPT ![a] = addActorWallSegment(@, last, at)]
      BY <2>2 DEF Effect, EngagedBy, last
    <3>2. z.wall = [x.wall EXCEPT ![a] = addActorWallSegment(@, last, at)]
      BY <1>4, <2>2 DEF Effect, EngagedBy
    <3> QED BY <2>1, <3>1, <3>2 DEF WallOK
  <2>3. CASE ~Gained(last, at)
    <3>1. q.wall = p.wall
      BY <2>3 DEF Effect, EngagedBy, last
    <3>2. z.wall = x.wall
      BY <1>4, <2>3 DEF Effect, EngagedBy
    <3> QED BY <2>1, <3>1, <3>2
  <2> QED BY <2>2, <2>3
<1>8. TimesAlike(q.lastAt, z.lastAt, a) /\ TimesAlike(q.lastAt, y.lastAt, b)
  <2>1. /\ q.lastAt = Put(p.lastAt, <<a, activity>>, at) /\ z.lastAt = Put(x.lastAt, <<a, activity>>, at)
        /\ TimesAlike(p.lastAt, x.lastAt, a) /\ TimesAlike(p.lastAt, y.lastAt, b)
    BY DEF Effect, EngagedBy, Joined
  <2>2. TimesAlike(q.lastAt, z.lastAt, a)
    BY <2>1, PutTimes
  <2>3. TimesAlike(q.lastAt, y.lastAt, b)
    BY <2>1, PutOther
  <2> QED BY <2>2, <2>3
<1> QED BY <1>1, <1>2, <1>3, <1>6, <1>7, <1>8 DEF Joined

LEMMA EffectOK ==
  ASSUME NEW p, NEW q, SumsOK(p), NEW a \in {"http", "ssh"}, NEW activity, NEW at \in Nat,
         NEW risk \in Nat, NEW depth \in Nat, NEW class \in Classes,
         Effect(p, q, a, activity, at, risk, depth, class)
  PROVE  SumsOK(q)
<1> DEFINE last == LastTime(p, a, activity, at)
<1>1. HasSums(q) /\ q.risk \in Nat /\ q.depth \in Nat /\ q.class \in Classes
  <2>1. p.risk \in Nat /\ p.depth \in Nat /\ p.class \in Classes
    BY DEF SumsOK
  <2>2. Max({p.risk, risk}) \in Nat /\ Max({p.depth, depth}) \in Nat
    BY <2>1, MaxIs
  <2>3. strongerClassification(p.class, class) \in Classes
    BY <2>1, ClassShift
  <2> QED BY <2>2, <2>3 DEF Effect, JudgedBy
<1>2. TimesOK(q.lastAt)
  <2>1. q.lastAt = Put(p.lastAt, <<a, activity>>, at) /\ TimesOK(p.lastAt)
    BY DEF Effect, EngagedBy, SumsOK
  <2>2. IsKey(<<a, activity>>)
    BY DEF IsKey
  <2> QED BY <2>1, <2>2 DEF TimesOK, Put
<1>3. last \in Nat
  <2>1. p.lastAt = [k \in DOMAIN p.lastAt |-> p.lastAt[k]] /\ \A k \in DOMAIN p.lastAt : p.lastAt[k] \in Nat
    BY DEF SumsOK, TimesOK
  <2> QED BY <2>1 DEF LastTime, Lookup
<1> HIDE DEF last
<1>4. q.engagement \in Int
  <2>1. p.engagement \in Int
    BY DEF SumsOK
  <2>2. q.engagement = p.engagement + at - last \/ q.engagement = p.engagement
    BY DEF Effect, EngagedBy, last
  <2> QED BY <1>3, <2>1, <2>2
<1>5. WallOK(q.wall)
  <2>1. WallOK(p.wall)
    BY DEF SumsOK
  <2>2. \/ q.wall = [p.wall EXCEPT ![a] = addActorWallSegment(@, last, at)]
        \/ q.wall = p.wall
    BY DEF Effect, EngagedBy, last
  <2> QED BY <2>1, <2>2 DEF WallOK
<1> QED BY <1>1, <1>2, <1>4, <1>5 DEF SumsOK

\* What two logs make together is one profile.
LEMMA JoinedOnce ==
  ASSUME NEW p, NEW q, NEW x, NEW y, SumsOK(p), SumsOK(q),
         Joined(p, x, y, "http", "ssh"), Joined(q, x, y, "http", "ssh")
  PROVE  SumsSame(p, q)
<1>1. p.wall = q.wall
  <2>1. p.wall["http"] = q.wall["http"] /\ p.wall["ssh"] = q.wall["ssh"]
    BY DEF Joined
  <2> QED BY <2>1 DEF SumsOK, WallOK
<1>2. p.lastAt = q.lastAt
  <2> DEFINE s == p.lastAt
             t == q.lastAt
  <2>1. TimesAlike(s, t, "http") /\ TimesAlike(s, t, "ssh")
    BY DEF Joined, TimesAlike
  <2>2. TimesOK(s) /\ TimesOK(t)
    BY DEF SumsOK
  <2> HIDE DEF s, t
  <2>3. \A k : IsKey(k) => (k \in DOMAIN s <=> k \in DOMAIN t) /\ (k \in DOMAIN s => s[k] = t[k])
    BY <2>1 DEF TimesAlike, IsKey
  <2>4. DOMAIN s = DOMAIN t /\ \A k \in DOMAIN s : s[k] = t[k]
    BY <2>2, <2>3 DEF TimesOK
  <2>5. s = t
    BY <2>2, <2>4 DEF TimesOK
  <2> QED BY <2>5 DEF s, t
<1> QED BY <1>1, <1>2 DEF SumsSame, Joined, SumsOK

\* Reading a record of a log.
Untouched(p, q) == q.wall["ssh"] = p.wall["ssh"] /\ TimesAlike(q.lastAt, p.lastAt, "ssh")

LEMMA SameSums == ASSUME NEW p, NEW q, SumsOK(p), SumsSame(p, q) PROVE SumsOK(q)
BY DEF SumsOK, SumsSame

LEMMA HttpTyped ==
  ASSUME NEW p, NEW e, Row(1, e)
  PROVE  /\ e.at \in Nat /\ IsScored(e) /\ e.depth \in Nat
         /\ HttpRisk(p, e) \in Nat /\ HttpClass(p, e) \in Classes
<1>1. e.at \in Nat /\ IsScored(e) /\ e.depth \in Nat /\ e.risk \in Nat /\ e.class \in Classes
  BY DEF Row, IsScored, Classes
<1>2. Max({e.risk, 82}) \in Nat
  BY <1>1, MaxIs
<1>3. HttpRisk(p, e) \in {e.risk, Max({e.risk, 82})} /\ HttpClass(p, e) \in {e.class, "hostile"}
  BY DEF HttpRisk, HttpClass
<1> QED BY <1>1, <1>2, <1>3 DEF Classes

LEMMA EventSums ==
  ASSUME NEW p, SumsOK(p), HasLogFields(p), NEW i \in 1 .. 3, NEW e, Row(i, e)
  PROVE  /\ SumsOK(LoadEvent(p, i, e)) /\ (i = 3 => SumsSame(p, LoadEvent(p, i, e)))
         /\ (i # 2 => Untouched(p, LoadEvent(p, i, e)))
<1> DEFINE q == LoadEvent(p, i, e)
<1>1. HasSums(p) /\ WallOK(p.wall)
  BY DEF SumsOK
<1>2. ASSUME SumsSame(p, q) PROVE SumsOK(q) /\ Untouched(p, q)
  <2>1. SumsOK(q)
    BY <1>2, SameSums
  <2>2. q.wall = p.wall /\ q.lastAt = p.lastAt
    BY <1>2 DEF SumsSame
  <2> HIDE DEF q
  <2> QED BY <2>1, <2>2 DEF Untouched, TimesAlike
<1>3. CASE i = 1
  <2>1. q = ApplyEvent(p, e)
    BY <1>3 DEF LoadEvent
  <2>2. Row(1, e)
    BY <1>3
  <2> DEFINE k == <<e.sid, e.visit>>
             r == HttpRisk(p, e)
             c == HttpClass(p, e)
  <2>3. e.at \in Nat /\ IsScored(e) /\ e.depth \in Nat /\ r \in Nat /\ c \in Classes
    BY <2>2, HttpTyped
  <2>4. /\ e.self => SumsSame(p, q)
        /\ ~e.self => Effect(p, q, "http", k, e.at, r, e.depth, c)
    BY <1>1, <2>1, <2>3, HttpEffect
  <2> HIDE DEF q, r, c, k
  <2>5. CASE e.self
    BY <1>2, <1>3, <2>4, <2>5 DEF q
  <2>6. CASE ~e.self
    <3>1. Effect(p, q, "http", k, e.at, r, e.depth, c)
      BY <2>4, <2>6
    <3>2. SumsOK(q)
      BY <2>3, <3>1, EffectOK
    <3>3. q.wall["ssh"] = p.wall["ssh"]
      <4>1. \/ \E v : q.wall = [p.wall EXCEPT !["http"] = v]
            \/ q.wall = p.wall
        BY <3>1 DEF Effect, EngagedBy
      <4> QED BY <1>1, <4>1 DEF WallOK
    <3>4. TimesAlike(p.lastAt, p.lastAt, "ssh")
      BY DEF TimesAlike
    <3>5. TimesAlike(q.lastAt, p.lastAt, "ssh")
      <4>1. q.lastAt = Put(p.lastAt, <<"http", k>>, e.at)
        BY <3>1 DEF Effect, EngagedBy
      <4> QED BY <3>4, <4>1, PutOther
    <3> QED BY <1>3, <3>2, <3>3, <3>5 DEF Untouched, q
  <2> QED BY <2>5, <2>6
<1>4. CASE i = 2
  <2> DEFINE a == ApplySSHEvent(p, e)
  <2>1. q = PruneAbove(a, MaxSessions + PruneSlack, MaxSessions)
    BY <1>4 DEF LoadEvent, LoadSSHEvent
  <2>2. e.at \in Nat /\ e.risk \in Nat /\ e.depth \in Nat /\ e.class \in Classes
    BY <1>4 DEF Row, IsScored, Classes
  <2>3. SumsOK(a)
    <3>1. Effect(p, a, "ssh", e.sid, e.at, e.risk, e.depth, e.class)
      BY <1>1, SSHEffect
    <3> HIDE DEF a
    <3> QED BY <2>2, <3>1, EffectOK
  <2> HIDE DEF a, q
  <2>4. SumsSame(a, q)
    BY <2>1, <2>3, PruneSums DEF SumsOK
  <2> QED BY <1>4, <2>3, <2>4, SameSums DEF q
<1>5. CASE i = 3
  <2>1. q = ApplyIntel(p, e)
    BY <1>5 DEF LoadEvent
  <2>2. SumsSame(p, q)
    BY <1>1, <2>1, IntelSums
  <2> HIDE DEF q
  <2> QED BY <1>2, <1>5, <2>2 DEF q
<1> QED BY <1>3, <1>4, <1>5

LEMMA LoadSums ==
  ASSUME NEW p, SumsOK(p), HasLogFields(p), NEW i \in 1 .. 3, NEW rows, LogOK(i, rows)
  PROVE  /\ SumsOK(LoadLog(p, i, rows)) /\ HasLogFields(LoadLog(p, i, rows))
         /\ (i = 3 => SumsSame(p, LoadLog(p, i, rows)))
         /\ (i # 2 => Untouched(p, LoadLog(p, i, rows)))
<1> DEFINE n == Len(rows)
           Kept(q) == /\ SumsOK(q) /\ HasLogFields(q) /\ (i = 3 => SumsSame(p, q))
                      /\ (i # 2 => Untouched(p, q))
<1>1. n \in Nat /\ \A j \in 1 .. n : Row(i, rows[j])
  <2>1. IsFile(rows)
    BY LogIsFile
  <2> QED BY <2>1, FileFacts DEF LogOK
<1>2. PICK h : Loads(h, p, i, rows) /\ LoadLog(p, i, rows) = h[n]
  BY <1>1, LoadRun
<1>3. h[0] = p /\ \A j \in 1 .. n : h[j] = LoadEvent(h[j - 1], i, rows[j])
  BY <1>2 DEF Loads
<1>4. Kept(p)
  BY DEF SumsSame, SumsOK, Untouched, TimesAlike
<1>5. ASSUME NEW q, Kept(q), NEW e, Row(i, e) PROVE Kept(LoadEvent(q, i, e))
  <2> DEFINE r == LoadEvent(q, i, e)
  <2>1. SumsOK(r) /\ (i = 3 => SumsSame(q, r)) /\ (i # 2 => Untouched(q, r))
    BY <1>5, EventSums
  <2>2. HasLogFields(r)
    <3>1. i = 1 \/ i = 2 \/ i = 3
      OBVIOUS
    <3> QED BY <1>5, <3>1, LoadFields DEF Alike
  <2> HIDE DEF r
  <2>3. i = 3 => SumsSame(p, r)
    BY <1>5, <2>1, SumsTrans
  <2>4. i # 2 => Untouched(p, r)
    BY <1>5, <2>1 DEF Untouched, TimesAlike
  <2> QED BY <2>1, <2>2, <2>3, <2>4 DEF r
<1> HIDE DEF n, Kept
<1> DEFINE T == {j \in 0 .. n : Kept(h[j])}
<1>6. 0 \in T
  BY <1>1, <1>3, <1>4
<1>7. ASSUME NEW j \in 1 .. n, j - 1 \in T PROVE j \in T
  BY <1>1, <1>3, <1>5, <1>7
<1>8. \A j \in 0 .. n : j \in T
  <2> HIDE DEF T
  <2> QED BY <1>1, <1>6, <1>7, UpTo
<1>9. n \in 0 .. n
  BY <1>1
<1>10. Kept(h[n])
  BY <1>8, <1>9
<1> QED BY <1>2, <1>10 DEF Kept, n

LEMMA JoinSame ==
  ASSUME NEW p, NEW x, NEW y, NEW q, NEW w, NEW z, NEW a, NEW b, Joined(p, x, y, a, b),
         SumsSame(p, q), SumsSame(x, w), SumsSame(y, z)
  PROVE  Joined(q, w, z, a, b)
BY DEF Joined, SumsSame

\* The same SSH event applied to both.
LEMMA SSHJoin ==
  ASSUME NEW p, NEW x, NEW y, SumsOK(p), SumsOK(x), SumsOK(y), Joined(p, x, y, "http", "ssh"),
         NEW e, Row(2, e)
  PROVE  Joined(ApplySSHEvent(p, e), x, ApplySSHEvent(y, e), "http", "ssh")
<1> DEFINE q == ApplySSHEvent(p, e)
           z == ApplySSHEvent(y, e)
<1>1. e.at \in Nat /\ e.risk \in Nat /\ e.depth \in Nat /\ e.class \in Classes
  BY DEF Row, IsScored, Classes
<1>2. /\ Effect(p, q, "ssh", e.sid, e.at, e.risk, e.depth, e.class)
      /\ Effect(y, z, "ssh", e.sid, e.at, e.risk, e.depth, e.class)
  BY SSHEffect DEF SumsOK
<1> HIDE DEF q, z
<1>3. Joined(p, y, x, "ssh", "http")
  BY JoinSym
<1>4. Joined(q, z, x, "ssh", "http")
  BY <1>1, <1>2, <1>3, JoinStep
<1>5. SumsOK(z)
  BY <1>1, <1>2, EffectOK
<1>6. Joined(q, x, z, "http", "ssh")
  BY <1>4, <1>5, JoinSym
<1> QED BY <1>6 DEF q, z

LEMMA HttpJoin ==
  ASSUME NEW p, NEW x, NEW y, SumsOK(p), SumsOK(x), SumsOK(y), Joined(p, x, y, "http", "ssh"),
         HasLogFields(p), HasLogFields(x), HttpLike(p, x), NEW e, Row(1, e)
  PROVE  /\ Joined(ApplyEvent(p, e), ApplyEvent(x, e), y, "http", "ssh")
         /\ SumsOK(ApplyEvent(p, e))
<1> DEFINE q == ApplyEvent(p, e)
           z == ApplyEvent(x, e)
           k == <<e.sid, e.visit>>
           r == HttpRisk(p, e)
           c == HttpClass(p, e)
<1>1. e.at \in Nat /\ IsScored(e) /\ e.depth \in Nat /\ r \in Nat /\ c \in Classes
  BY HttpTyped
<1>2. r = HttpRisk(x, e) /\ c = HttpClass(x, e)
  BY DEF HttpRisk, HttpClass, Periodic, HttpLike
<1>3. /\ e.self => SumsSame(p, q) /\ SumsSame(x, z)
      /\ ~e.self => /\ Effect(p, q, "http", k, e.at, r, e.depth, c)
                    /\ Effect(x, z, "http", k, e.at, r, e.depth, c)
  <2>1. HasSums(p) /\ HasSums(x)
    BY DEF SumsOK
  <2>2. /\ e.self => SumsSame(p, q)
        /\ ~e.self => Effect(p, q, "http", k, e.at, r, e.depth, c)
    BY <1>1, <2>1, HttpEffect
  <2>3. /\ e.self => SumsSame(x, z)
        /\ ~e.self => Effect(x, z, "http", k, e.at, HttpRisk(x, e), e.depth, HttpClass(x, e))
    BY <1>1, <2>1, HttpEffect
  <2> HIDE DEF q, z, r, c, k
  <2> QED BY <1>2, <2>2, <2>3
<1> HIDE DEF q, z, r, c, k
<1>4. CASE e.self
  <2>1. SumsSame(p, q) /\ SumsSame(x, z) /\ SumsSame(y, y)
    BY <1>3, <1>4 DEF SumsSame, SumsOK
  <2>2. Joined(q, z, y, "http", "ssh")
    BY <2>1, JoinSame
  <2>3. SumsOK(q)
    BY <2>1, SameSums
  <2> QED BY <2>2, <2>3 DEF q, z
<1>5. CASE ~e.self
  <2>1. Effect(p, q, "http", k, e.at, r, e.depth, c) /\ Effect(x, z, "http", k, e.at, r, e.depth, c)
    BY <1>3, <1>5
  <2>2. Joined(q, z, y, "http", "ssh")
    BY <1>1, <2>1, JoinStep
  <2>3. SumsOK(q)
    BY <1>1, <2>1, EffectOK
  <2> QED BY <2>2, <2>3 DEF q, z
<1> QED BY <1>4, <1>5

\* A whole SSH log read on both sides.
LEMMA LoadJoin ==
  ASSUME NEW p, NEW x, NEW y, SumsOK(p), SumsOK(x), SumsOK(y), HasLogFields(p), HasLogFields(y),
         Joined(p, x, y, "http", "ssh"), NEW rows, LogOK(2, rows)
  PROVE  Joined(LoadLog(p, 2, rows), x, LoadLog(y, 2, rows), "http", "ssh")
<1> DEFINE n == Len(rows)
           Kept(q, z) == /\ SumsOK(q) /\ SumsOK(z) /\ HasLogFields(q) /\ HasLogFields(z)
                         /\ Joined(q, x, z, "http", "ssh")
<1>1. n \in Nat /\ \A j \in 1 .. n : Row(2, rows[j])
  <2>1. IsFile(rows)
    BY LogIsFile
  <2> QED BY <2>1, FileFacts DEF LogOK
<1>2. PICK g : Loads(g, p, 2, rows) /\ LoadLog(p, 2, rows) = g[n]
  BY <1>1, LoadRun
<1>3. PICK h : Loads(h, y, 2, rows) /\ LoadLog(y, 2, rows) = h[n]
  BY <1>1, LoadRun
<1>4. /\ g[0] = p /\ \A j \in 1 .. n : g[j] = LoadEvent(g[j - 1], 2, rows[j])
      /\ h[0] = y /\ \A j \in 1 .. n : h[j] = LoadEvent(h[j - 1], 2, rows[j])
  BY <1>2, <1>3 DEF Loads
<1>5. Kept(p, y)
  OBVIOUS
<1>6. ASSUME NEW q, NEW z, Kept(q, z), NEW e, Row(2, e)
      PROVE  Kept(LoadEvent(q, 2, e), LoadEvent(z, 2, e))
  <2> DEFINE q1 == ApplySSHEvent(q, e)
             z1 == ApplySSHEvent(z, e)
             q2 == LoadEvent(q, 2, e)
             z2 == LoadEvent(z, 2, e)
  <2>1. SumsOK(q2) /\ SumsOK(z2) /\ HasLogFields(q2) /\ HasLogFields(z2)
    BY <1>6, EventSums, LoadFields
  <2>2. Joined(q1, x, z1, "http", "ssh")
    BY <1>6, SSHJoin
  <2>3. HasSums(q1) /\ HasSums(z1)
    BY <1>6, SSHEffect DEF Effect, SumsOK
  <2>4. /\ q2 = PruneAbove(q1, MaxSessions + PruneSlack, MaxSessions)
        /\ z2 = PruneAbove(z1, MaxSessions + PruneSlack, MaxSessions)
    BY DEF LoadEvent, LoadSSHEvent
  <2> HIDE DEF q1, z1, q2, z2
  <2>5. SumsSame(q1, q2) /\ SumsSame(z1, z2) /\ SumsSame(x, x)
    BY <2>3, <2>4, PruneSums DEF SumsSame, SumsOK
  <2>6. Joined(q2, x, z2, "http", "ssh")
    BY <2>2, <2>5, JoinSame
  <2> QED BY <2>1, <2>6 DEF q2, z2
<1> HIDE DEF n, Kept
<1> DEFINE T == {j \in 0 .. n : Kept(g[j], h[j])}
<1>7. 0 \in T
  BY <1>1, <1>4, <1>5
<1>8. ASSUME NEW j \in 1 .. n, j - 1 \in T PROVE j \in T
  BY <1>1, <1>4, <1>6, <1>8
<1>9. \A j \in 0 .. n : j \in T
  <2> HIDE DEF T
  <2> QED BY <1>1, <1>7, <1>8, UpTo
<1>10. n \in 0 .. n
  BY <1>1
<1>11. Kept(g[n], h[n])
  BY <1>9, <1>10
<1> QED BY <1>2, <1>3, <1>11 DEF Kept, n

LEMMA EmptySums == SumsOK(NoProfile)
<1>1. /\ HasSums(NoProfile) /\ NoProfile.risk = 0 /\ NoProfile.depth = 0
      /\ NoProfile.class = "benign" /\ NoProfile.engagement = 0
      /\ NoProfile.wall = [x \in {"http", "ssh"} |-> [total |-> 0, active |-> 0, end |-> 0]]
      /\ NoProfile.lastAt = << >>
  BY DEF NoProfile, HasSums, Sums
<1>2. WallOK(NoProfile.wall) /\ TimesOK(NoProfile.lastAt)
  BY <1>1 DEF WallOK, TimesOK
<1> QED BY <1>1, <1>2 DEF SumsOK, Classes

\* What a start rebuilds joins what each of the two logs gives alone.
LEMMA LoadIsJoined ==
  ASSUME NEW ls, LogsOK(ls)
  PROVE  /\ SumsOK(Load(ls))
         /\ Joined(Load(ls), LoadLog(NoProfile, 1, ls[1]), LoadLog(NoProfile, 2, ls[2]), "http", "ssh")
<1> DEFINE p0 == NoProfile
           p1 == LoadLog(p0, 1, ls[1])
           p2 == LoadLog(p1, 3, ls[3])
           p3 == LoadLog(p2, 2, ls[2])
           q == LoadLog(p0, 2, ls[2])
<1>1. Load(ls) = p3 /\ LogOK(1, ls[1]) /\ LogOK(2, ls[2]) /\ LogOK(3, ls[3])
  BY DEF Load, LogsOK
<1>2. HasLogFields(p0) /\ SumsOK(p0)
  BY EmptyFields, EmptySums
<1>3. p0.lastAt = << >> /\ p0.wall["ssh"] = NoProfile.wall["ssh"]
  BY DEF NoProfile
<1> HIDE DEF p0, p1, p2, p3, q
<1>4. HasLogFields(p1) /\ SumsOK(p1) /\ Untouched(p0, p1)
  BY <1>1, <1>2, LoadSums DEF p1
<1>5. HasLogFields(p2) /\ SumsOK(p2) /\ SumsSame(p1, p2)
  BY <1>1, <1>4, LoadSums DEF p2
<1>6. Joined(p2, p1, p0, "http", "ssh")
  <2>1. TimesAlike(p1.lastAt, << >>, "ssh") /\ p1.wall["ssh"] = NoProfile.wall["ssh"]
    BY <1>3, <1>4 DEF Untouched
  <2> QED BY <1>4, <1>5, <2>1, JoinAlone DEF p0
<1>7. SumsOK(p3)
  BY <1>1, <1>5, LoadSums DEF p3
<1>8. Joined(p3, p1, q, "http", "ssh")
  BY <1>1, <1>2, <1>4, <1>5, <1>6, LoadJoin DEF p3, q
<1> QED BY <1>1, <1>7, <1>8 DEF p0, p1, q

----------------------------------------------------------------------------
(* The rebuilt fields, always *)

\* What one log alone gives.
Own(i) == LoadLog(NoProfile, i, kept[i])

Replayed ==
  /\ HasLogFields(d) /\ SumsOK(d) /\ HttpLike(d, Own(1)) /\ SSHLike(d, Own(2))
  /\ Joined(d, Own(1), Own(2), "http", "ssh")

LEMMA OwnFields ==
  ASSUME LogsOK(kept), NEW i \in 1 .. 3
  PROVE  HasLogFields(Own(i)) /\ SumsOK(Own(i))
BY EmptyFields, EmptySums, LoadSums DEF Own, LogsOK

\* A step that changes none of the fields.
LEMMA ReplayedAlike ==
  ASSUME Replayed, Alike(d, d'), SumsSame(d, d'), Own(1)' = Own(1), Own(2)' = Own(2),
         SumsOK(Own(1)), SumsOK(Own(2))
  PROVE  Replayed'
<1> DEFINE h == Own(1)
           s == Own(2)
<1>1. h' = h /\ s' = s /\ SumsOK(h) /\ SumsOK(s)
  OBVIOUS
<1>2. HttpLike(d, h) /\ SSHLike(d, s) /\ Joined(d, h, s, "http", "ssh") /\ SumsOK(d)
  BY DEF Replayed
<1> HIDE DEF h, s
<1>3. HttpLike(d', h) /\ SSHLike(d', s) /\ HasLogFields(d')
  BY <1>2 DEF Alike, HttpLike, SSHLike
<1>4. SumsOK(d')
  BY <1>2, SameSums
<1>5. SumsSame(h, h) /\ SumsSame(s, s)
  BY <1>1 DEF SumsSame, SumsOK
<1>6. Joined(d', h, s, "http", "ssh")
  BY <1>2, <1>5, JoinSame
<1> QED BY <1>1, <1>3, <1>4, <1>6 DEF Replayed, h, s

LEMMA ReplayedInit == Init => Replayed
<1> SUFFICES ASSUME Init PROVE Replayed
  OBVIOUS
<1>1. kept = << << >>, << >>, << >> >> /\ d = NoProfile
  BY DEF Init
<1>2. Len(<< >>) = 0 /\ Len(<< >>) \in Nat
  BY EmptySeq
<1>3. ASSUME NEW i PROVE LoadLog(NoProfile, i, << >>) = NoProfile
  <2>1. PICK h : Loads(h, NoProfile, i, << >>) /\ LoadLog(NoProfile, i, << >>) = h[Len(<< >>)]
    BY <1>2, LoadRun
  <2> QED BY <1>2, <2>1 DEF Loads
<1>4. Own(1) = NoProfile /\ Own(2) = NoProfile
  BY <1>1, <1>3 DEF Own
<1>5. Joined(NoProfile, NoProfile, NoProfile, "http", "ssh")
  <2>1. SumsSame(NoProfile, NoProfile)
    BY EmptySums DEF SumsSame, SumsOK
  <2>2. TimesAlike(NoProfile.lastAt, << >>, "ssh")
    BY DEF TimesAlike, NoProfile
  <2> QED BY <2>1, <2>2, EmptySums, JoinAlone
<1> QED BY <1>1, <1>4, <1>5, EmptyFields, EmptySums DEF Replayed, HttpLike, SSHLike

\* The record that was logged, and the log with it.
LEMMA KeptLogged ==
  ASSUME LogsOK(kept), LogsOK(kept'), NEW i \in 1 .. 3, NEW e, Logged(i, e)
  PROVE  /\ Row(i, e) /\ LoadLog(NoProfile, i, kept'[i]) = LoadEvent(LoadLog(NoProfile, i, kept[i]), i, e)
         /\ \A j \in 1 .. 3 : j # i => kept'[j] = kept[j]
<1> DEFINE rows == kept[i]
<1>1. kept' = [kept EXCEPT ![i] = Append(@, e)]
  BY DEF Logged
<1>2. kept'[i] = Append(rows, e) /\ \A j \in 1 .. 3 : j # i => kept'[j] = kept[j]
  BY <1>1, LoggedLogs
<1>3. rows \in Seq(Range(rows)) /\ LogOK(i, Append(rows, e))
  BY <1>2 DEF LogsOK, LogOK
<1> HIDE DEF rows
<1>4. Row(i, e)
  <2> DEFINE X == Range(rows) \cup {e}
             more == Append(rows, e)
  <2>1. rows \in Seq(X) /\ e \in X
    BY <1>3
  <2> HIDE DEF X
  <2>2. Len(rows) \in Nat /\ Len(more) = Len(rows) + 1 /\ more[Len(rows) + 1] = e /\ more \in Seq(X)
    BY <2>1, AppendProperties
  <2>3. LogOK(i, more)
    BY <1>3
  <2> HIDE DEF more
  <2>4. e \in Range(more)
    BY <2>2 DEF Range
  <2> QED BY <2>3, <2>4 DEF LogOK
<1>5. LoadLog(NoProfile, i, Append(rows, e)) = LoadEvent(LoadLog(NoProfile, i, rows), i, e)
  BY <1>3, LoadAppend
<1> QED BY <1>2, <1>4, <1>5 DEF rows

\* A request is logged and applied.
LEMMA ReplayedHttp ==
  ASSUME Replayed, LogsOK(kept), LogsOK(kept'), NEW e, Logged(1, e),
         NEW p, Alike(d, p), SumsSame(d, p), d' = ApplyEvent(p, e)
  PROVE  Replayed'
<1> DEFINE r == Own(1)
           t == Own(2)
<1>1. Row(1, e) /\ Own(1)' = LoadEvent(r, 1, e) /\ Own(2)' = t
  BY KeptLogged DEF Own
<1>2. HasLogFields(r) /\ SumsOK(r) /\ SumsOK(t)
  BY OwnFields
<1>3. HttpLike(d, r) /\ SSHLike(d, t) /\ Joined(d, r, t, "http", "ssh") /\ SumsOK(d)
  BY DEF Replayed
<1> HIDE DEF r, t
<1>4. HasLogFields(p) /\ HttpLike(p, r) /\ SSHLike(p, t)
  BY <1>3 DEF Alike, HttpLike, SSHLike
<1>5. SumsOK(p) /\ Joined(p, r, t, "http", "ssh")
  <2>1. SumsSame(r, r) /\ SumsSame(t, t)
    BY <1>2 DEF SumsSame, SumsOK
  <2> QED BY <1>3, <2>1, SameSums, JoinSame
<1>6. HttpLike(ApplyEvent(p, e), ApplyEvent(r, e))
  BY <1>2, <1>4, HttpOwn
<1>7. /\ LoadEvent(r, 1, e) = ApplyEvent(r, e) /\ LoadEvent(p, 1, e) = ApplyEvent(p, e)
      /\ HasLogFields(LoadEvent(p, 1, e)) /\ SSHLike(p, LoadEvent(p, 1, e))
  BY <1>2, <1>4, LoadFields
<1>8. Joined(ApplyEvent(p, e), ApplyEvent(r, e), t, "http", "ssh") /\ SumsOK(ApplyEvent(p, e))
  BY <1>1, <1>2, <1>4, <1>5, HttpJoin
<1> DEFINE r1 == ApplyEvent(r, e)
<1>9. Own(1)' = r1 /\ Own(2)' = t
  BY <1>1, <1>7
<1>10. /\ HasLogFields(d') /\ SumsOK(d') /\ HttpLike(d', r1) /\ SSHLike(d', t)
       /\ Joined(d', r1, t, "http", "ssh")
  BY <1>4, <1>6, <1>7, <1>8 DEF SSHLike
<1> HIDE DEF r1
<1> QED BY <1>9, <1>10 DEF Replayed

LEMMA ReplayedSSH ==
  ASSUME Replayed, LogsOK(kept), LogsOK(kept'), NEW e, Logged(2, e), NEW most, NEW target,
         d' = PruneAbove(ApplySSHEvent(d, e), most, target)
  PROVE  Replayed'
<1> DEFINE r == Own(1)
           t == Own(2)
           p == ApplySSHEvent(d, e)
           t1 == ApplySSHEvent(t, e)
           t2 == LoadEvent(t, 2, e)
<1>1. Row(2, e) /\ Own(2)' = t2 /\ Own(1)' = r
  BY KeptLogged DEF Own
<1>2. HasLogFields(t) /\ SumsOK(t) /\ SumsOK(r)
  BY OwnFields
<1>3. /\ HttpLike(d, r) /\ SSHLike(d, t) /\ HasLogFields(d) /\ SumsOK(d)
      /\ Joined(d, r, t, "http", "ssh")
  BY DEF Replayed
<1> HIDE DEF r, t
<1>4. SSHLike(p, t1) /\ SSHLike(t1, t2)
  BY <1>2, <1>3, SSHOwn, LoadFields
<1>5. SSHAfter(d, e, p)
  BY <1>3, SSHFields
<1>6. HasLogFields(p) /\ HttpLike(d, p)
  BY <1>5 DEF SSHAfter
<1>7. Joined(p, r, t1, "http", "ssh")
  BY <1>1, <1>2, <1>3, SSHJoin
<1>8. HasSums(p) /\ HasSums(t1) /\ SumsOK(p)
  <2>1. e.at \in Nat /\ e.risk \in Nat /\ e.depth \in Nat /\ e.class \in Classes
    BY <1>1 DEF Row, IsScored, Classes
  <2>2. /\ Effect(d, p, "ssh", e.sid, e.at, e.risk, e.depth, e.class)
        /\ Effect(t, t1, "ssh", e.sid, e.at, e.risk, e.depth, e.class)
    BY <1>2, <1>3, SSHEffect DEF SumsOK
  <2> HIDE DEF p, t1
  <2>3. SumsOK(p)
    BY <1>3, <2>1, <2>2, EffectOK
  <2> QED BY <2>2, <2>3 DEF Effect
<1>9. t2 = PruneAbove(t1, MaxSessions + PruneSlack, MaxSessions)
  BY DEF LoadEvent, LoadSSHEvent
<1>10. d' = PruneAbove(p, most, target)
  OBVIOUS
<1> HIDE DEF p, t1, t2
<1>11. Alike(p, d') /\ SumsSame(p, d')
  BY <1>6, <1>8, <1>10, PruneAlike, PruneSums
<1>12. SumsSame(t1, t2) /\ SumsSame(r, r)
  BY <1>2, <1>8, <1>9, PruneSums DEF SumsSame, SumsOK
<1>13. Joined(d', r, t2, "http", "ssh")
  BY <1>7, <1>11, <1>12, JoinSame
<1>14. HasLogFields(d') /\ HttpLike(d', r)
  BY <1>3, <1>6, <1>11 DEF Alike, HttpLike
<1>15. SSHLike(d', t2)
  BY <1>4, <1>11 DEF Alike, SSHLike
<1>16. SumsOK(d')
  BY <1>8, <1>11, SameSums
<1> QED BY <1>1, <1>13, <1>14, <1>15, <1>16 DEF Replayed

LEMMA ReplayedStart ==
  ASSUME FilesInv, Restart
  PROVE  Replayed'
<1> DEFINE ls == Relieve(pruneJSONLPaths(logs, clock - Retention))
           p == Load(ls)
           q == PruneAbove(p, MaxSessions, MaxSessions)
           r == LoadLog(NoProfile, 1, ls[1])
           t == LoadLog(NoProfile, 2, ls[2])
<1>1. kept' = ls /\ d' = initSSH(p)
  BY DEF Restart, StartFrom, StartWith
<1>2. LogsOK(ls)
  BY SweptLogs DEF FilesInv
<1> HIDE DEF ls
<1>3. \A i \in 1 .. 3 : Len(ls[i]) \in Nat
  BY <1>2 DEF LogsOK, LogOK
<1>4. HasLogFields(p) /\ HttpLike(p, r) /\ SSHLike(p, t)
  BY <1>3, LoadOwn
<1>5. SumsOK(p) /\ Joined(p, r, t, "http", "ssh")
  BY <1>2, LoadIsJoined
<1>6. Own(1)' = r /\ Own(2)' = t
  BY <1>1 DEF Own
<1>7. d' = [q EXCEPT !.sessions = [s \in DOMAIN @ |-> [@[s] EXCEPT !.active = FALSE]]]
  BY <1>1 DEF initSSH
<1>8. SumsOK(r) /\ SumsOK(t)
  BY <1>2, EmptyFields, EmptySums, LoadSums DEF LogsOK
<1> HIDE DEF p, r, t
<1>9. Alike(p, q) /\ SumsSame(p, q)
  BY <1>4, <1>5, PruneAlike, PruneSums DEF SumsOK
<1> HIDE DEF q
<1>10. Alike(q, d')
  BY <1>7, <1>9 DEF Alike, HttpLike, SSHLike, HasLogFields, OfHttp, OfSSH
<1>11. SumsSame(q, d')
  BY <1>7, <1>9 DEF SumsSame, HasSums, Sums
<1>12. SumsSame(p, d')
  BY <1>9, <1>11, SumsTrans
<1>13. HasLogFields(d') /\ HttpLike(d', r) /\ SSHLike(d', t)
  BY <1>4, <1>9, <1>10 DEF Alike, HttpLike, SSHLike
<1>14. SumsSame(r, r) /\ SumsSame(t, t)
  BY <1>8 DEF SumsSame, SumsOK
<1>15. SumsOK(d') /\ Joined(d', r, t, "http", "ssh")
  BY <1>5, <1>12, <1>14, SameSums, JoinSame
<1> QED BY <1>6, <1>13, <1>15 DEF Replayed

LEMMA ReplayedStep == Replayed /\ FilesInv /\ FilesInv' /\ [Next]_vars => Replayed'
<1> SUFFICES ASSUME Replayed, FilesInv, FilesInv', [Next]_vars PROVE Replayed'
  OBVIOUS
<1>1. HasLogFields(d) /\ HasSums(d) /\ LogsOK(kept) /\ LogsOK(kept')
  BY DEF Replayed, SumsOK, FilesInv
<1>2. Alike(d, d) /\ SumsSame(d, d)
  BY <1>1 DEF Alike, HttpLike, SSHLike, SumsSame
<1>3. SumsOK(Own(1)) /\ SumsOK(Own(2))
  BY <1>1, OwnFields
<1>4. ASSUME kept'[1] = kept[1], kept'[2] = kept[2], Alike(d, d'), SumsSame(d, d') PROVE Replayed'
  <2>1. Own(1)' = Own(1) /\ Own(2)' = Own(2)
    BY <1>4 DEF Own
  <2> QED BY <1>3, <1>4, <2>1, ReplayedAlike
<1>5. ASSUME kept' = kept, d' = d PROVE Replayed'
  <2>1. Alike(d, d') /\ SumsSame(d, d')
    BY <1>2, <1>5
  <2> QED BY <1>4, <1>5, <2>1
<1>6. CASE UNCHANGED vars
  BY <1>5, <1>6 DEF vars, history
<1>7. ASSUME NEW step, NEW r, AddEvent(r, step) PROVE Replayed'
  <2>1. PICK e, signals : Handle(e, signals)
    BY <1>7 DEF AddEvent, Receive
  <2> DEFINE p == ApplyHTTPActorFingerprint(d, e, signals)
  <2>2. Alike(d, p) /\ SumsSame(d, p)
    BY <1>1, FingerprintAlike, FingerprintSums
  <2>3. \/ Logged(1, e) /\ d' = ApplyEvent(p, e)
        \/ NotLogged /\ d' = p
    BY <2>1 DEF Handle
  <2> HIDE DEF p
  <2>4. CASE Logged(1, e) /\ d' = ApplyEvent(p, e)
    BY <1>1, <2>2, <2>4, ReplayedHttp
  <2>5. CASE NotLogged /\ d' = p
    BY <1>4, <2>2, <2>5 DEF NotLogged
  <2> QED BY <2>3, <2>4, <2>5
<1>8. ASSUME NEW step, NEW r, AddSSHEvent(r, step) PROVE Replayed'
  <2> DEFINE e == Stamped(r)
  <2>1. \/ /\ Logged(2, e)
           /\ d' = PruneAbove(ApplySSHEvent(d, e), MaxSessions, MaxSessions - PruneSlack)
        \/ NotLogged /\ d' = d
    BY <1>8 DEF AddSSHEvent
  <2> HIDE DEF e
  <2>2. CASE NotLogged /\ d' = d
    BY <1>5, <2>2 DEF NotLogged
  <2>3. CASE /\ Logged(2, e)
             /\ d' = PruneAbove(ApplySSHEvent(d, e), MaxSessions, MaxSessions - PruneSlack)
    BY <1>1, <2>3, ReplayedSSH
  <2> QED BY <2>1, <2>2, <2>3
<1>9. ASSUME NEW step, NEW r, AddIntelSignal(r, step) PROVE Replayed'
  <2> DEFINE e == Stamped(r)
  <2>1. (Logged(3, e) /\ d' = ApplyIntel(d, e)) \/ (NotLogged /\ d' = d)
    BY <1>9 DEF AddIntelSignal
  <2> HIDE DEF e
  <2>2. CASE NotLogged /\ d' = d
    BY <1>5, <2>2 DEF NotLogged
  <2>3. CASE Logged(3, e) /\ d' = ApplyIntel(d, e)
    <3>1. kept'[1] = kept[1] /\ kept'[2] = kept[2]
      BY <1>1, <2>3, KeptLogged
    <3>2. Alike(d, d') /\ SumsSame(d, d')
      BY <1>1, <2>3, IntelAlike, IntelSums
    <3> QED BY <1>4, <3>1, <3>2
  <2> QED BY <2>1, <2>2, <2>3
<1>10. CASE SSHHighlights
  <2>1. PICK x : d' = [d EXCEPT !.highlights = x]
    BY <1>10 DEF SSHHighlights
  <2>2. Alike(d, d') /\ SumsSame(d, d') /\ kept' = kept
    BY <1>1, <1>10, <2>1 DEF SSHHighlights, Alike, HttpLike, SSHLike, HasLogFields, OfHttp, OfSSH,
                             SumsSame, HasSums, Sums
  <2> QED BY <1>4, <2>2
<1>11. CASE pruneExpired
  <2>1. PICK x, y : d' = [d EXCEPT !.counts = x, !.history = y]
    BY <1>11 DEF pruneExpired
  <2>2. Alike(d, d') /\ SumsSame(d, d') /\ kept' = kept
    BY <1>1, <1>11, <2>1 DEF pruneExpired, Alike, HttpLike, SSHLike, HasLogFields, OfHttp, OfSSH,
                             SumsSame, HasSums, Sums
  <2> QED BY <1>4, <2>2
<1>12. CASE Restart
  BY <1>12, ReplayedStart
<1>13. ASSUME NEW sid \in Sids, Panic(sid) PROVE Replayed'
  BY <1>5, <1>13 DEF Panic
<1> QED BY <1>6, <1>7, <1>8, <1>9, <1>10, <1>11, <1>12, <1>13 DEF Next, Add

\* The first part of ReplayFaithful without any of its exceptions.
FieldsRebuilt == FieldsFrom(Load(kept))

\* In every state, whatever order requests, SSH events and signals came in, with
\* failed writes, sweeps and starts between them and however many sessions were
\* removed: protocols, risk, depth, class, engagement, activity spans, request
\* sequences, sightings, user agents, claims, user names, attempt rates, revisit
\* rhythm and last command are what NewWithRetention would rebuild from the same
\* events, all requests first and all SSH events last.  For any logs.
THEOREM FieldsReplay == Spec => []FieldsRebuilt
<1>1. FilesInv /\ Replayed => FieldsRebuilt
  <2> SUFFICES ASSUME FilesInv, Replayed PROVE FieldsRebuilt
    OBVIOUS
  <2> DEFINE p == Load(kept)
             r == LoadLog(NoProfile, 1, kept[1])
             t == LoadLog(NoProfile, 2, kept[2])
  <2>1. LogsOK(kept) /\ \A i \in 1 .. 3 : Len(kept[i]) \in Nat
    BY DEF FilesInv, LogsOK, LogOK
  <2>2. HttpLike(p, r) /\ SSHLike(p, t)
    BY <2>1, LoadOwn
  <2>3. SumsOK(p) /\ Joined(p, r, t, "http", "ssh")
    BY <2>1, LoadIsJoined
  <2>4. HttpLike(d, r) /\ SSHLike(d, t) /\ SumsOK(d) /\ Joined(d, r, t, "http", "ssh")
    BY DEF Replayed, Own
  <2> HIDE DEF p, r, t
  <2>5. HttpLike(d, p) /\ SSHLike(d, p)
    BY <2>2, <2>4 DEF HttpLike, SSHLike
  <2>6. SumsSame(d, p)
    BY <2>3, <2>4, JoinedOnce
  <2>7. \A f \in Rebuilt : d[f] = p[f]
    BY <2>5, <2>6 DEF HttpLike, SSHLike, SumsSame, Rebuilt
  <2> QED BY <2>7 DEF FieldsRebuilt, FieldsFrom, p
<1> QED BY <1>1, ReplayedInit, ReplayedStep, FilesAlways, PTL DEF Spec
=============================================================================
