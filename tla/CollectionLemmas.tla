-------------------------- MODULE CollectionLemmas --------------------------
(***************************************************************************)
(* Facts about the lists and maps the models are built from: what linking, *)
(* unlinking, pushing and popping do to the elements of a list that has no *)
(* repetitions, and what Put and Erase do to the type of a map.            *)
(***************************************************************************)
EXTENDS Integers, SequencesExt, Maps, FiniteSetTheorems, SequenceTheorems, TLAPS

(* A list without repetitions is as long as the set of what is on it.      *)
LEMMA InjectiveLength ==
  ASSUME NEW S, NEW s \in Seq(S), IsInjective(s)
  PROVE  IsFiniteSet(Range(s)) /\ Cardinality(Range(s)) = Len(s)
<1>1. Len(s) \in Nat /\ DOMAIN s = 1 .. Len(s)
  OBVIOUS
<1>2. s \in Bijection(1 .. Len(s), Range(s))
  BY <1>1 DEF IsInjective, Range, Bijection, Injection, Surjection
<1>3. IsFiniteSet(1 .. Len(s)) /\ Cardinality(1 .. Len(s)) = Len(s)
  BY <1>1, FS_Interval
<1>. QED  BY <1>2, <1>3, FS_Bijection DEF ExistsBijection

(* Unlinking the i-th node of a list leaves the others in their order.     *)
LEMMA RemoveAtElements ==
  ASSUME NEW S, NEW s \in Seq(S), NEW i \in 1 .. Len(s)
  PROVE  /\ RemoveAt(s, i) \in Seq(S)
         /\ Len(RemoveAt(s, i)) = Len(s) - 1
         /\ \A j \in 1 .. Len(s) - 1 :
              RemoveAt(s, i)[j] = IF j < i THEN s[j] ELSE s[j + 1]
<1>. DEFINE a == SubSeq(s, 1, i - 1)
            b == SubSeq(s, i + 1, Len(s))
<1>1. /\ a \in Seq(S) /\ Len(a) = i - 1
      /\ \A j \in 1 .. i - 1 : a[j] = s[j]
  OBVIOUS
<1>2. /\ b \in Seq(S) /\ Len(b) = Len(s) - i
      /\ \A j \in 1 .. Len(s) - i : b[j] = s[i + j]
  OBVIOUS
<1>3. /\ a \o b \in Seq(S) /\ Len(a \o b) = Len(s) - 1
      /\ \A j \in 1 .. Len(s) - 1 :
           (a \o b)[j] = IF j <= i - 1 THEN a[j] ELSE b[j - (i - 1)]
  <2>. HIDE DEF a, b
  <2>1. /\ a \o b \in Seq(S) /\ Len(a \o b) = Len(a) + Len(b)
        /\ \A j \in 1 .. Len(a) + Len(b) :
             (a \o b)[j] = IF j <= Len(a) THEN a[j] ELSE b[j - Len(a)]
    BY <1>1, <1>2, ConcatProperties
  <2>2. Len(a) + Len(b) = Len(s) - 1
    BY <1>1, <1>2
  <2>. QED  BY <1>1, <2>1, <2>2
<1>4. ASSUME NEW j \in 1 .. Len(s) - 1
      PROVE  (a \o b)[j] = IF j < i THEN s[j] ELSE s[j + 1]
  <2>. HIDE DEF a, b
  <2>. QED  BY <1>1, <1>2, <1>3
<1>. QED  BY <1>3, <1>4 DEF RemoveAt

(* Unlinking a node takes its element, and no other, off the list.         *)
LEMMA UnlinkFromList ==
  ASSUME NEW S, NEW s \in Seq(S), IsInjective(s), NEW i \in 1 .. Len(s)
  PROVE  /\ IsInjective(RemoveAt(s, i))
         /\ Range(RemoveAt(s, i)) = Range(s) \ {s[i]}
<1>. DEFINE t == RemoveAt(s, i)
<1>1. /\ t \in Seq(S) /\ Len(t) = Len(s) - 1
      /\ \A j \in 1 .. Len(s) - 1 : t[j] = IF j < i THEN s[j] ELSE s[j + 1]
  BY RemoveAtElements
<1>. HIDE DEF t
<1>2. DOMAIN t = 1 .. Len(s) - 1 /\ DOMAIN s = 1 .. Len(s)
  BY <1>1
<1>3. \A j, k \in DOMAIN s : s[j] = s[k] => j = k
  BY DEF IsInjective
<1>4. IsInjective(t)
  <2>. DEFINE from(j) == IF j < i THEN j ELSE j + 1
  <2>1. \A j \in DOMAIN t : from(j) \in DOMAIN s /\ t[j] = s[from(j)]
    BY <1>1, <1>2
  <2>2. ASSUME NEW j \in DOMAIN t, NEW k \in DOMAIN t, t[j] = t[k]
        PROVE  j = k
    <3>1. from(j) = from(k)
      <4>. HIDE DEF from
      <4>. QED  BY <1>3, <2>1, <2>2
    <3>. QED  BY <3>1, <1>2
  <2>. QED  BY <2>2 DEF IsInjective
<1>5. \A j \in DOMAIN t : t[j] \in Range(s) \ {s[i]}
  BY <1>1, <1>2, <1>3 DEF Range
<1>6. ASSUME NEW x \in Range(s), x # s[i]
      PROVE  x \in Range(t)
  <2>1. PICK k \in DOMAIN s : s[k] = x
    BY DEF Range
  <2>2. CASE k < i
    BY <1>1, <1>2, <2>1, <2>2 DEF Range
  <2>3. CASE k > i
    <3>1. k - 1 \in DOMAIN t /\ t[k - 1] = s[k]
      BY <1>1, <1>2, <2>3
    <3>. QED  BY <2>1, <3>1 DEF Range
  <2>. QED  BY <1>6, <2>1, <2>2, <2>3, <1>2
<1>7. Range(t) = Range(s) \ {s[i]}
  BY <1>5, <1>6 DEF Range
<1>. QED  BY <1>4, <1>7 DEF t

(* Linking a node behind the head.                                         *)
LEMMA ConsElements ==
  ASSUME NEW S, NEW s \in Seq(S), NEW x \in S
  PROVE  /\ <<x>> \o s \in Seq(S)
         /\ Len(<<x>> \o s) = Len(s) + 1
         /\ (<<x>> \o s)[1] = x
         /\ \A j \in 1 .. Len(s) : (<<x>> \o s)[j + 1] = s[j]
         /\ Range(<<x>> \o s) = Range(s) \cup {x}
<1>. DEFINE h == <<x>>
            t == h \o s
<1>1. h \in Seq(S) /\ Len(h) = 1 /\ h[1] = x
  OBVIOUS
<1>. HIDE DEF h
<1>2. /\ t \in Seq(S) /\ Len(t) = 1 + Len(s)
      /\ \A j \in 1 .. 1 + Len(s) : t[j] = IF j <= 1 THEN h[j] ELSE s[j - 1]
  <2>1. /\ t \in Seq(S) /\ Len(t) = Len(h) + Len(s)
        /\ \A j \in 1 .. Len(h) + Len(s) :
             t[j] = IF j <= Len(h) THEN h[j] ELSE s[j - Len(h)]
    BY <1>1, ConcatProperties
  <2>. HIDE DEF t
  <2>. QED  BY <1>1, <2>1
<1>. HIDE DEF t
<1>3. t[1] = x /\ \A j \in 1 .. Len(s) : t[j + 1] = s[j]
  BY <1>1, <1>2
<1>4. DOMAIN t = 1 .. Len(s) + 1 /\ DOMAIN s = 1 .. Len(s) /\ Len(s) \in Nat
  BY <1>2
<1>5. \A j \in DOMAIN t : j = 1 \/ (j - 1 \in DOMAIN s /\ t[j] = s[j - 1])
  BY <1>2, <1>4
<1>6. Range(t) \subseteq Range(s) \cup {x}
  BY <1>3, <1>5 DEF Range
<1>7. ASSUME NEW y \in Range(s)
      PROVE  y \in Range(t)
  <2>1. PICK k \in DOMAIN s : s[k] = y
    BY DEF Range
  <2>2. k + 1 \in DOMAIN t /\ t[k + 1] = y
    BY <1>3, <1>4, <2>1
  <2>. QED  BY <2>2 DEF Range
<1>8. x \in Range(t)
  <2>1. 1 \in DOMAIN t
    BY <1>4
  <2>. QED  BY <1>3, <2>1 DEF Range
<1>9. Range(t) = Range(s) \cup {x}
  BY <1>6, <1>7, <1>8
<1>. QED  BY <1>2, <1>3, <1>9 DEF t, h

LEMMA ConsInjective ==
  ASSUME NEW S, NEW s \in Seq(S), IsInjective(s), NEW x \in S, x \notin Range(s)
  PROVE  IsInjective(<<x>> \o s)
<1>. DEFINE t == <<x>> \o s
<1>1. /\ t \in Seq(S) /\ Len(t) = Len(s) + 1 /\ t[1] = x
      /\ \A j \in 1 .. Len(s) : t[j + 1] = s[j]
  BY ConsElements
<1>. HIDE DEF t
<1>2. \A j, k \in 1 .. Len(s) : s[j] = s[k] => j = k
  BY DEF IsInjective
<1>3. \A j \in 1 .. Len(s) : s[j] # x
  BY DEF Range
<1>4. DOMAIN t = 1 .. Len(s) + 1 /\ Len(s) \in Nat
  BY <1>1
<1>5. \A j \in DOMAIN t : j # 1 => j - 1 \in 1 .. Len(s) /\ t[j] = s[j - 1]
  <2>. TAKE j \in DOMAIN t
  <2>1. HAVE j # 1
  <2>2. j - 1 \in 1 .. Len(s)
    BY <1>4, <2>1
  <2>3. t[(j - 1) + 1] = s[j - 1]
    BY <1>1, <2>2
  <2>4. (j - 1) + 1 = j
    BY <1>4
  <2>. QED  BY <2>2, <2>3, <2>4
<1>6. ASSUME NEW j \in DOMAIN t, NEW k \in DOMAIN t, t[j] = t[k]
      PROVE  j = k
  <2>1. CASE j = 1 /\ k # 1
    BY <1>1, <1>3, <1>5, <1>6, <2>1
  <2>2. CASE j # 1 /\ k = 1
    BY <1>1, <1>3, <1>5, <1>6, <2>2
  <2>3. CASE j # 1 /\ k # 1
    <3>1. j - 1 \in 1 .. Len(s) /\ k - 1 \in 1 .. Len(s) /\ s[j - 1] = s[k - 1]
      BY <1>5, <1>6, <2>3
    <3>2. j - 1 = k - 1
      BY <1>2, <3>1
    <3>. QED  BY <1>4, <3>2
  <2>. QED  BY <2>1, <2>2, <2>3
<1>. QED  BY <1>6 DEF IsInjective, t

(* Dropping the tail of a list, and taking the top of a stack.             *)
LEMMA FrontElements ==
  ASSUME NEW S, NEW s \in Seq(S), s # << >>
  PROVE  /\ Last(s) \in S /\ Last(s) \in Range(s)
         /\ Front(s) \in Seq(S) /\ Len(Front(s)) = Len(s) - 1
         /\ \A j \in 1 .. Len(s) - 1 : Front(s)[j] = s[j]
<1>1. Len(s) \in Nat /\ Len(s) # 0 /\ DOMAIN s = 1 .. Len(s)
  OBVIOUS
<1>2. Len(s) \in DOMAIN s
  BY <1>1
<1>3. Last(s) \in S /\ Last(s) \in Range(s)
  BY <1>2 DEF Last, Range
<1>4. /\ Front(s) \in Seq(S) /\ Len(Front(s)) = Len(s) - 1
      /\ \A j \in 1 .. Len(s) - 1 : Front(s)[j] = s[j]
  BY <1>1 DEF Front
<1>. QED  BY <1>3, <1>4

LEMMA FrontOfList ==
  ASSUME NEW S, NEW s \in Seq(S), s # << >>, IsInjective(s)
  PROVE  IsInjective(Front(s)) /\ Range(Front(s)) = Range(s) \ {Last(s)}
<1>. DEFINE t == Front(s)
<1>1. /\ t \in Seq(S) /\ Len(t) = Len(s) - 1
      /\ \A j \in 1 .. Len(s) - 1 : t[j] = s[j]
  BY FrontElements
<1>. HIDE DEF t
<1>2. /\ DOMAIN t = 1 .. Len(s) - 1 /\ DOMAIN s = 1 .. Len(s)
      /\ Len(s) \in Nat /\ Len(s) # 0
  BY <1>1
<1>3. \A j, k \in DOMAIN s : s[j] = s[k] => j = k
  BY DEF IsInjective
<1>4. IsInjective(t)
  BY <1>1, <1>2, <1>3 DEF IsInjective
<1>5. \A j \in DOMAIN t : t[j] \in Range(s) /\ t[j] # s[Len(s)]
  BY <1>1, <1>2, <1>3 DEF Range
<1>6. ASSUME NEW x \in Range(s), x # s[Len(s)]
      PROVE  x \in Range(t)
  <2>1. PICK k \in DOMAIN s : s[k] = x
    BY DEF Range
  <2>2. k \in DOMAIN t /\ t[k] = x
    BY <1>1, <1>2, <1>6, <2>1
  <2>. QED  BY <2>2 DEF Range
<1>7. Range(t) = Range(s) \ {s[Len(s)]}
  BY <1>5, <1>6 DEF Range
<1>. QED  BY <1>4, <1>7 DEF t, Last

(* Pushing an element on a stack that does not hold it.                    *)
LEMMA AppendToList ==
  ASSUME NEW S, NEW s \in Seq(S), NEW x \in S
  PROVE  /\ Append(s, x) \in Seq(S)
         /\ Range(Append(s, x)) = Range(s) \cup {x}
         /\ IsInjective(s) /\ x \notin Range(s) => IsInjective(Append(s, x))
<1>. DEFINE t == Append(s, x)
<1>1. /\ t \in Seq(S) /\ Len(t) = Len(s) + 1 /\ t[Len(s) + 1] = x
      /\ \A j \in 1 .. Len(s) : t[j] = s[j]
  BY AppendProperties
<1>. HIDE DEF t
<1>2. /\ DOMAIN t = 1 .. Len(s) + 1 /\ DOMAIN s = 1 .. Len(s) /\ Len(s) \in Nat
  BY <1>1
<1>3. \A j \in DOMAIN t : j = Len(s) + 1 \/ j \in DOMAIN s
  BY <1>2
<1>4. Len(s) + 1 \in DOMAIN t /\ \A j \in DOMAIN s : j \in DOMAIN t
  BY <1>2
<1>5. Range(t) = Range(s) \cup {x}
  <2>1. Range(t) \subseteq Range(s) \cup {x}
    BY <1>1, <1>2, <1>3 DEF Range
  <2>2. Range(s) \subseteq Range(t)
    BY <1>1, <1>2, <1>4 DEF Range
  <2>3. x \in Range(t)
    BY <1>1, <1>4 DEF Range
  <2>. QED  BY <2>1, <2>2, <2>3
<1>6. ASSUME IsInjective(s), x \notin Range(s),
             NEW j \in DOMAIN t, NEW k \in DOMAIN t, t[j] = t[k]
      PROVE  j = k
  <2>1. \A i \in DOMAIN s : s[i] # x
    BY <1>6 DEF Range
  <2>2. \A i, l \in DOMAIN s : s[i] = s[l] => i = l
    BY <1>6 DEF IsInjective
  <2>. QED  BY <1>1, <1>2, <1>3, <1>6, <2>1, <2>2
<1>. QED  BY <1>1, <1>5, <1>6 DEF t, IsInjective

(* A set of numbers that is not empty has a least one.                     *)
LEMMA LeastNumber ==
  ASSUME NEW S \in SUBSET Nat, S # {}
  PROVE  \E x \in S : \A y \in S : x <= y
<1>1. IsWellFoundedOn(OpToRel(<, Nat), Nat)
  BY NatLessThanWellFounded
<1>2. PICK x \in S : \A y \in S : ~ (<<y, x>> \in OpToRel(<, Nat))
  BY <1>1, WFMin, Zenon
<1>3. \A y \in S : ~ (y < x)
  BY <1>2 DEF OpToRel
<1>. QED  BY <1>3

(* A set of numbers that has a bound has a greatest one.                   *)
LEMMA GreatestNumber ==
  ASSUME NEW S \in SUBSET Nat, S # {}, NEW n \in Nat, \A k \in S : k <= n
  PROVE  \E x \in S : \A y \in S : x >= y
<1>. DEFINE T == {n - k : k \in S}
<1>1. T \subseteq Nat /\ T # {}
  <2>1. \A k \in S : n - k \in Nat
    OBVIOUS
  <2>2. PICK k \in S : TRUE
    OBVIOUS
  <2>3. n - k \in T
    BY <2>2
  <2>. QED  BY <2>1, <2>3
<1>2. PICK x \in T : \A y \in T : x <= y
  <2>. HIDE DEF T
  <2>. QED  BY <1>1, LeastNumber
<1>3. PICK k \in S : x = n - k
  OBVIOUS
<1>4. \A y \in S : n - y \in T
  OBVIOUS
<1>. HIDE DEF T
<1>5. \A y \in S : k >= y
  BY <1>2, <1>3, <1>4
<1>. QED  BY <1>5

(* A step taken N times from a: what a recursive definition on 0..N gives, *)
(* when a step leads from D to D.                                          *)
Steps(D, g) == g \in [D -> D]

IsRun(f, D, g, a, N) ==
  f \in [0 .. N -> D] /\ f[0] = a /\ \A n \in 1 .. N : f[n] = g[f[n - 1]]

LEMMA Iterates ==
  ASSUME NEW D, NEW g, Steps(D, g), NEW a \in D, NEW N \in Nat
  PROVE  \E f : IsRun(f, D, g, a, N)
<1>. USE DEF Steps
<1>. DEFINE runs(k) == {f \in [0 .. k -> D] : f[0] = a /\ \A n \in 1 .. k : f[n] = g[f[n - 1]]}
            S == {k \in Nat : runs(k) = {}}
<1>1. S = {}
  <2>. SUFFICES ASSUME S # {} PROVE FALSE
    OBVIOUS
  <2>1. PICK k \in S : \A l \in S : k <= l
    <3>1. S \in SUBSET Nat
      OBVIOUS
    <3>. HIDE DEF S
    <3>. QED  BY <3>1, LeastNumber
  <2>2. k \in Nat /\ runs(k) = {}
    OBVIOUS
  <2>3. k # 0
    <3>. DEFINE f == [n \in 0 .. 0 |-> a]
    <3>1. f \in [0 .. 0 -> D] /\ f[0] = a /\ 1 .. 0 = {}
      OBVIOUS
    <3>2. f \in runs(0)
      BY <3>1
    <3>. QED  BY <2>2, <3>2
  <2>4. k - 1 \in Nat /\ k - 1 \notin S
    <3>. HIDE DEF S
    <3>. QED  BY <2>1, <2>2, <2>3
  <2>5. PICK f \in [0 .. k - 1 -> D] :
          f[0] = a /\ \A n \in 1 .. k - 1 : f[n] = g[f[n - 1]]
    BY <2>4
  <2>. DEFINE h == [n \in 0 .. k |-> IF n = k THEN g[f[k - 1]] ELSE f[n]]
  <2>6. k - 1 \in 0 .. k - 1 /\ \A n \in 0 .. k : n # k => n \in 0 .. k - 1
    BY <2>2, <2>4
  <2>7. h \in [0 .. k -> D]
    BY <2>5, <2>6
  <2>8. h[0] = a
    BY <2>2, <2>3, <2>5
  <2>9. ASSUME NEW n \in 1 .. k PROVE h[n] = g[h[n - 1]]
    <3>1. n \in 0 .. k /\ n - 1 \in 0 .. k /\ n - 1 # k /\ (n # k => n \in 1 .. k - 1)
      BY <2>2
    <3>2. h[n - 1] = f[n - 1]
      BY <3>1
    <3>3. CASE n = k
      BY <3>1, <3>2, <3>3
    <3>4. CASE n # k
      BY <2>5, <3>1, <3>2, <3>4
    <3>. QED  BY <3>3, <3>4
  <2>10. h \in runs(k)
    BY <2>7, <2>8, <2>9
  <2>. QED  BY <2>2, <2>10
<1>2. runs(N) # {}
  BY <1>1
<1>. QED  BY <1>2 DEF IsRun

LEMMA FirstNumbers ==
  ASSUME NEW n \in Nat
  PROVE  IsFiniteSet(1 .. n) /\ Cardinality(1 .. n) = n
<1>1. Cardinality(1 .. n) = IF 1 > n THEN 0 ELSE n - 1 + 1
  BY FS_Interval
<1>2. IsFiniteSet(1 .. n)
  BY FS_Interval
<1>. QED  BY <1>1, <1>2

(* More steps than a finite set has elements: two of them meet.            *)
LEMMA TwoMeet ==
  ASSUME NEW S, IsFiniteSet(S), NEW N \in Nat, Cardinality(S) < N, NEW f \in [1 .. N -> S]
  PROVE  \E m, n \in 1 .. N : m < n /\ f[m] = f[n]
<1>1. IsFiniteSet(1 .. N) /\ Cardinality(1 .. N) = N
  BY FS_Interval
<1>2. PICK x, y \in 1 .. N : x # y /\ f[x] = f[y]
  BY <1>1, FS_PigeonHole
<1>3. x < y \/ y < x
  BY <1>2
<1>. QED  BY <1>2, <1>3

---------------------------------------------------------------------------
(* Maps.                                                                   *)

LEMMA EmptyMapType ==
  ASSUME NEW K, NEW V
  PROVE  EmptyMap \in MapOf(K, V) /\ DOMAIN EmptyMap = {}
BY DEF EmptyMap, MapOf

LEMMA MapType ==
  ASSUME NEW K, NEW V, NEW m \in MapOf(K, V)
  PROVE  /\ DOMAIN m \subseteq K
         /\ m \in [DOMAIN m -> V]
         /\ \A k \in DOMAIN m : m[k] \in V
BY DEF MapOf

LEMMA PutType ==
  ASSUME NEW K, NEW V, NEW m \in MapOf(K, V), NEW k \in K, NEW v \in V
  PROVE  /\ Put(m, k, v) \in MapOf(K, V)
         /\ DOMAIN Put(m, k, v) = DOMAIN m \cup {k}
         /\ Put(m, k, v)[k] = v
         /\ \A x \in DOMAIN m : x # k => Put(m, k, v)[x] = m[x]
<1>1. DOMAIN m \subseteq K /\ \A x \in DOMAIN m : m[x] \in V
  BY MapType
<1>2. Put(m, k, v) \in [DOMAIN m \cup {k} -> V]
  BY <1>1 DEF Put
<1>3. DOMAIN m \cup {k} \in SUBSET K
  BY <1>1
<1>. QED  BY <1>2, <1>3 DEF MapOf, Put

LEMMA EraseType ==
  ASSUME NEW K, NEW V, NEW m \in MapOf(K, V), NEW k \in K
  PROVE  /\ Erase(m, k) \in MapOf(K, V)
         /\ DOMAIN Erase(m, k) = DOMAIN m \ {k}
         /\ \A x \in DOMAIN m : x # k => Erase(m, k)[x] = m[x]
<1>1. DOMAIN m \subseteq K /\ \A x \in DOMAIN m : m[x] \in V
  BY MapType
<1>2. Erase(m, k) \in [DOMAIN m \ {k} -> V]
  BY <1>1 DEF Erase, Restrict
<1>3. DOMAIN m \ {k} \in SUBSET K
  BY <1>1
<1>. QED  BY <1>2, <1>3 DEF MapOf, Erase, Restrict

LEMMA RestrictType ==
  ASSUME NEW K, NEW V, NEW m \in MapOf(K, V), NEW S
  PROVE  Restrict(m, DOMAIN m \cap S) \in MapOf(K, V)
<1>1. DOMAIN m \subseteq K /\ \A x \in DOMAIN m : m[x] \in V
  BY MapType
<1>2. Restrict(m, DOMAIN m \cap S) \in [DOMAIN m \cap S -> V]
  BY <1>1 DEF Restrict
<1>3. DOMAIN m \cap S \in SUBSET K
  BY <1>1
<1>. QED  BY <1>2, <1>3 DEF MapOf
=============================================================================
