-------------------------- MODULE IndexUnit_proofs --------------------------
(***************************************************************************)
(* Proofs about the indexes, for every set of keys, every size of the hash *)
(* table and of its pages and every history: the inductive invariant IInv, *)
(* and from it that the hash index finds what it was told.  The tree's     *)
(* steps are part of the system the theorems are about; what the tree      *)
(* finds is not.                                                           *)
(***************************************************************************)
EXTENDS IndexUnit, CollectionLemmas

(* What a chain holds, and what the history of an index is made of.        *)
Entries == [key : Keys, rid : Nat]

---------------------------------------------------------------------------
(* Recursive functions.                                                    *)

Turns(D, N, g) == g \in [1 .. N -> [D -> D]]

Unfolding(f, D, N, g, a) ==
  f \in [0 .. N -> D] /\ f[0] = a /\ \A n \in 1 .. N : f[n] = g[n][f[n - 1]]

(* A function that is given at 0, and at each number by a step from the    *)
(* number before, exists.                                                  *)
LEMMA Unfolds ==
  ASSUME NEW D, NEW N \in Nat, NEW g, Turns(D, N, g), NEW a \in D
  PROVE  \E f : Unfolding(f, D, N, g, a)
<1>. USE DEF Turns
<1>. DEFINE runs(k) == {f \in [0 .. k -> D] :
                          f[0] = a /\ \A n \in 1 .. k : f[n] = g[n][f[n - 1]]}
            S == {k \in 0 .. N : runs(k) = {}}
<1>1. S = {}
  <2>. SUFFICES ASSUME S # {} PROVE FALSE
    OBVIOUS
  <2>1. PICK k \in S : \A l \in S : k <= l
    <3>1. S \in SUBSET Nat
      OBVIOUS
    <3>. HIDE DEF S
    <3>. QED  BY <3>1, LeastNumber
  <2>2. k \in 0 .. N /\ runs(k) = {}
    OBVIOUS
  <2>3. k # 0
    <3>. DEFINE f == [n \in 0 .. 0 |-> a]
    <3>1. f \in [0 .. 0 -> D] /\ f[0] = a /\ 1 .. 0 = {}
      OBVIOUS
    <3>2. f \in runs(0)
      BY <3>1
    <3>. QED  BY <2>2, <3>2
  <2>4. k - 1 \in 0 .. N /\ k - 1 \notin S /\ k \in 1 .. N
    <3>. HIDE DEF S
    <3>. QED  BY <2>1, <2>2, <2>3
  <2>5. PICK f \in [0 .. k - 1 -> D] :
          f[0] = a /\ \A n \in 1 .. k - 1 : f[n] = g[n][f[n - 1]]
    BY <2>4
  <2>. DEFINE h == [n \in 0 .. k |-> IF n = k THEN g[k][f[k - 1]] ELSE f[n]]
  <2>6. k - 1 \in 0 .. k - 1 /\ \A n \in 0 .. k : n # k => n \in 0 .. k - 1
    BY <2>2, <2>4
  <2>7. h \in [0 .. k -> D]
    <3>1. f[k - 1] \in D /\ g[k] \in [D -> D]
      BY <2>4, <2>5, <2>6
    <3>. QED  BY <2>5, <2>6, <3>1
  <2>8. h[0] = a
    BY <2>2, <2>3, <2>5
  <2>9. ASSUME NEW n \in 1 .. k PROVE h[n] = g[n][h[n - 1]]
    <3>1. n \in 0 .. k /\ n - 1 \in 0 .. k /\ n - 1 # k /\ (n # k => n \in 1 .. k - 1)
      BY <2>2
    <3>2. h[n - 1] = f[n - 1]
      BY <3>1
    <3>3. CASE n = k
      BY <3>1, <3>2, <3>3
    <3>4. CASE n # k
      BY <2>5, <3>1, <3>2, <3>4
    <3>. QED  BY <3>3, <3>4
  <2>10. h \in runs(k)
    BY <2>7, <2>8, <2>9
  <2>. QED  BY <2>2, <2>10
<1>2. runs(N) # {}
  <2>1. N \in 0 .. N
    OBVIOUS
  <2>2. N \notin S
    <3>. HIDE DEF S
    <3>. QED  BY <1>1
  <2>. QED  BY <2>1, <2>2
<1>. QED  BY <1>2 DEF Unfolding

---------------------------------------------------------------------------
(* The rids under a key.                                                   *)

FoundIn(s, key) ==
  CHOOSE f : f = [n \in 0 .. Len(s) |->
                    IF n = 0 THEN << >>
                    ELSE IF s[n].key = key THEN Append(f[n - 1], s[n].rid) ELSE f[n - 1]]

FoundNext(found, e, key) == IF e.key = key THEN Append(found, e.rid) ELSE found

(* What the recursive function is.                                         *)
LEMMA FoundForm ==
  ASSUME NEW s \in Seq(Entries), NEW key
  PROVE  /\ RidsUnder(s, key) = FoundIn(s, key)[Len(s)]
         /\ FoundIn(s, key) \in [0 .. Len(s) -> Seq(Nat)]
         /\ FoundIn(s, key)[0] = << >>
         /\ \A n \in 1 .. Len(s) :
              FoundIn(s, key)[n] = FoundNext(FoundIn(s, key)[n - 1], s[n], key)
<1>. DEFINE N == Len(s)
            D == Seq(Nat)
            at == FoundIn(s, key)
            step(f) == [n \in 0 .. N |-> IF n = 0 THEN << >> ELSE FoundNext(f[n - 1], s[n], key)]
            g == [n \in 1 .. N |-> [x \in D |-> FoundNext(x, s[n], key)]]
<1>1. at = CHOOSE f : f = step(f)
  BY DEF FoundIn, FoundNext
<1>2. RidsUnder(s, key) = at[N]
  BY DEF RidsUnder, FoundIn
<1>3. N \in Nat /\ << >> \in D /\ \A n \in 1 .. N : s[n].rid \in Nat
  <2>1. \A n \in 1 .. N : s[n] \in Entries
    OBVIOUS
  <2>2. N \in Nat /\ << >> \in D
    OBVIOUS
  <2>. QED  BY <2>1, <2>2 DEF Entries
<1>4. Turns(D, N, g) /\ \A n \in 1 .. N, x \in D : g[n][x] = FoundNext(x, s[n], key)
  <2>1. \A n \in 1 .. N, x \in D : FoundNext(x, s[n], key) \in D
    BY <1>3 DEF FoundNext
  <2>. QED  BY <2>1 DEF Turns
<1>. HIDE DEF g, D
<1>5. PICK f : Unfolding(f, D, N, g, << >>)
  BY <1>3, <1>4, Unfolds
<1>6. \A n \in 0 .. N : n = 0 \/ (n \in 1 .. N /\ n - 1 \in 0 .. N)
  BY <1>3
<1>7. f \in [0 .. N -> D] /\ f[0] = << >>
      /\ \A n \in 1 .. N : f[n] = FoundNext(f[n - 1], s[n], key)
  BY <1>4, <1>5, <1>6 DEF Unfolding
<1>8. f = step(f)
  <2>1. \A n \in 0 .. N : f[n] = step(f)[n]
    BY <1>6, <1>7
  <2>. QED  BY <1>7, <2>1
<1>. HIDE DEF at
<1>9. at = step(at)
  BY <1>1, <1>8
<1>10. at[0] = << >> /\ \A n \in 1 .. N : at[n] = FoundNext(at[n - 1], s[n], key)
  <2>1. 0 \in 0 .. N /\ \A n \in 1 .. N : n \in 0 .. N /\ n # 0
    BY <1>3
  <2>2. \A n \in 0 .. N : at[n] = IF n = 0 THEN << >> ELSE FoundNext(at[n - 1], s[n], key)
    BY <1>9
  <2>. QED  BY <2>1, <2>2
<1>11. at = f
  <2>. DEFINE S == {n \in 0 .. N : at[n] # f[n]}
  <2>1. S = {}
    <3>. SUFFICES ASSUME S # {} PROVE FALSE
      OBVIOUS
    <3>1. S \in SUBSET Nat
      BY <1>3
    <3>2. PICK n \in S : \A k \in S : n <= k
      <4>. HIDE DEF S
      <4>. QED  BY <3>1, LeastNumber
    <3>3. n \in 1 .. N /\ n - 1 \in 0 .. N
      BY <1>6, <1>7, <1>10
    <3>4. n - 1 \notin S
      <4>. HIDE DEF S
      <4>. QED  BY <3>1, <3>2, <3>3
    <3>. QED  BY <1>7, <1>10, <3>3, <3>4
  <2>2. \A n \in 0 .. N : at[n] = f[n]
    BY <2>1
  <2>3. at = [n \in 0 .. N |-> at[n]]
    BY <1>9
  <2>. QED  BY <1>7, <2>2, <2>3
<1>. QED  BY <1>2, <1>7, <1>11 DEF at, D

LEMMA RidsType ==
  ASSUME NEW s \in Seq(Entries), NEW key
  PROVE  RidsUnder(s, key) \in Seq(Nat)
BY FoundForm

LEMMA RidsOfNone ==
  ASSUME NEW key
  PROVE  RidsUnder(<< >>, key) = << >>
<1>1. << >> \in Seq(Entries) /\ Len(<< >>) = 0
  OBVIOUS
<1>. QED  BY <1>1, FoundForm

(* Two sequences that begin alike.                                         *)
LEMMA FoundAlike ==
  ASSUME NEW s \in Seq(Entries), NEW r \in Seq(Entries), NEW key,
         NEW m \in 0 .. Len(s), m <= Len(r), \A n \in 1 .. m : s[n] = r[n]
  PROVE  FoundIn(s, key)[m] = FoundIn(r, key)[m]
<1>. DEFINE f == FoundIn(s, key)
            g == FoundIn(r, key)
            S == {n \in 0 .. m : f[n] # g[n]}
<1>1. /\ Len(s) \in Nat /\ Len(r) \in Nat /\ m \in Nat
      /\ f[0] = << >> /\ g[0] = << >>
      /\ \A n \in 1 .. m : f[n] = FoundNext(f[n - 1], s[n], key)
      /\ \A n \in 1 .. m : g[n] = FoundNext(g[n - 1], r[n], key)
  <2>1. Len(s) \in Nat /\ Len(r) \in Nat /\ m \in Nat
    OBVIOUS
  <2>2. \A n \in 1 .. m : n \in 1 .. Len(s) /\ n \in 1 .. Len(r)
    BY <2>1
  <2>. QED  BY <2>1, <2>2, FoundForm
<1>. HIDE DEF f, g
<1>2. S = {}
  <2>. SUFFICES ASSUME S # {} PROVE FALSE
    OBVIOUS
  <2>1. S \in SUBSET Nat
    BY <1>1
  <2>2. PICK n \in S : \A k \in S : n <= k
    <3>. HIDE DEF S
    <3>. QED  BY <2>1, LeastNumber
  <2>3. n \in 1 .. m /\ n - 1 \in 0 .. m
    BY <1>1
  <2>4. n - 1 \notin S
    <3>. HIDE DEF S
    <3>. QED  BY <2>1, <2>2, <2>3
  <2>. QED  BY <1>1, <2>3, <2>4
<1>3. m \in 0 .. m /\ m \notin S
  <2>1. m \in 0 .. m
    BY <1>1
  <2>2. m \notin S
    <3>. HIDE DEF S
    <3>. QED  BY <1>2
  <2>. QED  BY <2>1, <2>2
<1>. QED  BY <1>3 DEF f, g

LEMMA ConcatThenAppend ==
  ASSUME NEW s \in Seq(Nat), NEW r \in Seq(Nat), NEW x \in Nat
  PROVE  Append(s \o r, x) = s \o Append(r, x)
<1>1. <<x>> \in Seq(Nat) /\ s \o r \in Seq(Nat)
  OBVIOUS
<1>2. Append(s \o r, x) = (s \o r) \o <<x>> /\ Append(r, x) = r \o <<x>>
  BY <1>1, AppendIsConcat
<1>3. (s \o r) \o <<x>> = s \o (r \o <<x>>)
  BY <1>1, ConcatAssociative
<1>. QED  BY <1>2, <1>3

(* The rids under a key of two sequences one behind the other.             *)
LEMMA RidsOfBoth ==
  ASSUME NEW s \in Seq(Entries), NEW r \in Seq(Entries), NEW key
  PROVE  RidsUnder(s \o r, key) = RidsUnder(s, key) \o RidsUnder(r, key)
<1>. DEFINE q == s \o r
            N == Len(s)
            M == Len(r)
            f == FoundIn(q, key)
            g == FoundIn(r, key)
            rids == RidsUnder(s, key)
            S == {n \in 0 .. M : f[N + n] # rids \o g[n]}
<1>1. /\ N \in Nat /\ M \in Nat /\ q \in Seq(Entries) /\ Len(q) = N + M
      /\ \A n \in 1 .. N : q[n] = s[n]
      /\ \A n \in 1 .. M : q[N + n] = r[n]
  <2>1. \A n \in 1 .. M : q[N + n] = r[n]
    BY ConcatProperties
  <2>. QED  BY <2>1, ConcatProperties
<1>2. /\ rids \in Seq(Nat) /\ RidsUnder(q, key) = f[N + M] /\ RidsUnder(r, key) = g[M]
      /\ g \in [0 .. M -> Seq(Nat)] /\ g[0] = << >>
      /\ \A n \in 1 .. M : g[n] = FoundNext(g[n - 1], r[n], key)
  BY <1>1, FoundForm, RidsType
<1>3. \A n \in 1 .. M : f[N + n] = FoundNext(f[N + n - 1], r[n], key)
  <2>1. \A n \in 1 .. N + M : f[n] = FoundNext(f[n - 1], q[n], key)
    BY <1>1, FoundForm
  <2>2. \A n \in 1 .. M : N + n \in 1 .. N + M
    BY <1>1
  <2>. QED  BY <1>1, <2>1, <2>2
<1>4. f[N] = rids
  <2>1. N \in 0 .. Len(s) /\ N <= Len(q) /\ \A n \in 1 .. N : s[n] = q[n]
    BY <1>1
  <2>2. FoundIn(s, key)[N] = f[N]
    BY <1>1, <2>1, FoundAlike
  <2>. QED  BY <2>2, FoundForm
<1>5. \A n \in 1 .. M : r[n].rid \in Nat
  <2>1. \A n \in 1 .. M : r[n] \in Entries
    OBVIOUS
  <2>. QED  BY <2>1 DEF Entries
<1>. HIDE DEF q, N, M, f, g, rids
<1>6. S = {}
  <2>. SUFFICES ASSUME S # {} PROVE FALSE
    OBVIOUS
  <2>1. S \in SUBSET Nat
    BY <1>1
  <2>2. PICK n \in S : \A k \in S : n <= k
    <3>. HIDE DEF S
    <3>. QED  BY <2>1, LeastNumber
  <2>3. n \in 0 .. M /\ f[N + n] # rids \o g[n]
    BY <2>2
  <2>4. n # 0
    <3>1. rids \o << >> = rids /\ N + 0 = N
      BY <1>1, <1>2
    <3>. QED  BY <1>2, <1>4, <2>3, <3>1
  <2>5. n \in 1 .. M /\ n - 1 \in 0 .. M /\ N + (n - 1) = N + n - 1
    BY <1>1, <2>3, <2>4
  <2>6. n - 1 \notin S
    <3>. HIDE DEF S
    <3>. QED  BY <2>1, <2>2, <2>5
  <2>7. f[N + n - 1] = rids \o g[n - 1]
    BY <2>5, <2>6
  <2>8. FoundNext(rids \o g[n - 1], r[n], key) = rids \o FoundNext(g[n - 1], r[n], key)
    <3>. DEFINE x == g[n - 1]
                rid == r[n].rid
    <3>1. rids \in Seq(Nat) /\ x \in Seq(Nat) /\ rid \in Nat
      BY <1>2, <1>5, <2>5
    <3>. HIDE DEF x, rid
    <3>2. Append(rids \o x, rid) = rids \o Append(x, rid)
      BY <3>1, ConcatThenAppend
    <3>. QED  BY <3>2 DEF FoundNext, x, rid
  <2>. QED  BY <1>2, <1>3, <2>3, <2>5, <2>7, <2>8
<1>7. f[N + M] = rids \o g[M]
  <2>1. M \in 0 .. M
    BY <1>1
  <2>2. M \notin S
    <3>. HIDE DEF S
    <3>. QED  BY <1>6
  <2>. QED  BY <2>1, <2>2
<1>. QED  BY <1>2, <1>7 DEF q, rids

LEMMA RidsOfOne ==
  ASSUME NEW e \in Entries, NEW key
  PROVE  RidsUnder(<<e>>, key) = IF e.key = key THEN <<e.rid>> ELSE << >>
<1>1. <<e>> \in Seq(Entries) /\ Len(<<e>>) = 1 /\ <<e>>[1] = e /\ 1 \in 1 .. 1 /\ 1 - 1 = 0
  OBVIOUS
<1>. DEFINE s == <<e>>
<1>. HIDE DEF s
<1>2. RidsUnder(s, key) = FoundNext(<< >>, e, key)
  <2>1. s \in Seq(Entries) /\ Len(s) = 1 /\ s[1] = e
    BY <1>1 DEF s
  <2>2. FoundIn(s, key)[1] = FoundNext(FoundIn(s, key)[0], s[1], key)
    BY <1>1, <2>1, FoundForm
  <2>. QED  BY <2>1, <2>2, FoundForm
<1>3. Append(<< >>, e.rid) = <<e.rid>>
  OBVIOUS
<1>. QED  BY <1>2, <1>3 DEF FoundNext, s

LEMMA RidsOfMore ==
  ASSUME NEW s \in Seq(Entries), NEW e \in Entries, NEW key
  PROVE  RidsUnder(Append(s, e), key) =
           IF e.key = key THEN Append(RidsUnder(s, key), e.rid) ELSE RidsUnder(s, key)
<1>. DEFINE one == <<e>>
<1>1. Append(s, e) = s \o one /\ one \in Seq(Entries)
  BY AppendIsConcat
<1>2. RidsUnder(Append(s, e), key) = RidsUnder(s, key) \o RidsUnder(one, key)
  <2>. HIDE DEF one
  <2>1. RidsUnder(s \o one, key) = RidsUnder(s, key) \o RidsUnder(one, key)
    BY <1>1, RidsOfBoth
  <2>. QED  BY <1>1, <2>1
<1>3. RidsUnder(s, key) \in Seq(Nat) /\ e.rid \in Nat
  BY RidsType DEF Entries
<1>4. /\ RidsUnder(s, key) \o <<e.rid>> = Append(RidsUnder(s, key), e.rid)
      /\ RidsUnder(s, key) \o << >> = RidsUnder(s, key)
  BY <1>3
<1>. QED  BY <1>2, <1>4, RidsOfOne

(* A sequence without the key has no rids under it, and only such a one.   *)
LEMMA RidsOfStrangers ==
  ASSUME NEW s \in Seq(Entries), NEW key, \A n \in 1 .. Len(s) : s[n].key # key
  PROVE  RidsUnder(s, key) = << >>
<1>. DEFINE N == Len(s)
            f == FoundIn(s, key)
            S == {n \in 0 .. N : f[n] # << >>}
<1>1. /\ N \in Nat /\ RidsUnder(s, key) = f[N] /\ f[0] = << >>
      /\ \A n \in 1 .. N : f[n] = f[n - 1]
  BY FoundForm DEF FoundNext
<1>. HIDE DEF N, f
<1>2. S = {}
  <2>. SUFFICES ASSUME S # {} PROVE FALSE
    OBVIOUS
  <2>1. S \in SUBSET Nat
    BY <1>1
  <2>2. PICK n \in S : \A k \in S : n <= k
    <3>. HIDE DEF S
    <3>. QED  BY <2>1, LeastNumber
  <2>3. n \in 1 .. N /\ n - 1 \in 0 .. N
    BY <1>1
  <2>4. n - 1 \notin S
    <3>. HIDE DEF S
    <3>. QED  BY <2>1, <2>2, <2>3
  <2>. QED  BY <1>1, <2>3, <2>4
<1>3. N \in 0 .. N /\ N \notin S
  <2>1. N \in 0 .. N
    BY <1>1
  <2>2. N \notin S
    <3>. HIDE DEF S
    <3>. QED  BY <1>2
  <2>. QED  BY <2>1, <2>2
<1>. QED  BY <1>1, <1>3

(* What is before an entry, the entry, and what is behind it.              *)
Before(s, n) == SubSeq(s, 1, n - 1)
Behind(s, n) == SubSeq(s, n + 1, Len(s))

LEMMA Parts ==
  ASSUME NEW s \in Seq(Entries), NEW n \in 1 .. Len(s)
  PROVE  /\ Before(s, n) \in Seq(Entries) /\ Behind(s, n) \in Seq(Entries)
         /\ Len(Before(s, n)) = n - 1 /\ \A m \in 1 .. n - 1 : Before(s, n)[m] = s[m]
         /\ s[n] \in Entries
         /\ s = (Before(s, n) \o <<s[n]>>) \o Behind(s, n)
         /\ RemoveAt(s, n) = Before(s, n) \o Behind(s, n)
<1>. DEFINE N == Len(s)
<1>1. N \in Nat /\ n \in Nat /\ 1 <= n /\ n <= N /\ s[n] \in Entries
      /\ \A m \in 1 .. N : s[m] \in Entries
  OBVIOUS
<1>2. /\ Before(s, n) \in Seq(Entries)
      /\ Len(Before(s, n)) = n - 1 /\ \A m \in 1 .. n - 1 : Before(s, n)[m] = s[m]
  <2>1. \A m \in 1 .. n - 1 : s[m] \in Entries
    BY <1>1
  <2>. QED  BY <1>1, <2>1, SubSeqProperties DEF Before
<1>3. Behind(s, n) \in Seq(Entries)
  <2>1. \A m \in n + 1 .. N : s[m] \in Entries
    BY <1>1
  <2>. QED  BY <1>1, <2>1, SubSeqProperties DEF Behind
<1>4. SubSeq(s, 1, n) = Before(s, n) \o <<s[n]>>
  <2>1. 1 \in 1 .. N /\ n \in 1 .. N
    BY <1>1
  <2>. QED  BY <2>1, SubSeqRecursiveSecond DEF Before
<1>5. s = SubSeq(s, 1, n) \o SubSeq(s, n + 1, N)
  <2>1. 1 \in 1 .. N + 1 /\ n \in 1 - 1 .. N /\ N \in n .. N
    BY <1>1
  <2>2. SubSeq(s, 1, n) \o SubSeq(s, n + 1, N) = SubSeq(s, 1, N)
    BY <2>1, ConcatAdjacentSubSeq
  <2>. QED  BY <2>2, SubSeqFull
<1>. QED  BY <1>1, <1>2, <1>3, <1>4, <1>5 DEF Behind, Before, RemoveAt

LEMMA RidsOfParts ==
  ASSUME NEW s \in Seq(Entries), NEW n \in 1 .. Len(s), NEW key
  PROVE  /\ RidsUnder(s, key) =
              (RidsUnder(Before(s, n), key) \o (IF s[n].key = key THEN <<s[n].rid>> ELSE << >>))
                \o RidsUnder(Behind(s, n), key)
         /\ RidsUnder(RemoveAt(s, n), key) =
              RidsUnder(Before(s, n), key) \o RidsUnder(Behind(s, n), key)
<1>. DEFINE p == Before(s, n)
            q == Behind(s, n)
            e == s[n]
            one == <<e>>
<1>1. /\ p \in Seq(Entries) /\ q \in Seq(Entries) /\ e \in Entries
      /\ s = (p \o one) \o q /\ RemoveAt(s, n) = p \o q
  BY Parts
<1>2. RidsUnder(one, key) = IF e.key = key THEN <<e.rid>> ELSE << >>
  BY <1>1, RidsOfOne
<1>3. one \in Seq(Entries)
  BY <1>1
<1>. HIDE DEF p, q, one
<1>4. p \o one \in Seq(Entries)
  BY <1>1, <1>3, ConcatProperties
<1>5. RidsUnder(s, key) = (RidsUnder(p, key) \o RidsUnder(one, key)) \o RidsUnder(q, key)
  <2>1. RidsUnder((p \o one) \o q, key) = RidsUnder(p \o one, key) \o RidsUnder(q, key)
    BY <1>1, <1>4, RidsOfBoth
  <2>2. RidsUnder(p \o one, key) = RidsUnder(p, key) \o RidsUnder(one, key)
    BY <1>1, <1>3, RidsOfBoth
  <2>3. RidsUnder(s, key) = RidsUnder((p \o one) \o q, key)
    BY <1>1
  <2>. QED  BY <2>1, <2>2, <2>3
<1>6. RidsUnder(RemoveAt(s, n), key) = RidsUnder(p, key) \o RidsUnder(q, key)
  BY <1>1, RidsOfBoth
<1>. QED  BY <1>2, <1>5, <1>6 DEF p, q

FirstUnder(s, key) == SelectInSeq(s, LAMBDA e : e.key = key)

(* The first entry of a key, if there is one.                              *)
IsFirst(s, n, key) ==
  n \in 1 .. Len(s) /\ s[n].key = key /\ \A m \in 1 .. n - 1 : s[m].key # key

LEMMA FirstFound ==
  ASSUME NEW s \in Seq(Entries), NEW key
  PROVE  /\ FirstUnder(s, key) = 0 => \A n \in 1 .. Len(s) : s[n].key # key
         /\ FirstUnder(s, key) # 0 => IsFirst(s, FirstUnder(s, key), key)
<1>. DEFINE S == {n \in 1 .. Len(s) : s[n].key = key}
<1>1. FirstUnder(s, key) = IF S # {} THEN CHOOSE x \in S : \A y \in S : x <= y ELSE 0
  BY DEF FirstUnder, SelectInSeq, Min
<1>2. CASE S = {}
  BY <1>1, <1>2
<1>3. CASE S # {}
  <2>1. S \in SUBSET Nat
    OBVIOUS
  <2>2. \E x \in S : \A y \in S : x <= y
    <3>. HIDE DEF S
    <3>. QED  BY <1>3, <2>1, LeastNumber
  <2>3. FirstUnder(s, key) \in S /\ \A y \in S : FirstUnder(s, key) <= y
    <3>. HIDE DEF S
    <3>. QED  BY <1>1, <1>3, <2>2
  <2>4. \A m \in 1 .. FirstUnder(s, key) - 1 : m \notin S
    <3>1. FirstUnder(s, key) \in Nat
      BY <2>3
    <3>. HIDE DEF S
    <3>. QED  BY <2>3, <3>1
  <2>5. \A m \in 1 .. FirstUnder(s, key) - 1 : m \in 1 .. Len(s)
    BY <2>3
  <2>. QED  BY <2>3, <2>4, <2>5 DEF IsFirst
<1>. QED  BY <1>2, <1>3

(* A key has rids exactly if there is an entry of it.                      *)
LEMMA RidsOfFirst ==
  ASSUME NEW s \in Seq(Entries), NEW n, NEW key, IsFirst(s, n, key)
  PROVE  /\ RidsUnder(Behind(s, n), key) \in Seq(Nat)
         /\ RidsUnder(s, key) = <<s[n].rid>> \o RidsUnder(Behind(s, n), key)
         /\ RidsUnder(RemoveAt(s, n), key) = RidsUnder(Behind(s, n), key)
<1>1. n \in 1 .. Len(s) /\ s[n].key = key /\ \A m \in 1 .. n - 1 : s[m].key # key
  BY DEF IsFirst
<1>. DEFINE p == Before(s, n)
            q == Behind(s, n)
            rids == RidsUnder(q, key)
<1>2. /\ p \in Seq(Entries) /\ q \in Seq(Entries) /\ s[n] \in Entries
      /\ Len(p) = n - 1 /\ \A m \in 1 .. n - 1 : p[m] = s[m]
  BY <1>1, Parts
<1>3. /\ RidsUnder(s, key) = (RidsUnder(p, key) \o <<s[n].rid>>) \o rids
      /\ RidsUnder(RemoveAt(s, n), key) = RidsUnder(p, key) \o rids
  BY <1>1, RidsOfParts
<1>. HIDE DEF p, q
<1>4. RidsUnder(p, key) = << >>
  BY <1>1, <1>2, RidsOfStrangers
<1>5. rids \in Seq(Nat) /\ s[n].rid \in Nat
  BY <1>2, RidsType DEF Entries
<1>. HIDE DEF rids
<1>6. << >> \o <<s[n].rid>> = <<s[n].rid>> /\ << >> \o rids = rids
  BY <1>5
<1>. QED  BY <1>3, <1>4, <1>5, <1>6 DEF rids, q

LEMMA FirstMeansRids ==
  ASSUME NEW s \in Seq(Entries), NEW key
  PROVE  RidsUnder(s, key) = << >> <=> FirstUnder(s, key) = 0
<1>1. CASE FirstUnder(s, key) = 0
  BY <1>1, FirstFound, RidsOfStrangers
<1>2. CASE FirstUnder(s, key) # 0
  <2>. DEFINE n == FirstUnder(s, key)
              rids == RidsUnder(Behind(s, n), key)
  <2>1. IsFirst(s, n, key)
    BY <1>2, FirstFound
  <2>2. rids \in Seq(Nat) /\ RidsUnder(s, key) = <<s[n].rid>> \o rids
    BY <2>1, RidsOfFirst
  <2>3. s[n].rid \in Nat
    <3>1. s[n] \in Entries
      BY <2>1 DEF IsFirst
    <3>. QED  BY <3>1 DEF Entries
  <2>. HIDE DEF rids, n
  <2>4. <<s[n].rid>> \o rids # << >>
    BY <2>2, <2>3
  <2>. QED  BY <1>2, <2>2, <2>4
<1>. QED  BY <1>1, <1>2

(* Taking out the first entry of a key takes its first rid, and no rid of  *)
(* another key.                                                            *)
LEMMA RidsUnlinked ==
  ASSUME NEW s \in Seq(Entries), NEW n, NEW key, IsFirst(s, n, key), NEW other
  PROVE  /\ RemoveAt(s, n) \in Seq(Entries)
         /\ RidsUnder(RemoveAt(s, n), key) = Tail(RidsUnder(s, key))
         /\ other # key => RidsUnder(RemoveAt(s, n), other) = RidsUnder(s, other)
<1>1. n \in 1 .. Len(s) /\ s[n].key = key
  BY DEF IsFirst
<1>. DEFINE p == Before(s, n)
            q == Behind(s, n)
<1>2. /\ p \in Seq(Entries) /\ q \in Seq(Entries) /\ s[n] \in Entries
      /\ RemoveAt(s, n) = p \o q
  BY <1>1, Parts
<1>3. p \o q \in Seq(Entries)
  BY <1>2, ConcatProperties
<1>4. RidsUnder(RemoveAt(s, n), key) = Tail(RidsUnder(s, key))
  <2>. DEFINE rids == RidsUnder(q, key)
              rid  == s[n].rid
  <2>1. /\ rids \in Seq(Nat) /\ RidsUnder(s, key) = <<rid>> \o rids
        /\ RidsUnder(RemoveAt(s, n), key) = rids
    BY RidsOfFirst
  <2>2. rid \in Nat
    BY <1>2 DEF Entries
  <2>. HIDE DEF rids, rid
  <2>3. Tail(<<rid>> \o rids) = rids
    BY <2>1, <2>2
  <2>. QED  BY <2>1, <2>3
<1>5. ASSUME other # key
      PROVE  RidsUnder(RemoveAt(s, n), other) = RidsUnder(s, other)
  <2>. DEFINE a == RidsUnder(p, other)
              b == RidsUnder(q, other)
  <2>1. /\ RidsUnder(s, other) = (a \o << >>) \o b
        /\ RidsUnder(RemoveAt(s, n), other) = a \o b
    BY <1>1, <1>5, RidsOfParts
  <2>2. a \in Seq(Nat)
    BY <1>2, RidsType
  <2>. HIDE DEF a, b
  <2>3. a \o << >> = a
    BY <2>2
  <2>. QED  BY <2>1, <2>3
<1>. QED  BY <1>2, <1>3, <1>4, <1>5

Redirected(s, n, rid) == [s EXCEPT ![n].rid = rid]

(* Giving the first entry of a key another rid changes the first rid.      *)
LEMMA RidsRedirected ==
  ASSUME NEW s \in Seq(Entries), NEW n, NEW key, IsFirst(s, n, key), NEW rid \in Nat,
         NEW other
  PROVE  /\ Redirected(s, n, rid) \in Seq(Entries)
         /\ RidsUnder(Redirected(s, n, rid), key) = <<rid>> \o Tail(RidsUnder(s, key))
         /\ other # key => RidsUnder(Redirected(s, n, rid), other) = RidsUnder(s, other)
<1>. DEFINE r == Redirected(s, n, rid)
            e == [s[n] EXCEPT !.rid = rid]
<1>1. n \in 1 .. Len(s) /\ s[n].key = key /\ \A m \in 1 .. n - 1 : s[m].key # key
  BY DEF IsFirst
<1>2. e \in Entries /\ e.key = key /\ e.rid = rid
  <2>1. s[n] \in Entries
    BY <1>1
  <2>. QED  BY <1>1, <2>1 DEF Entries
<1>3. r = [s EXCEPT ![n] = e]
  BY <1>1 DEF Redirected
<1>. HIDE DEF r, e
<1>4. /\ r \in Seq(Entries) /\ Len(r) = Len(s)
      /\ \A m \in 1 .. Len(s) : r[m] = IF m = n THEN e ELSE s[m]
  BY <1>1, <1>2, <1>3, ExceptSeq
<1>5. IsFirst(r, n, key)
  <2>1. \A m \in 1 .. n - 1 : m \in 1 .. Len(s) /\ m # n
    BY <1>1
  <2>. QED  BY <1>1, <1>2, <1>4, <2>1 DEF IsFirst
<1>6. Before(r, n) = Before(s, n) /\ Behind(r, n) = Behind(s, n)
  <2>1. \A m \in 1 .. n - 1 : m \in 1 .. Len(s) /\ m # n
    BY <1>1
  <2>2. \A m \in n + 1 .. Len(s) : m \in 1 .. Len(s) /\ m # n
    BY <1>1
  <2>3. \A m \in 1 .. n - 1 : r[m] = s[m]
    BY <1>4, <2>1
  <2>4. \A m \in n + 1 .. Len(s) : r[m] = s[m]
    BY <1>4, <2>2
  <2>5. SubSeq(r, 1, n - 1) = SubSeq(s, 1, n - 1)
    BY <1>1, <1>4, <2>3
  <2>6. SubSeq(r, n + 1, Len(s)) = SubSeq(s, n + 1, Len(s))
    BY <1>1, <1>4, <2>4
  <2>. QED  BY <1>4, <2>5, <2>6 DEF Before, Behind
<1>7. RidsUnder(r, key) = <<rid>> \o Tail(RidsUnder(s, key))
  <2>. DEFINE rids == RidsUnder(Behind(s, n), key)
              old  == s[n].rid
  <2>1. /\ rids \in Seq(Nat) /\ RidsUnder(s, key) = <<old>> \o rids
        /\ RidsUnder(r, key) = <<r[n].rid>> \o RidsUnder(Behind(r, n), key)
    <3>1. rids \in Seq(Nat) /\ RidsUnder(s, key) = <<old>> \o rids
      BY RidsOfFirst
    <3>2. r \in Seq(Entries)
      BY <1>4
    <3>3. RidsUnder(r, key) = <<r[n].rid>> \o RidsUnder(Behind(r, n), key)
      BY <1>5, <3>2, RidsOfFirst
    <3>. QED  BY <3>1, <3>3
  <2>2. r[n].rid = rid /\ old \in Nat
    <3>1. s[n] \in Entries
      BY <1>1
    <3>. QED  BY <1>1, <1>2, <1>4, <3>1 DEF Entries
  <2>3. RidsUnder(r, key) = <<rid>> \o rids
    BY <1>6, <2>1, <2>2
  <2>. HIDE DEF rids, old
  <2>4. Tail(<<old>> \o rids) = rids
    BY <2>1, <2>2
  <2>. QED  BY <2>1, <2>3, <2>4
<1>8. ASSUME other # key
      PROVE  RidsUnder(r, other) = RidsUnder(s, other)
  <2>1. n \in 1 .. Len(r) /\ r[n].key = key
    BY <1>5 DEF IsFirst
  <2>2. /\ RidsUnder(s, other) =
             (RidsUnder(Before(s, n), other) \o << >>) \o RidsUnder(Behind(s, n), other)
        /\ RidsUnder(r, other) =
             (RidsUnder(Before(r, n), other) \o << >>) \o RidsUnder(Behind(r, n), other)
    BY <1>1, <1>4, <1>8, <2>1, RidsOfParts
  <2>. QED  BY <1>6, <2>2
<1>. QED  BY <1>4, <1>7, <1>8 DEF r

---------------------------------------------------------------------------
(* The hash table.                                                         *)

(* The objects, whatever is in their chains.                               *)
Tables ==
  UNION {[capacity : {c}, number_of_entries : Int,
          hashTable : [0 .. c - 1 -> Seq(Entries)], pages : Seq(Seq(Entries))] :
         c \in Nat \ {0}}

LEMMA TableFields ==
  ASSUME NEW h \in Tables
  PROVE  /\ h.capacity \in Nat \ {0} /\ h.number_of_entries \in Int
         /\ h.hashTable \in [0 .. h.capacity - 1 -> Seq(Entries)]
         /\ h.pages \in Seq(Seq(Entries))
         /\ h \in [capacity : {h.capacity}, number_of_entries : Int,
                   hashTable : [0 .. h.capacity - 1 -> Seq(Entries)],
                   pages : Seq(Seq(Entries))]
BY DEF Tables

(* Every entry is in the bucket its key is hashed to.                      *)
Filed(h) ==
  \A slot \in DOMAIN h.hashTable : \A n \in 1 .. Len(h.hashTable[slot]) :
    hashFunction(h, h.hashTable[slot][n].key) = slot

LEMMA Hashed ==
  ASSUME NEW h \in Tables, NEW key \in Keys
  PROVE  hashFunction(h, key) \in 0 .. h.capacity - 1 /\ bucket(h, key) \in Seq(Entries)
<1>1. h.capacity \in Nat \ {0} /\ key \in Nat
  BY TableFields, KeysAssumption
<1>2. key % h.capacity \in 0 .. h.capacity - 1
  BY <1>1
<1>3. hashFunction(h, key) \in 0 .. h.capacity - 1
  BY <1>2 DEF hashFunction
<1>. QED  BY <1>3, TableFields DEF bucket

(* A table one of whose chains is another one.                             *)
Rechained(h, slot, chain, n) ==
  [h EXCEPT !.hashTable = [h.hashTable EXCEPT ![slot] = chain], !.number_of_entries = n]

LEMMA BucketReplaced ==
  ASSUME NEW h \in Tables, Filed(h), NEW slot \in 0 .. h.capacity - 1,
         NEW chain \in Seq(Entries), NEW n \in Int,
         \A m \in 1 .. Len(chain) : hashFunction(h, chain[m].key) = slot
  PROVE  LET r == Rechained(h, slot, chain, n)
         IN  /\ r \in Tables /\ Filed(r) /\ r.capacity = h.capacity /\ r.pages = h.pages
             /\ \A k \in Keys :
                  getValue(r, k) = IF hashFunction(h, k) = slot THEN RidsUnder(chain, k)
                                   ELSE getValue(h, k)
<1>. DEFINE r == Rechained(h, slot, chain, n)
            new == [h.hashTable EXCEPT ![slot] = chain]
<1>1. r = [h EXCEPT !.hashTable = new, !.number_of_entries = n]
  BY DEF Rechained
<1>2. PICK c \in Nat \ {0} :
        h \in [capacity : {c}, number_of_entries : Int,
               hashTable : [0 .. c - 1 -> Seq(Entries)], pages : Seq(Seq(Entries))]
  BY DEF Tables
<1>3. /\ h.capacity = c /\ h.hashTable \in [0 .. c - 1 -> Seq(Entries)]
      /\ DOMAIN h.hashTable = 0 .. c - 1 /\ slot \in 0 .. c - 1
  BY <1>2
<1>4. /\ new \in [0 .. c - 1 -> Seq(Entries)] /\ new[slot] = chain
      /\ \A s \in 0 .. c - 1 : s # slot => new[s] = h.hashTable[s]
  BY <1>3
<1>. HIDE DEF r, new
<1>5. /\ r \in Tables /\ r.capacity = h.capacity /\ r.pages = h.pages /\ r.hashTable = new
  <2>. DEFINE lists == [0 .. c - 1 -> Seq(Entries)]
  <2>1. new \in lists
    BY <1>4
  <2>2. h \in [capacity : {c}, number_of_entries : Int, hashTable : lists,
               pages : Seq(Seq(Entries))]
    BY <1>2
  <2>. HIDE DEF lists
  <2>3. /\ r \in [capacity : {c}, number_of_entries : Int, hashTable : lists,
                  pages : Seq(Seq(Entries))]
        /\ r.capacity = h.capacity /\ r.pages = h.pages /\ r.hashTable = new
    BY <1>1, <2>1, <2>2
  <2>. QED  BY <2>3 DEF Tables, lists
<1>6. Filed(r)
  <2>. SUFFICES ASSUME NEW s \in DOMAIN r.hashTable, NEW m \in 1 .. Len(r.hashTable[s])
                PROVE  hashFunction(r, r.hashTable[s][m].key) = s
    BY DEF Filed
  <2>1. s \in 0 .. c - 1
    BY <1>4, <1>5
  <2>2. CASE s # slot
    <3>1. r.hashTable[s] = h.hashTable[s] /\ s \in DOMAIN h.hashTable
      BY <1>3, <1>4, <1>5, <2>1, <2>2
    <3>2. hashFunction(h, h.hashTable[s][m].key) = s
      BY <3>1 DEF Filed
    <3>. QED  BY <1>5, <3>1, <3>2 DEF hashFunction
  <2>3. CASE s = slot
    <3>1. r.hashTable[s] = chain
      BY <1>4, <1>5, <2>3
    <3>2. hashFunction(h, chain[m].key) = slot
      BY <3>1
    <3>. QED  BY <1>5, <2>3, <3>1, <3>2 DEF hashFunction
  <2>. QED  BY <2>2, <2>3
<1>7. ASSUME NEW k \in Keys
      PROVE  getValue(r, k) = IF hashFunction(h, k) = slot THEN RidsUnder(chain, k)
                              ELSE getValue(h, k)
  <2>1. hashFunction(r, k) = hashFunction(h, k) /\ hashFunction(h, k) \in 0 .. c - 1
    BY <1>3, <1>5, Hashed DEF hashFunction
  <2>2. bucket(r, k) = IF hashFunction(h, k) = slot THEN chain ELSE bucket(h, k)
    BY <1>4, <1>5, <2>1 DEF bucket
  <2>. QED  BY <2>2 DEF getValue
<1>. QED  BY <1>5, <1>6, <1>7 DEF r

LEMMA FiledBucket ==
  ASSUME NEW h \in Tables, Filed(h), NEW key \in Keys
  PROVE  \A n \in 1 .. Len(bucket(h, key)) :
           hashFunction(h, bucket(h, key)[n].key) = hashFunction(h, key)
<1>1. hashFunction(h, key) \in DOMAIN h.hashTable
  BY Hashed, TableFields
<1>. QED  BY <1>1 DEF Filed, bucket

LEMMA InsertedIntoBucket ==
  ASSUME NEW h \in Tables, Filed(h), NEW key \in Keys, NEW rid \in Nat
  PROVE  LET r == insertIndex(h, key, rid)
         IN  /\ r \in Tables /\ Filed(r) /\ r.capacity = h.capacity /\ r.pages = h.pages
             /\ \A k \in Keys :
                  getValue(r, k) = IF k = key THEN Append(getValue(h, k), rid)
                                   ELSE getValue(h, k)
<1>. DEFINE slot == hashFunction(h, key)
            e == Entry(key, rid)
            chain == bucket(h, key)
            longer == Append(chain, e)
            r == Rechained(h, slot, longer, h.number_of_entries + 1)
<1>1. e \in Entries /\ e.key = key /\ e.rid = rid
  BY DEF Entry, Entries
<1>2. slot \in 0 .. h.capacity - 1 /\ chain \in Seq(Entries)
  BY Hashed
<1>3. insertIndex(h, key, rid) = r
  BY TableFields DEF insertIndex, Rechained, bucket
<1>4. h.number_of_entries + 1 \in Int
  BY TableFields
<1>5. \A n \in 1 .. Len(chain) : hashFunction(h, chain[n].key) = slot
  BY FiledBucket
<1>. HIDE DEF e, chain
<1>6. /\ longer \in Seq(Entries) /\ Len(longer) = Len(chain) + 1
      /\ longer[Len(chain) + 1] = e
      /\ \A n \in 1 .. Len(chain) : longer[n] = chain[n]
  BY <1>1, <1>2, AppendProperties
<1>. HIDE DEF longer, slot
<1>7. \A n \in 1 .. Len(longer) : hashFunction(h, longer[n].key) = slot
  <2>1. hashFunction(h, e.key) = slot
    BY <1>1 DEF slot
  <2>2. \A n \in 1 .. Len(longer) : n \in 1 .. Len(chain) \/ n = Len(chain) + 1
    BY <1>2, <1>6
  <2>. QED  BY <1>5, <1>6, <2>1, <2>2
<1>8. /\ r \in Tables /\ Filed(r) /\ r.capacity = h.capacity /\ r.pages = h.pages
      /\ \A k \in Keys : getValue(r, k) = IF hashFunction(h, k) = slot THEN RidsUnder(longer, k)
                                          ELSE getValue(h, k)
  BY <1>2, <1>4, <1>6, <1>7, BucketReplaced
<1>9. ASSUME NEW k \in Keys
      PROVE  getValue(r, k) = IF k = key THEN Append(getValue(h, k), rid) ELSE getValue(h, k)
  <2>1. CASE hashFunction(h, k) = slot
    <3>1. RidsUnder(longer, k) =
            IF e.key = k THEN Append(RidsUnder(chain, k), e.rid) ELSE RidsUnder(chain, k)
      BY <1>1, <1>2, RidsOfMore DEF longer
    <3>2. bucket(h, k) = chain
      BY <2>1 DEF bucket, chain, slot
    <3>. QED  BY <1>1, <1>8, <2>1, <3>1, <3>2 DEF getValue
  <2>2. CASE hashFunction(h, k) # slot
    <3>1. k # key
      BY <2>2 DEF slot
    <3>. QED  BY <1>8, <2>2, <3>1
  <2>. QED  BY <2>1, <2>2
<1>. QED  BY <1>3, <1>8, <1>9

(* A table without entries.                                                *)
LEMMA EmptyTable ==
  ASSUME NEW c \in Nat \ {0}, NEW n \in Int, NEW p \in Seq(Seq(Entries)), NEW r,
         r = [capacity |-> c, number_of_entries |-> n, hashTable |-> NoBuckets(c), pages |-> p]
  PROVE  /\ r \in Tables /\ Filed(r) /\ r.capacity = c
         /\ \A k \in Keys : getValue(r, k) = << >>
<1>1. /\ NoBuckets(c) \in [0 .. c - 1 -> Seq(Entries)]
      /\ \A slot \in 0 .. c - 1 : NoBuckets(c)[slot] = << >>
  <2>1. << >> \in Seq(Entries)
    OBVIOUS
  <2>. QED  BY <2>1 DEF NoBuckets
<1>2. r \in Tables
  BY <1>1 DEF Tables
<1>3. r.capacity = c /\ r.hashTable = NoBuckets(c)
  OBVIOUS
<1>4. Filed(r)
  <2>1. \A slot \in DOMAIN r.hashTable : slot \in 0 .. c - 1
    BY <1>1, <1>3
  <2>2. \A slot \in DOMAIN r.hashTable : 1 .. Len(r.hashTable[slot]) = {}
    BY <1>1, <1>3, <2>1
  <2>. QED  BY <2>2 DEF Filed
<1>5. ASSUME NEW k \in Keys PROVE getValue(r, k) = << >>
  <2>1. bucket(r, k) = << >>
    BY <1>1, <1>2, <1>3, Hashed DEF bucket
  <2>. QED  BY <2>1, RidsOfNone DEF getValue
<1>. QED  BY <1>2, <1>3, <1>4, <1>5

LEMMA NewTable ==
  ASSUME NEW c, NEW p, NEW n
  PROVE  /\ [NewHashIndex(c) EXCEPT !.pages = p] =
              [capacity |-> c, number_of_entries |-> 0, hashTable |-> NoBuckets(c), pages |-> p]
         /\ [NewHashIndex(c) EXCEPT !.number_of_entries = n, !.pages = p] =
              [capacity |-> c, number_of_entries |-> n, hashTable |-> NoBuckets(c), pages |-> p]
<1>1. NewHashIndex(c) =
        [capacity |-> c, number_of_entries |-> 0, hashTable |-> NoBuckets(c),
         pages |-> << << >>, << >> >>]
  BY DEF NewHashIndex
<1>2. [NewHashIndex(c) EXCEPT !.pages = p] =
        [capacity |-> c, number_of_entries |-> 0, hashTable |-> NoBuckets(c), pages |-> p]
  BY <1>1
<1>3. [NewHashIndex(c) EXCEPT !.number_of_entries = n, !.pages = p] =
        [capacity |-> c, number_of_entries |-> n, hashTable |-> NoBuckets(c), pages |-> p]
  <2>. DEFINE x == [NewHashIndex(c) EXCEPT !.number_of_entries = n]
  <2>1. x =
          [capacity |-> c, number_of_entries |-> n, hashTable |-> NoBuckets(c),
           pages |-> << << >>, << >> >>]
    BY <1>1
  <2>2. [NewHashIndex(c) EXCEPT !.number_of_entries = n, !.pages = p] =
          [x EXCEPT !.pages = p]
    OBVIOUS
  <2>. HIDE DEF x
  <2>3. [x EXCEPT !.pages = p] =
          [capacity |-> c, number_of_entries |-> n, hashTable |-> NoBuckets(c), pages |-> p]
    BY <2>1
  <2>. QED  BY <2>2, <2>3
<1>. QED  BY <1>2, <1>3

(* How a sequence is read.                                                 *)
LEMMA PrefixGrows ==
  ASSUME NEW s \in Seq(Entries)
  PROVE  /\ SubSeq(s, 1, 0) = << >> /\ SubSeq(s, 1, Len(s)) = s
         /\ \A n \in 1 .. Len(s) :
              /\ SubSeq(s, 1, n - 1) \in Seq(Entries) /\ s[n] \in Entries
              /\ SubSeq(s, 1, n) = Append(SubSeq(s, 1, n - 1), s[n])
<1>1. SubSeq(s, 1, 0) = << >> /\ SubSeq(s, 1, Len(s)) = s
  BY SubSeqEmpty, SubSeqFull
<1>2. ASSUME NEW n \in 1 .. Len(s)
      PROVE  /\ SubSeq(s, 1, n - 1) \in Seq(Entries) /\ s[n] \in Entries
             /\ SubSeq(s, 1, n) = Append(SubSeq(s, 1, n - 1), s[n])
  <2>1. SubSeq(s, 1, n - 1) \in Seq(Entries) /\ s[n] \in Entries
    BY Parts DEF Before
  <2>2. 1 \in 1 .. Len(s) /\ n \in 1 .. Len(s)
    OBVIOUS
  <2>3. SubSeq(s, 1, n) = SubSeq(s, 1, n - 1) \o <<s[n]>>
    BY <2>2, SubSeqRecursiveSecond
  <2>. QED  BY <2>1, <2>3, AppendIsConcat
<1>. QED  BY <1>1, <1>2

FilledIn(h, s) ==
  CHOOSE f : f = [n \in 0 .. Len(s) |->
                    IF n = 0 THEN h ELSE insertIndex(f[n - 1], s[n].key, s[n].rid)]

GoodTables == {h \in Tables : Filed(h)}

LEMMA FilledForm ==
  ASSUME NEW h \in GoodTables, NEW s \in Seq(Entries)
  PROVE  /\ insertedAll(h, s) = FilledIn(h, s)[Len(s)]
         /\ FilledIn(h, s)[0] = h
         /\ \A n \in 1 .. Len(s) :
              FilledIn(h, s)[n] = insertIndex(FilledIn(h, s)[n - 1], s[n].key, s[n].rid)
<1>. DEFINE N == Len(s)
            D == GoodTables
            at == FilledIn(h, s)
            step(f) == [n \in 0 .. N |->
                          IF n = 0 THEN h ELSE insertIndex(f[n - 1], s[n].key, s[n].rid)]
            g == [n \in 1 .. N |-> [x \in D |-> insertIndex(x, s[n].key, s[n].rid)]]
<1>1. at = CHOOSE f : f = step(f)
  BY DEF FilledIn
<1>2. insertedAll(h, s) = at[N]
  BY DEF insertedAll, FilledIn
<1>3. N \in Nat /\ \A n \in 1 .. N : s[n].key \in Keys /\ s[n].rid \in Nat
  <2>1. \A n \in 1 .. N : s[n] \in Entries
    OBVIOUS
  <2>. QED  BY <2>1 DEF Entries
<1>4. Turns(D, N, g)
      /\ \A n \in 1 .. N, x \in D : g[n][x] = insertIndex(x, s[n].key, s[n].rid)
  <2>1. \A n \in 1 .. N, x \in D : insertIndex(x, s[n].key, s[n].rid) \in D
    BY <1>3, InsertedIntoBucket DEF GoodTables
  <2>. HIDE DEF D
  <2>. QED  BY <2>1 DEF Turns
<1>. HIDE DEF g, D
<1>5. PICK f : Unfolding(f, D, N, g, h)
  BY <1>3, <1>4, Unfolds DEF D
<1>6. \A n \in 0 .. N : n = 0 \/ (n \in 1 .. N /\ n - 1 \in 0 .. N)
  BY <1>3
<1>7. f \in [0 .. N -> D] /\ f[0] = h
      /\ \A n \in 1 .. N : f[n] = insertIndex(f[n - 1], s[n].key, s[n].rid)
  BY <1>4, <1>5, <1>6 DEF Unfolding
<1>8. f = step(f)
  <2>1. \A n \in 0 .. N : f[n] = step(f)[n]
    BY <1>6, <1>7
  <2>. QED  BY <1>7, <2>1
<1>. HIDE DEF at
<1>9. at = step(at)
  BY <1>1, <1>8
<1>10. at[0] = h /\ \A n \in 1 .. N : at[n] = insertIndex(at[n - 1], s[n].key, s[n].rid)
  <2>1. 0 \in 0 .. N /\ \A n \in 1 .. N : n \in 0 .. N /\ n # 0
    BY <1>3
  <2>2. \A n \in 0 .. N :
          at[n] = IF n = 0 THEN h ELSE insertIndex(at[n - 1], s[n].key, s[n].rid)
    BY <1>9
  <2>. QED  BY <2>1, <2>2
<1>. QED  BY <1>2, <1>10 DEF at

(* A table with the entries of a sequence behind those it had.             *)
Grew(r, h, s) ==
  /\ r \in GoodTables /\ r.capacity = h.capacity /\ r.pages = h.pages
  /\ \A k \in Keys : getValue(r, k) = getValue(h, k) \o RidsUnder(s, k)

LEMMA GrewMore ==
  ASSUME NEW h \in GoodTables, NEW r, NEW s \in Seq(Entries), Grew(r, h, s), NEW e \in Entries
  PROVE  Grew(insertIndex(r, e.key, e.rid), h, Append(s, e))
<1>. DEFINE v == insertIndex(r, e.key, e.rid)
<1>1. /\ r \in Tables /\ Filed(r) /\ r.capacity = h.capacity /\ r.pages = h.pages
      /\ \A k \in Keys : getValue(r, k) = getValue(h, k) \o RidsUnder(s, k)
  BY DEF Grew, GoodTables
<1>2. e.key \in Keys /\ e.rid \in Nat
  BY DEF Entries
<1>3. /\ v \in Tables /\ Filed(v) /\ v.capacity = r.capacity /\ v.pages = r.pages
      /\ \A k \in Keys : getValue(v, k) = IF k = e.key THEN Append(getValue(r, k), e.rid)
                                          ELSE getValue(r, k)
  BY <1>1, <1>2, InsertedIntoBucket
<1>. HIDE DEF v
<1>4. ASSUME NEW k \in Keys
      PROVE  getValue(v, k) = getValue(h, k) \o RidsUnder(Append(s, e), k)
  <2>. DEFINE a == getValue(h, k)
              b == RidsUnder(s, k)
  <2>1. a \in Seq(Nat) /\ b \in Seq(Nat)
    BY Hashed, RidsType DEF GoodTables, getValue
  <2>2. getValue(r, k) = a \o b
    BY <1>1
  <2>3. RidsUnder(Append(s, e), k) = IF e.key = k THEN Append(b, e.rid) ELSE b
    BY RidsOfMore
  <2>. HIDE DEF a, b
  <2>4. Append(a \o b, e.rid) = a \o Append(b, e.rid)
    BY <1>2, <2>1, ConcatThenAppend
  <2>. QED  BY <1>3, <2>2, <2>3, <2>4 DEF a
<1>. QED  BY <1>1, <1>3, <1>4 DEF Grew, GoodTables, v

LEMMA AllInserted ==
  ASSUME NEW h \in GoodTables, NEW s \in Seq(Entries)
  PROVE  Grew(insertedAll(h, s), h, s)
<1>. DEFINE N == Len(s)
            at == FilledIn(h, s)
            S == {n \in 0 .. N : ~Grew(at[n], h, SubSeq(s, 1, n))}
<1>1. /\ N \in Nat /\ insertedAll(h, s) = at[N] /\ at[0] = h
      /\ \A n \in 1 .. N : at[n] = insertIndex(at[n - 1], s[n].key, s[n].rid)
  BY FilledForm
<1>2. Grew(at[0], h, SubSeq(s, 1, 0))
  <2>1. ASSUME NEW k \in Keys PROVE getValue(h, k) = getValue(h, k) \o RidsUnder(<< >>, k)
    <3>1. getValue(h, k) \in Seq(Nat)
      BY Hashed, RidsType DEF GoodTables, getValue
    <3>. QED  BY <3>1, RidsOfNone, ConcatEmptySeq
  <2>2. SubSeq(s, 1, 0) = << >>
    BY PrefixGrows
  <2>. QED  BY <1>1, <2>1, <2>2 DEF Grew
<1>. HIDE DEF at, N
<1>3. S = {}
  <2>. SUFFICES ASSUME S # {} PROVE FALSE
    OBVIOUS
  <2>1. S \in SUBSET Nat
    BY <1>1
  <2>2. PICK n \in S : \A k \in S : n <= k
    <3>. HIDE DEF S
    <3>. QED  BY <2>1, LeastNumber
  <2>3. n \in 1 .. N /\ n - 1 \in 0 .. N
    BY <1>1, <1>2
  <2>4. n - 1 \notin S
    <3>. HIDE DEF S
    <3>. QED  BY <2>1, <2>2, <2>3
  <2>5. Grew(at[n - 1], h, SubSeq(s, 1, n - 1))
    BY <2>3, <2>4
  <2>6. /\ SubSeq(s, 1, n - 1) \in Seq(Entries) /\ s[n] \in Entries
        /\ SubSeq(s, 1, n) = Append(SubSeq(s, 1, n - 1), s[n])
    BY <2>3, PrefixGrows DEF N
  <2>7. Grew(at[n], h, SubSeq(s, 1, n))
    BY <1>1, <2>3, <2>5, <2>6, GrewMore
  <2>. QED  BY <2>7
<1>4. Grew(at[N], h, SubSeq(s, 1, N))
  <2>1. N \in 0 .. N
    BY <1>1
  <2>2. N \notin S
    <3>. HIDE DEF S
    <3>. QED  BY <1>3
  <2>. QED  BY <2>1, <2>2
<1>5. SubSeq(s, 1, N) = s
  BY PrefixGrows DEF N
<1>. QED  BY <1>1, <1>4, <1>5

---------------------------------------------------------------------------
(* What the index is told, and what it holds.                              *)
Holds(h, s) ==
  h \in GoodTables /\ \A k \in Keys : getValue(h, k) = RidsUnder(s, k)

(* The history without the first entry of a key.                           *)
Forgotten(s, key) ==
  IF FirstUnder(s, key) # 0 THEN RemoveAt(s, FirstUnder(s, key)) ELSE s

(* A removal: the first entry of the key goes from the chain, as it does   *)
(* from the history; an empty bucket has none.                             *)
LEMMA RemovedFromBucket ==
  ASSUME NEW h, NEW s \in Seq(Entries), Holds(h, s), NEW key \in Keys,
         NEW v \in deleteIndex(h, key)
  PROVE  Forgotten(s, key) \in Seq(Entries) /\ Holds(v, Forgotten(s, key))
<1>. DEFINE slot == hashFunction(h, key)
            chain == bucket(h, key)
            n == FirstUnder(chain, key)
            q == FirstUnder(s, key)
<1>1. /\ h \in Tables /\ Filed(h) /\ \A k \in Keys : getValue(h, k) = RidsUnder(s, k)
      /\ slot \in 0 .. h.capacity - 1 /\ chain \in Seq(Entries)
      /\ h.number_of_entries \in Int
      /\ \A m \in 1 .. Len(chain) : hashFunction(h, chain[m].key) = slot
      /\ chain = h.hashTable[slot]
  BY Hashed, FiledBucket, TableFields DEF Holds, GoodTables, bucket
<1>2. RidsUnder(chain, key) = RidsUnder(s, key)
  BY <1>1 DEF getValue
<1>3. n = 0 <=> q = 0
  BY <1>1, <1>2, FirstMeansRids
<1>4. CASE chain = << >>
  <2>1. n = 0
    BY <1>1, <1>4, RidsOfNone, FirstMeansRids
  <2>2. PICK m \in Int : v = Rechained(h, slot, chain, m)
    <3>1. Rechained(h, slot, chain, h.number_of_entries) = h
      <4>1. [h.hashTable EXCEPT ![slot] = chain] = h.hashTable
        BY <1>1, TableFields
      <4>2. [h EXCEPT !.hashTable = h.hashTable, !.number_of_entries = h.number_of_entries] = h
        BY <1>1, TableFields
      <4>. QED  BY <4>1, <4>2 DEF Rechained
    <3>2. Rechained(h, slot, chain, h.number_of_entries - 1) =
            [h EXCEPT !.number_of_entries = @ - 1]
      <4>1. [h.hashTable EXCEPT ![slot] = chain] = h.hashTable
        BY <1>1, TableFields
      <4>2. [h EXCEPT !.hashTable = h.hashTable,
                      !.number_of_entries = h.number_of_entries - 1] =
              [h EXCEPT !.number_of_entries = @ - 1]
        BY <1>1, TableFields
      <4>. QED  BY <4>1, <4>2 DEF Rechained
    <3>3. v = h \/ v = [h EXCEPT !.number_of_entries = @ - 1]
      BY <1>4 DEF deleteIndex
    <3>4. h.number_of_entries \in Int /\ h.number_of_entries - 1 \in Int
      BY <1>1
    <3>. QED  BY <3>1, <3>2, <3>3, <3>4
  <2>. HIDE DEF slot, chain, q
  <2>3. /\ v \in Tables /\ Filed(v)
        /\ \A k \in Keys : getValue(v, k) = IF hashFunction(h, k) = slot THEN RidsUnder(chain, k)
                                            ELSE getValue(h, k)
    BY <1>1, <2>2, BucketReplaced
  <2>4. \A k \in Keys : hashFunction(h, k) = slot => getValue(h, k) = RidsUnder(chain, k)
    BY <1>1 DEF getValue, bucket
  <2>5. Forgotten(s, key) = s
    BY <1>3, <2>1 DEF Forgotten, q
  <2>. QED  BY <1>1, <2>3, <2>4, <2>5 DEF Holds, GoodTables
<1>5. CASE chain # << >> /\ n = 0
  <2>1. v = h
    BY <1>5 DEF deleteIndex, UnlinkedAt, FirstUnder
  <2>2. Forgotten(s, key) = s
    BY <1>3, <1>5 DEF Forgotten
  <2>. QED  BY <2>1, <2>2
<1>6. CASE chain # << >> /\ n # 0
  <2>. DEFINE rest == RemoveAt(chain, n)
              m == IF n = 1 THEN h.number_of_entries - 1 ELSE h.number_of_entries
  <2>1. v = Rechained(h, slot, rest, m)
    <3>1. v = [h EXCEPT !.hashTable[slot] = RemoveAt(@, n),
                        !.number_of_entries = IF n = 1 THEN @ - 1 ELSE @]
      BY <1>6 DEF deleteIndex, UnlinkedAt, FirstUnder
    <3>. HIDE DEF n, slot
    <3>. QED  BY <1>1, <3>1, TableFields DEF Rechained
  <2>2. IsFirst(chain, n, key) /\ IsFirst(s, q, key)
    BY <1>1, <1>3, <1>6, FirstFound
  <2>3. m \in Int
    BY <1>1
  <2>. HIDE DEF slot, chain, n, q, m
  <2>4. rest \in Seq(Entries) /\ RidsUnder(rest, key) = Tail(RidsUnder(chain, key))
    BY <1>1, <2>2, RidsUnlinked
  <2>5. \A k \in Keys : k # key => RidsUnder(rest, k) = RidsUnder(chain, k)
    BY <1>1, <2>2, RidsUnlinked
  <2>6. \A j \in 1 .. Len(rest) : hashFunction(h, rest[j].key) = slot
    <3>1. n \in 1 .. Len(chain)
      BY <2>2 DEF IsFirst
    <3>2. /\ Len(rest) = Len(chain) - 1
          /\ \A j \in 1 .. Len(chain) - 1 :
               rest[j] = IF j < n THEN chain[j] ELSE chain[j + 1]
      BY <1>1, <3>1, RemoveAtElements
    <3>. HIDE DEF rest
    <3>3. Len(chain) \in Nat
      BY <1>1
    <3>4. ASSUME NEW j \in 1 .. Len(rest)
          PROVE  \E i \in 1 .. Len(chain) : rest[j] = chain[i]
      <4>1. j \in 1 .. Len(chain) /\ j + 1 \in 1 .. Len(chain) /\ j \in 1 .. Len(chain) - 1
        BY <3>2, <3>3
      <4>. QED  BY <3>2, <4>1
    <3>. QED  BY <1>1, <3>4
  <2>. HIDE DEF rest
  <2>7. /\ v \in Tables /\ Filed(v)
        /\ \A k \in Keys : getValue(v, k) = IF hashFunction(h, k) = slot THEN RidsUnder(rest, k)
                                            ELSE getValue(h, k)
    BY <1>1, <2>1, <2>3, <2>4, <2>6, BucketReplaced
  <2>8. Forgotten(s, key) = RemoveAt(s, q)
    BY <1>3, <1>6 DEF Forgotten, q
  <2>9. /\ Forgotten(s, key) \in Seq(Entries)
        /\ RidsUnder(Forgotten(s, key), key) = Tail(RidsUnder(s, key))
        /\ \A k \in Keys : k # key => RidsUnder(Forgotten(s, key), k) = RidsUnder(s, k)
    BY <2>2, <2>8, RidsUnlinked
  <2>10. ASSUME NEW k \in Keys PROVE getValue(v, k) = RidsUnder(Forgotten(s, key), k)
    <3>1. CASE k = key
      BY <1>2, <2>4, <2>7, <2>9, <3>1 DEF slot
    <3>2. CASE k # key /\ hashFunction(h, k) = slot
      <4>1. getValue(h, k) = RidsUnder(chain, k)
        BY <1>1, <3>2 DEF getValue, bucket
      <4>. QED  BY <1>1, <2>5, <2>7, <2>9, <3>2, <4>1
    <3>3. CASE k # key /\ hashFunction(h, k) # slot
      BY <1>1, <2>7, <2>9, <3>3
    <3>. QED  BY <3>1, <3>2, <3>3
  <2>. QED  BY <2>7, <2>9, <2>10 DEF Holds, GoodTables
<1>. QED  BY <1>4, <1>5, <1>6

(* The history with another rid in the first entry of a key.               *)
Reassigned(s, key, rid) ==
  IF FirstUnder(s, key) # 0 THEN Redirected(s, FirstUnder(s, key), rid) ELSE s

LEMMA UpdatedInBucket ==
  ASSUME NEW h, NEW s \in Seq(Entries), Holds(h, s), NEW key \in Keys, NEW rid \in Nat
  PROVE  /\ Reassigned(s, key, rid) \in Seq(Entries)
         /\ Holds(updateIndex(h, key, rid), Reassigned(s, key, rid))
<1>. DEFINE slot == hashFunction(h, key)
            chain == bucket(h, key)
            n == FirstUnder(chain, key)
            q == FirstUnder(s, key)
            v == updateIndex(h, key, rid)
<1>1. /\ h \in Tables /\ Filed(h) /\ \A k \in Keys : getValue(h, k) = RidsUnder(s, k)
      /\ slot \in 0 .. h.capacity - 1 /\ chain \in Seq(Entries)
      /\ h.number_of_entries \in Int
      /\ \A m \in 1 .. Len(chain) : hashFunction(h, chain[m].key) = slot
      /\ chain = h.hashTable[slot]
  BY Hashed, FiledBucket, TableFields DEF Holds, GoodTables, bucket
<1>2. RidsUnder(chain, key) = RidsUnder(s, key)
  BY <1>1 DEF getValue
<1>3. n = 0 <=> q = 0
  BY <1>1, <1>2, FirstMeansRids
<1>4. CASE n = 0
  <2>1. v = h
    BY <1>4 DEF updateIndex, FirstUnder
  <2>2. Reassigned(s, key, rid) = s
    BY <1>3, <1>4 DEF Reassigned
  <2>. QED  BY <2>1, <2>2
<1>5. CASE n # 0
  <2>. DEFINE turned == Redirected(chain, n, rid)
              m == h.number_of_entries
  <2>1. v = Rechained(h, slot, turned, m)
    <3>1. v = [h EXCEPT !.hashTable[slot][n].rid = rid]
      BY <1>5 DEF updateIndex, FirstUnder
    <3>. HIDE DEF n, slot, v
    <3>2. v = [h EXCEPT !.hashTable = [h.hashTable EXCEPT ![slot] = turned]]
      BY <1>1, <3>1, TableFields DEF Redirected
    <3>. HIDE DEF turned
    <3>. QED  BY <1>1, <3>2, TableFields DEF Rechained
  <2>2. IsFirst(chain, n, key) /\ IsFirst(s, q, key)
    BY <1>1, <1>3, <1>5, FirstFound
  <2>. HIDE DEF slot, chain, n, q, m, v
  <2>4. /\ turned \in Seq(Entries)
        /\ RidsUnder(turned, key) = <<rid>> \o Tail(RidsUnder(chain, key))
        /\ \A k \in Keys : k # key => RidsUnder(turned, k) = RidsUnder(chain, k)
    BY <1>1, <2>2, RidsRedirected
  <2>6. \A j \in 1 .. Len(turned) : hashFunction(h, turned[j].key) = slot
    <3>1. n \in 1 .. Len(chain)
      BY <2>2 DEF IsFirst
    <3>2. \A j \in 1 .. Len(chain) : chain[j] \in Entries
      BY <1>1
    <3>3. Len(turned) = Len(chain) /\ \A j \in 1 .. Len(chain) : turned[j].key = chain[j].key
      BY <1>1, <3>1, <3>2 DEF Redirected, Entries
    <3>. QED  BY <1>1, <3>3
  <2>. HIDE DEF turned
  <2>7. /\ v \in Tables /\ Filed(v)
        /\ \A k \in Keys : getValue(v, k) = IF hashFunction(h, k) = slot THEN RidsUnder(turned, k)
                                            ELSE getValue(h, k)
    BY <1>1, <2>1, <2>4, <2>6, BucketReplaced DEF m
  <2>8. Reassigned(s, key, rid) = Redirected(s, q, rid)
    BY <1>3, <1>5 DEF Reassigned, q
  <2>9. /\ Reassigned(s, key, rid) \in Seq(Entries)
        /\ RidsUnder(Reassigned(s, key, rid), key) = <<rid>> \o Tail(RidsUnder(s, key))
        /\ \A k \in Keys : k # key => RidsUnder(Reassigned(s, key, rid), k) = RidsUnder(s, k)
    BY <2>2, <2>8, RidsRedirected
  <2>10. ASSUME NEW k \in Keys PROVE getValue(v, k) = RidsUnder(Reassigned(s, key, rid), k)
    <3>1. CASE k = key
      BY <1>2, <2>4, <2>7, <2>9, <3>1 DEF slot
    <3>2. CASE k # key /\ hashFunction(h, k) = slot
      <4>1. getValue(h, k) = RidsUnder(chain, k)
        BY <1>1, <3>2 DEF getValue, bucket
      <4>. QED  BY <1>1, <2>4, <2>7, <2>9, <3>2, <4>1
    <3>3. CASE k # key /\ hashFunction(h, k) # slot
      BY <1>1, <2>7, <2>9, <3>3
    <3>. QED  BY <3>1, <3>2, <3>3
  <2>. QED  BY <2>7, <2>9, <2>10 DEF Holds, GoodTables, v
<1>. QED  BY <1>4, <1>5

---------------------------------------------------------------------------
(* The rehash.                                                             *)
Roomier(h) == [NewHashIndex(10 * h.capacity) EXCEPT !.pages = h.pages]

MovedIn(h) ==
  CHOOSE f : f = [n \in 0 .. h.capacity |->
                    IF n = 0 THEN Roomier(h)
                    ELSE insertedAll(f[n - 1], h.hashTable[n - 1])]

LEMMA RoomierEmpty ==
  ASSUME NEW h \in GoodTables
  PROVE  /\ Roomier(h) \in GoodTables
         /\ \A k \in Keys : getValue(Roomier(h), k) = << >>
<1>. DEFINE c == 10 * h.capacity
            r == [capacity |-> c, number_of_entries |-> 0, hashTable |-> NoBuckets(c),
                  pages |-> h.pages]
<1>1. c \in Nat \ {0} /\ h.pages \in Seq(Seq(Entries)) /\ 0 \in Int
  BY TableFields DEF GoodTables
<1>2. Roomier(h) = r
  BY NewTable DEF Roomier
<1>. HIDE DEF c
<1>3. r \in Tables /\ Filed(r) /\ \A k \in Keys : getValue(r, k) = << >>
  BY <1>1, EmptyTable
<1>. QED  BY <1>2, <1>3 DEF GoodTables

LEMMA MovedForm ==
  ASSUME NEW h \in GoodTables
  PROVE  /\ rehashed(h) = MovedIn(h)[h.capacity]
         /\ MovedIn(h)[0] = Roomier(h)
         /\ \A n \in 1 .. h.capacity :
              MovedIn(h)[n] = insertedAll(MovedIn(h)[n - 1], h.hashTable[n - 1])
<1>. DEFINE N == h.capacity
            D == GoodTables
            a == Roomier(h)
            at == MovedIn(h)
            step(f) == [n \in 0 .. N |->
                          IF n = 0 THEN a ELSE insertedAll(f[n - 1], h.hashTable[n - 1])]
            g == [n \in 1 .. N |-> [x \in D |-> insertedAll(x, h.hashTable[n - 1])]]
<1>1. at = CHOOSE f : f = step(f)
  BY DEF MovedIn
<1>2. rehashed(h) = at[N]
  BY DEF rehashed, MovedIn, Roomier
<1>3. N \in Nat /\ \A n \in 1 .. N : h.hashTable[n - 1] \in Seq(Entries)
  <2>1. N \in Nat \ {0} /\ h.hashTable \in [0 .. N - 1 -> Seq(Entries)]
    BY TableFields DEF GoodTables
  <2>2. \A n \in 1 .. N : n - 1 \in 0 .. N - 1
    BY <2>1
  <2>. QED  BY <2>1, <2>2
<1>4. Turns(D, N, g)
      /\ \A n \in 1 .. N, x \in D : g[n][x] = insertedAll(x, h.hashTable[n - 1])
  <2>1. \A n \in 1 .. N, x \in D : insertedAll(x, h.hashTable[n - 1]) \in D
    BY <1>3, AllInserted DEF Grew
  <2>. HIDE DEF D
  <2>. QED  BY <2>1 DEF Turns
<1>. HIDE DEF g, D, a
<1>5. PICK f : Unfolding(f, D, N, g, a)
  BY <1>3, <1>4, Unfolds, RoomierEmpty DEF D, a
<1>6. \A n \in 0 .. N : n = 0 \/ (n \in 1 .. N /\ n - 1 \in 0 .. N)
  BY <1>3
<1>7. f \in [0 .. N -> D] /\ f[0] = a
      /\ \A n \in 1 .. N : f[n] = insertedAll(f[n - 1], h.hashTable[n - 1])
  BY <1>4, <1>5, <1>6 DEF Unfolding
<1>8. f = step(f)
  <2>1. \A n \in 0 .. N : f[n] = step(f)[n]
    BY <1>6, <1>7
  <2>. QED  BY <1>7, <2>1
<1>. HIDE DEF at
<1>9. at = step(at)
  BY <1>1, <1>8
<1>10. at[0] = a /\ \A n \in 1 .. N : at[n] = insertedAll(at[n - 1], h.hashTable[n - 1])
  <2>1. 0 \in 0 .. N /\ \A n \in 1 .. N : n \in 0 .. N /\ n # 0
    BY <1>3
  <2>2. \A n \in 0 .. N :
          at[n] = IF n = 0 THEN a ELSE insertedAll(at[n - 1], h.hashTable[n - 1])
    BY <1>9
  <2>. QED  BY <2>1, <2>2
<1>. QED  BY <1>2, <1>10 DEF at, a

(* A table that has taken over the first n chains of another.              *)
TookOver(r, h, n) ==
  /\ r \in GoodTables
  /\ \A k \in Keys : getValue(r, k) = IF hashFunction(h, k) < n THEN getValue(h, k) ELSE << >>

LEMMA TookOverMore ==
  ASSUME NEW h \in GoodTables, NEW n \in 1 .. h.capacity, NEW r, TookOver(r, h, n - 1)
  PROVE  TookOver(insertedAll(r, h.hashTable[n - 1]), h, n)
<1>. DEFINE chain == h.hashTable[n - 1]
            v == insertedAll(r, chain)
<1>1. /\ h.capacity \in Nat \ {0} /\ chain \in Seq(Entries)
      /\ n - 1 \in DOMAIN h.hashTable
      /\ h \in Tables /\ Filed(h) /\ r \in GoodTables
  <2>1. h \in Tables /\ Filed(h)
    BY DEF GoodTables
  <2>2. r \in GoodTables
    BY DEF TookOver
  <2>3. h.capacity \in Nat \ {0} /\ h.hashTable \in [0 .. h.capacity - 1 -> Seq(Entries)]
    BY <2>1, TableFields
  <2>4. n - 1 \in 0 .. h.capacity - 1
    BY <2>3
  <2>. QED  BY <2>1, <2>2, <2>3, <2>4
<1>2. Grew(v, r, chain)
  BY <1>1, AllInserted
<1>3. \A m \in 1 .. Len(chain) : hashFunction(h, chain[m].key) = n - 1
  BY <1>1 DEF Filed
<1>. HIDE DEF v
<1>4. ASSUME NEW k \in Keys
      PROVE  getValue(v, k) = IF hashFunction(h, k) < n THEN getValue(h, k) ELSE << >>
  <2>. DEFINE slot == hashFunction(h, k)
              a == getValue(r, k)
              b == RidsUnder(chain, k)
  <2>1. slot \in 0 .. h.capacity - 1
    BY <1>1, Hashed
  <2>2. getValue(v, k) = a \o b
    BY <1>2 DEF Grew
  <2>3. a \in Seq(Nat) /\ b \in Seq(Nat)
    BY <1>1, Hashed, RidsType DEF GoodTables, getValue
  <2>4. slot = n - 1 => b = getValue(h, k)
    BY DEF getValue, bucket
  <2>5. slot # n - 1 => b = << >>
    <3>. SUFFICES ASSUME slot # n - 1 PROVE b = << >>
      OBVIOUS
    <3>1. \A m \in 1 .. Len(chain) : chain[m].key # k
      BY <1>3
    <3>. HIDE DEF chain
    <3>. QED  BY <1>1, <3>1, RidsOfStrangers
  <2>6. a = IF slot < n - 1 THEN getValue(h, k) ELSE << >>
    BY DEF TookOver
  <2>. HIDE DEF a, b, slot
  <2>7. a \o << >> = a /\ << >> \o b = b
    BY <2>3, ConcatEmptySeq
  <2>8. slot < n <=> slot = n - 1 \/ slot < n - 1
    BY <1>1, <2>1
  <2>9. slot = n - 1 => ~(slot < n - 1)
    BY <1>1, <2>1
  <2>. QED  BY <2>2, <2>4, <2>5, <2>6, <2>7, <2>8, <2>9 DEF slot
<1>. QED  BY <1>2, <1>4 DEF Grew, TookOver, v

(* A rehash keeps what every key finds, and in the order it had.           *)
LEMMA Rehashed ==
  ASSUME NEW h \in GoodTables
  PROVE  /\ rehashed(h) \in GoodTables
         /\ \A k \in Keys : getValue(rehashed(h), k) = getValue(h, k)
<1>. DEFINE N == h.capacity
            at == MovedIn(h)
            S == {n \in 0 .. N : ~TookOver(at[n], h, n)}
<1>1. /\ N \in Nat /\ rehashed(h) = at[N] /\ at[0] = Roomier(h)
      /\ \A n \in 1 .. N : at[n] = insertedAll(at[n - 1], h.hashTable[n - 1])
  BY MovedForm, TableFields DEF GoodTables
<1>2. \A k \in Keys : hashFunction(h, k) \in 0 .. N - 1
  BY Hashed DEF GoodTables
<1>3. TookOver(at[0], h, 0)
  <2>1. \A k \in Keys : ~(hashFunction(h, k) < 0)
    BY <1>1, <1>2
  <2>. QED  BY <1>1, <2>1, RoomierEmpty DEF TookOver
<1>. HIDE DEF at
<1>4. S = {}
  <2>. SUFFICES ASSUME S # {} PROVE FALSE
    OBVIOUS
  <2>1. S \in SUBSET Nat
    BY <1>1
  <2>2. PICK n \in S : \A k \in S : n <= k
    <3>. HIDE DEF S
    <3>. QED  BY <2>1, LeastNumber
  <2>3. n \in 1 .. N /\ n - 1 \in 0 .. N
    BY <1>1, <1>3
  <2>4. n - 1 \notin S
    <3>. HIDE DEF S
    <3>. QED  BY <2>1, <2>2, <2>3
  <2>5. TookOver(at[n - 1], h, n - 1)
    BY <2>3, <2>4
  <2>6. TookOver(at[n], h, n)
    BY <1>1, <2>3, <2>5, TookOverMore
  <2>. QED  BY <2>6
<1>5. TookOver(at[N], h, N)
  <2>1. N \in 0 .. N
    BY <1>1
  <2>2. N \notin S
    <3>. HIDE DEF S
    <3>. QED  BY <1>4
  <2>. QED  BY <2>1, <2>2
<1>6. \A k \in Keys : hashFunction(h, k) < N
  BY <1>1, <1>2
<1>. QED  BY <1>1, <1>5, <1>6 DEF TookOver

---------------------------------------------------------------------------
(* The wrapper: pages, an insertion, a reload.                             *)
LEMMA PagesGrow ==
  ASSUME NEW p \in Seq(Seq(Entries)), NEW e \in Entries
  PROVE  pagesWith(p, e) \in Seq(Seq(Entries))
<1>. DEFINE n == Len(p)
            T == Seq(Entries)
<1>1. <<e>> \in T /\ \A s \in T : Append(s, e) \in T
  OBVIOUS
<1>. HIDE DEF T
<1>2. p \in Seq(T)
  BY DEF T
<1>3. Append(p, <<e>>) \in Seq(T)
  BY <1>1, <1>2
<1>4. [p EXCEPT ![n] = Append(@, e)] \in Seq(T)
  <2>1. CASE n = 0
    <3>1. n \notin DOMAIN p
      BY <1>2, <2>1
    <3>2. [p EXCEPT ![n] = Append(@, e)] = p
      BY <1>2, <3>1
    <3>. QED  BY <1>2, <3>2
  <2>2. CASE n # 0
    <3>1. n \in 1 .. n /\ n \in Nat /\ p \in [1 .. n -> T]
      BY <1>2, <2>2
    <3>2. Append(p[n], e) \in T
      BY <1>1, <3>1
    <3>. HIDE DEF n
    <3>3. [p EXCEPT ![n] = Append(@, e)] \in [1 .. n -> T]
      BY <3>1, <3>2
    <3>. QED  BY <3>1, <3>3
  <2>. QED  BY <2>1, <2>2
<1>. QED  BY <1>3, <1>4 DEF pagesWith, T

LEMMA OnPages ==
  ASSUME NEW h \in GoodTables, NEW p \in Seq(Seq(Entries))
  PROVE  LET r == [h EXCEPT !.pages = p]
         IN  r \in GoodTables /\ \A k \in Keys : getValue(r, k) = getValue(h, k)
<1>. DEFINE r == [h EXCEPT !.pages = p]
            T == [0 .. h.capacity - 1 -> Seq(Entries)]
            P == Seq(Seq(Entries))
<1>1. /\ h.capacity \in Nat \ {0}
      /\ h \in [capacity : {h.capacity}, number_of_entries : Int, hashTable : T, pages : P]
  BY TableFields DEF GoodTables
<1>. HIDE DEF T, P
<1>2. /\ r \in [capacity : {h.capacity}, number_of_entries : Int, hashTable : T, pages : P]
      /\ r.capacity = h.capacity /\ r.hashTable = h.hashTable
  BY <1>1 DEF P
<1>. HIDE DEF r
<1>3. r \in Tables
  BY <1>1, <1>2 DEF Tables, T, P
<1>4. Filed(r)
  BY <1>2 DEF GoodTables, Filed, hashFunction
<1>5. \A k \in Keys : getValue(r, k) = getValue(h, k)
  BY <1>2 DEF getValue, bucket, hashFunction
<1>. QED  BY <1>3, <1>4, <1>5 DEF GoodTables, r

LEMMA Wrapped ==
  ASSUME NEW h \in GoodTables, NEW e \in Entries
  PROVE  LET v == hashInsert(h, e.key, e.rid)
         IN  /\ v \in GoodTables
             /\ \A k \in Keys : getValue(v, k) = IF k = e.key THEN Append(getValue(h, k), e.rid)
                                                ELSE getValue(h, k)
<1>. DEFINE ready == IF Full(h) THEN rehashed(h) ELSE h
            p == pagesWith(ready.pages, Entry(e.key, e.rid))
            paged == [ready EXCEPT !.pages = p]
            v == insertIndex(paged, e.key, e.rid)
<1>1. e.key \in Keys /\ e.rid \in Nat
  BY DEF Entries
<1>2. ready \in GoodTables /\ \A k \in Keys : getValue(ready, k) = getValue(h, k)
  BY Rehashed
<1>3. hashInsert(h, e.key, e.rid) = v
  BY DEF hashInsert
<1>. HIDE DEF ready
<1>4. p \in Seq(Seq(Entries))
  <2>1. ready.pages \in Seq(Seq(Entries))
    BY <1>2, TableFields DEF GoodTables
  <2>2. Entry(e.key, e.rid) \in Entries
    BY <1>1 DEF Entry, Entries
  <2>. QED  BY <2>1, <2>2, PagesGrow
<1>. HIDE DEF p
<1>5. paged \in GoodTables /\ \A k \in Keys : getValue(paged, k) = getValue(h, k)
  BY <1>2, <1>4, OnPages
<1>. HIDE DEF paged
<1>6. paged \in Tables /\ Filed(paged)
  BY <1>5 DEF GoodTables
<1>7. /\ v \in Tables /\ Filed(v)
      /\ \A k \in Keys : getValue(v, k) = IF k = e.key THEN Append(getValue(paged, k), e.rid)
                                          ELSE getValue(paged, k)
  BY <1>1, <1>6, InsertedIntoBucket
<1>. HIDE DEF v
<1>. QED  BY <1>3, <1>5, <1>7 DEF GoodTables

LEMMA WrapperInserts ==
  ASSUME NEW h, NEW s \in Seq(Entries), Holds(h, s), NEW e \in Entries
  PROVE  Holds(hashInsert(h, e.key, e.rid), Append(s, e))
<1>. DEFINE v == hashInsert(h, e.key, e.rid)
<1>1. h \in GoodTables /\ \A k \in Keys : getValue(h, k) = RidsUnder(s, k)
  BY DEF Holds
<1>2. /\ v \in GoodTables
      /\ \A k \in Keys : getValue(v, k) = IF k = e.key THEN Append(getValue(h, k), e.rid)
                                          ELSE getValue(h, k)
  BY <1>1, Wrapped
<1>. HIDE DEF v
<1>3. ASSUME NEW k \in Keys PROVE getValue(v, k) = RidsUnder(Append(s, e), k)
  <2>1. RidsUnder(Append(s, e), k) =
          IF e.key = k THEN Append(RidsUnder(s, k), e.rid) ELSE RidsUnder(s, k)
    BY RidsOfMore
  <2>. QED  BY <1>1, <1>2, <2>1
<1>. QED  BY <1>2, <1>3 DEF Holds, v

LEMMA Reloaded ==
  ASSUME NEW h \in GoodTables, NEW s \in Seq(Entries)
  PROVE  Holds(loadHashIndex(saveIndexMeta(h), s), s)
<1>. DEFINE m == saveIndexMeta(h)
            c == h.capacity
            n == h.number_of_entries
            p == h.pages
            r == Emptied(m)
            v == insertedAll(r, s)
<1>1. c \in Nat \ {0} /\ n \in Int /\ p \in Seq(Seq(Entries))
  BY TableFields DEF GoodTables
<1>2. r = [capacity |-> c, number_of_entries |-> n, hashTable |-> NoBuckets(c), pages |-> p]
  <2>1. m.capacity = c /\ m.number_of_entries = n /\ m.pages = p
    BY DEF saveIndexMeta
  <2>. HIDE DEF m, c, n, p
  <2>2. r = [NewHashIndex(c) EXCEPT !.number_of_entries = n, !.pages = p]
    BY <2>1 DEF Emptied
  <2>. QED  BY <2>2, NewTable
<1>3. v = loadHashIndex(saveIndexMeta(h), s)
  BY DEF loadHashIndex
<1>. HIDE DEF r, c, n, p
<1>4. r \in Tables /\ Filed(r) /\ \A k \in Keys : getValue(r, k) = << >>
  BY <1>1, <1>2, EmptyTable
<1>5. r \in GoodTables
  BY <1>4 DEF GoodTables
<1>6. Grew(v, r, s)
  BY <1>5, AllInserted
<1>7. ASSUME NEW k \in Keys PROVE getValue(v, k) = RidsUnder(s, k)
  <2>1. getValue(v, k) = << >> \o RidsUnder(s, k) /\ RidsUnder(s, k) \in Seq(Nat)
    BY <1>4, <1>6, RidsType DEF Grew
  <2>. QED  BY <2>1, ConcatEmptySeq
<1>. QED  BY <1>3, <1>6, <1>7 DEF Grew, Holds

---------------------------------------------------------------------------
(* The rows and the history.                                               *)
RowSet == [key : Keys, deleted : BOOLEAN]
ToldSet(n) == [key : Keys, rid : 1 .. n]

LEMMA ToldIsEntries ==
  ASSUME NEW n \in Nat, NEW m \in Nat, n <= m
  PROVE  /\ ToldSet(n) \subseteq Entries /\ Seq(ToldSet(n)) \subseteq Seq(Entries)
         /\ Seq(ToldSet(n)) \subseteq Seq(ToldSet(m))
<1>1. ToldSet(n) \subseteq Entries /\ ToldSet(n) \subseteq ToldSet(m)
  BY DEF ToldSet, Entries
<1>2. \A S, T : S \subseteq T => Seq(S) \subseteq Seq(T)
  OBVIOUS
<1>. QED  BY <1>1, <1>2, Zenon

LEMMA RowsTold ==
  ASSUME rows \in Seq(RowSet)
  PROVE  /\ Len(rows) \in Nat /\ DOMAIN rows = 1 .. Len(rows)
         /\ RowEntries \in Seq(ToldSet(Len(rows))) /\ RowEntries \in Seq(Entries)
         /\ Len(RowEntries) = Len(rows)
<1>. DEFINE N == Len(rows)
<1>1. N \in Nat /\ DOMAIN rows = 1 .. N
  OBVIOUS
<1>2. \A r \in 1 .. N : Entry(rows[r].key, r) \in ToldSet(N)
  <2>1. \A r \in 1 .. N : rows[r] \in RowSet
    OBVIOUS
  <2>. QED  BY <2>1 DEF RowSet, ToldSet, Entry
<1>3. RowEntries = [r \in 1 .. N |-> Entry(rows[r].key, r)]
  BY <1>1 DEF RowEntries
<1>. HIDE DEF N
<1>4. RowEntries \in [1 .. N -> ToldSet(N)]
  BY <1>2, <1>3
<1>5. RowEntries \in Seq(ToldSet(N)) /\ Len(RowEntries) = N
  BY <1>1, <1>4
<1>6. Seq(ToldSet(N)) \subseteq Seq(Entries)
  BY <1>1, ToldIsEntries
<1>. QED  BY <1>1, <1>5, <1>6 DEF N

(* CREATE INDEX, row after row.                                            *)
BuiltIn ==
  CHOOSE f : f = [n \in 0 .. Len(rows) |->
                    IF n = 0 THEN createIndex ELSE Inserted(f[n - 1], RowEntries[n])]

LEMMA BuiltForm ==
  ASSUME kind = "hash", rows \in Seq(RowSet), createIndex \in GoodTables
  PROVE  /\ insertedRows = BuiltIn[Len(rows)]
         /\ BuiltIn[0] = createIndex
         /\ \A n \in 1 .. Len(rows) :
              BuiltIn[n] = hashInsert(BuiltIn[n - 1], RowEntries[n].key, RowEntries[n].rid)
<1>. DEFINE N == Len(rows)
            s == RowEntries
            D == GoodTables
            a == createIndex
            at == BuiltIn
            step(f) == [n \in 0 .. N |-> IF n = 0 THEN a ELSE Inserted(f[n - 1], s[n])]
            g == [n \in 1 .. N |-> [x \in D |-> hashInsert(x, s[n].key, s[n].rid)]]
<1>1. at = CHOOSE f : f = step(f)
  BY DEF BuiltIn
<1>2. insertedRows = at[N]
  BY DEF insertedRows, BuiltIn
<1>. HIDE DEF s
<1>3. N \in Nat /\ \A n \in 1 .. N : s[n] \in Entries
  BY RowsTold DEF s
<1>4. Turns(D, N, g)
      /\ \A n \in 1 .. N, x \in D : g[n][x] = hashInsert(x, s[n].key, s[n].rid)
  <2>1. \A n \in 1 .. N, x \in D : hashInsert(x, s[n].key, s[n].rid) \in D
    BY <1>3, Wrapped
  <2>. HIDE DEF D
  <2>. QED  BY <2>1 DEF Turns
<1>. HIDE DEF g, D, a
<1>5. PICK f : Unfolding(f, D, N, g, a)
  BY <1>3, <1>4, Unfolds DEF D, a
<1>6. \A n \in 0 .. N : n = 0 \/ (n \in 1 .. N /\ n - 1 \in 0 .. N)
  BY <1>3
<1>7. \A x, e : Inserted(x, e) = hashInsert(x, e.key, e.rid)
  BY DEF Inserted
<1>8. f \in [0 .. N -> D] /\ f[0] = a
      /\ \A n \in 1 .. N : f[n] = Inserted(f[n - 1], s[n])
  BY <1>4, <1>5, <1>6, <1>7 DEF Unfolding
<1>9. f = step(f)
  <2>1. \A n \in 0 .. N : f[n] = step(f)[n]
    BY <1>6, <1>8
  <2>. QED  BY <1>8, <2>1
<1>. HIDE DEF at
<1>10. at = step(at)
  BY <1>1, <1>9
<1>11. at[0] = a /\ \A n \in 1 .. N : at[n] = hashInsert(at[n - 1], s[n].key, s[n].rid)
  <2>1. 0 \in 0 .. N /\ \A n \in 1 .. N : n \in 0 .. N /\ n # 0
    BY <1>3
  <2>2. \A n \in 0 .. N : at[n] = IF n = 0 THEN a ELSE Inserted(at[n - 1], s[n])
    BY <1>10
  <2>. QED  BY <1>7, <2>1, <2>2
<1>. QED  BY <1>2, <1>11 DEF at, a, s

LEMMA ToldMore ==
  ASSUME NEW t \in Seq(Entries), NEW s \in Seq(Entries)
  PROVE  /\ t \o SubSeq(s, 1, 0) = t /\ t \o SubSeq(s, 1, Len(s)) = t \o s
         /\ \A n \in 1 .. Len(s) :
              /\ t \o SubSeq(s, 1, n - 1) \in Seq(Entries) /\ s[n] \in Entries
              /\ t \o SubSeq(s, 1, n) = Append(t \o SubSeq(s, 1, n - 1), s[n])
<1>1. t \o SubSeq(s, 1, 0) = t /\ t \o SubSeq(s, 1, Len(s)) = t \o s
  BY PrefixGrows, ConcatEmptySeq
<1>2. ASSUME NEW n \in 1 .. Len(s)
      PROVE  /\ t \o SubSeq(s, 1, n - 1) \in Seq(Entries) /\ s[n] \in Entries
             /\ t \o SubSeq(s, 1, n) = Append(t \o SubSeq(s, 1, n - 1), s[n])
  <2>. DEFINE p == SubSeq(s, 1, n - 1)
              e == s[n]
  <2>1. p \in Seq(Entries) /\ e \in Entries /\ SubSeq(s, 1, n) = Append(p, e)
    BY PrefixGrows
  <2>. HIDE DEF p, e
  <2>2. t \o p \in Seq(Entries)
    BY <2>1
  <2>3. t \o Append(p, e) = Append(t \o p, e)
    <3>1. Append(p, e) = p \o <<e>> /\ Append(t \o p, e) = (t \o p) \o <<e>>
      BY <2>1, <2>2, AppendIsConcat
    <3>2. <<e>> \in Seq(Entries)
      BY <2>1
    <3>. QED  BY <2>1, <3>1, <3>2, ConcatAssociative
  <2>. QED  BY <2>1, <2>2, <2>3 DEF p, e
<1>. QED  BY <1>1, <1>2

LEMMA RowsInserted ==
  ASSUME kind = "hash", rows \in Seq(RowSet), told \in Seq(Entries), Holds(createIndex, told)
  PROVE  Holds(insertedRows, told \o RowEntries)
<1>. DEFINE N == Len(rows)
            s == RowEntries
            at == BuiltIn
            S == {n \in 0 .. N : ~Holds(at[n], told \o SubSeq(s, 1, n))}
<1>1. /\ N \in Nat /\ s \in Seq(Entries) /\ Len(s) = N
      /\ insertedRows = at[N] /\ at[0] = createIndex
      /\ \A n \in 1 .. N : at[n] = hashInsert(at[n - 1], s[n].key, s[n].rid)
  BY RowsTold, BuiltForm DEF Holds
<1>. HIDE DEF at, N, s
<1>2. /\ told \o SubSeq(s, 1, 0) = told /\ told \o SubSeq(s, 1, N) = told \o s
      /\ \A n \in 1 .. N :
           /\ told \o SubSeq(s, 1, n - 1) \in Seq(Entries) /\ s[n] \in Entries
           /\ told \o SubSeq(s, 1, n) = Append(told \o SubSeq(s, 1, n - 1), s[n])
  BY <1>1, ToldMore
<1>3. Holds(at[0], told \o SubSeq(s, 1, 0))
  BY <1>1, <1>2
<1>4. S = {}
  <2>. SUFFICES ASSUME S # {} PROVE FALSE
    OBVIOUS
  <2>1. S \in SUBSET Nat
    BY <1>1
  <2>2. PICK n \in S : \A k \in S : n <= k
    <3>. HIDE DEF S
    <3>. QED  BY <2>1, LeastNumber
  <2>3. n \in 1 .. N /\ n - 1 \in 0 .. N
    BY <1>1, <1>3
  <2>4. n - 1 \notin S
    <3>. HIDE DEF S
    <3>. QED  BY <2>1, <2>2, <2>3
  <2>. DEFINE p == told \o SubSeq(s, 1, n - 1)
              h == at[n - 1]
              e == s[n]
  <2>5. /\ Holds(h, p) /\ p \in Seq(Entries) /\ e \in Entries
        /\ told \o SubSeq(s, 1, n) = Append(p, e)
        /\ at[n] = hashInsert(h, e.key, e.rid)
    BY <1>1, <1>2, <2>3, <2>4
  <2>. HIDE DEF p, h, e
  <2>6. Holds(hashInsert(h, e.key, e.rid), Append(p, e))
    BY <2>5, WrapperInserts
  <2>. QED  BY <2>5, <2>6
<1>5. Holds(at[N], told \o SubSeq(s, 1, N))
  <2>1. N \in 0 .. N
    BY <1>1
  <2>2. N \notin S
    <3>. HIDE DEF S
    <3>. QED  BY <1>4
  <2>. QED  BY <2>1, <2>2
<1>. QED  BY <1>1, <1>2, <1>5 DEF s

(* An index made for a column that had none, and the one it had.           *)
LEMMA Made ==
  ASSUME kind = "hash", IF index = NoIndex THEN told = << >> ELSE Holds(index, told)
  PROVE  Holds(createIndex, told)
<1>1. CASE index # NoIndex
  BY <1>1 DEF createIndex
<1>2. CASE index = NoIndex
  <2>. DEFINE r == NewHashIndex(TableSize)
              p == << << >>, << >> >>
  <2>1. /\ TableSize \in Nat \ {0} /\ 0 \in Int
        /\ r = [capacity |-> TableSize, number_of_entries |-> 0,
                hashTable |-> NoBuckets(TableSize), pages |-> p]
    BY SizeAssumption DEF NewHashIndex
  <2>2. p \in Seq(Seq(Entries))
    <3>1. << >> \in Seq(Entries)
      OBVIOUS
    <3>. QED  BY <3>1
  <2>3. createIndex = r
    BY <1>2 DEF createIndex
  <2>. HIDE DEF p, r
  <2>4. r \in Tables /\ Filed(r) /\ \A k \in Keys : getValue(r, k) = << >>
    BY <2>1, <2>2, EmptyTable
  <2>5. \A k \in Keys : RidsUnder(told, k) = << >>
    BY <1>2, RidsOfNone
  <2>. QED  BY <2>3, <2>4, <2>5 DEF Holds, GoodTables
<1>. QED  BY <1>1, <1>2

LEMMA HeldIsIndex ==
  ASSUME NEW h, NEW s, Holds(h, s)
  PROVE  h # NoIndex
<1>1. h \in Tables
  BY DEF Holds, GoodTables
<1>. DEFINE T == [0 .. h.capacity - 1 -> Seq(Entries)]
            P == Seq(Seq(Entries))
<1>2. h \in [capacity : {h.capacity}, number_of_entries : Int, hashTable : T, pages : P]
  BY <1>1, TableFields
<1>. HIDE DEF T, P
<1>3. "capacity" \in DOMAIN h
  BY <1>2
<1>4. DOMAIN NoIndex = {}
  BY DEF NoIndex
<1>. QED  BY <1>3, <1>4

---------------------------------------------------------------------------
(* The inductive invariant: the types, and that a hash index in use holds, *)
(* for every key and in this order, the rids it was told of; that alone is *)
(* not enough, since what a chain yields must survive a rehash and the     *)
(* removals from its neighbours, so it also is a table whose entries are   *)
(* all in the bucket of their key (GoodTables).                            *)
Typed ==
  /\ kind \in {"hash", "tree"} /\ alive \in BOOLEAN
  /\ rows \in Seq(RowSet)
  /\ told \in Seq(ToldSet(Len(rows)))
  /\ touched \subseteq 1 .. Len(rows)

HashHolds ==
  kind = "hash" /\ alive => IF index = NoIndex THEN told = << >> ELSE Holds(index, told)

IInv == Typed /\ HashHolds

LEMMA TypedIsTypeOK == (Typed <=> TypeOK) /\ (Typed' <=> TypeOK')
<1>1. \A s \in Seq(RowSet) : DOMAIN s = 1 .. Len(s)
  OBVIOUS
<1>2. \A n : ToldSet(n) = [key : Keys, rid : 1 .. n]
  BY DEF ToldSet
<1>3. Typed <=> TypeOK
  BY <1>1, <1>2 DEF Typed, TypeOK, RowSet
<1>4. Typed' <=> TypeOK'
  BY <1>1, <1>2 DEF Typed, TypeOK, RowSet
<1>. QED  BY <1>3, <1>4

LEMMA Widths ==
  ASSUME Typed
  PROVE  /\ Len(rows) \in Nat /\ DOMAIN rows = 1 .. Len(rows)
         /\ told \in Seq(Entries)
         /\ \A n \in 1 .. Len(told) : told[n].key \in Keys /\ told[n].rid \in 1 .. Len(rows)
         /\ RowEntries \in Seq(ToldSet(Len(rows))) /\ RowEntries \in Seq(Entries)
         /\ \A r \in 1 .. Len(rows) : RowEntries[r] \in ToldSet(Len(rows))
<1>1. /\ Len(rows) \in Nat /\ DOMAIN rows = 1 .. Len(rows)
      /\ RowEntries \in Seq(ToldSet(Len(rows))) /\ RowEntries \in Seq(Entries)
      /\ Len(RowEntries) = Len(rows)
  BY RowsTold DEF Typed
<1>. DEFINE N == Len(rows)
            s == RowEntries
<1>. HIDE DEF N, s
<1>2. told \in Seq(ToldSet(N)) /\ Seq(ToldSet(N)) \subseteq Seq(Entries)
  BY <1>1, ToldIsEntries DEF Typed, N
<1>3. \A n \in 1 .. Len(told) : told[n] \in ToldSet(N)
  BY <1>2
<1>4. \A r \in 1 .. N : s[r] \in ToldSet(N)
  BY <1>1 DEF s, N
<1>. QED  BY <1>1, <1>2, <1>3, <1>4 DEF s, N, ToldSet

LEMMA RowStep ==
  ASSUME IInv, UNCHANGED <<kind, index, alive, told>>, rows' \in Seq(RowSet),
         Len(rows') >= Len(rows), touched' \subseteq 1 .. Len(rows')
  PROVE  IInv'
<1>1. Len(rows) \in Nat /\ Len(rows') \in Nat
  BY DEF IInv, Typed
<1>2. told' \in Seq(ToldSet(Len(rows')))
  <2>. DEFINE n == Len(rows)
              m == Len(rows')
  <2>1. told \in Seq(ToldSet(n)) /\ n \in Nat /\ m \in Nat /\ n <= m
    BY <1>1 DEF IInv, Typed
  <2>. HIDE DEF n, m
  <2>2. Seq(ToldSet(n)) \subseteq Seq(ToldSet(m))
    BY <2>1, ToldIsEntries
  <2>. QED  BY <2>1, <2>2 DEF m
<1>3. Typed'
  BY <1>2 DEF IInv, Typed
<1>4. HashHolds'
  <2>1. kind' = kind /\ index' = index /\ alive' = alive /\ told' = told /\ HashHolds
    BY DEF IInv
  <2>. QED  BY <2>1 DEF HashHolds, NoIndex, Holds, GoodTables, Filed, hashFunction, getValue, bucket
<1>. QED  BY <1>3, <1>4 DEF IInv

LEMMA InsertRowKeeps ==
  ASSUME IInv, NEW key \in Keys, InsertRow(key)
  PROVE  IInv'
<1>1. /\ UNCHANGED <<kind, index, alive, told>>
      /\ rows' = Append(rows, [key |-> key, deleted |-> FALSE])
      /\ touched' = IF index = NoIndex THEN touched ELSE touched \cup {Len(rows')}
  BY DEF InsertRow
<1>2. rows \in Seq(RowSet) /\ touched \subseteq 1 .. Len(rows)
  BY DEF IInv, Typed
<1>3. [key |-> key, deleted |-> FALSE] \in RowSet
  BY DEF RowSet
<1>4. rows' \in Seq(RowSet) /\ Len(rows') = Len(rows) + 1 /\ Len(rows) \in Nat
  BY <1>1, <1>2, <1>3
<1>5. touched' \subseteq 1 .. Len(rows')
  <2>. DEFINE n == Len(rows)
              m == Len(rows')
  <2>1. m = n + 1 /\ n \in Nat /\ touched \subseteq 1 .. n
        /\ touched' \subseteq touched \cup {m}
    BY <1>1, <1>2, <1>4
  <2>. HIDE DEF n, m
  <2>2. touched' \subseteq 1 .. m
    BY <2>1
  <2>. QED  BY <2>2 DEF m
<1>. QED  BY <1>1, <1>4, <1>5, RowStep

LEMMA ChangeRowKeeps ==
  ASSUME IInv, NEW r \in DOMAIN rows,
         DeleteRow(r) \/ \E key \in Keys : UpdateRow(r, key)
  PROVE  IInv'
<1>1. rows \in Seq(RowSet) /\ touched \subseteq 1 .. Len(rows) /\ r \in 1 .. Len(rows)
  BY Widths DEF IInv, Typed
<1>2. rows[r] \in RowSet
  BY <1>1
<1>3. rows' \in Seq(RowSet) /\ Len(rows') = Len(rows)
  <2>1. PICK row \in RowSet : rows' = [rows EXCEPT ![r] = row]
    <3>1. CASE DeleteRow(r)
      <4>. DEFINE row == [rows[r] EXCEPT !.deleted = TRUE]
      <4>1. row \in RowSet
        BY <1>2 DEF RowSet
      <4>2. rows' = [rows EXCEPT ![r] = row]
        BY <3>1 DEF DeleteRow
      <4>. QED  BY <4>1, <4>2
    <3>2. CASE \E key \in Keys : UpdateRow(r, key)
      <4>1. PICK key \in Keys : UpdateRow(r, key)
        BY <3>2
      <4>. DEFINE row == [rows[r] EXCEPT !.key = key]
      <4>2. row \in RowSet
        BY <1>2 DEF RowSet
      <4>3. rows' = [rows EXCEPT ![r] = row]
        BY <4>1 DEF UpdateRow
      <4>. QED  BY <4>2, <4>3
    <3>. QED  BY <3>1, <3>2
  <2>. QED  BY <1>1, <2>1
<1>4. UNCHANGED <<kind, index, alive, told>> /\ touched' = touched \cup {r}
  BY DEF DeleteRow, UpdateRow
<1>5. touched' \subseteq 1 .. Len(rows') /\ Len(rows') >= Len(rows)
  <2>. DEFINE n == Len(rows)
  <2>1. Len(rows') = n /\ n \in Nat /\ touched \subseteq 1 .. n /\ r \in 1 .. n
    BY <1>1, <1>3
  <2>. HIDE DEF n
  <2>2. touched' \subseteq 1 .. n
    BY <1>4, <2>1
  <2>. QED  BY <2>1, <2>2 DEF n
<1>. QED  BY <1>3, <1>4, <1>5, RowStep

LEMMA IndexStep ==
  ASSUME IInv, UNCHANGED <<kind, rows>>, alive' \in BOOLEAN,
         told' \in Seq(ToldSet(Len(rows))), touched' \subseteq 1 .. Len(rows),
         kind = "hash" /\ alive' => Holds(index', told')
  PROVE  IInv'
<1>1. Typed'
  BY DEF IInv, Typed
<1>2. HashHolds'
  <2>1. kind' = "hash" /\ alive' => index' # NoIndex /\ Holds(index', told')
    BY HeldIsIndex
  <2>. QED  BY <2>1 DEF HashHolds, NoIndex, Holds, GoodTables, Filed, hashFunction, getValue,
                        bucket
<1>. QED  BY <1>1, <1>2 DEF IInv

LEMMA CreateIndexKeeps ==
  ASSUME IInv, CreateIndex
  PROVE  IInv'
<1>1. /\ alive /\ alive' = ~AnyDeleted /\ UNCHANGED <<kind, rows>>
      /\ index' = IF AnyDeleted THEN index ELSE insertedRows
      /\ told' = IF AnyDeleted THEN told ELSE told \o RowEntries
      /\ touched' = IF AnyDeleted \/ index # NoIndex THEN touched ELSE {}
  BY DEF CreateIndex
<1>2. Typed /\ HashHolds
  BY DEF IInv
<1>3. alive' \in BOOLEAN /\ touched' \subseteq 1 .. Len(rows)
  BY <1>1, <1>2 DEF Typed
<1>4. told' \in Seq(ToldSet(Len(rows)))
  <2>1. told \in Seq(ToldSet(Len(rows))) /\ RowEntries \in Seq(ToldSet(Len(rows)))
    BY <1>2, Widths DEF Typed
  <2>2. told \o RowEntries \in Seq(ToldSet(Len(rows)))
    BY <2>1
  <2>. QED  BY <1>1, <2>1, <2>2
<1>5. kind = "hash" /\ alive' => Holds(index', told')
  <2>. SUFFICES ASSUME kind = "hash", alive' PROVE Holds(index', told')
    OBVIOUS
  <2>1. ~AnyDeleted /\ index' = insertedRows /\ told' = told \o RowEntries
    BY <1>1
  <2>2. rows \in Seq(RowSet) /\ told \in Seq(Entries)
    BY <1>2, Widths DEF Typed
  <2>3. Holds(createIndex, told)
    BY <1>1, <1>2, Made DEF HashHolds
  <2>4. Holds(insertedRows, told \o RowEntries)
    BY <2>2, <2>3, RowsInserted
  <2>. QED  BY <2>1, <2>4
<1>. QED  BY <1>1, <1>3, <1>4, <1>5, IndexStep

LEMMA AddRowKeeps ==
  ASSUME IInv, AddRow
  PROVE  IInv'
<1>. DEFINE n == Len(rows)
            e == RowEntries[n]
<1>1. /\ alive /\ index # NoIndex /\ n \in touched /\ UNCHANGED <<kind, rows, alive>>
      /\ index' = Inserted(index, e) /\ told' = Append(told, e)
      /\ touched' = touched \ {n}
  BY DEF AddRow
<1>2. /\ Typed /\ HashHolds
      /\ touched \subseteq 1 .. n /\ told \in Seq(ToldSet(n)) /\ told \in Seq(Entries)
      /\ n \in Nat /\ \A r \in 1 .. n : RowEntries[r] \in ToldSet(n)
  BY Widths DEF IInv, Typed
<1>. HIDE DEF n
<1>3. e \in ToldSet(n) /\ e \in Entries
  <2>1. e \in ToldSet(n)
    BY <1>1, <1>2
  <2>2. ToldSet(n) \subseteq Entries
    BY <1>2, ToldIsEntries
  <2>. QED  BY <2>1, <2>2
<1>. HIDE DEF e
<1>4. alive' \in BOOLEAN /\ touched' \subseteq 1 .. n /\ told' \in Seq(ToldSet(n))
  BY <1>1, <1>2, <1>3 DEF Typed
<1>5. kind = "hash" /\ alive' => Holds(index', told')
  <2>. SUFFICES ASSUME kind = "hash" PROVE Holds(index', told')
    OBVIOUS
  <2>1. Holds(index, told) /\ index' = hashInsert(index, e.key, e.rid)
    BY <1>1, <1>2 DEF HashHolds, Inserted
  <2>2. Holds(hashInsert(index, e.key, e.rid), Append(told, e))
    BY <1>2, <1>3, <2>1, WrapperInserts
  <2>. QED  BY <1>1, <2>1, <2>2
<1>. QED  BY <1>1, <1>4, <1>5, IndexStep DEF n

LEMMA FirstOfTold ==
  ASSUME Typed, NEW key \in Keys
  PROVE  /\ FirstOf(key) = FirstUnder(told, key)
         /\ FirstOf(key) # 0 => /\ FirstOf(key) \in 1 .. Len(told)
                                /\ told[FirstOf(key)].rid \in 1 .. Len(rows)
                                /\ told[FirstOf(key)].key \in Keys
<1>1. FirstOf(key) = FirstUnder(told, key)
  BY DEF FirstOf, FirstUnder
<1>2. told \in Seq(Entries)
      /\ \A n \in 1 .. Len(told) : told[n].key \in Keys /\ told[n].rid \in 1 .. Len(rows)
  BY Widths
<1>3. FirstUnder(told, key) # 0 => IsFirst(told, FirstUnder(told, key), key)
  BY <1>2, FirstFound
<1>. QED  BY <1>1, <1>2, <1>3 DEF IsFirst

LEMMA RemoveKeyKeeps ==
  ASSUME IInv, NEW key \in Keys, RemoveKey(key)
  PROVE  IInv'
<1>. DEFINE first == FirstOf(key)
            removed == Removed(key)
            n == Len(rows)
<1>1. /\ alive /\ index # NoIndex /\ UNCHANGED <<kind, rows>>
      /\ IF removed = {} THEN alive' = FALSE /\ UNCHANGED index
         ELSE index' \in removed /\ UNCHANGED alive
      /\ told' = IF alive' /\ first # 0 THEN RemoveAt(told, first) ELSE told
      /\ touched' = IF first # 0 THEN touched \cup {told[first].rid} ELSE touched
  BY DEF RemoveKey
<1>2. /\ Typed /\ HashHolds
      /\ touched \subseteq 1 .. n /\ told \in Seq(ToldSet(n)) /\ told \in Seq(Entries)
      /\ n \in Nat /\ alive \in BOOLEAN
  BY Widths DEF IInv, Typed
<1>3. /\ first = FirstUnder(told, key)
      /\ first # 0 => first \in 1 .. Len(told) /\ told[first].rid \in 1 .. n
  BY <1>2, FirstOfTold
<1>. HIDE DEF first, n
<1>4. told' \in Seq(ToldSet(n))
  <2>1. first # 0 => RemoveAt(told, first) \in Seq(ToldSet(n))
    BY <1>2, <1>3, RemoveAtElements
  <2>. QED  BY <1>1, <1>2, <2>1
<1>5. touched' \subseteq 1 .. n /\ alive' \in BOOLEAN
  <2>. HIDE DEF removed
  <2>1. alive' \in BOOLEAN
    BY <1>1, <1>2
  <2>2. touched' \subseteq 1 .. n
    BY <1>1, <1>2, <1>3
  <2>. QED  BY <2>1, <2>2
<1>6. kind = "hash" /\ alive' => Holds(index', told')
  <2>. SUFFICES ASSUME kind = "hash", alive' PROVE Holds(index', told')
    OBVIOUS
  <2>1. index' \in removed
    <3>. HIDE DEF removed
    <3>. QED  BY <1>1
  <2>2. index' \in deleteIndex(index, key)
    <3>1. removed = IF DeleteCrashes(index, key) THEN {} ELSE deleteIndex(index, key)
      BY DEF Removed
    <3>. HIDE DEF removed
    <3>. QED  BY <2>1, <3>1
  <2>3. told' = Forgotten(told, key)
    <3>. HIDE DEF removed
    <3>. QED  BY <1>1, <1>3 DEF Forgotten
  <2>4. Holds(index, told)
    BY <1>1, <1>2 DEF HashHolds
  <2>. HIDE DEF removed
  <2>5. Holds(index', Forgotten(told, key))
    BY <1>2, <2>2, <2>4, RemovedFromBucket
  <2>. QED  BY <2>3, <2>5
<1>. QED  BY <1>1, <1>4, <1>5, <1>6, IndexStep DEF n

LEMMA UpdateEntryKeeps ==
  ASSUME IInv, NEW key \in Keys, UpdateEntry(key)
  PROVE  IInv'
<1>. DEFINE first == FirstOf(key)
            n == Len(rows)
            moved == [told EXCEPT ![first].rid = n]
<1>1. /\ alive /\ kind = "hash" /\ index # NoIndex /\ rows # << >>
      /\ UNCHANGED <<kind, rows, alive>>
      /\ index' = updateIndex(index, key, n)
      /\ told' = IF first # 0 THEN moved ELSE told
      /\ touched' = IF first # 0 THEN touched \cup {told[first].rid, n} ELSE touched
  BY DEF UpdateEntry
<1>2. /\ Typed /\ HashHolds
      /\ touched \subseteq 1 .. n /\ told \in Seq(ToldSet(n)) /\ told \in Seq(Entries)
      /\ n \in Nat /\ alive \in BOOLEAN
  BY Widths DEF IInv, Typed
<1>3. /\ first = FirstUnder(told, key)
      /\ first # 0 => /\ first \in 1 .. Len(told) /\ told[first].rid \in 1 .. n
                      /\ told[first].key \in Keys
  BY <1>2, FirstOfTold
<1>4. n \in 1 .. n
  BY <1>1, <1>2 DEF Typed
<1>. HIDE DEF first, n
<1>5. told' \in Seq(ToldSet(n))
  <2>1. CASE first # 0
    <3>. DEFINE e == [told[first] EXCEPT !.rid = n]
    <3>1. told[first] \in ToldSet(n)
      BY <1>2, <1>3, <2>1
    <3>2. e \in ToldSet(n)
      BY <1>4, <3>1 DEF ToldSet
    <3>3. moved = [told EXCEPT ![first] = e]
      OBVIOUS
    <3>. HIDE DEF e
    <3>4. moved \in Seq(ToldSet(n))
      BY <1>2, <1>3, <2>1, <3>2, <3>3
    <3>. QED  BY <1>1, <2>1, <3>4
  <2>2. CASE first = 0
    BY <1>1, <1>2, <2>2
  <2>. QED  BY <2>1, <2>2
<1>6. touched' \subseteq 1 .. n
  BY <1>1, <1>2, <1>3, <1>4
<1>7. Holds(index', told')
  <2>1. Holds(index, told)
    BY <1>1, <1>2 DEF HashHolds
  <2>2. told' = Reassigned(told, key, n)
    BY <1>1, <1>3 DEF Reassigned, Redirected
  <2>3. Holds(updateIndex(index, key, n), Reassigned(told, key, n))
    BY <1>2, <2>1, UpdatedInBucket
  <2>. QED  BY <1>1, <2>2, <2>3
<1>. QED  BY <1>1, <1>2, <1>5, <1>6, <1>7, IndexStep DEF n

LEMMA ReopenKeeps ==
  ASSUME IInv, Reopen
  PROVE  IInv'
<1>. DEFINE n == Len(rows)
<1>1. /\ alive /\ index # NoIndex /\ alive' = ~AnyDeleted /\ UNCHANGED <<kind, rows>>
      /\ index' = IF AnyDeleted THEN index
                  ELSE IF kind = "hash" THEN loadHashIndex(saveIndexMeta(index), RowEntries)
                  ELSE loadBPlusTree(saveBPlusTree(index))
      /\ told' = IF kind = "hash" /\ ~AnyDeleted THEN RowEntries ELSE told
      /\ touched' = IF kind = "hash" /\ ~AnyDeleted THEN {} ELSE touched
  BY DEF Reopen
<1>2. /\ Typed /\ HashHolds
      /\ touched \subseteq 1 .. n /\ told \in Seq(ToldSet(n))
      /\ RowEntries \in Seq(ToldSet(n)) /\ RowEntries \in Seq(Entries)
  BY Widths DEF IInv, Typed
<1>. HIDE DEF n
<1>3. alive' \in BOOLEAN /\ touched' \subseteq 1 .. n /\ told' \in Seq(ToldSet(n))
  BY <1>1, <1>2
<1>4. kind = "hash" /\ alive' => Holds(index', told')
  <2>. SUFFICES ASSUME kind = "hash", alive' PROVE Holds(index', told')
    OBVIOUS
  <2>1. index \in GoodTables
    BY <1>1, <1>2 DEF HashHolds, Holds
  <2>2. Holds(loadHashIndex(saveIndexMeta(index), RowEntries), RowEntries)
    BY <1>2, <2>1, Reloaded
  <2>3. index' = loadHashIndex(saveIndexMeta(index), RowEntries) /\ told' = RowEntries
    BY <1>1
  <2>. QED  BY <2>2, <2>3
<1>. QED  BY <1>1, <1>3, <1>4, IndexStep DEF n

---------------------------------------------------------------------------
LEMMA InitHolds == Init => IInv
<1>. SUFFICES ASSUME Init PROVE IInv
  OBVIOUS
<1>1. /\ kind \in {"hash", "tree"} /\ rows = << >> /\ index = NoIndex /\ alive = TRUE
      /\ told = << >> /\ touched = {}
  BY DEF Init
<1>2. rows \in Seq(RowSet) /\ told \in Seq(ToldSet(Len(rows)))
  BY <1>1
<1>. QED  BY <1>1, <1>2 DEF IInv, Typed, HashHolds

LEMMA StepHolds == IInv /\ [Next]_vars => IInv'
<1>. SUFFICES ASSUME IInv, [Next]_vars PROVE IInv'
  OBVIOUS
<1>1. CASE \E key \in Keys : InsertRow(key)
  BY <1>1, InsertRowKeeps
<1>2. CASE \E key \in Keys : RemoveKey(key)
  BY <1>2, RemoveKeyKeeps
<1>3. CASE \E key \in Keys : UpdateEntry(key)
  BY <1>3, UpdateEntryKeeps
<1>4. CASE \E r \in DOMAIN rows : DeleteRow(r) \/ \E key \in Keys : UpdateRow(r, key)
  BY <1>4, ChangeRowKeeps
<1>5. CASE CreateIndex
  BY <1>5, CreateIndexKeeps
<1>6. CASE AddRow
  BY <1>6, AddRowKeeps
<1>7. CASE Reopen
  BY <1>7, ReopenKeeps
<1>8. CASE UNCHANGED vars
  <2>1. UNCHANGED <<kind, rows, index, alive, told, touched>>
    BY <1>8 DEF vars
  <2>2. Typed /\ HashHolds
    BY DEF IInv
  <2>3. Typed'
    BY <2>1, <2>2 DEF Typed
  <2>4. HashHolds'
    BY <2>1, <2>2 DEF HashHolds, NoIndex, Holds, GoodTables, Filed, hashFunction, getValue,
                      bucket
  <2>. QED  BY <2>3, <2>4 DEF IInv
<1>. QED  BY <1>1, <1>2, <1>3, <1>4, <1>5, <1>6, <1>7, <1>8 DEF Next

(* What the index was told and the rows are well formed in every reachable *)
(* state, whatever statements, removals and reopenings led to it           *)
(* (create_index_operator.c++:24-42).                                      *)
THEOREM TypeCorrect == Spec => []TypeOK
<1>1. IInv => TypeOK
  BY TypedIsTypeOK DEF IInv
<1>. QED  BY InitHolds, StepHolds, <1>1, PTL DEF Spec

(* The hash index finds, for every key, the rids of the entries it was     *)
(* told of and that were not removed, each as often and in the order it    *)
(* got them: through collisions, rehashes, removals from a chain, updates  *)
(* and a rebuild from the rows (StaticHashIndexWrapper.c++:42-72,          *)
(* static_hash_index.c++).                                                 *)
THEOREM LookupsExact == Spec => []HashLookupsExact
<1>1. IInv => HashLookupsExact
  BY DEF IInv, HashHolds, HashLookupsExact, Usable, Holds
<1>. QED  BY InitHolds, StepHolds, <1>1, PTL DEF Spec

---------------------------------------------------------------------------
(* What is stale: a row no statement and no removal touched since the      *)
(* index was built is listed under its key exactly when it is live.        *)
Listed(s, key, r) == \E m \in 1 .. Len(s) : s[m].key = key /\ s[m].rid = r

Live(key, r) == rows[r].key = key /\ ~rows[r].deleted

Fresh ==
  kind = "hash" /\ alive /\ index # NoIndex =>
    \A key \in Keys, r \in 1 .. Len(rows) :
      r \notin touched => (Live(key, r) <=> Listed(told, key, r))

LEMMA ListedIsFound ==
  ASSUME NEW s \in Seq(Entries), NEW key
  PROVE  \A r : r \in Range(RidsUnder(s, key)) <=> Listed(s, key, r)
<1>. DEFINE N == Len(s)
            at == FoundIn(s, key)
            list(n) == {s[m].rid : m \in {i \in 1 .. n : s[i].key = key}}
            S == {n \in 0 .. N : Range(at[n]) # list(n)}
<1>1. /\ N \in Nat /\ at \in [0 .. N -> Seq(Nat)] /\ at[0] = << >>
      /\ RidsUnder(s, key) = at[N]
      /\ \A n \in 1 .. N : at[n] = FoundNext(at[n - 1], s[n], key)
      /\ \A n \in 1 .. N : s[n].rid \in Nat
  <2>1. \A n \in 1 .. N : s[n] \in Entries
    OBVIOUS
  <2>2. \A n \in 1 .. N : s[n].rid \in Nat
    BY <2>1 DEF Entries
  <2>3. N \in Nat
    OBVIOUS
  <2>4. /\ at \in [0 .. N -> Seq(Nat)] /\ at[0] = << >> /\ RidsUnder(s, key) = at[N]
        /\ \A n \in 1 .. N : at[n] = FoundNext(at[n - 1], s[n], key)
    BY FoundForm
  <2>. QED  BY <2>2, <2>3, <2>4
<1>. HIDE DEF at, N
<1>2. Range(at[0]) = list(0)
  <2>1. Range(<< >>) = {}
    BY DEF Range
  <2>2. 1 .. 0 = {}
    OBVIOUS
  <2>. QED  BY <1>1, <2>1, <2>2
<1>3. S = {}
  <2>. SUFFICES ASSUME S # {} PROVE FALSE
    OBVIOUS
  <2>1. S \in SUBSET Nat
    BY <1>1
  <2>2. PICK n \in S : \A k \in S : n <= k
    <3>. HIDE DEF S
    <3>. QED  BY <2>1, LeastNumber
  <2>3. n \in 1 .. N /\ n - 1 \in 0 .. N
    BY <1>1, <1>2
  <2>4. n - 1 \notin S
    <3>. HIDE DEF S
    <3>. QED  BY <2>1, <2>2, <2>3
  <2>5. Range(at[n - 1]) = list(n - 1)
    BY <2>3, <2>4
  <2>6. \A i : i \in 1 .. n <=> i \in 1 .. n - 1 \/ i = n
    BY <1>1, <2>3
  <2>7. at[n - 1] \in Seq(Nat) /\ s[n].rid \in Nat /\ at[n] = FoundNext(at[n - 1], s[n], key)
    BY <1>1, <2>3
  <2>8. Range(at[n]) = list(n)
    <3>1. CASE s[n].key = key
      <4>1. list(n) = list(n - 1) \cup {s[n].rid}
        BY <2>6, <3>1
      <4>. HIDE DEF list
      <4>2. at[n] = Append(at[n - 1], s[n].rid)
        BY <2>7, <3>1 DEF FoundNext
      <4>3. Range(at[n]) = Range(at[n - 1]) \cup {s[n].rid}
        BY <2>7, <4>2, AppendToList
      <4>. QED  BY <2>5, <4>1, <4>3
    <3>2. CASE s[n].key # key
      <4>1. list(n) = list(n - 1)
        BY <2>6, <3>2
      <4>. HIDE DEF list
      <4>. QED  BY <2>5, <2>7, <3>2, <4>1 DEF FoundNext
    <3>. QED  BY <3>1, <3>2
  <2>. QED  BY <2>8
<1>4. Range(at[N]) = list(N)
  <2>1. N \in 0 .. N
    BY <1>1
  <2>2. N \notin S
    <3>. HIDE DEF S
    <3>. QED  BY <1>3
  <2>. QED  BY <2>1, <2>2
<1>5. \A r : r \in list(N) <=> Listed(s, key, r)
  BY DEF Listed, N
<1>. QED  BY <1>1, <1>4, <1>5

LEMMA RowsListed ==
  ASSUME Typed, NEW key \in Keys, NEW r \in 1 .. Len(rows), ~AnyDeleted
  PROVE  Live(key, r) <=> Listed(RowEntries, key, r)
<1>. DEFINE N == Len(rows)
<1>1. N \in Nat /\ DOMAIN rows = 1 .. N /\ Len(RowEntries) = N
  BY RowsTold DEF Typed
<1>2. \A m \in 1 .. N : RowEntries[m] = Entry(rows[m].key, m) /\ ~rows[m].deleted
  BY <1>1 DEF RowEntries, AnyDeleted
<1>3. \A m \in 1 .. N : RowEntries[m].key = rows[m].key /\ RowEntries[m].rid = m
  <2>1. \A x, m : Entry(x, m).key = x /\ Entry(x, m).rid = m
    BY DEF Entry
  <2>. QED  BY <1>2, <2>1
<1>. QED  BY <1>1, <1>2, <1>3 DEF Live, Listed

LEMMA ListedBoth ==
  ASSUME NEW s \in Seq(Entries), NEW t \in Seq(Entries), NEW key, NEW r
  PROVE  Listed(s \o t, key, r) <=> Listed(s, key, r) \/ Listed(t, key, r)
<1>. DEFINE u == s \o t
            m == Len(s)
            n == Len(t)
<1>1. /\ m \in Nat /\ n \in Nat /\ Len(u) = m + n
      /\ \A i \in 1 .. m : u[i] = s[i] /\ i \in 1 .. m + n
      /\ \A i \in 1 .. n : u[i + m] = t[i] /\ i + m \in 1 .. m + n
  OBVIOUS
<1>. HIDE DEF u, m, n
<1>2. \A i \in 1 .. m + n : i \in 1 .. m \/ (i - m \in 1 .. n /\ i = (i - m) + m)
  BY <1>1
<1>3. ASSUME Listed(u, key, r) PROVE Listed(s, key, r) \/ Listed(t, key, r)
  <2>1. PICK i \in 1 .. m + n : u[i].key = key /\ u[i].rid = r
    BY <1>1, <1>3 DEF Listed
  <2>2. CASE i \in 1 .. m
    BY <1>1, <2>1, <2>2 DEF Listed, m
  <2>3. CASE i - m \in 1 .. n /\ i = (i - m) + m
    <3>1. u[i] = t[i - m]
      BY <1>1, <2>3
    <3>. QED  BY <2>1, <2>3, <3>1 DEF Listed, n
  <2>. QED  BY <1>2, <2>2, <2>3
<1>4. Listed(s, key, r) => Listed(u, key, r)
  BY <1>1 DEF Listed, m
<1>5. Listed(t, key, r) => Listed(u, key, r)
  BY <1>1 DEF Listed, n
<1>. QED  BY <1>3, <1>4, <1>5 DEF u

LEMMA ListedUnlinked ==
  ASSUME NEW s \in Seq(Entries), NEW n \in 1 .. Len(s), NEW key, NEW r, s[n].rid # r
  PROVE  Listed(RemoveAt(s, n), key, r) <=> Listed(s, key, r)
<1>. DEFINE b == Before(s, n)
            f == Behind(s, n)
            e == s[n]
<1>1. /\ b \in Seq(Entries) /\ f \in Seq(Entries) /\ e \in Entries
      /\ s = (b \o <<e>>) \o f /\ RemoveAt(s, n) = b \o f
  BY Parts
<1>. HIDE DEF b, f, e
<1>2. ~Listed(<<e>>, key, r)
  BY DEF Listed, e
<1>3. <<e>> \in Seq(Entries) /\ b \o <<e>> \in Seq(Entries)
  BY <1>1
<1>4. Listed(s, key, r) <=> Listed(b \o <<e>>, key, r) \/ Listed(f, key, r)
  BY <1>1, <1>3, ListedBoth
<1>5. Listed(b \o <<e>>, key, r) <=> Listed(b, key, r) \/ Listed(<<e>>, key, r)
  BY <1>1, <1>3, ListedBoth
<1>6. Listed(b \o f, key, r) <=> Listed(b, key, r) \/ Listed(f, key, r)
  BY <1>1, ListedBoth
<1>. QED  BY <1>1, <1>2, <1>4, <1>5, <1>6

LEMMA ListedRedirected ==
  ASSUME NEW s \in Seq(Entries), NEW n \in 1 .. Len(s), NEW rid, NEW key, NEW r,
         s[n].rid # r, rid # r
  PROVE  Listed(Redirected(s, n, rid), key, r) <=> Listed(s, key, r)
<1>. DEFINE t == Redirected(s, n, rid)
<1>1. Len(t) = Len(s) /\ \A m \in 1 .. Len(s) : m # n => t[m] = s[m]
  BY DEF Redirected
<1>2. t[n].rid = rid
  <2>1. s[n] \in Entries
    OBVIOUS
  <2>2. t[n] = [s[n] EXCEPT !.rid = rid]
    BY DEF Redirected
  <2>. QED  BY <2>1, <2>2 DEF Entries
<1>. HIDE DEF t
<1>. QED  BY <1>1, <1>2 DEF Listed, t

LEMMA FreshRows ==
  ASSUME Fresh, told' = told, touched \subseteq touched',
         UNCHANGED <<kind, index, alive>>, index # NoIndex,
         \A r \in 1 .. Len(rows') :
           r \notin touched' => r \in 1 .. Len(rows) /\ rows'[r] = rows[r]
  PROVE  Fresh'
<1>. SUFFICES ASSUME kind = "hash", alive, NEW key \in Keys, NEW r \in 1 .. Len(rows'),
                     r \notin touched'
              PROVE  Live(key, r)' <=> Listed(told', key, r)
  BY DEF Fresh
<1>1. r \in 1 .. Len(rows) /\ rows'[r] = rows[r] /\ r \notin touched
  OBVIOUS
<1>2. Live(key, r) <=> Listed(told, key, r)
  BY <1>1 DEF Fresh
<1>. QED  BY <1>1, <1>2 DEF Live

LEMMA InsertRowFresh ==
  ASSUME IInv, Fresh, NEW key \in Keys, InsertRow(key)
  PROVE  Fresh'
<1>1. /\ UNCHANGED <<kind, index, alive, told>>
      /\ rows' = Append(rows, [key |-> key, deleted |-> FALSE])
      /\ touched' = IF index = NoIndex THEN touched ELSE touched \cup {Len(rows')}
  BY DEF InsertRow
<1>2. CASE index = NoIndex
  BY <1>1, <1>2 DEF Fresh, NoIndex
<1>3. CASE index # NoIndex
  <2>1. rows \in Seq(RowSet) /\ [key |-> key, deleted |-> FALSE] \in RowSet
    BY DEF IInv, Typed, RowSet
  <2>2. /\ Len(rows) \in Nat /\ Len(rows') = Len(rows) + 1
        /\ \A r \in 1 .. Len(rows) : rows'[r] = rows[r]
    BY <1>1, <2>1
  <2>3. touched' = touched \cup {Len(rows) + 1}
    BY <1>1, <1>3, <2>2
  <2>4. \A r \in 1 .. Len(rows') :
          r \notin touched' => r \in 1 .. Len(rows) /\ rows'[r] = rows[r]
    BY <2>2, <2>3
  <2>. QED  BY <1>1, <1>3, <2>3, <2>4, FreshRows
<1>. QED  BY <1>2, <1>3

LEMMA ChangeRowFresh ==
  ASSUME IInv, Fresh, NEW r \in DOMAIN rows,
         DeleteRow(r) \/ \E key \in Keys : UpdateRow(r, key)
  PROVE  Fresh'
<1>1. rows \in Seq(RowSet) /\ DOMAIN rows = 1 .. Len(rows) /\ Len(rows) \in Nat
  BY Widths DEF IInv, Typed
<1>2. /\ UNCHANGED <<kind, index, alive, told>> /\ touched' = touched \cup {r}
  BY DEF DeleteRow, UpdateRow
<1>3. DOMAIN rows' = DOMAIN rows /\ \A q \in DOMAIN rows : q # r => rows'[q] = rows[q]
  <2>1. CASE DeleteRow(r)
    BY <2>1 DEF DeleteRow
  <2>2. CASE \E key \in Keys : UpdateRow(r, key)
    BY <2>2 DEF UpdateRow
  <2>. QED  BY <2>1, <2>2
<1>4. Len(rows') = Len(rows)
  <2>1. rows' \in Seq(RowSet)
    <3>1. IInv'
      BY ChangeRowKeeps
    <3>. QED  BY <3>1 DEF IInv, Typed, RowSet
  <2>. QED  BY <1>1, <1>3, <2>1
<1>5. CASE index = NoIndex
  BY <1>2, <1>5 DEF Fresh, NoIndex
<1>6. CASE index # NoIndex
  <2>1. \A q \in 1 .. Len(rows') :
          q \notin touched' => q \in 1 .. Len(rows) /\ rows'[q] = rows[q]
    BY <1>1, <1>2, <1>3, <1>4
  <2>. QED  BY <1>2, <1>6, <2>1, FreshRows
<1>. QED  BY <1>5, <1>6

(* The rows stay, and what the index is told changes.                      *)
LEMMA FreshTold ==
  ASSUME UNCHANGED <<kind, rows>>,
         ASSUME kind = "hash", alive', NEW key \in Keys, NEW r \in 1 .. Len(rows), r \notin touched'
         PROVE  Live(key, r) <=> Listed(told', key, r)
  PROVE  Fresh'
<1>. SUFFICES ASSUME kind' = "hash", alive', NEW key \in Keys, NEW r \in 1 .. Len(rows'),
                     r \notin touched'
              PROVE  Live(key, r)' <=> Listed(told', key, r)
  BY DEF Fresh
<1>1. Live(key, r) <=> Listed(told', key, r)
  OBVIOUS
<1>. QED  BY <1>1 DEF Live

LEMMA CreateIndexFresh ==
  ASSUME IInv, Fresh, CreateIndex
  PROVE  Fresh'
<1>1. /\ alive /\ alive' = ~AnyDeleted /\ UNCHANGED <<kind, rows>>
      /\ told' = IF AnyDeleted THEN told ELSE told \o RowEntries
      /\ touched' = IF AnyDeleted \/ index # NoIndex THEN touched ELSE {}
  BY DEF CreateIndex
<1>2. Typed /\ HashHolds
  BY DEF IInv
<1>3. told \in Seq(Entries) /\ RowEntries \in Seq(Entries)
  BY <1>2, Widths
<1>4. ASSUME kind = "hash", alive', NEW key \in Keys, NEW r \in 1 .. Len(rows), r \notin touched'
      PROVE  Live(key, r) <=> Listed(told', key, r)
  <2>1. ~AnyDeleted /\ told' = told \o RowEntries
    BY <1>1, <1>4
  <2>2. Live(key, r) <=> Listed(RowEntries, key, r)
    BY <1>2, <2>1, RowsListed
  <2>3. Listed(told', key, r) <=> Listed(told, key, r) \/ Listed(RowEntries, key, r)
    BY <1>3, <2>1, ListedBoth
  <2>4. CASE index = NoIndex
    <3>1. told = << >>
      BY <1>1, <1>2, <1>4, <2>4 DEF HashHolds
    <3>2. ~Listed(told, key, r)
      BY <3>1 DEF Listed
    <3>. QED  BY <2>2, <2>3, <3>2
  <2>5. CASE index # NoIndex
    <3>1. r \notin touched
      BY <1>1, <1>4, <2>5
    <3>2. Live(key, r) <=> Listed(told, key, r)
      BY <1>1, <1>4, <2>5, <3>1 DEF Fresh
    <3>. QED  BY <2>2, <2>3, <3>2
  <2>. QED  BY <2>4, <2>5
<1>. QED  BY <1>1, <1>4, FreshTold

LEMMA AddRowFresh ==
  ASSUME IInv, Fresh, AddRow
  PROVE  Fresh'
<1>. DEFINE n == Len(rows)
            e == RowEntries[n]
<1>1. /\ alive /\ index # NoIndex /\ n \in touched /\ UNCHANGED <<kind, rows, alive>>
      /\ ~rows[n].deleted /\ \A x \in Range(told) : x.rid # n
      /\ told' = Append(told, e) /\ touched' = touched \ {n}
  BY DEF AddRow, Last
<1>2. /\ told \in Seq(Entries) /\ RowEntries \in Seq(Entries) /\ n \in Nat
      /\ Len(RowEntries) = n /\ n \in 1 .. n
  BY <1>1, Widths, RowsTold DEF IInv, Typed
<1>3. e = Entry(rows[n].key, n) /\ e \in Entries
  <2>1. n \in DOMAIN rows
    BY <1>2, Widths DEF IInv
  <2>2. e = Entry(rows[n].key, n)
    BY <2>1 DEF RowEntries
  <2>3. e \in Entries
    BY <1>2
  <2>. QED  BY <2>2, <2>3
<1>. HIDE DEF e, n
<1>4. e.key = rows[n].key /\ e.rid = n
  BY <1>3 DEF Entry
<1>5. told' = told \o <<e>> /\ <<e>> \in Seq(Entries)
  BY <1>1, <1>2, <1>3, AppendIsConcat
<1>6. ASSUME kind = "hash", alive', NEW key \in Keys, NEW r \in 1 .. n, r \notin touched'
      PROVE  Live(key, r) <=> Listed(told', key, r)
  <2>1. Listed(<<e>>, key, r) <=> rows[n].key = key /\ n = r
    BY <1>4 DEF Listed
  <2>2. Listed(told', key, r) <=> Listed(told, key, r) \/ Listed(<<e>>, key, r)
    BY <1>2, <1>5, ListedBoth
  <2>3. CASE r = n
    <3>1. ~Listed(told, key, n)
      BY <1>1 DEF Listed, Range
    <3>2. Live(key, n) <=> rows[n].key = key
      BY <1>1 DEF Live
    <3>. QED  BY <2>1, <2>2, <2>3, <3>1, <3>2
  <2>4. CASE r # n
    <3>1. r \notin touched
      BY <1>1, <1>6, <2>4
    <3>2. Live(key, r) <=> Listed(told, key, r)
      BY <1>1, <1>6, <3>1 DEF Fresh, n
    <3>. QED  BY <2>1, <2>2, <2>4, <3>2
  <2>. QED  BY <2>3, <2>4
<1>. QED  BY <1>1, <1>6, FreshTold DEF n

LEMMA RemoveKeyFresh ==
  ASSUME IInv, Fresh, NEW gone \in Keys, RemoveKey(gone)
  PROVE  Fresh'
<1>. DEFINE first == FirstOf(gone)
<1>1. /\ alive /\ index # NoIndex /\ UNCHANGED <<kind, rows>>
      /\ told' = IF alive' /\ first # 0 THEN RemoveAt(told, first) ELSE told
      /\ touched' = IF first # 0 THEN touched \cup {told[first].rid} ELSE touched
  BY DEF RemoveKey
<1>2. told \in Seq(Entries) /\ (first # 0 => first \in 1 .. Len(told))
  BY Widths, FirstOfTold DEF IInv
<1>. HIDE DEF first
<1>3. ASSUME kind = "hash", alive', NEW key \in Keys, NEW r \in 1 .. Len(rows), r \notin touched'
      PROVE  Live(key, r) <=> Listed(told', key, r)
  <2>1. r \notin touched
    BY <1>1, <1>3
  <2>2. Live(key, r) <=> Listed(told, key, r)
    BY <1>1, <1>3, <2>1 DEF Fresh
  <2>3. CASE first = 0
    BY <1>1, <2>2, <2>3
  <2>4. CASE first # 0
    <3>1. told' = RemoveAt(told, first) /\ told[first].rid # r /\ first \in 1 .. Len(told)
      BY <1>1, <1>2, <1>3, <2>4
    <3>2. Listed(RemoveAt(told, first), key, r) <=> Listed(told, key, r)
      BY <1>2, <3>1, ListedUnlinked
    <3>. QED  BY <2>2, <3>1, <3>2
  <2>. QED  BY <2>3, <2>4
<1>. QED  BY <1>1, <1>3, FreshTold

LEMMA UpdateEntryFresh ==
  ASSUME IInv, Fresh, NEW moved \in Keys, UpdateEntry(moved)
  PROVE  Fresh'
<1>. DEFINE first == FirstOf(moved)
            n == Len(rows)
<1>1. /\ alive /\ index # NoIndex /\ UNCHANGED <<kind, rows, alive>>
      /\ told' = IF first # 0 THEN [told EXCEPT ![first].rid = n] ELSE told
      /\ touched' = IF first # 0 THEN touched \cup {told[first].rid, n} ELSE touched
  BY DEF UpdateEntry
<1>2. told \in Seq(Entries) /\ (first # 0 => first \in 1 .. Len(told))
  BY Widths, FirstOfTold DEF IInv
<1>. HIDE DEF first
<1>3. ASSUME kind = "hash", alive', NEW key \in Keys, NEW r \in 1 .. n, r \notin touched'
      PROVE  Live(key, r) <=> Listed(told', key, r)
  <2>. HIDE DEF n
  <2>1. r \notin touched
    BY <1>1, <1>3
  <2>2. Live(key, r) <=> Listed(told, key, r)
    BY <1>1, <1>3, <2>1 DEF Fresh, n
  <2>3. CASE first = 0
    BY <1>1, <2>2, <2>3
  <2>4. CASE first # 0
    <3>1. /\ told' = Redirected(told, first, n)
          /\ told[first].rid # r /\ n # r /\ first \in 1 .. Len(told)
      BY <1>1, <1>2, <1>3, <2>4 DEF Redirected
    <3>2. Listed(Redirected(told, first, n), key, r) <=> Listed(told, key, r)
      BY <1>2, <3>1, ListedRedirected
    <3>. QED  BY <2>2, <3>1, <3>2
  <2>. QED  BY <2>3, <2>4
<1>. QED  BY <1>1, <1>3, FreshTold

LEMMA ReopenFresh ==
  ASSUME IInv, Reopen
  PROVE  Fresh'
<1>1. /\ alive' = ~AnyDeleted /\ UNCHANGED <<kind, rows>>
      /\ told' = IF kind = "hash" /\ ~AnyDeleted THEN RowEntries ELSE told
  BY DEF Reopen
<1>2. ASSUME kind = "hash", alive', NEW key \in Keys, NEW r \in 1 .. Len(rows), r \notin touched'
      PROVE  Live(key, r) <=> Listed(told', key, r)
  <2>1. ~AnyDeleted /\ told' = RowEntries
    BY <1>1, <1>2
  <2>. QED  BY <2>1, RowsListed DEF IInv
<1>. QED  BY <1>1, <1>2, FreshTold

LEMMA FreshStep == IInv /\ Fresh /\ [Next]_vars => Fresh'
<1>. SUFFICES ASSUME IInv, Fresh, [Next]_vars PROVE Fresh'
  OBVIOUS
<1>1. CASE \E key \in Keys : InsertRow(key)
  BY <1>1, InsertRowFresh
<1>2. CASE \E key \in Keys : RemoveKey(key)
  BY <1>2, RemoveKeyFresh
<1>3. CASE \E key \in Keys : UpdateEntry(key)
  BY <1>3, UpdateEntryFresh
<1>4. CASE \E r \in DOMAIN rows : DeleteRow(r) \/ \E key \in Keys : UpdateRow(r, key)
  BY <1>4, ChangeRowFresh
<1>5. CASE CreateIndex
  BY <1>5, CreateIndexFresh
<1>6. CASE AddRow
  BY <1>6, AddRowFresh
<1>7. CASE Reopen
  BY <1>7, ReopenFresh
<1>8. CASE UNCHANGED vars
  <2>1. UNCHANGED <<kind, rows, index, alive, told, touched>>
    BY <1>8 DEF vars
  <2>. QED  BY <2>1 DEF Fresh, Live, NoIndex
<1>. QED  BY <1>1, <1>2, <1>3, <1>4, <1>5, <1>6, <1>7, <1>8 DEF Next

(* A hash index and its table differ in the rows touched since the index   *)
(* was built or last told, and in no other: what a lookup finds and was    *)
(* not touched is a live row of that key, and every such row is found      *)
(* (INSERT, UPDATE and DELETE ask no index: TableHeap.c++:52-227).         *)
THEOREM HashStaleOnlyWhereTouched == Spec => [](kind = "hash" => StaleOnlyWhereTouched)
<1>1. Init => Fresh
  BY DEF Init, Fresh, NoIndex
<1>2. IInv /\ Fresh => (kind = "hash" => StaleOnlyWhereTouched)
  <2>. SUFFICES ASSUME IInv, Fresh, kind = "hash", alive, index # NoIndex, NEW key \in Keys
                PROVE  LET live == {r \in DOMAIN rows : rows[r].key = key /\ ~rows[r].deleted}
                       IN  live \ touched = RidsFound(key) \ touched
    BY DEF StaleOnlyWhereTouched
  <2>1. /\ DOMAIN rows = 1 .. Len(rows) /\ told \in Seq(Entries)
        /\ \A n \in 1 .. Len(told) : told[n].rid \in 1 .. Len(rows)
    BY Widths DEF IInv
  <2>2. RidsFound(key) = Range(RidsUnder(told, key))
    BY DEF RidsFound, IInv, HashHolds, Holds
  <2>3. \A r : r \in RidsFound(key) <=> Listed(told, key, r)
    BY <2>1, <2>2, ListedIsFound
  <2>4. \A r : Listed(told, key, r) => r \in 1 .. Len(rows)
    BY <2>1 DEF Listed
  <2>5. \A r \in 1 .. Len(rows) : r \notin touched => (Live(key, r) <=> Listed(told, key, r))
    BY DEF Fresh
  <2>. QED  BY <2>1, <2>3, <2>4, <2>5 DEF Live
<1>. QED  BY InitHolds, StepHolds, FreshStep, <1>1, <1>2, PTL DEF Spec
=============================================================================
