---------------------- MODULE AuthorizationHeaderProofs ----------------------
(***************************************************************************)
(* What setAuth makes of any token.  Words is defined by recursion over the *)
(* positions of a token; what it computes is proved by least counterexample *)
(* (UpTo).                                                                  *)
(***************************************************************************)
EXTENDS AuthorizationHeader, NumberLemmas

LEMMA MinOf ==
    ASSUME NEW T \in SUBSET Nat, T # {}
    PROVE  Min(T) \in T /\ \A y \in T : Min(T) <= y
  <1>1. \E x \in T : \A y \in T : x <= y
    BY LeastNumber
  <1> QED BY <1>1 DEF Min

LEMMA MaxOf ==
    ASSUME NEW n \in Nat, NEW T \in SUBSET (0..n), T # {}
    PROVE  Max(T) \in T /\ \A y \in T : Max(T) >= y
  <1>1. \E x \in T : \A y \in T : y <= x
    BY GreatestNumber
  <1>2. \E x \in T : \A y \in T : x >= y
    BY <1>1
  <1> QED BY <1>2 DEF Max
-----------------------------------------------------------------------------
(* The recursion in Words. *)

Selected(t, w, i) ==
    IF i = 0 THEN <<>>
    ELSE IF t[i] \in Space THEN w[i - 1] ELSE Append(w[i - 1], t[i])

Kept(t) == CHOOSE w : w = [i \in 0..Len(t) |-> Selected(t, w, i)]

LEMMA WordsAreKept ==
    ASSUME NEW t
    PROVE  Words(t) = Kept(t)[Len(t)]
  BY Zenon DEF Words, Kept, Selected

LEMMA KeptExists ==
    ASSUME NEW t, NEW n \in Nat
    PROVE  \E w : w = [i \in 0..n |-> Selected(t, w, i)]
  <1> DEFINE G == {k \in 0..n : \E w : w = [i \in 0..k |-> Selected(t, w, i)]}
  <1>1. 0 \in G
    <2> DEFINE w == [i \in 0..0 |-> <<>>]
    <2>1. w = [i \in 0..0 |-> Selected(t, w, i)]
      BY DEF Selected
    <2> HIDE DEF w
    <2> QED BY <2>1
  <1>2. ASSUME NEW k \in 1..n, k - 1 \in G PROVE k \in G
    <2>1. PICK g : g = [i \in 0..(k - 1) |-> Selected(t, g, i)]
      BY <1>2
    <2> DEFINE w == [i \in 0..k |-> IF i < k THEN g[i] ELSE Selected(t, g, k)]
    <2>2. \A i \in 0..k : w[i] = Selected(t, w, i)
      <3> TAKE i \in 0..k
      <3>1. i # 0 => w[i - 1] = g[i - 1]
        OBVIOUS
      <3>2. w[i] = Selected(t, g, i)
        BY <2>1
      <3> HIDE DEF w
      <3> QED BY <3>1, <3>2 DEF Selected
    <2>3. w = [i \in 0..k |-> w[i]]
      OBVIOUS
    <2> HIDE DEF w
    <2>4. w = [i \in 0..k |-> Selected(t, w, i)]
      BY <2>2, <2>3
    <2> QED BY <2>4
  <1> HIDE DEF G
  <1>3. n \in G
    BY <1>1, <1>2, UpTo
  <1> QED BY <1>3 DEF G

LEMMA KeptUnfolds ==
    ASSUME NEW t, Len(t) \in Nat
    PROVE  \A i \in 0..Len(t) : Kept(t)[i] = Selected(t, Kept(t), i)
  <1>1. \E w : w = [i \in 0..Len(t) |-> Selected(t, w, i)]
    BY KeptExists
  <1>2. Kept(t) = [i \in 0..Len(t) |-> Selected(t, Kept(t), i)]
    BY <1>1, Zenon DEF Kept
  <1> DEFINE g == Kept(t)
  <1>3. g = [i \in 0..Len(t) |-> Selected(t, g, i)]
    BY <1>2
  <1> HIDE DEF g
  <1>4. \A i \in 0..Len(t) : g[i] = Selected(t, g, i)
    BY <1>3
  <1> QED BY <1>4 DEF g

LEMMA KeptStep ==
    ASSUME NEW S, NEW t \in Seq(S)
    PROVE  /\ Kept(t)[0] = <<>>
           /\ \A i \in 1..Len(t) :
                 Kept(t)[i] = IF t[i] \in Space THEN Kept(t)[i - 1]
                              ELSE Append(Kept(t)[i - 1], t[i])
           /\ \A i \in 0..Len(t) : Kept(t)[i] \in Seq(S)
  <1>0. Len(t) \in Nat /\ \A i \in 1..Len(t) : t[i] \in S
    OBVIOUS
  <1>1. \A i \in 0..Len(t) : Kept(t)[i] = Selected(t, Kept(t), i)
    BY <1>0, KeptUnfolds
  <1>2. Kept(t)[0] = <<>>
    BY <1>0, <1>1 DEF Selected
  <1>3. \A i \in 1..Len(t) :
           Kept(t)[i] = IF t[i] \in Space THEN Kept(t)[i - 1] ELSE Append(Kept(t)[i - 1], t[i])
    <2> TAKE i \in 1..Len(t)
    <2>1. i \in 0..Len(t) /\ i # 0
      BY <1>0
    <2> QED BY <1>1, <2>1 DEF Selected
  <1> DEFINE G == {i \in 0..Len(t) : Kept(t)[i] \in Seq(S)}
  <1>4. 0 \in G
    <2>1. <<>> \in Seq(S) /\ 0 \in 0..Len(t)
      OBVIOUS
    <2>2. Kept(t)[0] \in Seq(S)
      BY <1>2, <2>1, Zenon
    <2> QED BY <2>1, <2>2
  <1>5. ASSUME NEW i \in 1..Len(t), i - 1 \in G PROVE i \in G
    <2>1. Kept(t)[i - 1] \in Seq(S) /\ t[i] \in S
      BY <1>0, <1>5
    <2>2. Append(Kept(t)[i - 1], t[i]) \in Seq(S)
      BY <2>1
    <2>3. Kept(t)[i] \in Seq(S)
      BY <1>3, <2>1, <2>2
    <2> QED BY <1>0, <2>3
  <1> HIDE DEF G
  <1>6. \A i \in 0..Len(t) : i \in G
    BY <1>0, <1>4, <1>5, UpTo
  <1>7. \A i \in 0..Len(t) : Kept(t)[i] \in Seq(S)
    BY <1>6 DEF G
  <1> QED BY <1>2, <1>3, <1>7

LEMMA WordsType ==
    ASSUME NEW S, NEW t \in Seq(S)
    PROVE  Words(t) \in Seq(S)
  <1>1. Len(t) \in 0..Len(t)
    OBVIOUS
  <1> QED BY <1>1, KeptStep, WordsAreKept

\* White space has no words.
LEMMA NoWords ==
    ASSUME NEW S, NEW t \in Seq(S), \A i \in 1..Len(t) : t[i] \in Space
    PROVE  Words(t) = <<>>
  <1> DEFINE G == {i \in 0..Len(t) : Kept(t)[i] = <<>>}
  <1>0. Len(t) \in Nat
    OBVIOUS
  <1>1. 0 \in G
    BY <1>0, KeptStep
  <1>2. \A i \in 1..Len(t) : i - 1 \in G => i \in G
    BY <1>0, KeptStep
  <1> HIDE DEF G
  <1>3. \A i \in 0..Len(t) : i \in G
    BY <1>0, <1>1, <1>2, UpTo
  <1> QED BY <1>0, <1>3, WordsAreKept DEF G

LEMMA OneWord ==
    ASSUME NEW S, NEW x \in S, x \notin Space
    PROVE  Words(<<x>>) = <<x>>
  <1> DEFINE t == <<x>>
  <1>1. t \in Seq(S) /\ Len(t) = 1 /\ t[1] = x
    OBVIOUS
  <1> HIDE DEF t
  <1>2. Kept(t)[1] = Append(<<>>, x)
    <2>1. /\ Kept(t)[0] = <<>>
          /\ \A i \in 1..Len(t) :
                Kept(t)[i] = IF t[i] \in Space THEN Kept(t)[i - 1]
                             ELSE Append(Kept(t)[i - 1], t[i])
      BY <1>1, KeptStep
    <2>2. 1 \in 1..Len(t) /\ 1 - 1 = 0
      BY <1>1
    <2> QED BY <1>1, <2>1, <2>2
  <1>3. Append(<<>>, x) = <<x>>
    OBVIOUS
  <1> QED BY <1>1, <1>2, <1>3, WordsAreKept DEF t

LEMMA JoinedAt ==
    ASSUME NEW S, NEW s \in Seq(S), NEW t \in Seq(S)
    PROVE  /\ s \o t \in Seq(S) /\ Len(s \o t) = Len(s) + Len(t)
           /\ \A i \in 1..Len(s) : (s \o t)[i] = s[i]
           /\ \A i \in 1..Len(t) : (s \o t)[Len(s) + i] = t[i]
  OBVIOUS

LEMMA PartOf ==
    ASSUME NEW S, NEW t \in Seq(S), NEW a \in Nat, NEW b \in Nat,
           1 <= a, a <= b + 1, b <= Len(t)
    PROVE  /\ SubSeq(t, a, b) \in Seq(S) /\ Len(SubSeq(t, a, b)) = b - a + 1
           /\ \A i \in 1..(b - a + 1) : SubSeq(t, a, b)[i] = t[a + i - 1]
  OBVIOUS

LEMMA SplitAt ==
    ASSUME NEW S, NEW t \in Seq(S), NEW b \in 0..Len(t)
    PROVE  t = SubSeq(t, 1, b) \o SubSeq(t, b + 1, Len(t))
  <1> DEFINE n == Len(t)
             p == SubSeq(t, 1, b)
             q == SubSeq(t, b + 1, n)
             r == p \o q
  <1>0. n \in Nat /\ b \in Nat /\ b + 1 \in Nat /\ b <= n /\ 1 <= b + 1 /\ b + 1 <= n + 1
    OBVIOUS
  <1>1. p \in Seq(S) /\ Len(p) = b /\ \A i \in 1..b : p[i] = t[i]
    OBVIOUS
  <1>2. /\ q \in Seq(S) /\ Len(q) = n - (b + 1) + 1
        /\ \A i \in 1..(n - (b + 1) + 1) : q[i] = t[(b + 1) + i - 1]
    <2>1. n \in Nat /\ b + 1 \in Nat /\ 1 <= b + 1 /\ b + 1 <= n + 1 /\ n <= Len(t)
      BY <1>0
    <2> QED BY <2>1, PartOf, Zenon
  <1> HIDE DEF p, q
  <1>3. /\ r \in Seq(S) /\ Len(r) = Len(p) + Len(q)
        /\ \A i \in 1..Len(p) : r[i] = p[i]
        /\ \A i \in 1..Len(q) : r[Len(p) + i] = q[i]
    BY <1>1, <1>2
  <1> HIDE DEF r
  <1>4. Len(q) = n - b /\ Len(r) = n
    BY <1>0, <1>1, <1>2, <1>3
  <1>5. ASSUME NEW i \in 1..n PROVE r[i] = t[i]
    <2>1. CASE i <= b
      <3>1. i \in 1..b
        BY <1>0, <2>1
      <3> QED BY <1>1, <1>3, <3>1
    <2>2. CASE ~(i <= b)
      <3>1. i - b \in 1..(n - b) /\ b + (i - b) = i /\ (b + 1) + (i - b) - 1 = i
            /\ n - (b + 1) + 1 = n - b
        BY <1>0, <2>2
      <3>2. r[b + (i - b)] = q[i - b]
        BY <1>1, <1>3, <1>4, <3>1
      <3>3. q[i - b] = t[(b + 1) + (i - b) - 1]
        BY <1>2, <3>1
      <3> QED BY <3>1, <3>2, <3>3
    <2> QED BY <2>1, <2>2
  <1>6. r = t
    BY <1>3, <1>4, <1>5
  <1> QED BY <1>6 DEF r, p, q

\* The words of what is written one after the other.
LEMMA WordsOfJoined ==
    ASSUME NEW S, NEW s \in Seq(S), NEW t \in Seq(S)
    PROVE  Words(s \o t) = Words(s) \o Words(t)
  <1> DEFINE u == s \o t
             m == Len(s)
             n == Len(t)
             K == Kept(s)
             L == Kept(t)
             M == Kept(u)
  <1>1. /\ u \in Seq(S) /\ Len(u) = m + n /\ m \in Nat /\ n \in Nat
        /\ \A i \in 1..m : u[i] = s[i]
        /\ \A i \in 1..n : u[m + i] = t[i]
    BY JoinedAt
  <1> HIDE DEF u
  <1>2. /\ K[0] = <<>> /\ \A i \in 0..m : K[i] \in Seq(S)
        /\ \A i \in 1..m : K[i] = IF s[i] \in Space THEN K[i - 1] ELSE Append(K[i - 1], s[i])
    BY KeptStep
  <1>3. /\ L[0] = <<>> /\ \A i \in 0..n : L[i] \in Seq(S)
        /\ \A i \in 1..n : L[i] = IF t[i] \in Space THEN L[i - 1] ELSE Append(L[i - 1], t[i])
    BY KeptStep
  <1>4. /\ M[0] = <<>>
        /\ \A i \in 1..(m + n) :
              M[i] = IF u[i] \in Space THEN M[i - 1] ELSE Append(M[i - 1], u[i])
    <2>1. /\ M[0] = <<>>
          /\ \A i \in 1..Len(u) :
                M[i] = IF u[i] \in Space THEN M[i - 1] ELSE Append(M[i - 1], u[i])
      BY <1>1, KeptStep
    <2> QED BY <1>1, <2>1
  <1> HIDE DEF K, L, M
  <1>a. \A p, q \in Seq(S) : \A x \in S : Append(p \o q, x) = p \o Append(q, x)
    <2> TAKE p, q \in Seq(S)
    <2> TAKE x \in S
    <2> DEFINE l == Append(p \o q, x)
               r == p \o Append(q, x)
    <2>1. p \o q \in Seq(S) /\ Append(q, x) \in Seq(S)
      OBVIOUS
    <2>2. Len(l) = Len(p) + Len(q) + 1 /\ l \in Seq(S)
      BY <2>1
    <2>3. Len(r) = Len(p) + Len(q) + 1 /\ r \in Seq(S)
      BY <2>1
    <2>4. \A i \in 1..(Len(p) + Len(q) + 1) : l[i] = r[i]
      <3> TAKE i \in 1..(Len(p) + Len(q) + 1)
      <3>1. Len(p) \in Nat /\ Len(q) \in Nat /\ Len(p \o q) = Len(p) + Len(q)
        OBVIOUS
      <3>2. CASE i \in 1..Len(p)
        BY <2>1, <3>1, <3>2
      <3>3. CASE i - Len(p) \in 1..Len(q)
        BY <2>1, <3>1, <3>3
      <3>4. CASE i = Len(p) + Len(q) + 1
        BY <2>1, <3>1, <3>4
      <3>5. \/ i \in 1..Len(p) \/ i - Len(p) \in 1..Len(q)
            \/ i = Len(p) + Len(q) + 1
        BY <3>1
      <3> QED BY <3>2, <3>3, <3>4, <3>5, Zenon
    <2> HIDE DEF l, r
    <2>5. l = r
      BY <2>2, <2>3, <2>4
    <2> QED BY <2>5 DEF l, r
  <1>5. \A i \in 0..m : M[i] = K[i]
    <2> DEFINE G == {i \in 0..m : M[i] = K[i]}
    <2>1. 0 \in G
      BY <1>1, <1>2, <1>4
    <2>2. ASSUME NEW i \in 1..m, i - 1 \in G PROVE i \in G
      <3>1. i \in 1..(m + n) /\ u[i] = s[i] /\ M[i - 1] = K[i - 1]
        BY <1>1, <2>2
      <3>2. M[i] = K[i]
        BY <1>2, <1>4, <3>1
      <3> QED BY <1>1, <3>2
    <2> HIDE DEF G
    <2>3. \A i \in 0..m : i \in G
      BY <1>1, <2>1, <2>2, UpTo
    <2> QED BY <2>3 DEF G
  <1>6. \A i \in 0..n : M[m + i] = K[m] \o L[i]
    <2> DEFINE G == {i \in 0..n : M[m + i] = K[m] \o L[i]}
    <2>0. K[m] \in Seq(S) /\ m \in 0..m /\ m + 0 = m /\ 0 \in 0..n
      BY <1>1, <1>2
    <2>1. 0 \in G
      <3>1. M[m] = K[m]
        BY <1>5, <2>0
      <3>2. K[m] \o <<>> = K[m]
        BY <2>0
      <3> QED BY <1>3, <2>0, <3>1, <3>2
    <2>2. ASSUME NEW i \in 1..n, i - 1 \in G PROVE i \in G
      <3>1. M[m + (i - 1)] = K[m] \o L[i - 1]
        BY <2>2
      <3>2. m + i \in 1..(m + n) /\ (m + i) - 1 = m + (i - 1) /\ u[m + i] = t[i]
        BY <1>1
      <3>3. M[m + i] = IF t[i] \in Space THEN M[m + (i - 1)] ELSE Append(M[m + (i - 1)], t[i])
        BY <1>4, <3>2
      <3>4. L[i - 1] \in Seq(S) /\ t[i] \in S /\ i \in 0..n
        <4>1. i - 1 \in 0..n /\ i \in 0..n /\ t[i] \in S
          BY <1>1
        <4> QED BY <1>3, <4>1
      <3>5. Append(K[m] \o L[i - 1], t[i]) = K[m] \o Append(L[i - 1], t[i])
        <4>1. K[m] \in Seq(S) /\ L[i - 1] \in Seq(S) /\ t[i] \in S
          BY <2>0, <3>4
        <4> QED BY <4>1, <1>a, Zenon
      <3>6. M[m + i] = K[m] \o L[i]
        BY <1>3, <3>1, <3>3, <3>5
      <3> QED BY <3>4, <3>6
    <2> HIDE DEF G
    <2>3. \A i \in 0..n : i \in G
      BY <1>1, <2>1, <2>2, UpTo
    <2> QED BY <2>3 DEF G
  <1>7. M[m + n] = K[m] \o L[n]
    <2>1. n \in 0..n
      BY <1>1
    <2> QED BY <1>6, <2>1
  <1> QED BY <1>1, <1>7, WordsAreKept DEF K, L, M, u
-----------------------------------------------------------------------------
(* TrimSpace. *)

Own(t) == {i \in DOMAIN t : t[i] \notin Space}

\* What is left after trimming begins and ends with a word, and has the words
\* there were.
LEMMA Trimmed ==
    ASSUME NEW S, NEW t \in Seq(S), Own(t) # {}
    PROVE  /\ TrimSpace(t) = SubSeq(t, Min(Own(t)), Max(Own(t)))
           /\ TrimSpace(t) \in Seq(S) /\ Len(TrimSpace(t)) > 0
           /\ TrimSpace(t)[1] \notin Space
           /\ TrimSpace(t)[Len(TrimSpace(t))] \notin Space
           /\ Words(TrimSpace(t)) = Words(t)
  <1> DEFINE n == Len(t)
             a == Min(Own(t))
             b == Max(Own(t))
             m == SubSeq(t, a, b)
             upto == SubSeq(t, 1, b)
             pre == SubSeq(upto, 1, a - 1)
             post == SubSeq(t, b + 1, n)
  <1>0. n \in Nat /\ DOMAIN t = 1..n
    OBVIOUS
  <1>1. TrimSpace(t) = m
    BY DEF TrimSpace, Own
  <1>2. Own(t) \subseteq 0..n /\ Own(t) \subseteq Nat
    BY <1>0 DEF Own
  <1>3. a \in Own(t) /\ \A y \in Own(t) : a <= y
    BY <1>2, MinOf
  <1>4. b \in Own(t) /\ \A y \in Own(t) : b >= y
    BY <1>0, <1>2, MaxOf
  <1> HIDE DEF a, b
  <1>5. a \in 1..n /\ b \in 1..n /\ a <= b /\ t[a] \notin Space /\ t[b] \notin Space
    BY <1>0, <1>3, <1>4 DEF Own
  <1>a. /\ a \in Nat /\ b \in Nat /\ 1 <= a /\ a <= b + 1 /\ b <= n /\ a - 1 \in Nat
        /\ (a - 1) + 1 = a /\ 1 <= b + 1 /\ b + 1 \in Nat /\ a - 1 <= b
    BY <1>0, <1>5
  <1>6. /\ m \in Seq(S) /\ Len(m) = b - a + 1
        /\ \A i \in 1..(b - a + 1) : m[i] = t[a + i - 1]
    BY <1>a, PartOf
  <1>7. /\ upto \in Seq(S) /\ Len(upto) = b /\ \A i \in 1..b : upto[i] = t[i]
    <2>1. /\ upto \in Seq(S) /\ Len(upto) = b - 1 + 1
          /\ \A i \in 1..(b - 1 + 1) : upto[i] = t[1 + i - 1]
      BY <1>a, PartOf
    <2> QED BY <1>a, <2>1
  <1>8. /\ post \in Seq(S) /\ Len(post) = n - b
        /\ \A i \in 1..Len(post) : post[i] = t[b + i]
    <2>1. /\ post \in Seq(S) /\ Len(post) = n - (b + 1) + 1
          /\ \A i \in 1..(n - (b + 1) + 1) : post[i] = t[(b + 1) + i - 1]
      <3>1. n \in Nat /\ b + 1 \in Nat /\ 1 <= b + 1 /\ b + 1 <= n + 1 /\ n <= Len(t)
        BY <1>0, <1>a
      <3> QED BY <3>1, PartOf, Zenon
    <2>2. n - (b + 1) + 1 = n - b /\ \A i \in 1..(n - b) : (b + 1) + i - 1 = b + i
      BY <1>0, <1>a
    <2> HIDE DEF post
    <2> QED BY <2>1, <2>2
  <1> HIDE DEF upto
  <1>9. /\ pre \in Seq(S) /\ Len(pre) = a - 1
        /\ \A i \in 1..(a - 1) : pre[i] = t[i]
    <2>1. /\ pre \in Seq(S) /\ Len(pre) = (a - 1) - 1 + 1
          /\ \A i \in 1..((a - 1) - 1 + 1) : pre[i] = upto[1 + i - 1]
      BY <1>a, <1>7, PartOf
    <2>2. \A i \in 1..(a - 1) : i \in 1..b /\ 1 + i - 1 = i
      BY <1>a
    <2> QED BY <1>a, <1>7, <2>1, <2>2
  <1>10. m = SubSeq(upto, a, b)
    <2> DEFINE w == SubSeq(upto, a, b)
    <2>1. /\ w \in Seq(S) /\ Len(w) = b - a + 1
          /\ \A i \in 1..(b - a + 1) : w[i] = upto[a + i - 1]
      BY <1>a, <1>7, PartOf
    <2>2. \A i \in 1..(b - a + 1) : a + i - 1 \in 1..b
      BY <1>a
    <2> HIDE DEF w, m
    <2>3. \A i \in 1..(b - a + 1) : w[i] = m[i]
      BY <1>6, <1>7, <2>1, <2>2
    <2>4. w = m
      BY <1>6, <2>1, <2>3
    <2> QED BY <2>4 DEF w
  <1>11. t = upto \o post /\ upto = pre \o m
    <2>1. t = upto \o post
      <3>1. b \in 0..Len(t)
        BY <1>5
      <3> QED BY <3>1, SplitAt, Zenon DEF upto
    <2>2. a - 1 \in 0..Len(upto)
      BY <1>a, <1>7
    <2>3. upto = SubSeq(upto, 1, a - 1) \o SubSeq(upto, (a - 1) + 1, Len(upto))
      BY <1>7, <2>2, SplitAt, Zenon
    <2> QED BY <1>7, <1>10, <1>a, <2>1, <2>3
  <1>12. \A i \in 1..Len(pre) : pre[i] \in Space
    <2> TAKE i \in 1..Len(pre)
    <2>1. i \in 1..n /\ ~(a <= i) /\ pre[i] = t[i]
      BY <1>0, <1>5, <1>9
    <2> QED BY <1>0, <1>3, <2>1 DEF Own
  <1>13. \A i \in 1..Len(post) : post[i] \in Space
    <2> TAKE i \in 1..Len(post)
    <2> HIDE DEF post
    <2>1. b + i \in 1..n /\ ~(b >= b + i) /\ post[i] = t[b + i]
      BY <1>0, <1>5, <1>8
    <2> QED BY <1>0, <1>4, <2>1 DEF Own
  <1> HIDE DEF m, pre, post
  <1>14. pre \in Seq(S) /\ post \in Seq(S) /\ m \in Seq(S) /\ upto \in Seq(S)
    BY <1>6, <1>7, <1>8, <1>9
  <1>15. Words(pre) = <<>> /\ Words(post) = <<>> /\ Words(m) \in Seq(S)
    BY <1>12, <1>13, <1>14, NoWords, WordsType
  <1>16. Words(t) = Words(upto) \o Words(post) /\ Words(upto) = Words(pre) \o Words(m)
    BY <1>11, <1>14, WordsOfJoined
  <1>17. Words(t) = Words(m)
    BY <1>15, <1>16
  <1>18. Len(m) > 0 /\ m[1] = t[a] /\ m[Len(m)] = t[b]
    <2>1. 1 \in 1..(b - a + 1) /\ Len(m) \in 1..(b - a + 1)
          /\ a + 1 - 1 = a /\ a + Len(m) - 1 = b
      BY <1>5, <1>6, <1>0
    <2> QED BY <1>6, <2>1
  <1> QED BY <1>1, <1>5, <1>14, <1>17, <1>18 DEF m, a, b

LEMMA NothingLeft ==
    ASSUME NEW S, NEW t \in Seq(S), Own(t) = {}
    PROVE  TrimSpace(t) = <<>> /\ Words(t) = <<>>
  <1>1. TrimSpace(t) = <<>>
    BY DEF TrimSpace, Own
  <1>2. \A i \in 1..Len(t) : t[i] \in Space
    BY DEF Own
  <1> QED BY <1>1, <1>2, NoWords

\* What begins with a word has it for its first.
LEMMA FirstWord ==
    ASSUME NEW S, NEW t \in Seq(S), Len(t) > 0, t[1] \notin Space
    PROVE  Words(t) # <<>> /\ Words(t)[1] = t[1]
  <1> DEFINE x == t[1]
             r == SubSeq(t, 2, Len(t))
  <1>1. x \in S /\ r \in Seq(S) /\ <<x>> \in Seq(S) /\ <<x>> \o r = t
    OBVIOUS
  <1> HIDE DEF x, r
  <1>2. Words(t) = <<x>> \o Words(r) /\ Words(r) \in Seq(S)
    BY <1>1, OneWord, WordsOfJoined, WordsType DEF x
  <1>3. <<x>> \o Words(r) # <<>> /\ (<<x>> \o Words(r))[1] = x
    BY <1>1, <1>2
  <1> QED BY <1>2, <1>3 DEF x
-----------------------------------------------------------------------------
(* setAuth. *)

LEMMA WordAndSpace ==
    ASSUME NEW S, NEW x \in S, NEW y \in S, x \notin Space, y \in Space
    PROVE  <<x, y>> \in Seq(S) /\ Words(<<x, y>>) = <<x>>
  <1>1. <<x>> \in Seq(S) /\ <<y>> \in Seq(S) /\ <<x, y>> \in Seq(S)
    OBVIOUS
  <1>2. <<x, y>> = <<x>> \o <<y>>
    <2> DEFINE p == <<x>>
               q == <<y>>
               r == <<x, y>>
    <2>1. /\ p \in Seq(S) /\ Len(p) = 1 /\ p[1] = x
          /\ q \in Seq(S) /\ Len(q) = 1 /\ q[1] = y
          /\ r \in Seq(S) /\ Len(r) = 2 /\ r[1] = x /\ r[2] = y
      OBVIOUS
    <2> HIDE DEF p, q, r
    <2>2. Len(p \o q) = 2 /\ (p \o q)[1] = x /\ (p \o q)[2] = y /\ p \o q \in Seq(S)
      BY <2>1
    <2>3. r = p \o q
      BY <2>1, <2>2
    <2> QED BY <2>3 DEF p, q, r
  <1>3. Words(<<x>>) = <<x>>
    BY OneWord
  <1>4. Words(<<y>>) = <<>>
    <2> DEFINE t == <<y>>
    <2>1. t \in Seq(S) /\ \A i \in 1..Len(t) : t[i] \in Space
      OBVIOUS
    <2> HIDE DEF t
    <2>2. Words(t) = <<>>
      BY <2>1, NoWords
    <2> QED BY <2>2 DEF t
  <1>5. Words(<<x, y>>) = Words(<<x>>) \o Words(<<y>>)
    BY <1>1, <1>2, WordsOfJoined
  <1>6. <<x>> \o <<>> = <<x>>
    OBVIOUS
  <1>7. Words(<<x, y>>) = <<x>>
    BY <1>3, <1>4, <1>5, <1>6
  <1> QED BY <1>1, <1>7

\* A token whose first word names a scheme is passed through, if it goes on as one.
LEMMA SchemeIsSeen ==
    ASSUME NEW S, NEW t \in Seq(S), IsToken(t), Own(t) # {}
    PROVE  hasAuthScheme(TrimSpace(t)) <=> ToLower(TrimSpace(t)[1]) \in Schemes
  <1> DEFINE n == Len(t)
             a == Min(Own(t))
             b == Max(Own(t))
             m == TrimSpace(t)
  <1>0. n \in Nat /\ DOMAIN t = 1..n
    OBVIOUS
  <1>1. Own(t) \subseteq 0..n /\ Own(t) \subseteq Nat
    BY <1>0 DEF Own
  <1>2. a \in Own(t) /\ \A y \in Own(t) : a <= y
    BY <1>1, MinOf
  <1>3. b \in Own(t) /\ \A y \in Own(t) : b >= y
    BY <1>0, <1>1, MaxOf
  <1>4. m = SubSeq(t, a, b)
    BY Trimmed
  <1> HIDE DEF a, b, m
  <1>5. /\ a \in Nat /\ b \in Nat /\ 1 <= a /\ a <= b + 1 /\ b <= n /\ a <= b
        /\ t[a] \notin Space
    BY <1>0, <1>2, <1>3 DEF Own
  <1>6. Len(m) = b - a + 1 /\ \A i \in 1..(b - a + 1) : m[i] = t[a + i - 1]
    BY <1>4, <1>5, PartOf
  <1>7. m[1] = t[a]
    <2>1. 1 \in 1..(b - a + 1) /\ a + 1 - 1 = a
      BY <1>5
    <2> QED BY <1>6, <2>1
  <1>8. ASSUME ToLower(m[1]) \in Schemes PROVE Len(m) > 1 /\ m[2] = " "
    <2>1. a \in DOMAIN t /\ \A j \in 1..(a - 1) : t[j] \in Space
      <3>1. a \in DOMAIN t
        BY <1>0, <1>5
      <3>2. ASSUME NEW j \in 1..(a - 1), t[j] \notin Space PROVE FALSE
        <4>1. j \in Own(t) /\ ~(a <= j)
          BY <1>0, <1>5, <3>2 DEF Own
        <4> QED BY <1>2, <4>1
      <3> QED BY <3>1, <3>2
    <2>2. t[a + 1] = " "
      BY <1>5, <1>7, <1>8, <2>1, Zenon DEF IsToken
    <2>a. \E j \in DOMAIN t : j > a /\ t[j] \notin Space
      BY <1>5, <1>7, <1>8, <2>1, Zenon DEF IsToken
    <2>b. PICK j \in DOMAIN t : j > a /\ t[j] \notin Space
      BY <2>a
    <2>c. j \in Own(t) /\ j \in Nat
      BY <1>0, <2>b DEF Own
    <2>3. b > a
      BY <1>3, <1>5, <2>b, <2>c
    <2>4. 2 \in 1..(b - a + 1) /\ a + 2 - 1 = a + 1
      BY <1>5, <2>3
    <2>5. m[2] = t[a + 1]
      BY <1>6, <2>4
    <2>6. Len(m) > 1
      BY <1>5, <1>6, <2>3
    <2> QED BY <2>2, <2>5, <2>6, Zenon
  <1> QED BY <1>8, Zenon DEF hasAuthScheme, m

\* A PDP is shown what the operator wrote, under the scheme it names, Bearer if
\* none, and no scheme twice: whatever surrounds the token and however the scheme
\* is spelled (authzen.go:237-268).
THEOREM HeaderIsAsMeant ==
    ASSUME NEW S, NEW t \in Seq(S), IsToken(t)
    PROVE  Words(setAuth(t)) = Meant(t)
  <1>1. CASE Own(t) = {}
    <2>1. TrimSpace(t) = <<>> /\ Words(t) = <<>>
      BY <1>1, NothingLeft
    <2>2. Words(<<>>) = <<>>
      <3>1. <<>> \in Seq(S) /\ \A i \in 1..Len(<<>>) : <<>>[i] \in Space
        OBVIOUS
      <3> QED BY <3>1, NoWords
    <2>3. setAuth(t) = <<>> /\ Meant(t) = <<>>
      BY <2>1, Zenon DEF setAuth, Meant
    <2> QED BY <2>2, <2>3
  <1>2. CASE Own(t) # {}
    <2> DEFINE m == TrimSpace(t)
               C == S \cup {"Bearer", " "}
               bearer == <<"Bearer", " ">>
    <2>1. m \in Seq(S) /\ Len(m) > 0 /\ m[1] \notin Space /\ Words(m) = Words(t)
      BY <1>2, Trimmed
    <2>2. hasAuthScheme(m) <=> ToLower(m[1]) \in Schemes
      BY <1>2, SchemeIsSeen
    <2> HIDE DEF m
    <2>3. Words(t) # <<>> /\ Words(t)[1] = m[1] /\ m # <<>>
      BY <2>1, FirstWord
    <2>4. m \in Seq(C) /\ bearer \in Seq(C) /\ Words(bearer) = <<"Bearer">>
      <3> DEFINE x == "Bearer"
                 y == " "
      <3>1. x \in C /\ y \in C /\ S \subseteq C
        OBVIOUS
      <3>2. x \notin Space /\ y \in Space
        BY Zenon DEF Space
      <3> HIDE DEF C, x, y
      <3>3. m \in Seq(C)
        BY <2>1, <3>1
      <3>4. <<x, y>> \in Seq(C) /\ Words(<<x, y>>) = <<x>>
        BY <3>1, <3>2, WordAndSpace
      <3> QED BY <3>3, <3>4, Zenon DEF x, y
    <2> HIDE DEF bearer, C
    <2>5. Words(bearer \o m) = Words(bearer) \o Words(m)
      BY <2>4, WordsOfJoined
    <2>6. setAuth(t) = IF hasAuthScheme(m) THEN m ELSE bearer \o m
      BY <2>3, Zenon DEF setAuth, m, bearer
    <2>7. Meant(t) = IF ToLower(m[1]) \in Schemes THEN Words(t) ELSE <<"Bearer">> \o Words(t)
      BY <2>3, Zenon DEF Meant
    <2>8. CASE hasAuthScheme(m)
      BY <2>1, <2>2, <2>6, <2>7, <2>8, Zenon
    <2>9. CASE ~hasAuthScheme(m)
      <3>1. setAuth(t) = bearer \o m /\ Meant(t) = <<"Bearer">> \o Words(t)
        BY <2>2, <2>6, <2>7, <2>9, Zenon
      <3>2. Words(bearer \o m) = <<"Bearer">> \o Words(t)
        BY <2>1, <2>4, <2>5, Zenon
      <3> QED BY <3>1, <3>2, Zenon
    <2> QED BY <2>8, <2>9
  <1> QED BY <1>1, <1>2

\* What setAuth makes is a field value HTTP can carry: no white space begins or
\* ends it, whatever the token (authzen.go:237-244).
THEOREM HeaderHasNoSpaceAtItsEnds ==
    ASSUME NEW S, NEW t \in Seq(S), setAuth(t) # <<>>
    PROVE  setAuth(t)[1] \notin Space /\ setAuth(t)[Len(setAuth(t))] \notin Space
  <1> DEFINE m == TrimSpace(t)
             x == "Bearer"
             y == " "
             bearer == <<x, y>>
  <1>0. Own(t) # {}
    <2> SUFFICES ASSUME Own(t) = {} PROVE setAuth(t) = <<>>
      OBVIOUS
    <2>1. TrimSpace(t) = <<>>
      BY NothingLeft
    <2> QED BY <2>1, Zenon DEF setAuth
  <1>1. /\ m \in Seq(S) /\ Len(m) > 0 /\ m[1] \notin Space /\ m[Len(m)] \notin Space
    BY <1>0, Trimmed
  <1> HIDE DEF m
  <1>2. x \notin Space
    BY DEF Space
  <1>3. setAuth(t) = m \/ setAuth(t) = bearer \o m
    BY Zenon DEF setAuth, m, bearer
  <1> HIDE DEF x, y
  <1>4. (bearer \o m)[1] = x /\ (bearer \o m)[Len(bearer \o m)] = m[Len(m)]
    <2> DEFINE C == S \cup {x, y}
    <2>1. m \in Seq(C) /\ bearer \in Seq(C) /\ Len(bearer) = 2 /\ bearer[1] = x
      BY <1>1
    <2> HIDE DEF bearer, C
    <2>a. \A p, q \in Seq(C) :
             /\ Len(p \o q) = Len(p) + Len(q)
             /\ \A i \in 1..Len(p) : (p \o q)[i] = p[i]
             /\ \A i \in 1..Len(q) : (p \o q)[Len(p) + i] = q[i]
      BY JoinedAt
    <2>2. /\ Len(bearer \o m) = Len(bearer) + Len(m)
          /\ \A i \in 1..Len(bearer) : (bearer \o m)[i] = bearer[i]
          /\ \A i \in 1..Len(m) : (bearer \o m)[Len(bearer) + i] = m[i]
      BY <2>1, <2>a, Zenon
    <2> DEFINE h == bearer \o m
    <2> HIDE DEF h
    <2>3. 1 \in 1..Len(bearer) /\ Len(m) \in 1..Len(m)
      BY <1>1, <2>1
    <2> QED BY <2>1, <2>2, <2>3
  <1> QED BY <1>1, <1>2, <1>3, <1>4
=============================================================================
