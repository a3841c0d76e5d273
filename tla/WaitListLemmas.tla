--------------------------- MODULE WaitListLemmas ---------------------------
(***************************************************************************)
(* A wait list is a sequence in which no thread occurs twice.  These are   *)
(* the facts about its operations which the proofs of the blocking objects *)
(* cite; and what all proofs by induction need: the least and the greatest *)
(* member of a set of numbers.                                             *)
(***************************************************************************)
EXTENDS LinkedList, Integers, Sequences, SequencesExt, SequenceTheorems,
        FiniteSetTheorems, WellFoundedInduction, TLAPS

\* The empty list has no members: the state of a list after the init functions.
LEMMA EmptyList == /\ IsInjective(<<>>)
                   /\ ToSet(<<>>) = {}
BY DEF IsInjective, ToSet

\* A list has a member exactly if it is not empty, so the tests of member last
\* in the lock functions ask whether some thread waits.
LEMMA NonEmptyList ==
    ASSUME NEW S, NEW s \in Seq(S)
    PROVE  /\ ToSet(s) \subseteq S
           /\ s = <<>> <=> ToSet(s) = {}
BY DEF ToSet

\* insertlast: a thread which is in no list becomes a member.
LEMMA AppendList ==
    ASSUME NEW S, NEW s \in Seq(S), NEW e \in S,
           IsInjective(s), e \notin ToSet(s)
    PROVE  /\ Append(s, e) \in Seq(S)
           /\ IsInjective(Append(s, e))
           /\ ToSet(Append(s, e)) = ToSet(s) \cup {e}
<1> DEFINE a == Append(s, e)
<1>1. /\ a \in Seq(S)
      /\ DOMAIN s = 1..Len(s) /\ Len(s) \in Nat
      /\ DOMAIN a = 1..(Len(s) + 1)
      /\ \A i \in 1..Len(s) : a[i] = s[i]
      /\ a[Len(s) + 1] = e
  OBVIOUS
<1>2. \A i \in 1..Len(s) : s[i] # e
  BY DEF ToSet
<1>3. IsInjective(a)
  BY <1>2 DEF IsInjective
<1>4. ToSet(a) = ToSet(s) \cup {e}
  <2>1. ToSet(a) \subseteq ToSet(s) \cup {e}
    <3> SUFFICES ASSUME NEW i \in DOMAIN a PROVE a[i] \in ToSet(s) \cup {e}
      BY DEF ToSet
    <3>1. CASE i \in 1..Len(s)
      BY DEF ToSet
    <3>2. CASE i = Len(s) + 1
      BY <3>2
    <3> QED BY <3>1
  <2>2. ToSet(s) \subseteq ToSet(a)
    <3> SUFFICES ASSUME NEW i \in DOMAIN s PROVE s[i] \in ToSet(a)
      BY DEF ToSet
    <3>1. i \in DOMAIN a /\ a[i] = s[i]
      OBVIOUS
    <3> QED BY DEF ToSet
  <2>3. e \in ToSet(a)
    <3>1. Len(s) + 1 \in DOMAIN a
      OBVIOUS
    <3> QED BY DEF ToSet
  <2> QED BY <2>1, <2>2, <2>3
<1> QED BY <1>3, <1>4

\* removefirst: the first member leaves, all others stay.
LEMMA TailList ==
    ASSUME NEW S, NEW s \in Seq(S), IsInjective(s), s # <<>>
    PROVE  /\ Head(s) \in S
           /\ Head(s) \in ToSet(s)
           /\ Tail(s) \in Seq(S)
           /\ IsInjective(Tail(s))
           /\ ToSet(Tail(s)) = ToSet(s) \ {Head(s)}
<1> DEFINE u == Tail(s)
<1>1. /\ DOMAIN s = 1..Len(s) /\ Len(s) \in Nat \ {0}
      /\ u \in Seq(S)
      /\ DOMAIN u = 1..(Len(s) - 1)
      /\ \A i \in 1..(Len(s) - 1) : u[i] = s[i + 1]
      /\ Head(s) = s[1] /\ Head(s) \in S
  OBVIOUS
<1>2. Head(s) \in ToSet(s)
  BY DEF ToSet
<1>3. IsInjective(u)
  <2> SUFFICES ASSUME NEW i \in DOMAIN u, NEW j \in DOMAIN u, u[i] = u[j]
               PROVE  i = j
    BY DEF IsInjective
  <2>1. /\ i \in Nat /\ j \in Nat
        /\ i + 1 \in DOMAIN s /\ j + 1 \in DOMAIN s
        /\ s[i + 1] = s[j + 1]
    OBVIOUS
  <2>2. i + 1 = j + 1
    BY DEF IsInjective
  <2> QED BY <2>2
<1>4. ToSet(u) \subseteq ToSet(s) \ {Head(s)}
  <2> SUFFICES ASSUME NEW i \in DOMAIN u PROVE u[i] \in ToSet(s) \ {Head(s)}
    BY DEF ToSet
  <2>1. i + 1 \in DOMAIN s /\ u[i] = s[i + 1] /\ i + 1 # 1
    OBVIOUS
  <2>2. s[i + 1] # s[1]
    BY DEF IsInjective
  <2> QED BY <2>2 DEF ToSet
<1>5. ToSet(s) \ {Head(s)} \subseteq ToSet(u)
  <2> SUFFICES ASSUME NEW i \in DOMAIN s, s[i] # Head(s) PROVE s[i] \in ToSet(u)
    BY DEF ToSet
  <2>1. i - 1 \in DOMAIN u /\ u[i - 1] = s[i]
    OBVIOUS
  <2> QED BY <2>1 DEF ToSet
<1> QED BY <1>2, <1>3, <1>4, <1>5

\* remove: the member at any place leaves, all others stay.
LEMMA RemoveAtList ==
    ASSUME NEW S, NEW s \in Seq(S), IsInjective(s), NEW i \in DOMAIN s
    PROVE  /\ s[i] \in ToSet(s)
           /\ RemoveAt(s, i) \in Seq(S)
           /\ Len(RemoveAt(s, i)) = Len(s) - 1
           /\ IsInjective(RemoveAt(s, i))
           /\ ToSet(RemoveAt(s, i)) = ToSet(s) \ {s[i]}
<1> DEFINE n == Len(s)
           u == SubSeq(s, 1, i - 1)
           v == SubSeq(s, i + 1, n)
           r == RemoveAt(s, i)
<1>1. /\ n \in Nat \ {0} /\ i \in 1..n /\ DOMAIN s = 1..n
      /\ \A k \in 1..n : s[k] \in S
  OBVIOUS
<1>2. /\ u \in Seq(S) /\ Len(u) = i - 1
      /\ \A k \in 1..(i - 1) : u[k] = s[k]
  BY <1>1
<1>3. /\ v \in Seq(S) /\ Len(v) = n - i
      /\ \A k \in 1..(n - i) : v[k] = s[i + k]
  BY <1>1
<1>4. r = u \o v
  BY DEF RemoveAt
<1> HIDE DEF n, u, v, r
<1>5. /\ r \in Seq(S) /\ Len(r) = n - 1 /\ DOMAIN r = 1..(n - 1)
      /\ \A k \in 1..(n - 1) : r[k] = IF k < i THEN s[k] ELSE s[k + 1]
  <2>1. /\ r \in Seq(S)
        /\ Len(r) = Len(u) + Len(v)
        /\ \A k \in 1..(Len(u) + Len(v)) : r[k] = IF k <= Len(u) THEN u[k] ELSE v[k - Len(u)]
    BY <1>2, <1>3, <1>4, ConcatProperties
  <2>2. Len(u) + Len(v) = n - 1
    BY <1>1, <1>2, <1>3
  <2>3. ASSUME NEW k \in 1..(n - 1) PROVE r[k] = IF k < i THEN s[k] ELSE s[k + 1]
    <3>1. CASE k < i
      <4>1. k \in 1..(i - 1) /\ k <= Len(u) /\ k \in 1..(Len(u) + Len(v))
        BY <1>1, <1>2, <2>2, <3>1
      <4> QED BY <1>2, <2>1, <3>1, <4>1
    <3>2. CASE ~(k < i)
      <4>1. ~(k <= Len(u)) /\ k \in 1..(Len(u) + Len(v)) /\ k - Len(u) = k - (i - 1)
        BY <1>1, <1>2, <2>2, <3>2
      <4>2. k - (i - 1) \in 1..(n - i) /\ i + (k - (i - 1)) = k + 1
        BY <1>1, <3>2
      <4>3. r[k] = v[k - (i - 1)]
        BY <2>1, <4>1
      <4>4. v[k - (i - 1)] = s[k + 1]
        BY <1>3, <4>2
      <4> QED BY <3>2, <4>3, <4>4
    <3> QED BY <3>1, <3>2
  <2>4. DOMAIN r = 1..Len(r)
    BY <2>1
  <2> QED BY <2>1, <2>2, <2>3, <2>4
<1>6. IsInjective(r)
  <2> SUFFICES ASSUME NEW j \in DOMAIN r, NEW k \in DOMAIN r, r[j] = r[k]
               PROVE  j = k
    BY DEF IsInjective
  <2> DEFINE p(x) == IF x < i THEN x ELSE x + 1
  <2>1. /\ p(j) \in DOMAIN s /\ p(k) \in DOMAIN s
        /\ s[p(j)] = r[j] /\ s[p(k)] = r[k]
    BY <1>1, <1>5
  <2>2. p(j) = p(k)
    BY <2>1 DEF IsInjective
  <2> QED BY <1>1, <1>5, <2>2
<1>7. ToSet(r) \subseteq ToSet(s) \ {s[i]}
  <2> SUFFICES ASSUME NEW k \in DOMAIN r PROVE r[k] \in ToSet(s) \ {s[i]}
    BY DEF ToSet
  <2> DEFINE q == IF k < i THEN k ELSE k + 1
  <2>1. q \in DOMAIN s /\ r[k] = s[q] /\ q # i
    BY <1>1, <1>5
  <2>2. s[q] # s[i]
    BY <2>1 DEF IsInjective
  <2> QED BY <2>1, <2>2 DEF ToSet
<1>8. ToSet(s) \ {s[i]} \subseteq ToSet(r)
  <2> SUFFICES ASSUME NEW k \in DOMAIN s, s[k] # s[i] PROVE s[k] \in ToSet(r)
    BY DEF ToSet
  <2> DEFINE q == IF k < i THEN k ELSE k - 1
  <2>1. q \in DOMAIN r /\ r[q] = s[k]
    BY <1>1, <1>5
  <2> QED BY <2>1 DEF ToSet
<1> QED BY <1>5, <1>6, <1>7, <1>8 DEF n, r, ToSet

\* The order in which wakeupreader_rwlock visits a cyclic list: the last member
\* first.  Nobody is left out or visited twice.
LEMMA RotateList ==
    ASSUME NEW S, NEW s \in Seq(S), IsInjective(s), s # <<>>
    PROVE  LET r == <<Last(s)>> \o Front(s)
           IN /\ r \in Seq(S)
              /\ r # <<>>
              /\ IsInjective(r)
              /\ ToSet(r) = ToSet(s)
<1> DEFINE n == Len(s)
           r == <<Last(s)>> \o Front(s)
<1>1. /\ DOMAIN s = 1..n /\ n \in Nat \ {0}
      /\ Last(s) = s[n] /\ s[n] \in S
  BY DEF Last
<1>2. /\ r \in Seq(S)
      /\ DOMAIN r = 1..n
      /\ r[1] = s[n]
      /\ \A i \in 2..n : r[i] = s[i - 1]
  <2> DEFINE first == <<Last(s)>>
             rest == Front(s)
  <2>1. /\ rest \in Seq(S)
        /\ Len(rest) = n - 1
        /\ \A i \in 1..(n - 1) : rest[i] = s[i]
    BY <1>1 DEF Front
  <2>2. /\ first \in Seq(S)
        /\ Len(first) = 1
        /\ first[1] = s[n]
    BY <1>1
  <2> HIDE DEF n, first, rest
  <2>3. /\ first \o rest \in Seq(S)
        /\ Len(first \o rest) = n
        /\ \A i \in 1..n : (first \o rest)[i] = IF i <= 1 THEN first[i] ELSE rest[i - 1]
    <3>1. /\ first \o rest \in Seq(S)
          /\ Len(first \o rest) = Len(first) + Len(rest)
          /\ \A i \in 1..Len(first) + Len(rest) :
                 (first \o rest)[i] = IF i <= Len(first) THEN first[i] ELSE rest[i - Len(first)]
      BY <2>1, <2>2, ConcatProperties
    <3>2. n \in Nat /\ Len(first) + Len(rest) = n
      BY <1>1, <2>1, <2>2
    <3> QED BY <2>2, <3>1, <3>2
  <2>4. /\ DOMAIN (first \o rest) = 1..n
        /\ (first \o rest)[1] = s[n]
        /\ \A i \in 2..n : (first \o rest)[i] = s[i - 1]
    <3>1. n \in Nat \ {0}
      BY <1>1
    <3>2. DOMAIN (first \o rest) = 1..n
      BY <2>3
    <3>3. (first \o rest)[1] = s[n]
      BY <2>2, <2>3, <3>1
    <3>4. ASSUME NEW i \in 2..n PROVE (first \o rest)[i] = s[i - 1]
      <4>1. (first \o rest)[i] = rest[i - 1]
        <5>1. i \in 1..n /\ ~(i <= 1)
          BY <3>1
        <5> QED BY <2>3, <5>1
      <4>2. i - 1 \in 1..(n - 1)
        BY <3>1
      <4> QED BY <2>1, <4>1, <4>2
    <3> QED BY <3>2, <3>3, <3>4
  <2> QED BY <2>3, <2>4 DEF first, rest
<1> HIDE DEF n, r
<1>3. IsInjective(r)
  <2> SUFFICES ASSUME NEW i \in DOMAIN r, NEW j \in DOMAIN r, r[i] = r[j]
               PROVE  i = j
    BY DEF IsInjective
  <2> DEFINE p(k) == IF k = 1 THEN n ELSE k - 1
  <2>1. /\ p(i) \in DOMAIN s /\ p(j) \in DOMAIN s
        /\ s[p(i)] = r[i] /\ s[p(j)] = r[j]
    BY <1>1, <1>2
  <2>2. p(i) = p(j)
    BY <2>1 DEF IsInjective
  <2> QED BY <1>2, <2>2
<1>4. ToSet(r) \subseteq ToSet(s)
  <2> SUFFICES ASSUME NEW i \in DOMAIN r PROVE r[i] \in ToSet(s)
    BY DEF ToSet
  <2>1. CASE i = 1
    BY <1>1, <1>2, <2>1 DEF ToSet
  <2>2. CASE i # 1
    <3>1. i - 1 \in DOMAIN s /\ r[i] = s[i - 1]
      BY <1>1, <1>2, <2>2
    <3> QED BY <3>1 DEF ToSet
  <2> QED BY <2>1, <2>2
<1>5. ToSet(s) \subseteq ToSet(r)
  <2> SUFFICES ASSUME NEW i \in DOMAIN s PROVE s[i] \in ToSet(r)
    BY DEF ToSet
  <2>1. CASE i = n
    BY <1>2, <2>1 DEF ToSet
  <2>2. CASE i # n
    <3>1. i + 1 \in DOMAIN r /\ r[i + 1] = s[i]
      BY <1>1, <1>2, <2>2
    <3> QED BY <3>1 DEF ToSet
  <2> QED BY <2>1, <2>2
<1>6. r # <<>>
  BY <1>1, <1>2
<1> QED BY <1>4, <1>5 DEF r

\* insertlast of several nodes: two lists are joined.
LEMMA ConcatList ==
    ASSUME NEW S, NEW s \in Seq(S), NEW u \in Seq(S)
    PROVE  /\ s \o u \in Seq(S)
           /\ ToSet(s \o u) = ToSet(s) \cup ToSet(u)
           /\ IsInjective(s \o u) <=> /\ IsInjective(s) /\ IsInjective(u)
                                      /\ ToSet(s) \cap ToSet(u) = {}
<1> DEFINE m == Len(s)
           n == Len(u)
           r == s \o u
<1>1. /\ m \in Nat /\ DOMAIN s = 1..m
      /\ n \in Nat /\ DOMAIN u = 1..n
  OBVIOUS
<1>2. /\ r \in Seq(S) /\ DOMAIN r = 1..(m + n)
      /\ \A i \in 1..m : r[i] = s[i]
      /\ \A i \in 1..n : r[m + i] = u[i]
  <2>1. /\ r \in Seq(S) /\ Len(r) = m + n
        /\ \A i \in 1..(m + n) : r[i] = IF i <= m THEN s[i] ELSE u[i - m]
    BY ConcatProperties
  <2>2. \A i \in 1..m : i \in 1..(m + n) /\ i <= m
    BY <1>1
  <2>3. \A i \in 1..n : m + i \in 1..(m + n) /\ ~(m + i <= m) /\ (m + i) - m = i
    BY <1>1
  <2> HIDE DEF m, n, r
  <2> QED BY <2>1, <2>2, <2>3
<1> HIDE DEF m, n, r
<1>3. \A k \in 1..(m + n) : k \in 1..m \/ \E i \in 1..n : k = m + i
  <2> SUFFICES ASSUME NEW k \in 1..(m + n), k \notin 1..m PROVE \E i \in 1..n : k = m + i
    OBVIOUS
  <2>1. k - m \in 1..n /\ k = m + (k - m)
    BY <1>1
  <2> QED BY <2>1
<1>4. \A i \in 1..m : i \in 1..(m + n)
  BY <1>1
<1>5. \A i \in 1..n : m + i \in 1..(m + n) /\ m + i \notin 1..m
  BY <1>1
<1>6. ToSet(r) = ToSet(s) \cup ToSet(u)
  <2>1. ASSUME NEW k \in DOMAIN r PROVE r[k] \in ToSet(s) \cup ToSet(u)
    <3>1. CASE k \in 1..m
      BY <1>1, <1>2, <3>1 DEF ToSet
    <3>2. CASE \E i \in 1..n : k = m + i
      <4> PICK i \in 1..n : k = m + i
        BY <3>2
      <4>1. i \in DOMAIN u /\ r[k] = u[i]
        BY <1>1, <1>2
      <4> QED BY <4>1 DEF ToSet
    <3> QED BY <1>2, <1>3, <3>1, <3>2
  <2>2. ASSUME NEW i \in DOMAIN s PROVE s[i] \in ToSet(r)
    BY <1>1, <1>2, <1>4 DEF ToSet
  <2>3. ASSUME NEW i \in DOMAIN u PROVE u[i] \in ToSet(r)
    BY <1>1, <1>2, <1>5 DEF ToSet
  <2> QED BY <2>1, <2>2, <2>3 DEF ToSet
<1>7. ASSUME IsInjective(r) PROVE IsInjective(s) /\ IsInjective(u) /\ ToSet(s) \cap ToSet(u) = {}
  <2> USE <1>7 DEF IsInjective
  <2>1. ASSUME NEW i \in DOMAIN s, NEW j \in DOMAIN s, s[i] = s[j] PROVE i = j
    BY <1>1, <1>2, <1>4, <2>1
  <2>2. ASSUME NEW i \in DOMAIN u, NEW j \in DOMAIN u, u[i] = u[j] PROVE i = j
    <3>1. r[m + i] = u[i] /\ r[m + j] = u[j] /\ m + i \in DOMAIN r /\ m + j \in DOMAIN r
      BY <1>1, <1>2, <1>5
    <3>2. m + i = m + j
      BY ONLY <1>7, <2>2, <3>1
    <3> QED BY <1>1, <3>2
  <2>3. ASSUME NEW i \in DOMAIN s, NEW j \in DOMAIN u, s[i] = u[j] PROVE FALSE
    <3>1. i = m + j
      BY <1>1, <1>2, <1>4, <1>5, <2>3
    <3> QED BY <1>1, <1>5, <3>1
  <2> QED BY <2>1, <2>2, <2>3 DEF ToSet
<1>8. ASSUME IsInjective(s), IsInjective(u), ToSet(s) \cap ToSet(u) = {} PROVE IsInjective(r)
  <2> SUFFICES ASSUME NEW i \in DOMAIN r, NEW j \in DOMAIN r, r[i] = r[j] PROVE i = j
    BY DEF IsInjective
  <2>1. \A a \in DOMAIN s, b \in DOMAIN u : s[a] # u[b]
    BY <1>8 DEF ToSet
  <2>2. CASE i \in 1..m
    <3>1. CASE j \in 1..m
      BY <1>1, <1>2, <1>8, <2>2, <3>1 DEF IsInjective
    <3>2. CASE \E b \in 1..n : j = m + b
      <4> PICK b \in 1..n : j = m + b
        BY <3>2
      <4>1. r[i] = s[i] /\ r[j] = u[b] /\ i \in DOMAIN s /\ b \in DOMAIN u
        BY <1>1, <1>2, <2>2
      <4> QED BY <2>1, <4>1
    <3> QED BY <1>2, <1>3, <3>1, <3>2
  <2>3. CASE \E a \in 1..n : i = m + a
    <3> PICK a \in 1..n : i = m + a
      BY <2>3
    <3>1. CASE j \in 1..m
      BY <1>1, <1>2, <2>1, <3>1
    <3>2. CASE \E b \in 1..n : j = m + b
      <4> PICK b \in 1..n : j = m + b
        BY <3>2
      <4>1. r[i] = u[a] /\ r[j] = u[b] /\ a \in DOMAIN u /\ b \in DOMAIN u
        BY <1>1, <1>2
      <4>2. a = b
        BY <1>8, <4>1 DEF IsInjective
      <4> QED BY <4>2
    <3> QED BY <1>2, <1>3, <3>1, <3>2
  <2> QED BY <1>2, <1>3, <2>2, <2>3
<1> QED BY <1>2, <1>6, <1>7, <1>8 DEF r

\* Induction over natural numbers: a set which contains 0 and with every number the
\* next one contains all.  It is stated for a set, which can be instantiated.
LEMMA SetInduction ==
    ASSUME NEW T, 0 \in T, \A n \in Nat : n \in T => n + 1 \in T
    PROVE  \A n \in Nat : n \in T
<1> SUFFICES ASSUME NEW m \in Nat, m \notin T PROVE FALSE
  OBVIOUS
<1> DEFINE U == {n \in Nat : n \notin T}
<1>1. U \subseteq Nat /\ U # {}
  OBVIOUS
<1>2. PICK least \in U : \A n \in U : <<n, least>> \notin OpToRel(<, Nat)
  <2> HIDE DEF U
  <2> QED BY <1>1, NatLessThanWellFounded, WFMin
<1>3. \A n \in U : ~(n < least)
  BY <1>2 DEF OpToRel
<1>4. least # 0 /\ least - 1 \in Nat /\ least - 1 < least
  OBVIOUS
<1>5. least - 1 \in T
  BY <1>3, <1>4
<1>6. least \in T
  BY <1>4, <1>5
<1> QED BY <1>6

\* insertfirst
LEMMA PushList ==
    ASSUME NEW S, NEW s \in Seq(S), NEW e \in S
    PROVE  /\ <<e>> \o s \in Seq(S)
           /\ <<e>> \o s # <<>>
           /\ Head(<<e>> \o s) = e
           /\ ToSet(<<e>> \o s) = ToSet(s) \cup {e}
           /\ IsInjective(s) /\ e \notin ToSet(s) => IsInjective(<<e>> \o s)
<1> DEFINE u == <<e>>
           r == u \o s
<1>1. u \in Seq(S) /\ ToSet(u) = {e} /\ IsInjective(u) /\ Len(u) = 1 /\ u[1] = e
  BY DEF ToSet, IsInjective
<1> HIDE DEF u
<1>2. /\ r \in Seq(S) /\ ToSet(r) = {e} \cup ToSet(s)
      /\ IsInjective(s) /\ e \notin ToSet(s) => IsInjective(r)
  BY <1>1, ConcatList
<1>3. Len(r) = 1 + Len(s) /\ r[1] = e /\ Len(s) \in Nat
  <2>1. /\ Len(r) = Len(u) + Len(s)
        /\ \A i \in 1 .. Len(u) + Len(s) : r[i] = IF i <= Len(u) THEN u[i] ELSE s[i - Len(u)]
    BY <1>1, ConcatProperties
  <2>2. Len(s) \in Nat
    BY ONLY s \in Seq(S), LenProperties
  <2> HIDE DEF r
  <2> QED BY <1>1, <2>1, <2>2
<1> HIDE DEF r
<1>4. r # <<>> /\ Head(r) = e
  BY <1>2, <1>3
<1> QED BY <1>2, <1>4 DEF r, u

-----------------------------------------------------------------------------
(* Lists from which members are unlinked *)

\* One more place of the list is looked at.
LEMMA CountInStep ==
    ASSUME NEW S, NEW list \in Seq(S), NEW T
    PROVE  /\ CountIn(list, T, 0) = 0
           /\ \A n \in Nat : CountIn(list, T, n) \in Nat
           /\ \A n \in Nat : list[n + 1] \in T =>
                 CountIn(list, T, n + 1) = CountIn(list, T, n) + 1
           /\ \A n \in Nat : list[n + 1] \notin T =>
                 CountIn(list, T, n + 1) = CountIn(list, T, n)
<1> DEFINE I(n) == {i \in 1..n : list[i] \in T}
<1>1. I(0) = {}
  OBVIOUS
<1>2. ASSUME NEW n \in Nat
      PROVE  IsFiniteSet(I(n)) /\ Cardinality(I(n)) \in Nat
  <2>1. IsFiniteSet(1..n)
    BY FS_Interval
  <2>2. I(n) \subseteq 1..n
    OBVIOUS
  <2> QED BY <2>1, <2>2, FS_Subset, FS_CardinalityType
<1>3. ASSUME NEW n \in Nat, list[n + 1] \in T
      PROVE  Cardinality(I(n + 1)) = Cardinality(I(n)) + 1
  <2>1. n + 1 \notin I(n) /\ I(n + 1) = I(n) \cup {n + 1}
    BY <1>3
  <2> HIDE DEF I
  <2> QED BY <1>2, <2>1, FS_AddElement
<1>4. ASSUME NEW n \in Nat, list[n + 1] \notin T
      PROVE  I(n + 1) = I(n)
  BY <1>4
<1>5. \A n \in Nat : CountIn(list, T, n) = Cardinality(I(n))
  BY DEF CountIn
<1> HIDE DEF I
<1>6. Cardinality(I(0)) = 0
  BY <1>1, FS_EmptySet
<1> QED BY <1>2, <1>3, <1>4, <1>5, <1>6

\* The count of a longer prefix is not smaller, and larger if it ends with a member
\* of T.
LEMMA CountInGrows ==
    ASSUME NEW S, NEW list \in Seq(S), NEW T, NEW m \in Nat, NEW n \in Nat, m <= n
    PROVE  /\ CountIn(list, T, m) <= CountIn(list, T, n)
           /\ m < n /\ list[n] \in T => CountIn(list, T, m) < CountIn(list, T, n)
<1> DEFINE I(k) == {i \in 1..k : list[i] \in T}
<1>1. IsFiniteSet(1..n) /\ I(n) \subseteq 1..n
  BY FS_Interval
<1>2. IsFiniteSet(I(n))
  BY <1>1, FS_Subset
<1>3. CountIn(list, T, m) = Cardinality(I(m)) /\ CountIn(list, T, n) = Cardinality(I(n))
  BY DEF CountIn
<1>4. m < n /\ list[n] \in T => n \in I(n) /\ n \notin I(m)
  OBVIOUS
<1>5. I(m) \subseteq I(n)
  OBVIOUS
<1> HIDE DEF I
<1>6. /\ Cardinality(I(m)) <= Cardinality(I(n))
      /\ Cardinality(I(m)) = Cardinality(I(n)) => I(m) = I(n)
  BY <1>2, <1>5, FS_Subset
<1>7. CountIn(list, T, m) \in Nat /\ CountIn(list, T, n) \in Nat
  BY CountInStep
<1> QED BY <1>3, <1>4, <1>6, <1>7

\* The k-th member of T is somewhere in the list.
LEMMA CountInReaches ==
    ASSUME NEW S, NEW list \in Seq(S), NEW T
    PROVE  \A n \in Nat : \A k \in 1..CountIn(list, T, n) :
               \E i \in 1..n : list[i] \in T /\ CountIn(list, T, i) = k
<1> DEFINE U == {n \in Nat : \A k \in 1..CountIn(list, T, n) :
                       \E i \in 1..n : list[i] \in T /\ CountIn(list, T, i) = k}
<1>1. 0 \in U
  BY CountInStep
<1>2. ASSUME NEW n \in Nat, n \in U PROVE n + 1 \in U
  <2>1. /\ CountIn(list, T, n) \in Nat
        /\ list[n + 1] \in T => CountIn(list, T, n + 1) = CountIn(list, T, n) + 1
        /\ list[n + 1] \notin T => CountIn(list, T, n + 1) = CountIn(list, T, n)
    BY CountInStep
  <2> SUFFICES ASSUME NEW k \in 1..CountIn(list, T, n + 1)
               PROVE  \E i \in 1..(n + 1) : list[i] \in T /\ CountIn(list, T, i) = k
    OBVIOUS
  <2>2. CASE k \in 1..CountIn(list, T, n)
    <3>1. PICK i \in 1..n : list[i] \in T /\ CountIn(list, T, i) = k
      BY <1>2, <2>2
    <3>2. i \in 1..(n + 1)
      OBVIOUS
    <3> QED BY <3>1, <3>2
  <2>3. CASE k \notin 1..CountIn(list, T, n)
    <3>1. list[n + 1] \in T /\ CountIn(list, T, n + 1) = k
      BY <2>1, <2>3
    <3>2. n + 1 \in 1..(n + 1)
      OBVIOUS
    <3> QED BY <3>1, <3>2
  <2> QED BY <2>2, <2>3
<1>3. \A n \in Nat : n \in U
  <2> HIDE DEF U
  <2> QED BY <1>1, <1>2, SetInduction
<1> QED BY <1>3

\* Exactly the members of T are kept, and none is doubled.
LEMMA KeptList ==
    ASSUME NEW S, NEW list \in Seq(S), NEW T
    PROVE  /\ Kept(list, T) \in Seq(S)
           /\ ToSet(Kept(list, T)) = ToSet(list) \cap T
           /\ IsInjective(list) => IsInjective(Kept(list, T))
<1> DEFINE n == Len(list)
           C(m) == CountIn(list, T, m)
           At(k) == CHOOSE i \in DOMAIN list : list[i] \in T /\ C(i) = k
           kept == Kept(list, T)
<1>1. n \in Nat /\ DOMAIN list = 1..n /\ \A i \in 1..n : list[i] \in S
  OBVIOUS
<1>2. C(n) \in Nat
  BY <1>1, CountInStep
<1>3. ASSUME NEW k \in 1..C(n)
      PROVE  At(k) \in 1..n /\ list[At(k)] \in T /\ C(At(k)) = k
  <2>1. \E i \in 1..n : list[i] \in T /\ C(i) = k
    BY <1>1, CountInReaches
  <2> QED BY <1>1, <2>1
<1>4. /\ kept = [k \in 1..C(n) |-> list[At(k)]]
      /\ DOMAIN kept = 1..C(n)
  BY DEF Kept
<1>5. ASSUME NEW i \in 1..n, list[i] \in T
      PROVE  C(i) \in 1..C(n) /\ At(C(i)) = i
  <2>1. i \in Nat /\ i <= n /\ 0 < i
    OBVIOUS
  <2>2. C(i) <= C(n) /\ C(i) \in Nat /\ C(0) = 0 /\ C(0) < C(i)
    BY <1>5, <2>1, CountInGrows, CountInStep
  <2>3. C(i) \in 1..C(n)
    BY <1>2, <2>2
  <2>4. At(C(i)) \in 1..n /\ list[At(C(i))] \in T /\ C(At(C(i))) = C(i)
    BY <1>3, <2>3
  <2> DEFINE j == At(C(i))
  <2>5. j \in Nat /\ i \in Nat /\ list[j] \in T /\ CountIn(list, T, j) = CountIn(list, T, i)
    BY <2>4
  <2> HIDE DEF j
  <2>6. ~(j < i) /\ ~(i < j)
    BY <1>5, <2>2, <2>5, CountInGrows
  <2> QED BY <2>3, <2>5, <2>6 DEF j
<1> HIDE DEF n, C, At, kept
<1>6. kept \in Seq(S)
  BY <1>1, <1>2, <1>3, <1>4
<1>7. ToSet(kept) = ToSet(list) \cap T
  <2>1. ASSUME NEW k \in DOMAIN kept PROVE kept[k] \in ToSet(list) \cap T
    BY <1>1, <1>3, <1>4 DEF ToSet
  <2>2. ASSUME NEW i \in DOMAIN list, list[i] \in T PROVE list[i] \in ToSet(kept)
    <3>1. C(i) \in DOMAIN kept /\ kept[C(i)] = list[i]
      BY <1>1, <1>4, <1>5, <2>2
    <3> QED BY <3>1 DEF ToSet
  <2> QED BY <2>1, <2>2 DEF ToSet
<1>8. ASSUME IsInjective(list) PROVE IsInjective(kept)
  <2> SUFFICES ASSUME NEW k \in 1..C(n), NEW m \in 1..C(n), kept[k] = kept[m]
               PROVE  k = m
    BY <1>4 DEF IsInjective
  <2>1. At(k) = At(m)
    BY <1>1, <1>3, <1>4, <1>8 DEF IsInjective
  <2> QED BY <1>3, <2>1
<1> QED BY <1>6, <1>7, <1>8 DEF kept

\* One member is unlinked.
LEMMA WithoutList ==
    ASSUME NEW S, NEW list \in Seq(S), NEW e
    PROVE  /\ Without(list, e) \in Seq(S)
           /\ ToSet(Without(list, e)) = ToSet(list) \ {e}
           /\ IsInjective(list) => IsInjective(Without(list, e))
BY KeptList DEF Without

\* The length of a list without doubled members is the number of its members.
LEMMA InjectiveLength ==
    ASSUME NEW S, NEW s \in Seq(S), IsInjective(s)
    PROVE  IsFiniteSet(ToSet(s)) /\ Cardinality(ToSet(s)) = Len(s)
<1>1. Len(s) \in Nat /\ DOMAIN s = 1..Len(s)
  OBVIOUS
<1>2. s \in Bijection(1..Len(s), ToSet(s))
  BY <1>1 DEF Bijection, Injection, Surjection, ToSet, IsInjective
<1>3. IsFiniteSet(1..Len(s)) /\ Cardinality(1..Len(s)) = Len(s)
  BY <1>1, FS_Interval
<1> QED BY <1>2, <1>3, FS_Bijection DEF ExistsBijection

\* A sequence which is defined member by member.
LEMMA BuildSeq ==
    ASSUME NEW S, NEW n \in Nat, NEW f \in [1 .. n -> S]
    PROVE  /\ f \o <<>> = f
           /\ f \in Seq(S)
           /\ Len(f) = n
<1>1. f \in Seq(S) /\ Len(f) = n
  OBVIOUS
<1>2. f \o <<>> = f
  <2>1. <<>> \in Seq(S) /\ Len(<<>>) = 0
    OBVIOUS
  <2>2. f \o <<>> \in Seq(S) /\ Len(f \o <<>>) = n /\ \A i \in 1 .. n : (f \o <<>>)[i] = f[i]
    BY <1>1, <2>1, ConcatProperties
  <2> QED BY <1>1, <2>2
<1> QED BY <1>1, <1>2

\* A set of natural numbers has a least member.
LEMMA LeastNumber ==
    ASSUME NEW M \in SUBSET Nat, M # {}
    PROVE  \E x \in M : \A y \in M : x <= y
<1>1. PICK least \in M : \A n \in M : <<n, least>> \notin OpToRel(<, Nat)
  BY NatLessThanWellFounded, WFMin
<1>2. \A n \in M : ~(n < least)
  BY <1>1 DEF OpToRel
<1> QED BY <1>2

\* A bounded set of natural numbers has a greatest member.
LEMMA GreatestNumber ==
    ASSUME NEW m \in Nat, NEW M \in SUBSET (0 .. m), M # {}
    PROVE  \E x \in M : \A y \in M : y <= x
<1> DEFINE T == {m - x : x \in M}
<1>1. T \in SUBSET Nat /\ T # {}
  <2>1. \A x \in M : m - x \in Nat
    <3> SUFFICES ASSUME NEW x \in M PROVE m - x \in Nat
      OBVIOUS
    <3>1. x \in 0 .. m
      OBVIOUS
    <3> QED BY ONLY <3>1, m \in Nat
  <2> QED BY <2>1
<1>2. PICK t \in T : \A u \in T : t <= u
  <2> HIDE DEF T
  <2> QED BY <1>1, LeastNumber
<1>3. PICK x \in M : t = m - x
  BY <1>2
<1>4. ASSUME NEW y \in M PROVE y <= x
  <2>1. m - y \in T
    OBVIOUS
  <2>2. t <= m - y
    BY <1>2, <2>1
  <2>3. x \in 0 .. m /\ y \in 0 .. m
    OBVIOUS
  <2> HIDE DEF T
  <2> QED BY ONLY <1>3, <2>2, <2>3, m \in Nat
<1> QED BY <1>4

=============================================================================
