--------------------------- MODULE AutomatProofs ----------------------------
(***************************************************************************)
(* Proofs about Automat, for any objects, heaps, characters and automata,  *)
(* and in the last section about WaitList.                                 *)
(*                                                                         *)
(* Every operation is first described by what its result says of single    *)
(* transitions (IsJoined, IsRepeated, IsReversed, IsShortened, IsConverted)*)
(* and everything else is derived from that.  GoodAutomaton is what every  *)
(* operation needs of its operands to give the result it promises.         *)
(***************************************************************************)
EXTENDS Automat, WaitList, WaitListLemmas

-----------------------------------------------------------------------------
(* Sequences which are computed member by member *)

\* The members of a finite set of numbers in ascending order.
LEMMA AscendingList ==
    ASSUME NEW m \in Nat, NEW T \in SUBSET (1 .. m)
    PROVE  /\ Ascending(T) \in Seq(T)
           /\ Len(Ascending(T)) = Cardinality(T)
           /\ ToSet(Ascending(T)) = T
           /\ \A i, j \in DOMAIN Ascending(T) : i < j => Ascending(T)[i] < Ascending(T)[j]
<1> DEFINE L == [k \in 1 .. m |-> k]
           C == [i \in Nat |-> CountIn(L, T, i)]
           n == Cardinality(T)
           q == [k \in 1 .. n |-> CHOOSE t \in T : Cardinality({s \in T : s <= t}) = k]
<1>1. L \in Seq(1 .. m) /\ Len(L) = m /\ \A k \in 1 .. m : L[k] = k
  OBVIOUS
<1>2. \A t \in 1 .. m : C[t] = Cardinality({s \in T : s <= t})
  <2> SUFFICES ASSUME NEW t \in 1 .. m PROVE C[t] = Cardinality({s \in T : s <= t})
    OBVIOUS
  <2>1. {i \in 1 .. t : L[i] \in T} = {s \in T : s <= t}
    <3> HIDE DEF L
    <3>1. ASSUME NEW i \in 1 .. t, L[i] \in T PROVE i \in T /\ i <= t
      BY <1>1, <3>1
    <3>2. ASSUME NEW s \in T, s <= t PROVE s \in 1 .. t /\ L[s] \in T
      BY <1>1, <3>2
    <3> QED BY <3>1, <3>2
  <2>2. t \in Nat
    OBVIOUS
  <2> QED BY ONLY <2>1, <2>2 DEF CountIn
<1>3. C[m] = n
  <2>1. {i \in 1 .. m : L[i] \in T} = T
    <3> HIDE DEF L
    <3> QED BY <1>1
  <2> QED BY <2>1 DEF CountIn
<1> HIDE DEF L
<1>0. C[0] = 0 /\ \A i \in Nat : C[i] \in Nat
  BY ONLY <1>1, CountInStep
<1>a. \A i, j \in Nat : i <= j => C[i] <= C[j]
  BY ONLY <1>1, CountInGrows
<1>b. \A i, j \in Nat : i < j /\ L[j] \in T => C[i] < C[j]
  <2> SUFFICES ASSUME NEW i \in Nat, NEW j \in Nat, i < j, L[j] \in T PROVE C[i] < C[j]
    OBVIOUS
  <2>1. i <= j
    OBVIOUS
  <2> QED BY ONLY <1>1, <2>1, i \in Nat, j \in Nat, i < j, L[j] \in T, CountInGrows
<1>4. n \in Nat
  BY <1>0, <1>a, <1>b, <1>3
<1> HIDE DEF C
<1>5. ASSUME NEW k \in 1 .. n PROVE \E t \in T : Cardinality({s \in T : s <= t}) = k
  <2>0. k \in 1 .. C[m]
    BY <1>3
  <2>1. \E i \in 1 .. m : L[i] \in T /\ C[i] = k
    BY ONLY <1>1, m \in Nat, <2>0, CountInReaches DEF C
  <2> QED BY <2>1, <1>1, <1>2
<1>6. \A k \in 1 .. n : q[k] \in T /\ C[q[k]] = k
  <2> SUFFICES ASSUME NEW k \in 1 .. n PROVE q[k] \in T /\ C[q[k]] = k
    OBVIOUS
  <2> HIDE DEF n
  <2>1. q[k] = CHOOSE t \in T : Cardinality({s \in T : s <= t}) = k
    OBVIOUS
  <2>2. q[k] \in T /\ Cardinality({s \in T : s <= q[k]}) = k
    BY <1>5, <2>1
  <2> QED BY <2>2, <1>2
<1>7. Ascending(T) = q \o <<>>
  BY DEF Ascending, Build
<1>8. q \in [1 .. n -> T]
  <2> HIDE DEF n
  <2> QED BY <1>5
<1> HIDE DEF q, n
<1>9. Ascending(T) = q /\ q \in Seq(T) /\ Len(q) = n
  BY <1>4, <1>7, <1>8, BuildSeq
<1>10. ToSet(q) = T
  <2>1. ASSUME NEW t \in T PROVE t \in ToSet(q)
    <3>1. t \in Nat /\ t <= m /\ 0 < t /\ L[t] \in T
      BY <1>1
    <3>2. C[t] <= C[m] /\ C[t] \in Nat /\ C[0] = 0 /\ C[0] < C[t]
      BY <1>0, <1>a, <1>b, <3>1
    <3>3. C[t] \in 1 .. n
      BY <1>3, <1>4, <3>2
    <3> DEFINE u == q[C[t]]
    <3>4. u \in T /\ C[u] = C[t]
      BY <1>6, <3>3
    <3> HIDE DEF u
    <3>5. u \in Nat /\ L[u] \in T
      BY <1>1, <3>4
    <3>6. ~(u < t) /\ ~(t < u)
      BY <1>0, <1>a, <1>b, <3>1, <3>2, <3>4, <3>5
    <3>7. u = t
      BY <3>1, <3>5, <3>6
    <3> QED BY <3>7, <3>3, <1>8 DEF u, ToSet
  <2> QED BY <2>1, <1>8 DEF ToSet
<1>11. \A i, j \in 1 .. n : i < j => q[i] < q[j]
  <2> SUFFICES ASSUME NEW i \in 1 .. n, NEW j \in 1 .. n, i < j, ~(q[i] < q[j]) PROVE FALSE
    OBVIOUS
  <2> DEFINE a == q[j]
             b == q[i]
  <2>1. a \in Nat /\ b \in Nat /\ a <= b /\ L[a] \in T /\ L[b] \in T /\ C[a] = j /\ C[b] = i
    <3>1. q[i] \in T /\ q[j] \in T
      BY <1>6
    <3>2. a \in 1 .. m /\ b \in 1 .. m
      BY <3>1
    <3> QED BY <1>1, <1>6, <3>1, <3>2
  <2> HIDE DEF a, b
  <2>2. C[a] <= C[b]
    BY <1>0, <1>a, <1>b, <2>1
  <2>3. i \in Int /\ j \in Int
    OBVIOUS
  <2> QED BY <2>1, <2>2, <2>3
<1> QED BY <1>8, <1>9, <1>10, <1>11 DEF n

-----------------------------------------------------------------------------
(* Loops *)

\* The values the variable of a loop may take.
Orbit(D, body, start) ==
    {x \in D : \A T \in SUBSET D : start \in T /\ (\A u \in T : body[u] \in T) => x \in T}

\* What a loop comes to from v: itself, closed under the body, and no more than that.
LEMMA OrbitFacts ==
    ASSUME NEW D, NEW body \in [D -> D], NEW v \in D
    PROVE  /\ v \in Orbit(D, body, v)
           /\ \A u \in Orbit(D, body, v) : body[u] \in Orbit(D, body, v)
           /\ \A T \in SUBSET D : (v \in T /\ \A u \in T : body[u] \in T) => Orbit(D, body, v) \subseteq T
           /\ Orbit(D, body, v) \subseteq D
<1>1. v \in Orbit(D, body, v)
  BY DEF Orbit
<1>2. ASSUME NEW u \in Orbit(D, body, v) PROVE body[u] \in Orbit(D, body, v)
  BY <1>2 DEF Orbit
<1>3. \A T \in SUBSET D : (v \in T /\ \A u \in T : body[u] \in T) => Orbit(D, body, v) \subseteq T
  BY DEF Orbit
<1>4. Orbit(D, body, v) \subseteq D
  BY DEF Orbit
<1> QED BY <1>1, <1>2, <1>3, <1>4

\* Where a loop may end is the same before and after a pass which changes something.
LEMMA OrbitStep ==
    ASSUME NEW D, NEW body \in [D -> D], NEW v \in D, body[v] # v
    PROVE  {x \in Orbit(D, body, v) : body[x] = x} = {x \in Orbit(D, body, body[v]) : body[x] = x}
<1> DEFINE O == Orbit(D, body, v)
           P == Orbit(D, body, body[v])
<1>1. /\ v \in O /\ (\A u \in O : body[u] \in O) /\ O \subseteq D
      /\ \A T \in SUBSET D : (v \in T /\ \A u \in T : body[u] \in T) => O \subseteq T
  BY OrbitFacts
<1>2. body[v] \in D
  OBVIOUS
<1>3. /\ body[v] \in P /\ (\A u \in P : body[u] \in P) /\ P \subseteq D
      /\ \A T \in SUBSET D : (body[v] \in T /\ \A u \in T : body[u] \in T) => P \subseteq T
  BY ONLY <1>2, body \in [D -> D], OrbitFacts
<1> HIDE DEF O, P
<1>4. P \subseteq O
  BY <1>1, <1>3
<1>5. O \subseteq P \cup {v}
  <2> DEFINE T == P \cup {v}
  <2>1. T \in SUBSET D /\ v \in T /\ \A u \in T : body[u] \in T
    BY <1>3
  <2> HIDE DEF T
  <2>2. O \subseteq T
    BY <2>1, <1>1
  <2> QED BY <2>2 DEF T
<1>6. {x \in O : body[x] = x} = {x \in P : body[x] = x}
  BY <1>4, <1>5
<1> QED BY <1>6 DEF O, P

\* The recursive function Loop is defined with exists, whether or not the loop ends.
LEMMA LoopFunction ==
    ASSUME NEW D, NEW body \in [D -> D]
    PROVE  \E F : F = [v \in D |-> IF body[v] = v THEN v ELSE F[body[v]]]
<1> DEFINE Ends(v) == {x \in Orbit(D, body, v) : body[x] = x}
           F == [v \in D |-> CHOOSE x : x \in Ends(v)]
<1>1. ASSUME NEW v \in D PROVE F[v] = IF body[v] = v THEN v ELSE F[body[v]]
  <2>0. body[v] \in D
    OBVIOUS
  <2>1. CASE body[v] = v
    <3>1. v \in Orbit(D, body, v)
      BY OrbitFacts
    <3>2. \A u \in {v} : body[u] \in {v}
      BY <2>1
    <3>3. Orbit(D, body, v) \subseteq {v}
      <4>1. {v} \in SUBSET D /\ v \in {v}
        OBVIOUS
      <4>2. \A T \in SUBSET D : (v \in T /\ \A u \in T : body[u] \in T) => Orbit(D, body, v) \subseteq T
        BY OrbitFacts
      <4> QED BY <3>2, <4>1, <4>2
    <3>4. Ends(v) = {v}
      BY <3>1, <3>3, <2>1
    <3> HIDE DEF Ends
    <3>5. F[v] \in Ends(v)
      BY <3>4
    <3> QED BY <3>4, <3>5, <2>1
  <2>2. CASE body[v] # v
    <3>1. Ends(v) = Ends(body[v])
      BY <2>2, OrbitStep
    <3> HIDE DEF Ends
    <3> QED BY <2>0, <2>2, <3>1
  <2> QED BY <2>1, <2>2
<1>2. F = [v \in D |-> F[v]]
  OBVIOUS
<1> HIDE DEF F
<1>3. F = [v \in D |-> IF body[v] = v THEN v ELSE F[body[v]]]
  BY <1>1, <1>2
<1> QED BY <1>3

\* One pass of a loop.
LEMMA LoopStep ==
    ASSUME NEW D, NEW body \in [D -> D], NEW v \in D
    PROVE  /\ body[v] = v => Loop(D, body, v) = v
           /\ body[v] # v => Loop(D, body, v) = Loop(D, body, body[v])
<1> DEFINE F == CHOOSE F : F = [u \in D |-> IF body[u] = u THEN u ELSE F[body[u]]]
<1>1. F = [u \in D |-> IF body[u] = u THEN u ELSE F[body[u]]]
  <2>1. \E H : H = [u \in D |-> IF body[u] = u THEN u ELSE H[body[u]]]
    BY LoopFunction
  <2> HIDE DEF F
  <2> QED BY <2>1, Zenon DEF F
<1>2. \A u \in D : Loop(D, body, u) = F[u]
  BY Zenon DEF Loop
<1> HIDE DEF F
<1>3. body[v] \in D
  OBVIOUS
<1>4. F[v] = IF body[v] = v THEN v ELSE F[body[v]]
  BY <1>1
<1> QED BY <1>2, <1>3, <1>4

\* A loop which may end ends, with a value it may take.
LEMMA LoopResult ==
    ASSUME NEW D, NEW body \in [D -> D], NEW v \in D,
           \E x \in Orbit(D, body, v) : body[x] = x
    PROVE  /\ Loop(D, body, v) \in Orbit(D, body, v)
           /\ body[Loop(D, body, v)] = Loop(D, body, v)
<1> DEFINE O == Orbit(D, body, v)
<1>1. PICK x \in O : body[x] = x
  OBVIOUS
<1>2. O \subseteq D /\ v \in O /\ \A u \in O : body[u] \in O
  BY OrbitFacts
\* All values of the orbit lead to x.
<1> DEFINE U == {u \in O : x \in Orbit(D, body, u)}
           W == {u \in O : Loop(D, body, u) = Loop(D, body, v)}
<1>3. v \in W /\ W \subseteq D
  BY <1>2
<1>4. ASSUME NEW u \in W PROVE body[u] \in W
  <2>1. u \in D /\ body[u] \in O /\ Loop(D, body, u) = Loop(D, body, v)
    BY <1>2
  <2>2. Loop(D, body, body[u]) = Loop(D, body, u)
    BY <2>1, LoopStep
  <2> QED BY <2>1, <2>2
<1>5. x \in W
  <2> HIDE DEF W
  <2>1. \A S \in SUBSET D : (v \in S /\ \A u \in S : body[u] \in S) => O \subseteq S
    BY OrbitFacts
  <2> QED BY <1>1, <1>3, <1>4, <2>1
<1>6. Loop(D, body, x) = x
  BY <1>1, <1>2, LoopStep
<1>7. Loop(D, body, v) = x
  BY <1>5, <1>6
<1> QED BY <1>1, <1>7

\* A loop which lowers a measure ends with a value of every set it does not leave.
LEMMA LoopEnds ==
    ASSUME NEW D, NEW body \in [D -> D], NEW v \in D, NEW m \in [D -> Nat],
           \A u \in D : body[u] = u \/ m[body[u]] < m[u],
           NEW T \in SUBSET D, v \in T, \A u \in T : body[u] \in T
    PROVE  /\ Loop(D, body, v) \in T
           /\ body[Loop(D, body, v)] = Loop(D, body, v)
<1> DEFINE O == Orbit(D, body, v)
           M == {m[u] : u \in O}
<1>1. O \subseteq D /\ O \subseteq T /\ v \in O /\ \A u \in O : body[u] \in O
  BY OrbitFacts
<1>2. M \subseteq Nat /\ M # {}
  BY <1>1
<1>3. PICK least \in M : \A n \in M : <<n, least>> \notin OpToRel(<, Nat)
  <2> HIDE DEF M
  <2> QED BY <1>2, NatLessThanWellFounded, WFMin
<1>4. \A n \in M : ~(n < least)
  <2> HIDE DEF M
  <2> QED BY <1>2, <1>3 DEF OpToRel
<1>5. PICK x \in O : m[x] = least
  OBVIOUS
<1>6. body[x] = x
  BY <1>1, <1>4, <1>5
<1>7. Loop(D, body, v) \in O /\ body[Loop(D, body, v)] = Loop(D, body, v)
  BY <1>5, <1>6, LoopResult
<1> QED BY <1>1, <1>7

-----------------------------------------------------------------------------
(* Automata which are well formed *)

Transitions(n) == [from : Chars, to : Chars, state : 1 .. n]
StatesOf(n) == [empty : Seq(1 .. n), range : Seq(Transitions(n))]

\* The last empty transition of the end state leads to itself.
WellFormed(A) == /\ A \in Seq(StatesOf(Len(A))) /\ Len(A) >= 2
                 /\ A[Len(A)].empty # <<>> /\ Last(A[Len(A)].empty) = Len(A)

EmptyMove(A, s, t) == t \in ToSet(A[s].empty)
CharMove(A, c, s, t) == \E r \in ToSet(A[s].range) : r.state = t /\ InRange(c, r)

\* C contains A with all numbers of states larger by d, and with a transition to
\* e for the last transition of the end state.
Block(C, A, d, e) ==
    /\ \A s, t \in DOMAIN A : EmptyMove(A, s, t) /\ t # s => EmptyMove(C, s + d, t + d)
    /\ EmptyMove(C, Len(A) + d, e)
    /\ \A s \in DOMAIN A, u \in DOMAIN C : EmptyMove(C, s + d, u) =>
           \/ \E t \in DOMAIN A : EmptyMove(A, s, t) /\ u = t + d
           \/ s = Len(A) /\ u = e
    /\ \A c \in Chars, s \in DOMAIN A, u \in DOMAIN C :
           CharMove(C, c, s + d, u) <=> \E t \in DOMAIN A : CharMove(A, c, s, t) /\ u = t + d

\* What the definition says of one state and one transition.
LEMMA StateFacts ==
    ASSUME NEW n \in Nat, NEW A \in Seq(StatesOf(n)), NEW s \in DOMAIN A
    PROVE  /\ A[s] = [empty |-> A[s].empty, range |-> A[s].range]
           /\ A[s].empty \in Seq(1 .. n) /\ A[s].range \in Seq(Transitions(n))
           /\ A[s] \in StatesOf(n)
<1>1. A[s] \in StatesOf(n)
  OBVIOUS
<1> QED BY <1>1 DEF StatesOf

\* Every transition of an automaton leads to one of its states, the end state to itself.
LEMMA MoveFacts ==
    ASSUME NEW A, WellFormed(A)
    PROVE  /\ Len(A) \in Nat /\ Len(A) >= 2 /\ DOMAIN A = 1 .. Len(A)
           /\ 1 \in DOMAIN A /\ Len(A) \in DOMAIN A
           /\ \A s \in DOMAIN A : \A t : EmptyMove(A, s, t) => t \in DOMAIN A
           /\ \A s \in DOMAIN A : \A c, t : CharMove(A, c, s, t) => t \in DOMAIN A
           /\ EmptyMove(A, Len(A), Len(A))
<1> DEFINE n == Len(A)
<1>1. A \in Seq(StatesOf(n)) /\ n \in Nat /\ n >= 2 /\ DOMAIN A = 1 .. n /\ 1 \in DOMAIN A /\ n \in DOMAIN A
  BY DEF WellFormed
<1>2. ASSUME NEW s \in DOMAIN A, NEW t, EmptyMove(A, s, t) PROVE t \in DOMAIN A
  <2>1. A[s].empty \in Seq(1 .. n)
    BY <1>1, StateFacts
  <2> QED BY <1>1, <1>2, <2>1 DEF EmptyMove, ToSet
<1>3. ASSUME NEW s \in DOMAIN A, NEW c, NEW t, CharMove(A, c, s, t) PROVE t \in DOMAIN A
  <2>1. A[s].range \in Seq(Transitions(n))
    BY <1>1, StateFacts
  <2>2. PICK r \in ToSet(A[s].range) : r.state = t
    BY <1>3 DEF CharMove
  <2>3. r \in Transitions(n)
    BY <2>1 DEF ToSet
  <2> QED BY <1>1, <2>2, <2>3 DEF Transitions
<1>4. EmptyMove(A, n, n)
  <2>1. A[n].empty \in Seq(1 .. n) /\ A[n].empty # <<>> /\ A[n].empty[Len(A[n].empty)] = n
    BY <1>1, StateFacts DEF WellFormed, Last
  <2>2. Len(A[n].empty) \in DOMAIN A[n].empty
    BY <2>1
  <2> QED BY <2>1, <2>2 DEF EmptyMove, ToSet
<1> QED BY <1>1, <1>2, <1>3, <1>4

-----------------------------------------------------------------------------
(* Parts of an automaton *)

\* The length of a function which is a sequence.
LEMMA LengthIs ==
    ASSUME NEW S, NEW f \in Seq(S), NEW m \in Nat, DOMAIN f = 1 .. m
    PROVE  Len(f) = m
OBVIOUS

\* A transition with another target.
LEMMA OtherTarget ==
    ASSUME NEW n, NEW N, NEW r \in Transitions(n), NEW t \in 1 .. N
    PROVE  /\ [r EXCEPT !.state = t] \in Transitions(N)
           /\ [r EXCEPT !.state = t].state = t
           /\ \A c : InRange(c, [r EXCEPT !.state = t]) <=> InRange(c, r)
BY DEF Transitions, InRange

\* A state all of whose targets have numbers larger by d.
ShiftedRange(range, d) == [k \in 1 .. Len(range) |-> [range[k] EXCEPT !.state = range[k].state + d]]
ShiftedState(z, d) == [empty |-> [k \in 1 .. Len(z.empty) |-> z.empty[k] + d], range |-> ShiftedRange(z.range, d)]

\* The members of Shifted.
LEMMA ShiftedStates ==
    ASSUME NEW A, WellFormed(A), NEW d \in Nat, NEW N \in Nat, Len(A) + d <= N
    PROVE  /\ Shifted(A, d) \in Seq(StatesOf(N))
           /\ Len(Shifted(A, d)) = Len(A)
           /\ \A s \in DOMAIN A : Shifted(A, d)[s] = ShiftedState(A[s], d)
<1> DEFINE n == Len(A)
           Em(s) == [k \in 1 .. Len(A[s].empty) |-> A[s].empty[k] + d]
           Ra(s) == [k \in 1 .. Len(A[s].range) |-> [A[s].range[k] EXCEPT !.state = A[s].range[k].state + d]]
           f == [s \in 1 .. n |-> [empty |-> Em(s), range |-> Ra(s)]]
<1>1. A \in Seq(StatesOf(n)) /\ n \in Nat /\ DOMAIN A = 1 .. n
  BY DEF WellFormed
<1>2. ASSUME NEW s \in 1 .. n
      PROVE  /\ Em(s) \in Seq(1 .. N) /\ Em(s) \o <<>> = Em(s)
             /\ Ra(s) \in Seq(Transitions(N)) /\ Ra(s) \o <<>> = Ra(s)
  <2>1. A[s].empty \in Seq(1 .. n) /\ A[s].range \in Seq(Transitions(n))
    BY <1>1, StateFacts
  <2>2. Em(s) \in [1 .. Len(A[s].empty) -> 1 .. N] /\ Len(A[s].empty) \in Nat
    BY <1>1, <2>1, SMTT(30)
  <2>3. Ra(s) \in [1 .. Len(A[s].range) -> Transitions(N)] /\ Len(A[s].range) \in Nat
    <3> SUFFICES ASSUME NEW k \in 1 .. Len(A[s].range)
                 PROVE  [A[s].range[k] EXCEPT !.state = A[s].range[k].state + d] \in Transitions(N)
      BY <2>1
    <3> DEFINE r == A[s].range[k]
    <3>1. r \in Transitions(n)
      BY <2>1
    <3> HIDE DEF r
    <3>2. r.state \in 1 .. n
      BY <3>1 DEF Transitions
    <3>3. r.state + d \in 1 .. N
      BY <1>1, <3>2
    <3>4. [r EXCEPT !.state = r.state + d] \in Transitions(N)
      BY <3>1, <3>3, OtherTarget
    <3> QED BY <3>4 DEF r
  <2> HIDE DEF Em, Ra
  <2> QED BY <2>2, <2>3, BuildSeq, ZenonT(60)
<1>3. Shifted(A, d) = [s \in 1 .. n |-> [empty |-> Em(s) \o <<>>, range |-> Ra(s) \o <<>>]] \o <<>>
  BY DEF Shifted, MapSeq, Build
<1> HIDE DEF Em, Ra
<1>4. f \in [1 .. n -> StatesOf(N)]
  BY <1>2 DEF StatesOf
<1>5. [s \in 1 .. n |-> [empty |-> Em(s) \o <<>>, range |-> Ra(s) \o <<>>]] = f
  BY <1>2
<1>6. \A s \in 1 .. n : f[s] = [empty |-> Em(s), range |-> Ra(s)]
  OBVIOUS
<1> HIDE DEF f
<1>7. Shifted(A, d) = f /\ f \in Seq(StatesOf(N)) /\ Len(f) = n
  BY <1>1, <1>3, <1>4, <1>5, BuildSeq
<1>8. \A s \in 1 .. n : f[s] = ShiftedState(A[s], d)
  BY <1>6 DEF ShiftedState, ShiftedRange, Em, Ra
<1> QED BY <1>1, <1>7, <1>8

Part(A, d, e) == RedirectEnd(Shifted(A, d), e)

IsPart(P, A, d, e) ==
    /\ \A s \in DOMAIN A : Len(P[s].empty) = Len(A[s].empty)
    /\ \A s \in DOMAIN A : \A k \in 1 .. Len(A[s].empty) :
          (s # Len(A) \/ k # Len(A[s].empty)) => P[s].empty[k] = A[s].empty[k] + d
    /\ P[Len(A)].empty[Len(A[Len(A)].empty)] = e
    /\ \A s \in DOMAIN A : P[s].range = ShiftedRange(A[s].range, d)

\* The members of a part: an automaton whose states come after d others and
\* whose end state leads to e.
LEMMA PartStates ==
    ASSUME NEW A, WellFormed(A), NEW d \in Nat, NEW N \in Nat, Len(A) + d <= N, NEW e \in 1 .. N
    PROVE  /\ Part(A, d, e) \in Seq(StatesOf(N))
           /\ Len(Part(A, d, e)) = Len(A)
           /\ IsPart(Part(A, d, e), A, d, e)
<1> DEFINE n == Len(A)
           P == Part(A, d, e)
           S == Shifted(A, d)
           l == Len(A[n].empty)
           last == [S[n].empty EXCEPT ![l] = e]
<1> HIDE DEF P
<1>1. A \in Seq(StatesOf(n)) /\ n \in Nat /\ DOMAIN A = 1 .. n /\ n \in 1 .. n
  BY DEF WellFormed
<1>2. /\ S \in Seq(StatesOf(N)) /\ Len(S) = n
      /\ \A s \in 1 .. n :
            S[s] = [empty |-> [k \in 1 .. Len(A[s].empty) |-> A[s].empty[k] + d],
                    range |-> [k \in 1 .. Len(A[s].range) |->
                                  [A[s].range[k] EXCEPT !.state = A[s].range[k].state + d]]]
  <2>1. S \in Seq(StatesOf(N)) /\ Len(S) = Len(A) /\ \A s \in DOMAIN A : S[s] = ShiftedState(A[s], d)
    BY ShiftedStates
  <2> HIDE DEF S
  <2>2. \A s \in 1 .. n : S[s] = ShiftedState(A[s], d)
    BY <1>1, <2>1
  <2> QED BY <2>1, <2>2 DEF ShiftedState, ShiftedRange
<1> HIDE DEF S
<1>3. \A s \in 1 .. n : /\ A[s].empty \in Seq(1 .. n) /\ Len(A[s].empty) \in Nat
                        /\ Len(S[s].empty) = Len(A[s].empty)
                        /\ S[s].empty \in Seq(1 .. N) /\ S[s].range \in Seq(Transitions(N))
                        /\ S[s].empty = [k \in 1 .. Len(A[s].empty) |-> A[s].empty[k] + d]
                        /\ S[s].range = [k \in 1 .. Len(A[s].range) |->
                                           [A[s].range[k] EXCEPT !.state = A[s].range[k].state + d]]
  <2> SUFFICES ASSUME NEW s \in 1 .. n
               PROVE  /\ A[s].empty \in Seq(1 .. n) /\ Len(A[s].empty) \in Nat
                      /\ Len(S[s].empty) = Len(A[s].empty)
                      /\ S[s].empty \in Seq(1 .. N) /\ S[s].range \in Seq(Transitions(N))
                      /\ S[s].empty = [k \in 1 .. Len(A[s].empty) |-> A[s].empty[k] + d]
                      /\ S[s].range = [k \in 1 .. Len(A[s].range) |->
                                         [A[s].range[k] EXCEPT !.state = A[s].range[k].state + d]]
    OBVIOUS
  <2>1. A[s].empty \in Seq(1 .. n) /\ Len(A[s].empty) \in Nat
    BY <1>1, StateFacts
  <2>2. s \in DOMAIN S
    BY <1>2
  <2>3. S[s].empty \in Seq(1 .. N) /\ S[s].range \in Seq(Transitions(N))
    BY <1>2, <2>2, StateFacts
  <2> DEFINE X == [k \in 1 .. Len(A[s].empty) |-> A[s].empty[k] + d]
             Y == [k \in 1 .. Len(A[s].range) |-> [A[s].range[k] EXCEPT !.state = A[s].range[k].state + d]]
  <2>4. S[s] = [empty |-> X, range |-> Y]
    BY <1>2
  <2> HIDE DEF X, Y
  <2>5. S[s].empty = X /\ S[s].range = Y
    BY <2>4
  <2>6. DOMAIN X = 1 .. Len(A[s].empty)
    BY DEF X
  <2>7. Len(S[s].empty) = Len(A[s].empty)
    BY <2>1, <2>3, <2>5, <2>6, LengthIs
  <2> QED BY <2>1, <2>3, <2>5, <2>7 DEF X, Y
<1>4. l \in Nat /\ l >= 1
  BY <1>1, <1>3 DEF WellFormed
<1>5. Len(S[n].empty) = l /\ DOMAIN S[n].empty = 1 .. l
  BY <1>1, <1>3, <1>4
<1>6. P = [S EXCEPT ![n] = [S[n] EXCEPT !.empty = last]]
  BY <1>2, <1>5 DEF P, RedirectEnd, S, Part
<1>7. last \in Seq(1 .. N) /\ Len(last) = l /\ \A k \in 1 .. l : last[k] = IF k = l THEN e ELSE A[n].empty[k] + d
  <2>1. S[n].empty \in Seq(1 .. N) /\ S[n].empty = [k \in 1 .. l |-> A[n].empty[k] + d]
    BY <1>1, <1>3
  <2> HIDE DEF l
  <2> QED BY <1>4, <2>1
<1> HIDE DEF last, l
<1> DEFINE z == [S[n] EXCEPT !.empty = last]
<1>8. z \in StatesOf(N) /\ z.empty = last /\ z.range = S[n].range
  <2>1. S[n] \in StatesOf(N)
    BY <1>1, <1>2
  <2> QED BY <2>1, <1>7 DEF StatesOf
<1> HIDE DEF z
<1>9. P \in Seq(StatesOf(N)) /\ Len(P) = n /\ P[n] = z /\ \A s \in 1 .. n : s # n => P[s] = S[s]
  <2>1. P = [S EXCEPT ![n] = z]
    BY <1>6 DEF z
  <2> HIDE DEF n
  <2> QED BY ONLY <1>1, <1>2, <1>8, <2>1
<1>10. ASSUME NEW s \in 1 .. n
       PROVE  /\ Len(P[s].empty) = Len(A[s].empty)
              /\ \A k \in 1 .. Len(A[s].empty) :
                    P[s].empty[k] = IF s = n /\ k = Len(A[s].empty) THEN e ELSE A[s].empty[k] + d
              /\ P[s].range = [k \in 1 .. Len(A[s].range) |->
                                 [A[s].range[k] EXCEPT !.state = A[s].range[k].state + d]]
  <2>1. CASE s = n
    <3>1. P[s].empty = last /\ P[s].range = S[s].range
      BY <1>8, <1>9, <2>1
    <3>2. Len(A[s].empty) = l
      BY <2>1 DEF l
    <3> QED BY <1>3, <1>7, <2>1, <3>1, <3>2
  <2>2. CASE s # n
    <3>1. P[s] = S[s]
      BY <1>9, <2>2
    <3>2. Len(S[s].empty) = Len(A[s].empty) /\ \A k \in 1 .. Len(A[s].empty) : S[s].empty[k] = A[s].empty[k] + d
      BY <1>3, ZenonT(60)
    <3> QED BY <1>3, <2>2, <3>1, <3>2
  <2> QED BY <2>1, <2>2
<1>11. \A s \in DOMAIN A : Len(P[s].empty) = Len(A[s].empty)
  BY <1>1, <1>10
<1>12. \A s \in DOMAIN A : P[s].range = ShiftedRange(A[s].range, d)
  BY <1>1, <1>10 DEF ShiftedRange
<1>13. \A s \in DOMAIN A : \A k \in 1 .. Len(A[s].empty) :
          (s # n \/ k # Len(A[s].empty)) => P[s].empty[k] = A[s].empty[k] + d
  BY <1>1, <1>10
<1>14. P[n].empty[Len(A[n].empty)] = e
  <2>1. Len(A[n].empty) \in 1 .. Len(A[n].empty)
    BY <1>4 DEF l
  <2> QED BY <1>1, <1>10, <2>1
<1>15. IsPart(P, A, d, e)
  BY <1>11, <1>12, <1>13, <1>14 DEF IsPart
<1> QED BY <1>9, <1>15 DEF P

\* A part of an automaton is a block of it.
LEMMA PartBlock ==
    ASSUME NEW A, WellFormed(A), NEW d \in Nat, NEW N \in Nat, Len(A) + d <= N, NEW e \in 1 .. N,
           NEW C, DOMAIN C = 1 .. N, \A s \in 1 .. Len(A) : C[d + s] = Part(A, d, e)[s]
    PROVE  Block(C, A, d, e)
<1> DEFINE n == Len(A)
           P == Part(A, d, e)
<1>1. n \in Nat /\ n \in DOMAIN A /\ DOMAIN A = 1 .. n /\ A \in Seq(StatesOf(n))
  BY DEF WellFormed
<1>2. /\ P \in Seq(StatesOf(N)) /\ Len(P) = n
      /\ \A s \in DOMAIN A : Len(P[s].empty) = Len(A[s].empty)
      /\ \A s \in DOMAIN A : \A k \in 1 .. Len(A[s].empty) :
            (s # n \/ k # Len(A[s].empty)) => P[s].empty[k] = A[s].empty[k] + d
      /\ P[n].empty[Len(A[n].empty)] = e
      /\ \A s \in DOMAIN A : P[s].range = ShiftedRange(A[s].range, d)
  <2>1. P \in Seq(StatesOf(N)) /\ Len(P) = Len(A) /\ IsPart(P, A, d, e)
    BY PartStates
  <2> HIDE DEF P
  <2> QED BY <2>1 DEF IsPart
<1> HIDE DEF P
<1>3. ASSUME NEW s \in DOMAIN A
      PROVE  /\ A[s].empty \in Seq(1 .. n) /\ A[s].range \in Seq(Transitions(n))
             /\ P[s].empty \in Seq(1 .. N) /\ P[s].range \in Seq(Transitions(N))
             /\ C[s + d] = P[s]
             /\ DOMAIN A[s].empty = 1 .. Len(A[s].empty) /\ DOMAIN P[s].empty = 1 .. Len(A[s].empty)
             /\ Len(A[s].empty) \in Nat
  <2>1. A[s].empty \in Seq(1 .. n) /\ A[s].range \in Seq(Transitions(n))
    BY <1>1, StateFacts
  <2>2. s \in DOMAIN P
    BY <1>1, <1>2
  <2>3. P[s].empty \in Seq(1 .. N) /\ P[s].range \in Seq(Transitions(N))
    BY <1>2, <2>2, StateFacts
  <2>4. d + s = s + d /\ C[d + s] = P[s]
    BY <1>1, <1>2 DEF P
  <2>5. Len(P[s].empty) = Len(A[s].empty)
    BY <1>2
  <2> QED BY <2>1, <2>3, <2>4, <2>5
<1>4. A[n].empty # <<>> /\ A[n].empty[Len(A[n].empty)] = n
  BY DEF WellFormed, Last
<1>5. ASSUME NEW s \in DOMAIN A, NEW t \in DOMAIN A, EmptyMove(A, s, t), t # s
      PROVE  EmptyMove(C, s + d, t + d)
  <2>1. PICK k \in DOMAIN A[s].empty : A[s].empty[k] = t
    BY <1>5 DEF EmptyMove, ToSet
  <2>2. ~(s = n /\ k = Len(A[s].empty))
    BY <1>4, <1>5, <2>1
  <2>3. k \in 1 .. Len(A[s].empty)
    BY <1>3, <2>1
  <2>4. P[s].empty[k] = t + d /\ k \in DOMAIN P[s].empty
    BY <1>1, <1>2, <1>3, <2>1, <2>2, <2>3
  <2> QED BY <1>3, <2>4 DEF EmptyMove, ToSet
<1>6. EmptyMove(C, n + d, e)
  <2> DEFINE k == Len(A[n].empty)
  <2>1. k \in 1 .. Len(A[n].empty)
    BY <1>1, <1>3, <1>4
  <2>2. P[n].empty[k] = e /\ k \in DOMAIN P[n].empty
    BY <1>1, <1>2, <1>3, <2>1
  <2> HIDE DEF k
  <2> QED BY <1>1, <1>3, <2>2 DEF EmptyMove, ToSet
<1>7. ASSUME NEW s \in DOMAIN A, NEW u \in DOMAIN C, EmptyMove(C, s + d, u)
      PROVE  \/ \E t \in DOMAIN A : EmptyMove(A, s, t) /\ u = t + d
             \/ s = n /\ u = e
  <2>1. PICK k \in DOMAIN P[s].empty : P[s].empty[k] = u
    BY <1>3, <1>7 DEF EmptyMove, ToSet
  <2>2. k \in 1 .. Len(A[s].empty)
    BY <1>3, <2>1
  <2>3. CASE s = n /\ k = Len(A[s].empty)
    BY <1>2, <2>1, <2>2, <2>3
  <2>4. CASE ~(s = n /\ k = Len(A[s].empty))
    <3> DEFINE t == A[s].empty[k]
    <3>1. u = t + d /\ k \in DOMAIN A[s].empty
      BY <1>2, <1>3, <2>1, <2>2, <2>4
    <3>2. t \in 1 .. n
      <4>1. A[s].empty \in Seq(1 .. n)
        BY <1>3
      <4> QED BY <3>1, <4>1, SMTT(30)
    <3>3. EmptyMove(A, s, t)
      BY <3>1 DEF EmptyMove, ToSet
    <3> HIDE DEF t
    <3> QED BY <1>1, <3>1, <3>2, <3>3
  <2> QED BY <2>3, <2>4
<1>8. ASSUME NEW c \in Chars, NEW s \in DOMAIN A, NEW u \in DOMAIN C
      PROVE  CharMove(C, c, s + d, u) <=> \E t \in DOMAIN A : CharMove(A, c, s, t) /\ u = t + d
  <2> DEFINE R == A[s].range
             m == Len(R)
             Q == P[s].range
  <2>1. R \in Seq(Transitions(n)) /\ m \in Nat /\ DOMAIN R = 1 .. m
    BY <1>3
  <2>2. Q = [k \in 1 .. m |-> [R[k] EXCEPT !.state = R[k].state + d]] /\ C[s + d].range = Q
    BY <1>2, <1>3 DEF ShiftedRange
  <2> HIDE DEF R, m, Q
  <2>3. ASSUME NEW k \in 1 .. m
        PROVE  /\ R[k].state \in 1 .. n /\ Q[k].state = R[k].state + d
               /\ InRange(c, Q[k]) <=> InRange(c, R[k])
    <3> DEFINE r == R[k]
    <3>1. r \in Transitions(n)
      BY <2>1
    <3>2. Q[k] = [r EXCEPT !.state = r.state + d]
      BY <2>2
    <3> HIDE DEF r
    <3>3. r.state \in 1 .. n
      BY <3>1 DEF Transitions
    <3>4. r.state + d \in 1 .. N
      BY <1>1, <3>3
    <3> DEFINE t == r.state + d
    <3> HIDE DEF t
    <3>5. [r EXCEPT !.state = t].state = t /\ (InRange(c, [r EXCEPT !.state = t]) <=> InRange(c, r))
      <4>1. t \in 1 .. N
        BY <3>4 DEF t
      <4> QED BY ONLY <3>1, <4>1, OtherTarget, ZenonT(60)
    <3>6. Q[k] = [r EXCEPT !.state = t]
      BY <3>2 DEF t
    <3>7. Q[k].state = t /\ (InRange(c, Q[k]) <=> InRange(c, r))
      BY <3>5, <3>6
    <3> QED BY <3>3, <3>7 DEF r, t
  <2>4. CharMove(C, c, s + d, u) <=> \E k \in 1 .. m : Q[k].state = u /\ InRange(c, Q[k])
    <3>1. DOMAIN Q = 1 .. m
      BY <2>2
    <3>2. ToSet(C[s + d].range) = {Q[k] : k \in 1 .. m}
      BY <2>2, <3>1 DEF ToSet
    <3> QED BY <3>2 DEF CharMove
  <2>5. \A t : CharMove(A, c, s, t) <=> \E k \in 1 .. m : R[k].state = t /\ InRange(c, R[k])
    BY <2>1 DEF CharMove, ToSet, R
  <2>6. ASSUME NEW k \in 1 .. m, Q[k].state = u, InRange(c, Q[k])
        PROVE  \E t \in DOMAIN A : CharMove(A, c, s, t) /\ u = t + d
    <3>1. R[k].state \in DOMAIN A /\ u = R[k].state + d
      BY <1>1, <2>3, <2>6
    <3>2. CharMove(A, c, s, R[k].state)
      BY <2>3, <2>5, <2>6
    <3> QED BY <3>1, <3>2
  <2>7. ASSUME NEW t \in DOMAIN A, CharMove(A, c, s, t), u = t + d
        PROVE  \E k \in 1 .. m : Q[k].state = u /\ InRange(c, Q[k])
    BY <2>3, <2>5, <2>7
  <2> QED BY <2>4, <2>6, <2>7
<1> QED BY <1>1, <1>5, <1>6, <1>7, <1>8 DEF Block

\* A list of one empty state.
LEMMA OneEmptyState ==
    ASSUME NEW N \in Nat, NEW targets \in Seq(1 .. N)
    PROVE  /\ <<EmptyState(targets)>> \in Seq(StatesOf(N))
           /\ Len(<<EmptyState(targets)>>) = 1
           /\ <<EmptyState(targets)>>[1] = EmptyState(targets)
           /\ EmptyState(targets).empty = targets
           /\ EmptyState(targets).range = <<>>
<1>1. EmptyState(targets) \in StatesOf(N)
  BY DEF EmptyState, StatesOf
<1>2. EmptyState(targets).empty = targets /\ EmptyState(targets).range = <<>>
  BY DEF EmptyState
<1> QED BY <1>1, <1>2

\* The members of one list after another.
LEMMA ConcatTwo ==
    ASSUME NEW S, NEW a \in Seq(S), NEW b \in Seq(S)
    PROVE  /\ a \o b \in Seq(S)
           /\ Len(a \o b) = Len(a) + Len(b)
           /\ \A i \in 1 .. Len(a) : (a \o b)[i] = a[i]
           /\ \A i \in 1 .. Len(b) : (a \o b)[Len(a) + i] = b[i]
<1> DEFINE q == a \o b
<1>1. /\ q \in Seq(S) /\ Len(q) = Len(a) + Len(b)
      /\ \A i \in 1 .. Len(a) + Len(b) : q[i] = IF i <= Len(a) THEN a[i] ELSE b[i - Len(a)]
  BY ConcatProperties
<1> HIDE DEF q
<1>2. Len(a) \in Nat /\ Len(b) \in Nat
  OBVIOUS
<1>3. \A i \in 1 .. Len(a) : q[i] = a[i]
  BY <1>1, <1>2
<1>4. \A i \in 1 .. Len(b) : q[Len(a) + i] = b[i]
  BY <1>1, <1>2
<1> QED BY <1>1, <1>3, <1>4 DEF q

\* An automaton around a part: states in front of it and a new end state.
Wrapped(pre, A, e, N) == pre \o Part(A, Len(pre), e) \o <<EmptyState(<<N>>)>>

\* An automaton put behind other states, and a new end state behind it: what
\* opsequence_automat, opor_automat and oprepeat_automat have in common.
LEMMA WrappedStates ==
    ASSUME NEW N \in Nat, NEW pre \in Seq(StatesOf(N)), NEW A, WellFormed(A), N = Len(pre) + Len(A) + 1,
           NEW e \in 1 .. N
    PROVE  /\ WellFormed(Wrapped(pre, A, e, N)) /\ Len(Wrapped(pre, A, e, N)) = N
           /\ Block(Wrapped(pre, A, e, N), A, Len(pre), e)
           /\ \A i \in 1 .. Len(pre) : Wrapped(pre, A, e, N)[i] = pre[i]
           /\ Wrapped(pre, A, e, N)[N] = EmptyState(<<N>>)
<1> DEFINE d == Len(pre)
           n == Len(A)
           P == Part(A, d, e)
           z == <<EmptyState(<<N>>)>>
           C == Wrapped(pre, A, e, N)
<1>1. d \in Nat /\ n \in Nat /\ n >= 2 /\ N = d + n + 1 /\ N \in 1 .. N /\ n + d <= N
  BY MoveFacts
<1>2. P \in Seq(StatesOf(N)) /\ Len(P) = n
  BY <1>1, PartStates
<1>3. /\ z \in Seq(StatesOf(N)) /\ Len(z) = 1 /\ z[1] = EmptyState(<<N>>)
      /\ EmptyState(<<N>>).empty = <<N>>
  <2>1. <<N>> \in Seq(1 .. N)
    BY <1>1
  <2> QED BY <2>1, OneEmptyState
<1> DEFINE q == pre \o P
<1>4. /\ q \in Seq(StatesOf(N)) /\ Len(q) = d + n
      /\ \A i \in 1 .. d : q[i] = pre[i]
      /\ \A i \in 1 .. n : q[d + i] = P[i]
  <2> HIDE DEF P
  <2>1. /\ q \in Seq(StatesOf(N)) /\ Len(q) = Len(pre) + Len(P)
        /\ \A i \in 1 .. Len(pre) : q[i] = pre[i]
        /\ \A i \in 1 .. Len(P) : q[Len(pre) + i] = P[i]
    <3>1. pre \in Seq(StatesOf(N)) /\ P \in Seq(StatesOf(N))
      BY <1>2
    <3> QED BY ONLY <3>1, ConcatTwo
  <2> QED BY <1>2, <2>1
<1>5. C = q \o z
  BY DEF Wrapped
<1> HIDE DEF q, z, C, P
<1>6. /\ C \in Seq(StatesOf(N)) /\ Len(C) = d + n + 1
      /\ \A i \in 1 .. d + n : C[i] = q[i]
      /\ C[d + n + 1] = z[1]
  <2>1. /\ q \o z \in Seq(StatesOf(N)) /\ Len(q \o z) = Len(q) + Len(z)
        /\ \A i \in 1 .. Len(q) : (q \o z)[i] = q[i]
        /\ \A i \in 1 .. Len(z) : (q \o z)[Len(q) + i] = z[i]
    <3>1. q \in Seq(StatesOf(N)) /\ z \in Seq(StatesOf(N))
      BY <1>3, <1>4
    <3> QED BY ONLY <3>1, ConcatTwo
  <2>2. (q \o z)[d + n + 1] = z[1]
    BY <1>3, <1>4, <2>1
  <2> QED BY <1>3, <1>4, <1>5, <2>1, <2>2
<1> HIDE DEF d, n
<1>7. \A i \in 1 .. d : C[i] = pre[i]
  BY <1>1, <1>4, <1>6
<1>8. C[N] = EmptyState(<<N>>)
  BY <1>1, <1>3, <1>6
<1>9. \A s \in 1 .. n : C[d + s] = P[s]
  <2> SUFFICES ASSUME NEW s \in 1 .. n PROVE C[d + s] = P[s]
    OBVIOUS
  <2>1. d + s \in 1 .. d + n
    BY <1>1
  <2> QED BY <1>4, <1>6, <2>1
<1>10. Len(C) = N /\ DOMAIN C = 1 .. N
  BY <1>1, <1>6
<1>11. WellFormed(C)
  <2>1. C[N].empty = <<N>> /\ N >= 2
    BY <1>1, <1>3, <1>8
  <2>2. C \in Seq(StatesOf(Len(C)))
    BY <1>6, <1>10
  <2>3. C[Len(C)].empty # <<>> /\ C[Len(C)].empty[Len(C[Len(C)].empty)] = Len(C)
    BY <1>1, <1>10, <2>1
  <2> QED BY <1>10, <2>1, <2>2, <2>3 DEF WellFormed, Last
<1>12. Block(C, A, d, e)
  <2>1. \A s \in 1 .. Len(A) : C[d + s] = Part(A, d, e)[s]
    BY <1>9 DEF n, P
  <2>2. Len(A) + d <= N
    BY <1>1 DEF n
  <2> QED BY <1>1, <1>10, <2>1, <2>2, PartBlock
<1> QED BY <1>7, <1>8, <1>10, <1>11, <1>12 DEF C, d

\* The moves of a state with empty transitions only.
LEMMA EmptyStateMoves ==
    ASSUME NEW C, NEW i, NEW targets, C[i] = EmptyState(targets)
    PROVE  /\ \A t : EmptyMove(C, i, t) <=> t \in ToSet(targets)
           /\ \A c, t : ~CharMove(C, c, i, t)
<1>1. C[i].empty = targets /\ C[i].range = <<>>
  BY DEF EmptyState
<1>2. ToSet(<<>>) = {}
  BY DEF ToSet
<1> QED BY <1>1, <1>2 DEF EmptyMove, CharMove

\* A new start state in front of a part.
Opening(t, A, e) == <<EmptyState(t)>> \o Part(A, 1, e)

\* A new start state does not change the automaton behind it.
LEMMA BlockIn ==
    ASSUME NEW A, WellFormed(A), NEW N \in Nat, Len(A) + 1 <= N, NEW e \in 1 .. N,
           NEW t \in Seq(1 .. N)
    PROVE  /\ Opening(t, A, e) \in Seq(StatesOf(N))
           /\ Len(Opening(t, A, e)) = Len(A) + 1
           /\ Opening(t, A, e)[1] = EmptyState(t)
           /\ \A s \in 1 .. Len(A) : Opening(t, A, e)[1 + s] = Part(A, 1, e)[s]
<1> DEFINE P == Part(A, 1, e)
           a == <<EmptyState(t)>>
           q == Opening(t, A, e)
           n == Len(A)
<1>1. P \in Seq(StatesOf(N)) /\ Len(P) = n
  BY PartStates
<1>2. a \in Seq(StatesOf(N)) /\ Len(a) = 1 /\ a[1] = EmptyState(t)
  BY OneEmptyState
<1>3. n \in Nat
  BY MoveFacts
<1>9. q = a \o P
  BY DEF Opening
<1> HIDE DEF P, a, n, q
<1>4. /\ q \in Seq(StatesOf(N)) /\ Len(q) = 1 + n
      /\ q[1] = a[1]
      /\ \A s \in 1 .. n : q[1 + s] = P[s]
  <2>1. /\ q \in Seq(StatesOf(N)) /\ Len(q) = Len(a) + Len(P)
        /\ \A i \in 1 .. Len(a) : q[i] = a[i]
        /\ \A i \in 1 .. Len(P) : q[Len(a) + i] = P[i]
    <3>1. a \in Seq(StatesOf(N)) /\ P \in Seq(StatesOf(N))
      BY <1>1, <1>2
    <3>2. /\ a \o P \in Seq(StatesOf(N)) /\ Len(a \o P) = Len(a) + Len(P)
          /\ \A i \in 1 .. Len(a) : (a \o P)[i] = a[i]
          /\ \A i \in 1 .. Len(P) : (a \o P)[Len(a) + i] = P[i]
      BY ONLY <3>1, ConcatTwo
    <3> QED BY <1>9, <3>2
  <2> QED BY <1>1, <1>2, <1>3, <2>1
<1>5. q[1] = EmptyState(t)
  BY <1>2, <1>3, <1>4
<1>7. Len(q) = n + 1
  BY <1>3, <1>4
<1> QED BY <1>4, <1>5, <1>7 DEF q, P, a, n

\* Two automata one after the other between a new start and a new end state.
Joined(t, A, e, B, N) == Wrapped(Opening(t, A, e), B, N, N)

IsJoined(C, t, A, e, B, N) ==
    /\ WellFormed(C) /\ Len(C) = N
    /\ C[1] = EmptyState(t) /\ C[N] = EmptyState(<<N>>)
    /\ Block(C, A, 1, e)
    /\ Block(C, B, Len(A) + 1, N)

\* opsequence_automat and opor_automat build an automaton with both parts as blocks.
LEMMA JoinedStates ==
    ASSUME NEW A, WellFormed(A), NEW B, WellFormed(B), NEW N \in Nat, N = Len(A) + Len(B) + 2,
           NEW e \in 1 .. N, NEW t \in Seq(1 .. N)
    PROVE  IsJoined(Joined(t, A, e, B, N), t, A, e, B, N)
<1> DEFINE pre == Opening(t, A, e)
           C == Joined(t, A, e, B, N)
<1>1. Len(A) \in Nat /\ Len(B) \in Nat /\ Len(A) >= 2 /\ Len(B) >= 2
  BY MoveFacts
<1>2. Len(A) + 1 <= N /\ N \in 1 .. N
  BY <1>1
<1>3. /\ pre \in Seq(StatesOf(N)) /\ Len(pre) = Len(A) + 1 /\ pre[1] = EmptyState(t)
      /\ \A s \in 1 .. Len(A) : pre[1 + s] = Part(A, 1, e)[s]
  <2>1. WellFormed(A) /\ N \in Nat /\ e \in 1 .. N /\ t \in Seq(1 .. N)
    OBVIOUS
  <2>2. pre \in Seq(StatesOf(N)) /\ Len(pre) = Len(A) + 1
    BY ONLY <1>2, <2>1, BlockIn
  <2>3. pre[1] = EmptyState(t) /\ \A s \in 1 .. Len(A) : pre[1 + s] = Part(A, 1, e)[s]
    BY ONLY <1>2, <2>1, BlockIn
  <2> QED BY <2>2, <2>3
<1>4. C = Wrapped(pre, B, N, N)
  BY DEF Joined
<1> HIDE DEF pre, C
<1>5. N = Len(pre) + Len(B) + 1
  BY <1>1, <1>3
<1>6. /\ WellFormed(C) /\ Len(C) = N /\ Block(C, B, Len(pre), N)
      /\ \A i \in 1 .. Len(pre) : C[i] = pre[i]
      /\ C[N] = EmptyState(<<N>>)
  <2>1. N \in Nat /\ pre \in Seq(StatesOf(N)) /\ N \in 1 .. N
    BY <1>2, <1>3
  <2>2. /\ WellFormed(Wrapped(pre, B, N, N)) /\ Len(Wrapped(pre, B, N, N)) = N
        /\ Block(Wrapped(pre, B, N, N), B, Len(pre), N)
        /\ \A i \in 1 .. Len(pre) : Wrapped(pre, B, N, N)[i] = pre[i]
        /\ Wrapped(pre, B, N, N)[N] = EmptyState(<<N>>)
    BY ONLY WellFormed(B), <1>5, <2>1, WrappedStates
  <2> QED BY <1>4, <2>2
<1>7. C[1] = EmptyState(t) /\ \A s \in 1 .. Len(A) : C[1 + s] = Part(A, 1, e)[s]
  <2>1. 1 \in 1 .. Len(pre) /\ \A s \in 1 .. Len(A) : 1 + s \in 1 .. Len(pre)
    BY ONLY <1>1, <1>3
  <2> QED BY ONLY <1>3, <1>6, <2>1
<1>8. DOMAIN C = 1 .. N
  BY <1>6, MoveFacts
<1>9. Block(C, A, 1, e)
  BY <1>2, <1>7, <1>8, PartBlock
<1> QED BY <1>3, <1>6, <1>7, <1>9 DEF IsJoined, C

\* opsequence_automat: the end of the first part leads to the start of the second.
LEMMA SequenceStates ==
    ASSUME NEW A, WellFormed(A), NEW B, WellFormed(B)
    PROVE  IsJoined(OpSequence(A, B), <<2>>, A, Len(A) + 2, B, Len(A) + Len(B) + 2)
<1> DEFINE N == Len(A) + Len(B) + 2
           e == Len(A) + 2
<1>1. Len(A) \in Nat /\ Len(B) \in Nat /\ Len(A) >= 2 /\ Len(B) >= 2
  BY MoveFacts
<1>2. N \in Nat /\ e \in 1 .. N /\ <<2>> \in Seq(1 .. N) /\ Len(A) + 1 <= N
  BY <1>1
<1> HIDE DEF N, e
<1>3. Len(Opening(<<2>>, A, e)) = Len(A) + 1
  BY <1>2, BlockIn
<1>4. OpSequence(A, B) = Joined(<<2>>, A, e, B, N)
  BY <1>3 DEF OpSequence, Opening, Joined, Wrapped, Part, N, e
<1>5. IsJoined(Joined(<<2>>, A, e, B, N), <<2>>, A, e, B, N)
  BY <1>2, JoinedStates DEF N
<1> QED BY <1>4, <1>5 DEF N, e

\* opor_automat: the start leads to both parts, both lead to the end.
LEMMA OrStates ==
    ASSUME NEW A, WellFormed(A), NEW B, WellFormed(B)
    PROVE  IsJoined(OpOr(A, B), <<2, Len(A) + 2>>, A, Len(A) + Len(B) + 2, B, Len(A) + Len(B) + 2)
<1> DEFINE N == Len(A) + Len(B) + 2
           t == <<2, Len(A) + 2>>
<1>1. Len(A) \in Nat /\ Len(B) \in Nat /\ Len(A) >= 2 /\ Len(B) >= 2
  BY MoveFacts
<1>2. N \in Nat /\ N \in 1 .. N /\ t \in Seq(1 .. N) /\ Len(A) + 1 <= N
  BY <1>1
<1> HIDE DEF N, t
<1>3. Len(Opening(t, A, N)) = Len(A) + 1
  BY <1>2, BlockIn
<1>4. OpOr(A, B) = Joined(t, A, N, B, N)
  BY <1>3 DEF OpOr, Opening, Joined, Wrapped, Part, N, t
<1>5. IsJoined(Joined(t, A, N, B, N), t, A, N, B, N)
  BY <1>2, JoinedStates DEF N
<1> QED BY <1>4, <1>5 DEF N, t

\* An automaton between the state again and a new end state.
IsRepeated(C, A, again, N) ==
    /\ WellFormed(C) /\ Len(C) = N /\ N = again + Len(A) + 1
    /\ again = 2 => C[1] = EmptyState(<<3>>)
    /\ C[again] = EmptyState(<<again + 1, N>>) /\ C[N] = EmptyState(<<N>>)
    /\ Block(C, A, again, again)

\* oprepeat_automat: the end of the part leads back to the state before it.
LEMMA RepeatStates ==
    ASSUME NEW A, WellFormed(A), NEW isAtLeastOneTime \in BOOLEAN
    PROVE  IsRepeated(OpRepeat(A, isAtLeastOneTime), A, Repeated(isAtLeastOneTime),
                      Repeated(isAtLeastOneTime) + Len(A) + 1)
<1> DEFINE again == Repeated(isAtLeastOneTime)
           N == again + Len(A) + 1
           t == <<again + 1, N>>
           front == IF isAtLeastOneTime THEN <<EmptyState(<<3>>)>> ELSE <<>>
           z == <<EmptyState(t)>>
           pre == front \o z
           C == OpRepeat(A, isAtLeastOneTime)
<1>1. Len(A) \in Nat /\ Len(A) >= 2
  BY MoveFacts
<1>2. again \in {1, 2} /\ (again = 2 <=> isAtLeastOneTime)
  BY DEF Repeated
<1> HIDE DEF again
<1>3. N \in Nat /\ again \in 1 .. N /\ t \in Seq(1 .. N) /\ <<3>> \in Seq(1 .. N)
  BY <1>1, <1>2
<1>4. C = Wrapped(pre, A, again, N) \/ Len(pre) # again
  <2>1. (IF isAtLeastOneTime THEN 3 ELSE 2) = again + 1
    BY <1>2
  <2>2. again + 1 - 1 = again /\ again + 1 + Len(A) = N
    BY <1>1, <1>2
  <2>3. isAtLeastOneTime => again + 1 = 3
    BY <1>2
  <2>4. OpRepeat(A, isAtLeastOneTime) = front \o z \o RedirectEnd(Shifted(A, again), again) \o <<EmptyState(<<N>>)>>
    <3>1. CASE isAtLeastOneTime
      <4>1. again = 2 /\ N = 3 + Len(A) /\ 3 - 1 = 2
        BY <1>1, <1>2, <3>1
      <4>2. front \o z = <<EmptyState(<<3>>)>> \o <<EmptyState(<<3, N>>)>>
        BY <3>1, <4>1
      <4> HIDE DEF front, z, N
      <4> QED BY <3>1, <4>1, <4>2 DEF OpRepeat, Repeated
    <3>2. CASE ~isAtLeastOneTime
      <4>1. again = 1 /\ N = 2 + Len(A) /\ 2 - 1 = 1
        BY <1>1, <1>2, <3>2
      <4>2. front \o z = <<>> \o <<EmptyState(<<2, N>>)>>
        BY <3>2, <4>1
      <4> HIDE DEF front, z, N
      <4> QED BY <3>2, <4>1, <4>2 DEF OpRepeat, Repeated
    <3> QED BY <3>1, <3>2
  <2> QED BY <2>4 DEF Wrapped, Part
<1> HIDE DEF N, t, C
<1>5. z \in Seq(StatesOf(N)) /\ Len(z) = 1 /\ z[1] = EmptyState(t)
  BY <1>3, OneEmptyState
<1>6. /\ front \in Seq(StatesOf(N)) /\ Len(front) = again - 1
      /\ again = 2 => front[1] = EmptyState(<<3>>)
  <2>1. CASE isAtLeastOneTime
    <3>1. /\ <<EmptyState(<<3>>)>> \in Seq(StatesOf(N)) /\ Len(<<EmptyState(<<3>>)>>) = 1
          /\ <<EmptyState(<<3>>)>>[1] = EmptyState(<<3>>)
      BY <1>3, OneEmptyState
    <3>2. front = <<EmptyState(<<3>>)>> /\ again = 2
      BY <1>2, <2>1
    <3> HIDE DEF front
    <3> QED BY <3>1, <3>2
  <2>2. CASE ~isAtLeastOneTime
    <3>1. front = <<>> /\ again = 1
      BY <1>2, <2>2
    <3> HIDE DEF front
    <3> QED BY <3>1
  <2> QED BY <2>1, <2>2
<1> HIDE DEF z, front
<1>7. /\ pre \in Seq(StatesOf(N)) /\ Len(pre) = Len(front) + Len(z)
      /\ \A i \in 1 .. Len(front) : pre[i] = front[i]
      /\ \A i \in 1 .. Len(z) : pre[Len(front) + i] = z[i]
  <2>1. z \in Seq(StatesOf(N)) /\ front \in Seq(StatesOf(N))
    BY <1>5, <1>6
  <2> QED BY ONLY <2>1, ConcatTwo
<1> HIDE DEF pre
<1>8. Len(pre) = again /\ pre[again] = EmptyState(t) /\ (again = 2 => pre[1] = EmptyState(<<3>>))
  BY <1>2, <1>5, <1>6, <1>7
<1>9. N = Len(pre) + Len(A) + 1
  BY <1>8 DEF N
<1>10. /\ WellFormed(C) /\ Len(C) = N /\ Block(C, A, Len(pre), again)
       /\ \A i \in 1 .. Len(pre) : C[i] = pre[i]
       /\ C[N] = EmptyState(<<N>>)
  <2>1. C = Wrapped(pre, A, again, N) /\ pre \in Seq(StatesOf(N))
    BY <1>4, <1>7, <1>8
  <2>2. /\ WellFormed(Wrapped(pre, A, again, N)) /\ Len(Wrapped(pre, A, again, N)) = N
        /\ Block(Wrapped(pre, A, again, N), A, Len(pre), again)
        /\ \A i \in 1 .. Len(pre) : Wrapped(pre, A, again, N)[i] = pre[i]
        /\ Wrapped(pre, A, again, N)[N] = EmptyState(<<N>>)
    BY ONLY WellFormed(A), <1>3, <1>9, <2>1, WrappedStates
  <2> QED BY <2>1, <2>2
<1>11. C[again] = EmptyState(t) /\ (again = 2 => C[1] = EmptyState(<<3>>))
  BY <1>2, <1>8, <1>10
<1>12. IsRepeated(C, A, again, N)
  BY <1>8, <1>9, <1>10, <1>11 DEF IsRepeated, t
<1> QED BY <1>12 DEF C, again, N

-----------------------------------------------------------------------------
(* Automata without parts *)

\* initempty_automat builds an automaton.
LEMMA EmptyWellFormed == WellFormed(Empty) /\ Len(Empty) = 2
<1> DEFINE z == EmptyState(<<2>>)
<1>1. <<2>> \in Seq(1 .. 2)
  OBVIOUS
<1>2. z \in StatesOf(2) /\ z.empty = <<2>>
  BY <1>1 DEF EmptyState, StatesOf
<1> HIDE DEF z
<1>3. Empty = <<z, z>>
  BY DEF Empty, z
<1>4. Empty \in Seq(StatesOf(2)) /\ Len(Empty) = 2 /\ Empty[2] = z
  BY <1>2, <1>3
<1>5. z.empty # <<>> /\ z.empty[Len(z.empty)] = 2
  BY <1>2
<1> QED BY <1>4, <1>5 DEF WellFormed, Last

\* The transitions of initmatch_automat and extendmatch_automat.
NewTransitions(ranges, state) == MapSeq(ranges, LAMBDA r : RangeTrans(r[1], r[2], state))

\* The range transitions addmatch adds to the start state.
LEMMA NewTransitionsAre ==
    ASSUME NEW ranges \in Seq(Chars \X Chars), NEW n \in Nat, NEW state \in 1 .. n
    PROVE  /\ NewTransitions(ranges, state) \in Seq(Transitions(n))
           /\ Len(NewTransitions(ranges, state)) = Len(ranges)
           /\ \A k \in 1 .. Len(ranges) :
                 NewTransitions(ranges, state)[k] = RangeTrans(ranges[k][1], ranges[k][2], state)
<1> DEFINE m == Len(ranges)
           f == [k \in 1 .. m |-> RangeTrans(ranges[k][1], ranges[k][2], state)]
<1>1. m \in Nat
  OBVIOUS
<1>2. f \in [1 .. m -> Transitions(n)]
  BY DEF RangeTrans, Transitions
<1>3. NewTransitions(ranges, state) = f \o <<>>
  BY DEF NewTransitions, MapSeq, Build
<1>4. \A k \in 1 .. m : f[k] = RangeTrans(ranges[k][1], ranges[k][2], state)
  OBVIOUS
<1> HIDE DEF f, m
<1>5. f \o <<>> = f /\ f \in Seq(Transitions(n)) /\ Len(f) = m
  BY <1>1, <1>2, BuildSeq
<1> QED BY <1>3, <1>4, <1>5 DEF m

-----------------------------------------------------------------------------
(* Recursive functions on numbers, mapped and flattened lists *)

\* The values which step computes, each from the one before.
Computed(D, x, step, n) == {f \in [0 .. n -> D] : f[0] = x /\ \A k \in 1 .. n : f[k] = step[k, f[k - 1]]}

\* A function which is defined by recursion over 0 .. n exists.
LEMMA Recursion ==
    ASSUME NEW D, NEW x \in D, NEW n \in Nat, NEW step \in [(1 .. n) \X D -> D]
    PROVE  Computed(D, x, step, n) # {}
<1> DEFINE U == {m \in Nat : m <= n => Computed(D, x, step, m) # {}}
<1>1. 0 \in U
  <2> DEFINE f == [k \in 0 .. 0 |-> x]
  <2>1. f \in [0 .. 0 -> D] /\ f[0] = x /\ 1 .. 0 = {}
    OBVIOUS
  <2> HIDE DEF f
  <2>2. f \in Computed(D, x, step, 0)
    BY <2>1 DEF Computed
  <2> QED BY <2>2
<1>2. ASSUME NEW m \in Nat, m \in U PROVE m + 1 \in U
  <2> SUFFICES ASSUME m + 1 <= n PROVE Computed(D, x, step, m + 1) # {}
    OBVIOUS
  <2>1. PICK f : f \in Computed(D, x, step, m)
    BY <1>2
  <2>2. f \in [0 .. m -> D] /\ f[0] = x /\ \A k \in 1 .. m : f[k] = step[k, f[k - 1]]
    BY <2>1 DEF Computed
  <2> HIDE DEF U
  <2> DEFINE y == step[m + 1, f[m]]
             g == [k \in 0 .. m + 1 |-> IF k = m + 1 THEN y ELSE f[k]]
  <2>3. f[m] \in D /\ m + 1 \in 1 .. n
    <3>1. m \in 0 .. m /\ m + 1 \in 1 .. n
      OBVIOUS
    <3> QED BY <2>2, <3>1
  <2>4. y \in D
    BY <2>3
  <2> HIDE DEF y
  <2>5. g \in [0 .. m + 1 -> D] /\ g[m + 1] = y /\ \A k \in 0 .. m : g[k] = f[k]
    <3>1. \A k \in 0 .. m + 1 : k = m + 1 \/ k \in 0 .. m
      OBVIOUS
    <3>2. m + 1 \in 0 .. m + 1 /\ \A k \in 0 .. m : k \in 0 .. m + 1 /\ k # m + 1
      OBVIOUS
    <3>3. \A k \in 0 .. m : f[k] \in D
      BY <2>2
    <3> QED BY <2>4, <3>1, <3>2, <3>3
  <2> HIDE DEF g
  <2>6. g[0] = x
    <3>1. 0 \in 0 .. m
      OBVIOUS
    <3> QED BY <2>2, <2>5, <3>1
  <2>7. ASSUME NEW k \in 1 .. m + 1 PROVE g[k] = step[k, g[k - 1]]
    <3>1. CASE k = m + 1
      <4>1. k - 1 = m /\ g[k - 1] = f[m]
        BY <3>1, <2>5
      <4> QED BY <2>5, <3>1, <4>1 DEF y
    <3>2. CASE k # m + 1
      <4>1. k \in 1 .. m /\ k - 1 \in 0 .. m /\ k \in 0 .. m
        BY <3>2
      <4> QED BY <2>2, <2>5, <4>1
    <3> QED BY <3>1, <3>2
  <2>8. g \in Computed(D, x, step, m + 1)
    BY <2>5, <2>6, <2>7 DEF Computed
  <2> QED BY <2>8
<1>3. n \in U
  <2> HIDE DEF U
  <2> QED BY <1>1, <1>2, SetInduction
<1> QED BY <1>3

\* MapSeq with a function.
Mapped(s, f) == [k \in 1 .. Len(s) |-> f[s[k]]] \o <<>>

\* The members of a mapped sequence.
LEMMA MapMembers ==
    ASSUME NEW T, NEW S, NEW s \in Seq(T), NEW f \in [T -> S]
    PROVE  /\ Mapped(s, f) \in Seq(S)
           /\ Len(Mapped(s, f)) = Len(s)
           /\ \A k \in 1 .. Len(s) : Mapped(s, f)[k] = f[s[k]]
           /\ ToSet(Mapped(s, f)) = {f[t] : t \in ToSet(s)}
<1> DEFINE g == [k \in 1 .. Len(s) |-> f[s[k]]]
<1>1. Len(s) \in Nat /\ DOMAIN s = 1 .. Len(s)
  OBVIOUS
<1>2. g \in [1 .. Len(s) -> S]
  OBVIOUS
<1>3. \A k \in 1 .. Len(s) : g[k] = f[s[k]]
  OBVIOUS
<1> HIDE DEF g
<1>4. g \o <<>> = g /\ g \in Seq(S) /\ Len(g) = Len(s)
  BY <1>1, <1>2, BuildSeq
<1>5. DOMAIN g = 1 .. Len(s)
  BY <1>4
<1>6. ToSet(g) = {f[t] : t \in ToSet(s)}
  BY <1>1, <1>3, <1>5 DEF ToSet
<1>7. Mapped(s, f) = g
  BY <1>4 DEF Mapped, g
<1> QED BY <1>3, <1>4, <1>6, <1>7

\* The members of a list of lists.
LEMMA FlattenMembers ==
    ASSUME NEW S, NEW ss \in Seq(Seq(S))
    PROVE  /\ FlattenSeq(ss) \in Seq(S)
           /\ \A x : x \in ToSet(FlattenSeq(ss)) <=> \E i \in DOMAIN ss : x \in ToSet(ss[i])
<1> DEFINE n == Len(ss)
<1>1. n \in Nat /\ DOMAIN ss = 1 .. n /\ \A i \in 1 .. n : ss[i] \in Seq(S)
  OBVIOUS
<1>2. CASE n = 0
  <2>1. ss = <<>> /\ FlattenSeq(ss) = <<>>
    BY <1>2 DEF FlattenSeq
  <2>2. ToSet(<<>>) = {} /\ <<>> \in Seq(S) /\ DOMAIN <<>> = {}
    BY DEF ToSet
  <2> QED BY <2>1, <2>2
<1>3. CASE n # 0
  <2> DEFINE step == [p \in (1 .. n) \X Seq(S) |-> p[2] \o ss[p[1]]]
             F == CHOOSE F : F = [i \in 1 .. n |-> IF i = 1 THEN ss[i] ELSE F[i - 1] \o ss[i]]
  <2>1. step \in [(1 .. n) \X Seq(S) -> Seq(S)]
    BY <1>1
  <2>2. \A k \in 1 .. n, s \in Seq(S) : step[k, s] = s \o ss[k]
    BY <1>1
  <2> HIDE DEF step
  <2>a. PICK f : f \in Computed(Seq(S), <<>>, step, n)
    <3>1. <<>> \in Seq(S) /\ n \in Nat
      OBVIOUS
    <3> HIDE DEF n
    <3>2. Computed(Seq(S), <<>>, step, n) # {}
      BY ONLY <2>1, <3>1, Recursion
    <3> QED BY <3>2
  <2>3. f \in [0 .. n -> Seq(S)] /\ f[0] = <<>> /\ \A k \in 1 .. n : f[k] = step[k, f[k - 1]]
    BY <2>a DEF Computed
  <2>4. ASSUME NEW k \in 1 .. n PROVE f[k - 1] \in Seq(S) /\ f[k] = f[k - 1] \o ss[k]
    <3>1. k - 1 \in 0 .. n
      BY <1>1
    <3> QED BY <2>2, <2>3, <3>1
  <2>5. f[1] = ss[1]
    <3>1. 1 \in 1 .. n /\ ss[1] \in Seq(S) /\ 1 - 1 = 0
      BY <1>1, <1>3
    <3>2. <<>> \o ss[1] = ss[1]
      BY <3>1
    <3> QED BY <2>3, <2>4, <3>1, <3>2
  <2> DEFINE G == [i \in 1 .. n |-> f[i]]
  <2>6. \A i \in 1 .. n : G[i] = IF i = 1 THEN ss[i] ELSE G[i - 1] \o ss[i]
    <3> SUFFICES ASSUME NEW i \in 1 .. n PROVE G[i] = IF i = 1 THEN ss[i] ELSE G[i - 1] \o ss[i]
      OBVIOUS
    <3>1. i # 1 => i - 1 \in 1 .. n
      BY <1>1
    <3> QED BY <2>4, <2>5, <3>1
  <2>7. G = [i \in 1 .. n |-> G[i]]
    OBVIOUS
  <2> HIDE DEF G
  <2>8. G = [i \in 1 .. n |-> IF i = 1 THEN ss[i] ELSE G[i - 1] \o ss[i]]
    BY <2>6, <2>7
  <2>9. F = [i \in 1 .. n |-> IF i = 1 THEN ss[i] ELSE F[i - 1] \o ss[i]]
    <3>1. \E H : H = [i \in 1 .. n |-> IF i = 1 THEN ss[i] ELSE H[i - 1] \o ss[i]]
      BY <2>8
    <3> HIDE DEF F
    <3> QED BY <3>1, Zenon DEF F
  <2>10. FlattenSeq(ss) = F[n]
    BY <1>3, Zenon DEF FlattenSeq
  <2> HIDE DEF F, n
  <2> DEFINE U == {k \in Nat : k \in 1 .. n => /\ F[k] \in Seq(S)
                                              /\ \A x : x \in ToSet(F[k]) <=> \E i \in 1 .. k : x \in ToSet(ss[i])}
  <2>11. 0 \in U
    OBVIOUS
  <2>12. ASSUME NEW k \in Nat, k \in U PROVE k + 1 \in U
    <3> SUFFICES ASSUME k + 1 \in 1 .. n
                 PROVE  /\ F[k + 1] \in Seq(S)
                        /\ \A x : x \in ToSet(F[k + 1]) <=> \E i \in 1 .. k + 1 : x \in ToSet(ss[i])
      OBVIOUS
    <3>1. CASE k = 0
      <4>1. F[1] = ss[1] /\ 1 \in 1 .. n
        BY <2>9, <3>1
      <4>2. 1 .. k + 1 = {1} /\ k + 1 = 1
        BY <3>1
      <4> QED BY <1>1, <4>1, <4>2
    <3>2. CASE k # 0
      <4>1. k \in 1 .. n /\ k + 1 # 1 /\ k + 1 - 1 = k
        BY <1>1, <3>2
      <4>2. F[k] \in Seq(S) /\ \A x : x \in ToSet(F[k]) <=> \E i \in 1 .. k : x \in ToSet(ss[i])
        BY <2>12, <4>1
      <4>3. F[k + 1] = F[k] \o ss[k + 1] /\ ss[k + 1] \in Seq(S)
        <5> DEFINE j == k + 1
        <5>1. j \in 1 .. n /\ j # 1 /\ j - 1 = k
          BY <4>1
        <5> HIDE DEF j
        <5>2. F[j] = F[j - 1] \o ss[j] /\ ss[j] \in Seq(S)
          BY <1>1, <2>9, <5>1
        <5> QED BY <5>1, <5>2 DEF j
      <4>4. F[k] \o ss[k + 1] \in Seq(S) /\ ToSet(F[k] \o ss[k + 1]) = ToSet(F[k]) \cup ToSet(ss[k + 1])
        BY <4>2, <4>3, ConcatList
      <4>5. \A i : i \in 1 .. k + 1 <=> i \in 1 .. k \/ i = k + 1
        OBVIOUS
      <4> QED BY <4>2, <4>3, <4>4, <4>5
    <3> QED BY <3>1, <3>2
  <2>13. n \in U
    <3> HIDE DEF U
    <3> QED BY <1>1, <2>11, <2>12, SetInduction
  <2>14. n \in 1 .. n
    BY <1>1, <1>3
  <2> QED BY <1>1, <2>10, <2>13, <2>14
<1> QED BY <1>2, <1>3

-----------------------------------------------------------------------------
(* Reversed automata *)

ReversedEmpties(A, i, j) ==
    MapSeq(Ascending({k \in DOMAIN A[i].empty : A[i].empty[k] = j}), LAMBDA k : Len(A) + 1 - i)
ReversedRanges(A, i, j) ==
    MapSeq(Ascending({k \in DOMAIN A[i].range : A[i].range[k].state = j}),
           LAMBDA k : [A[i].range[k] EXCEPT !.state = Len(A) + 1 - i])

EmptiesTo(A, j) == FlattenSeq(Build(Len(A), LAMBDA i : ReversedEmpties(A, i, j)))
RangesTo(A, j) == FlattenSeq(Build(Len(A), LAMBDA i : ReversedRanges(A, i, j)))

\* initreverse_automat: the empty transitions of the reversed state are those
\* which led to it.
LEMMA EmptiesToMembers ==
    ASSUME NEW A, WellFormed(A), NEW j \in DOMAIN A
    PROVE  /\ EmptiesTo(A, j) \in Seq(1 .. Len(A))
           /\ \A t : t \in ToSet(EmptiesTo(A, j)) <=> \E i \in DOMAIN A : EmptyMove(A, i, j) /\ t = Len(A) + 1 - i
<1> DEFINE n == Len(A)
           ss == [i \in 1 .. n |-> ReversedEmpties(A, i, j)]
<1>1. n \in Nat /\ DOMAIN A = 1 .. n /\ A \in Seq(StatesOf(n))
  BY DEF WellFormed
<1>2. ASSUME NEW i \in 1 .. n
      PROVE  /\ ReversedEmpties(A, i, j) \in Seq(1 .. n)
             /\ ToSet(ReversedEmpties(A, i, j)) = {t \in 1 .. n : EmptyMove(A, i, j) /\ t = n + 1 - i}
  <2> DEFINE L == A[i].empty
             K == {k \in DOMAIN L : L[k] = j}
             a == Ascending(K)
             y == n + 1 - i
             f == [k \in K |-> y]
             g == [k \in 1 .. Len(a) |-> f[a[k]]]
  <2>1. L \in Seq(1 .. n) /\ Len(L) \in Nat /\ DOMAIN L = 1 .. Len(L)
    BY <1>1, StateFacts
  <2>2. K \in SUBSET (1 .. Len(L))
    BY <2>1
  <2>3. y \in 1 .. n
    BY <1>1
  <2>4. ReversedEmpties(A, i, j) = [k \in 1 .. Len(a) |-> y] \o <<>>
    BY DEF ReversedEmpties, MapSeq, Build
  <2>5. EmptyMove(A, i, j) <=> K # {}
    BY DEF EmptyMove, ToSet
  <2>a. \A k \in K : f[k] = y
    OBVIOUS
  <2>b. f \in [K -> 1 .. n]
    BY <2>3
  <2> HIDE DEF L, K, y, f
  <2>6. a \in Seq(K) /\ ToSet(a) = K
    BY ONLY <2>1, <2>2, AscendingList
  <2> HIDE DEF a
  <2>7. [k \in 1 .. Len(a) |-> y] = g
    <3>1. \A k \in 1 .. Len(a) : a[k] \in K
      BY <2>6
    <3> QED BY <2>a, <3>1
  <2>8. /\ g \o <<>> \in Seq(1 .. n)
        /\ ToSet(g \o <<>>) = {f[t] : t \in ToSet(a)}
    <3>1. Mapped(a, f) \in Seq(1 .. n) /\ ToSet(Mapped(a, f)) = {f[t] : t \in ToSet(a)}
      BY ONLY <2>6, <2>b, MapMembers
    <3>2. Mapped(a, f) = g \o <<>>
      BY DEF Mapped
    <3> HIDE DEF g
    <3> QED BY <3>1, <3>2
  <2> HIDE DEF g
  <2>9. {f[t] : t \in ToSet(a)} = {t \in 1 .. n : EmptyMove(A, i, j) /\ t = y}
    BY <2>3, <2>5, <2>6, <2>a
  <2> QED BY <2>4, <2>7, <2>8, <2>9 DEF y
<1>3. ss \in [1 .. n -> Seq(1 .. n)]
  BY <1>2
<1>4. EmptiesTo(A, j) = FlattenSeq(ss \o <<>>)
  BY DEF EmptiesTo, Build
<1>a. \A i \in 1 .. n : ss[i] = ReversedEmpties(A, i, j)
  OBVIOUS
<1> HIDE DEF ss
<1>5. ss \o <<>> = ss /\ ss \in Seq(Seq(1 .. n)) /\ DOMAIN ss = 1 .. n
  BY <1>1, <1>3, BuildSeq
<1>6. /\ FlattenSeq(ss) \in Seq(1 .. n)
      /\ \A x : x \in ToSet(FlattenSeq(ss)) <=> \E i \in DOMAIN ss : x \in ToSet(ss[i])
  BY ONLY <1>5, FlattenMembers
<1>7. ASSUME NEW t PROVE (\E i \in DOMAIN ss : t \in ToSet(ss[i])) <=> \E i \in DOMAIN A : EmptyMove(A, i, j) /\ t = n + 1 - i
  <2>1. \A i \in 1 .. n : n + 1 - i \in 1 .. n
    BY <1>1
  <2> HIDE DEF n
  <2>2. \A i \in 1 .. n : t \in ToSet(ss[i]) <=> (EmptyMove(A, i, j) /\ t = n + 1 - i)
    BY <1>2, <1>a, <2>1
  <2> QED BY <1>1, <1>5, <2>2
<1> QED BY <1>4, <1>5, <1>6, <1>7

\* The same for the range transitions.
LEMMA RangesToMembers ==
    ASSUME NEW A, WellFormed(A), NEW j \in DOMAIN A
    PROVE  /\ RangesTo(A, j) \in Seq(Transitions(Len(A)))
           /\ \A t : t \in ToSet(RangesTo(A, j)) <=>
                 \E i \in DOMAIN A, r \in Transitions(Len(A)) :
                    r \in ToSet(A[i].range) /\ r.state = j /\ t = [r EXCEPT !.state = Len(A) + 1 - i]
<1> DEFINE n == Len(A)
           ss == [i \in 1 .. n |-> ReversedRanges(A, i, j)]
<1>1. n \in Nat /\ DOMAIN A = 1 .. n /\ A \in Seq(StatesOf(n))
  BY DEF WellFormed
<1>2. ASSUME NEW i \in 1 .. n
      PROVE  /\ ReversedRanges(A, i, j) \in Seq(Transitions(n))
             /\ \A t : t \in ToSet(ReversedRanges(A, i, j)) <=>
                   \E r \in Transitions(n) : r \in ToSet(A[i].range) /\ r.state = j /\ t = [r EXCEPT !.state = n + 1 - i]
  <2> DEFINE L == A[i].range
             K == {k \in DOMAIN L : L[k].state = j}
             a == Ascending(K)
             y == n + 1 - i
             f == [k \in K |-> [L[k] EXCEPT !.state = y]]
             g == [k \in 1 .. Len(a) |-> f[a[k]]]
  <2>1. L \in Seq(Transitions(n)) /\ Len(L) \in Nat /\ DOMAIN L = 1 .. Len(L)
    BY <1>1, StateFacts
  <2>2. K \in SUBSET (1 .. Len(L))
    BY <2>1
  <2>3. y \in 1 .. n
    BY <1>1
  <2>4. ReversedRanges(A, i, j) = [k \in 1 .. Len(a) |-> [L[a[k]] EXCEPT !.state = y]] \o <<>>
    BY DEF ReversedRanges, MapSeq, Build
  <2>5. \A r : r \in ToSet(L) /\ r.state = j <=> \E k \in K : r = L[k]
    BY DEF ToSet
  <2>a. \A k \in K : f[k] = [L[k] EXCEPT !.state = y]
    OBVIOUS
  <2>b. f \in [K -> Transitions(n)]
    <3> SUFFICES ASSUME NEW k \in K PROVE [L[k] EXCEPT !.state = y] \in Transitions(n)
      OBVIOUS
    <3> DEFINE r == L[k]
    <3>1. r \in Transitions(n)
      BY <2>1
    <3> HIDE DEF r, y
    <3>2. [r EXCEPT !.state = y] \in Transitions(n)
      BY ONLY <2>3, <3>1, OtherTarget
    <3> QED BY <3>2 DEF r
  <2>c. \A r \in ToSet(L) : r \in Transitions(n)
    BY <2>1 DEF ToSet
  <2> HIDE DEF L, K, y, f
  <2>6. a \in Seq(K) /\ ToSet(a) = K
    BY ONLY <2>1, <2>2, AscendingList
  <2> HIDE DEF a
  <2>7. [k \in 1 .. Len(a) |-> [L[a[k]] EXCEPT !.state = y]] = g
    <3>1. \A k \in 1 .. Len(a) : a[k] \in K
      BY <2>6
    <3> QED BY <2>a, <3>1
  <2>8. /\ g \o <<>> \in Seq(Transitions(n))
        /\ ToSet(g \o <<>>) = {f[t] : t \in ToSet(a)}
    <3>1. Mapped(a, f) \in Seq(Transitions(n)) /\ ToSet(Mapped(a, f)) = {f[t] : t \in ToSet(a)}
      BY ONLY <2>6, <2>b, MapMembers
    <3>2. Mapped(a, f) = g \o <<>>
      BY DEF Mapped
    <3> HIDE DEF g
    <3> QED BY <3>1, <3>2
  <2> HIDE DEF g
  <2>9. ASSUME NEW t PROVE t \in {f[k] : k \in ToSet(a)} <=> \E r \in Transitions(n) : r \in ToSet(L) /\ r.state = j /\ t = [r EXCEPT !.state = y]
    <3>1. t \in {f[k] : k \in ToSet(a)} <=> \E k \in K : t = f[k]
      BY <2>6
    <3>2. ASSUME NEW k \in K, t = f[k] PROVE \E r \in Transitions(n) : r \in ToSet(L) /\ r.state = j /\ t = [r EXCEPT !.state = y]
      <4>1. L[k] \in ToSet(L) /\ L[k].state = j
        BY <2>5
      <4> QED BY <2>a, <2>c, <3>2, <4>1
    <3>3. ASSUME NEW r \in Transitions(n), r \in ToSet(L), r.state = j, t = [r EXCEPT !.state = y] PROVE \E k \in K : t = f[k]
      <4>1. PICK k \in K : r = L[k]
        BY <2>5, <3>3
      <4> QED BY <2>a, <3>3, <4>1
    <3> QED BY <3>1, <3>2, <3>3
  <2> QED BY <2>4, <2>7, <2>8, <2>9 DEF y, L
<1>3. ss \in [1 .. n -> Seq(Transitions(n))]
  BY <1>2
<1>4. RangesTo(A, j) = FlattenSeq(ss \o <<>>)
  BY DEF RangesTo, Build
<1>a. \A i \in 1 .. n : ss[i] = ReversedRanges(A, i, j)
  OBVIOUS
<1> HIDE DEF ss
<1>5. ss \o <<>> = ss /\ ss \in Seq(Seq(Transitions(n))) /\ DOMAIN ss = 1 .. n
  BY <1>1, <1>3, BuildSeq
<1>6. /\ FlattenSeq(ss) \in Seq(Transitions(n))
      /\ \A x : x \in ToSet(FlattenSeq(ss)) <=> \E i \in DOMAIN ss : x \in ToSet(ss[i])
  BY ONLY <1>5, FlattenMembers
<1>7. ASSUME NEW t PROVE (\E i \in DOMAIN ss : t \in ToSet(ss[i])) <=>
                 \E i \in DOMAIN A, r \in Transitions(n) :
                    r \in ToSet(A[i].range) /\ r.state = j /\ t = [r EXCEPT !.state = n + 1 - i]
  BY <1>1, <1>2, <1>5, <1>a, ZenonT(60)
<1> QED BY <1>4, <1>5, <1>6, <1>7

\* C is A with all transitions reversed, and start and end state exchanged.
IsReversed(C, A) ==
    /\ WellFormed(C) /\ Len(C) = Len(A)
    /\ \A s, t \in DOMAIN A :
          EmptyMove(C, s, t) <=> \/ EmptyMove(A, Len(A) + 1 - t, Len(A) + 1 - s)
                                 \/ s = Len(A) /\ t = Len(A)
    /\ \A c, s, t : s \in DOMAIN A /\ t \in DOMAIN A =>
          (CharMove(C, c, s, t) <=> CharMove(A, c, Len(A) + 1 - t, Len(A) + 1 - s))

\* initreverse_automat turns every transition round.
LEMMA ReverseStates ==
    ASSUME NEW A, WellFormed(A)
    PROVE  IsReversed(OpReverse(A), A)
<1> DEFINE n == Len(A)
           R == [i \in 1 .. n |-> [empty |-> EmptiesTo(A, n + 1 - i), range |-> RangesTo(A, n + 1 - i)]]
           C == OpReverse(A)
           l == R[n].empty
           z == [R[n] EXCEPT !.empty = Append(l, n)]
<1>1. n \in Nat /\ n >= 2 /\ DOMAIN A = 1 .. n /\ n \in 1 .. n /\ A \in Seq(StatesOf(n))
  BY DEF WellFormed
<1>2. \A i \in 1 .. n : n + 1 - i \in 1 .. n /\ n + 1 - (n + 1 - i) = i
  BY <1>1
<1>3. \A j \in 1 .. n : EmptiesTo(A, j) \in Seq(1 .. n) /\ RangesTo(A, j) \in Seq(Transitions(n))
  BY <1>1, EmptiesToMembers, RangesToMembers
<1>4. R \in [1 .. n -> StatesOf(n)]
  BY <1>2, <1>3 DEF StatesOf
<1>5. C = IF (R \o <<>>)[n].empty # <<>> /\ Last((R \o <<>>)[n].empty) = n THEN R \o <<>>
          ELSE [R \o <<>> EXCEPT ![n].empty = Append(@, n)]
  BY DEF OpReverse, Build, EmptiesTo, RangesTo, ReversedEmpties, ReversedRanges
<1>6. \A i \in 1 .. n : R[i].empty = EmptiesTo(A, n + 1 - i) /\ R[i].range = RangesTo(A, n + 1 - i)
  OBVIOUS
<1> HIDE DEF R, C
<1>7. R \o <<>> = R /\ R \in Seq(StatesOf(n)) /\ Len(R) = n
  BY <1>1, <1>4, BuildSeq
<1>8. R[n] \in StatesOf(n) /\ l \in Seq(1 .. n)
  BY <1>1, <1>4 DEF StatesOf
<1>9. z \in StatesOf(n) /\ z.empty = Append(l, n) /\ z.range = R[n].range
  <2>1. Append(l, n) \in Seq(1 .. n)
    BY <1>1, <1>8
  <2> HIDE DEF l
  <2> QED BY <1>8, <2>1 DEF StatesOf
<1>10. C = IF l # <<>> /\ Last(l) = n THEN R ELSE [R EXCEPT ![n] = z]
  BY <1>1, <1>5, <1>7
<1> HIDE DEF z, l
<1>11. C \in Seq(StatesOf(n)) /\ Len(C) = n /\ \A i \in 1 .. n : i # n => C[i] = R[i]
  <2>1. C = R \/ C = [R EXCEPT ![n] = z]
    BY <1>10
  <2>2. CASE C = [R EXCEPT ![n] = z]
    <3> HIDE DEF n
    <3>1. R \in [1 .. n -> StatesOf(n)] /\ z \in StatesOf(n) /\ n \in Nat
      BY <1>1, <1>4, <1>9
    <3>2. C \in [1 .. n -> StatesOf(n)] /\ \A i \in 1 .. n : i # n => C[i] = R[i]
      BY ONLY <2>2, <3>1
    <3> QED BY <3>1, <3>2, BuildSeq
  <2> QED BY <1>7, <2>1, <2>2
<1>12. C[n].empty \in {l, Append(l, n)} /\ C[n].range = R[n].range
       /\ C[n].empty # <<>> /\ C[n].empty[Len(C[n].empty)] = n
  <2>1. CASE l # <<>> /\ Last(l) = n
    BY <1>10, <2>1 DEF Last, l
  <2>2. CASE ~(l # <<>> /\ Last(l) = n)
    <3>1. C[n] = z
      BY <1>1, <1>7, <1>10, <2>2
    <3>2. Append(l, n) # <<>> /\ Len(Append(l, n)) = Len(l) + 1 /\ Append(l, n)[Len(l) + 1] = n
      <4> HIDE DEF n
      <4>1. l \in Seq(1 .. n) /\ n \in 1 .. n /\ Len(l) \in Nat
        BY <1>1, <1>8
      <4> QED BY ONLY <4>1, SMTT(30)
    <3> QED BY <1>9, <3>1, <3>2
  <2> QED BY <2>1, <2>2
<1>13. WellFormed(C)
  BY <1>1, <1>11, <1>12 DEF WellFormed, Last
<1>14. ToSet(C[n].empty) = ToSet(l) \cup {n}
  <2>1. ToSet(Append(l, n)) = ToSet(l) \cup {n}
    <3>1. /\ DOMAIN Append(l, n) = 1 .. Len(l) + 1 /\ Append(l, n)[Len(l) + 1] = n
          /\ \A i \in 1 .. Len(l) : Append(l, n)[i] = l[i]
          /\ DOMAIN l = 1 .. Len(l) /\ Len(l) \in Nat
      BY <1>8
    <3>2. \A i : i \in 1 .. Len(l) + 1 <=> i \in 1 .. Len(l) \/ i = Len(l) + 1
      BY <3>1
    <3> QED BY <3>1, <3>2 DEF ToSet
  <2>2. CASE C[n].empty = l
    <3>1. n \in ToSet(l)
      <4>1. Len(l) \in DOMAIN l /\ l[Len(l)] = n
        BY <1>8, <1>12, <2>2
      <4> QED BY <4>1 DEF ToSet
    <3> QED BY <2>2, <3>1
  <2>3. CASE C[n].empty = Append(l, n)
    BY <2>1, <2>3
  <2> QED BY <1>12, <2>2, <2>3
<1>15. ASSUME NEW s \in DOMAIN A, NEW t \in DOMAIN A
       PROVE  EmptyMove(C, s, t) <=> \/ EmptyMove(A, n + 1 - t, n + 1 - s)
                                     \/ s = n /\ t = n
  <2> DEFINE j == n + 1 - s
             k == n + 1 - t
  <2>1. j \in DOMAIN A /\ k \in DOMAIN A /\ t = n + 1 - k /\ s \in 1 .. n
    BY <1>1
  <2>a. \A i \in DOMAIN A : t = n + 1 - i => i = k
    BY <1>1
  <2>2. t \in ToSet(EmptiesTo(A, j)) <=> EmptyMove(A, k, j)
    <3>1. t \in ToSet(EmptiesTo(A, j)) <=> \E i \in DOMAIN A : EmptyMove(A, i, j) /\ t = n + 1 - i
      <4>1. WellFormed(A) /\ j \in DOMAIN A
        BY <2>1
      <4> HIDE DEF j
      <4>2. t \in ToSet(EmptiesTo(A, j)) <=> \E i \in DOMAIN A : EmptyMove(A, i, j) /\ t = Len(A) + 1 - i
        BY ONLY <4>1, EmptiesToMembers
      <4> QED BY ONLY <4>2 DEF n
    <3> HIDE DEF n, j, k
    <3> QED BY <2>1, <2>a, <3>1
  <2> HIDE DEF n
  <2>3. CASE s # n
    <3>1. C[s].empty = EmptiesTo(A, j)
      BY <1>6, <1>11, <2>1, <2>3
    <3> QED BY <2>2, <2>3, <3>1 DEF EmptyMove
  <2>4. CASE s = n
    <3>1. l = EmptiesTo(A, j)
      BY <1>6, <2>1, <2>4 DEF l
    <3>2. EmptyMove(C, s, t) <=> t \in ToSet(l) \/ t = n
      BY <1>14, <2>4 DEF EmptyMove
    <3> QED BY <2>2, <2>4, <3>1, <3>2
  <2> QED BY <2>3, <2>4
<1>16. ASSUME NEW c, NEW s \in DOMAIN A, NEW t \in DOMAIN A
       PROVE  CharMove(C, c, s, t) <=> CharMove(A, c, n + 1 - t, n + 1 - s)
  <2> DEFINE j == n + 1 - s
             k == n + 1 - t
  <2>1. j \in DOMAIN A /\ k \in DOMAIN A /\ t = n + 1 - k /\ s \in 1 .. n /\ t \in 1 .. n
    BY <1>1
  <2>a. \A i \in DOMAIN A : t = n + 1 - i => i = k
    BY <1>1
  <2>b. \A i \in DOMAIN A : n + 1 - i \in 1 .. n
    BY <1>1
  <2>2. C[s].range = RangesTo(A, j)
    BY <1>6, <1>11, <1>12, <2>1
  <2>3. \A x : x \in ToSet(RangesTo(A, j)) <=>
                 \E i \in DOMAIN A, r \in Transitions(n) :
                    r \in ToSet(A[i].range) /\ r.state = j /\ x = [r EXCEPT !.state = n + 1 - i]
    BY <2>1, RangesToMembers
  <2>c. A[k].range \in Seq(Transitions(n))
    BY <1>1, <2>1, StateFacts
  <2> HIDE DEF n, j, k
  <2>4. ASSUME CharMove(C, c, s, t) PROVE CharMove(A, c, k, j)
    <3>1. PICK x \in ToSet(RangesTo(A, j)) : x.state = t /\ InRange(c, x)
      BY <2>2, <2>4 DEF CharMove
    <3>2. PICK i \in DOMAIN A, r \in Transitions(n) :
                    r \in ToSet(A[i].range) /\ r.state = j /\ x = [r EXCEPT !.state = n + 1 - i]
      BY <2>3
    <3> DEFINE y == n + 1 - i
    <3>3. y \in 1 .. n
      BY <2>b
    <3> HIDE DEF y
    <3>4. [r EXCEPT !.state = y].state = y /\ (InRange(c, [r EXCEPT !.state = y]) <=> InRange(c, r))
      BY ONLY <3>3, r \in Transitions(n), OtherTarget
    <3>5. x = [r EXCEPT !.state = y]
      BY <3>2 DEF y
    <3>6. y = t /\ InRange(c, r)
      BY <3>1, <3>4, <3>5
    <3>7. i = k
      BY <2>a, <3>6 DEF y
    <3> QED BY <3>2, <3>6, <3>7 DEF CharMove
  <2>5. ASSUME CharMove(A, c, k, j) PROVE CharMove(C, c, s, t)
    <3>1. PICK r \in ToSet(A[k].range) : r.state = j /\ InRange(c, r)
      BY <2>5 DEF CharMove
    <3>2. r \in Transitions(n)
      BY <2>c DEF ToSet
    <3> DEFINE x == [r EXCEPT !.state = t]
    <3>3. x.state = t /\ (InRange(c, x) <=> InRange(c, r))
      <4>1. t \in 1 .. n
        BY <2>1
      <4> QED BY ONLY <3>2, <4>1, OtherTarget
    <3>4. x = [r EXCEPT !.state = n + 1 - k]
      BY <2>1
    <3> HIDE DEF x
    <3>5. x \in ToSet(RangesTo(A, j))
      BY <2>1, <2>3, <3>1, <3>2, <3>4
    <3> QED BY <2>2, <3>1, <3>3, <3>5 DEF CharMove
  <2> QED BY <2>4, <2>5 DEF j, k
<1> QED BY <1>11, <1>13, <1>15, <1>16 DEF IsReversed, C

-----------------------------------------------------------------------------
(* Automata which match one character *)

TwoStates(R) == <<[empty |-> <<>>, range |-> R], EmptyState(<<2>>)>>

IsMatch(A, L) ==
    /\ WellFormed(A) /\ Len(A) = 2
    /\ A[1].empty = <<>> /\ A[2] = EmptyState(<<2>>)
    /\ \A c \in Chars, t \in DOMAIN A : CharMove(A, c, 1, t) <=> t = 2 /\ <<c>> \in L

\* What initmatch_automat and extendmatch_automat build has two states.
LEMMA TwoStatesFacts ==
    ASSUME NEW R \in Seq(Transitions(2))
    PROVE  /\ WellFormed(TwoStates(R)) /\ Len(TwoStates(R)) = 2 /\ TwoStates(R)[1].empty = <<>>
           /\ TwoStates(R)[1].range = R /\ TwoStates(R)[2] = EmptyState(<<2>>)
           /\ TwoStates(R)[1] = [empty |-> <<>>, range |-> R]
<1> DEFINE z == EmptyState(<<2>>)
           y == [empty |-> <<>>, range |-> R]
           A == TwoStates(R)
<1>1. <<2>> \in Seq(1 .. 2)
  OBVIOUS
<1>2. z \in StatesOf(2) /\ z.empty = <<2>>
  BY <1>1 DEF EmptyState, StatesOf
<1>3. y \in StatesOf(2) /\ y.empty = <<>> /\ y.range = R
  BY DEF StatesOf
<1>4. A = <<y, z>>
  BY DEF TwoStates
<1> HIDE DEF z, y, A
<1>5. A \in Seq(StatesOf(2)) /\ Len(A) = 2 /\ A[2] = z /\ A[1] = y
  BY <1>2, <1>3, <1>4
<1>6. z.empty # <<>> /\ z.empty[Len(z.empty)] = 2
  BY <1>2
<1>7. WellFormed(A)
  BY <1>5, <1>6 DEF WellFormed, Last
<1> QED BY <1>3, <1>5, <1>7 DEF z, A, y

\* Which words of one character transitions match.
LEMMA TransitionsMatch ==
    ASSUME NEW ranges \in Seq(Chars \X Chars), NEW c \in Chars
    PROVE  /\ \A r \in ToSet(NewTransitions(ranges, 2)) : r.state = 2
           /\ (\E r \in ToSet(NewTransitions(ranges, 2)) : InRange(c, r)) <=> <<c>> \in WordsOf(ranges)
<1> DEFINE q == NewTransitions(ranges, 2)
<1>1. 2 \in 1 .. 2 /\ 2 \in Nat
  OBVIOUS
<1>2. /\ q \in Seq(Transitions(2)) /\ Len(q) = Len(ranges)
      /\ \A k \in 1 .. Len(ranges) : q[k] = RangeTrans(ranges[k][1], ranges[k][2], 2)
  BY ONLY <1>1, ranges \in Seq(Chars \X Chars), NewTransitionsAre
<1>3. DOMAIN ranges = 1 .. Len(ranges)
  OBVIOUS
<1> HIDE DEF q
<1>4. DOMAIN q = 1 .. Len(ranges)
  BY <1>2
<1>5. \A k \in 1 .. Len(ranges) : q[k].state = 2 /\ (InRange(c, q[k]) <=> (ranges[k][1] <= c /\ c <= ranges[k][2]))
  <2> SUFFICES ASSUME NEW k \in 1 .. Len(ranges)
               PROVE  q[k].state = 2 /\ (InRange(c, q[k]) <=> (ranges[k][1] <= c /\ c <= ranges[k][2]))
    OBVIOUS
  <2>1. q[k] = [from |-> ranges[k][1], to |-> ranges[k][2], state |-> 2]
    BY <1>2 DEF RangeTrans
  <2>2. q[k].state = 2 /\ q[k].from = ranges[k][1] /\ q[k].to = ranges[k][2]
    BY ONLY <2>1
  <2> QED BY <2>2 DEF InRange
<1>6. <<c>> \in WordsOf(ranges) <=> \E k \in DOMAIN ranges : ranges[k][1] <= c /\ c <= ranges[k][2]
  <2>1. \A d : <<d>> = <<c>> => d = c
    OBVIOUS
  <2> QED BY <2>1 DEF WordsOf
<1> QED BY <1>3, <1>4, <1>5, <1>6 DEF ToSet, q

\* An automaton of two states whose transitions match the words of one character in L.
LEMMA TwoStatesMatch ==
    ASSUME NEW R \in Seq(Transitions(2)), NEW L, \A r \in ToSet(R) : r.state = 2,
           \A c \in Chars : (\E r \in ToSet(R) : InRange(c, r)) <=> <<c>> \in L
    PROVE  IsMatch(TwoStates(R), L)
<1> DEFINE A == TwoStates(R)
<1>1. /\ WellFormed(A) /\ Len(A) = 2 /\ A[1].empty = <<>> /\ A[1].range = R /\ A[2] = EmptyState(<<2>>)
  BY TwoStatesFacts
<1> HIDE DEF A
<1>2. \A c \in Chars, t \in DOMAIN A : CharMove(A, c, 1, t) <=> t = 2 /\ <<c>> \in L
  BY <1>1 DEF CharMove
<1> QED BY <1>1, <1>2 DEF IsMatch, A

\* initmatch_automat: a transition for every character of the ranges.
LEMMA MatchStates ==
    ASSUME NEW ranges \in Seq(Chars \X Chars)
    PROVE  IsMatch(Match(ranges), WordsOf(ranges))
<1> DEFINE R == NewTransitions(ranges, 2)
<1>1. Match(ranges) = TwoStates(R)
  BY DEF Match, TwoStates, NewTransitions
<1>2. R \in Seq(Transitions(2))
  <2>1. 2 \in 1 .. 2 /\ 2 \in Nat
    OBVIOUS
  <2> QED BY ONLY <2>1, ranges \in Seq(Chars \X Chars), NewTransitionsAre
<1>3. \A c \in Chars : (\E r \in ToSet(R) : InRange(c, r)) <=> <<c>> \in WordsOf(ranges)
  BY TransitionsMatch
<1>4. \A r \in ToSet(R) : r.state = 2
  <2>1. CASE Chars # {}
    BY <2>1, TransitionsMatch
  <2>2. CASE Chars = {}
    <3>1. R = <<>>
      <4>1. Len(ranges) = 0
        BY <2>2
      <4>2. 2 \in 1 .. 2 /\ 2 \in Nat
        OBVIOUS
      <4>3. Len(R) = Len(ranges)
        BY ONLY <4>2, ranges \in Seq(Chars \X Chars), NewTransitionsAre
      <4> HIDE DEF R
      <4> QED BY <1>2, <4>1, <4>3
    <3> HIDE DEF R
    <3> QED BY <3>1, EmptyList
  <2> QED BY <2>1, <2>2
<1> HIDE DEF R
<1>5. IsMatch(TwoStates(R), WordsOf(ranges))
  BY <1>2, <1>3, <1>4, TwoStatesMatch
<1> QED BY <1>1, <1>5

\* extendmatch_automat adds characters.
LEMMA ExtendStates ==
    ASSUME NEW m \in Seq(Chars \X Chars), NEW ranges \in Seq(Chars \X Chars)
    PROVE  IsMatch(ExtendMatch(Match(m), ranges), WordsOf(m) \cup WordsOf(ranges))
<1> DEFINE P == NewTransitions(m, 2)
           Q == NewTransitions(ranges, 2)
           A == TwoStates(P)
           z == [empty |-> <<>>, range |-> P \o Q]
<1>1. 2 \in 1 .. 2 /\ 2 \in Nat
  OBVIOUS
<1>2. P \in Seq(Transitions(2)) /\ Q \in Seq(Transitions(2))
  BY ONLY <1>1, m \in Seq(Chars \X Chars), ranges \in Seq(Chars \X Chars), NewTransitionsAre
<1>3. Match(m) = A
  BY DEF Match, TwoStates, NewTransitions
<1>4. Chars # {}
  BY AutomatAssumption DEF Chars
<1>5. /\ \A r \in ToSet(P) : r.state = 2
      /\ \A r \in ToSet(Q) : r.state = 2
  BY <1>4, TransitionsMatch
<1>6. /\ \A c \in Chars : (\E r \in ToSet(P) : InRange(c, r)) <=> <<c>> \in WordsOf(m)
      /\ \A c \in Chars : (\E r \in ToSet(Q) : InRange(c, r)) <=> <<c>> \in WordsOf(ranges)
  BY TransitionsMatch
<1>7. ExtendMatch(A, ranges) = [A EXCEPT ![1].range = @ \o NewTransitions(ranges, Len(A))]
  BY DEF ExtendMatch, NewTransitions
<1> HIDE DEF P
<1>8. /\ Len(A) = 2 /\ A[1] = [empty |-> <<>>, range |-> P]
  BY <1>2, TwoStatesFacts
<1>9. ExtendMatch(A, ranges) = [A EXCEPT ![1].range = @ \o Q]
  BY <1>7, <1>8
<1> HIDE DEF Q
<1>10. A = <<[empty |-> <<>>, range |-> P], EmptyState(<<2>>)>>
  BY DEF TwoStates
<1>11. [A EXCEPT ![1].range = @ \o Q] = [A EXCEPT ![1] = z]
  <2> DEFINE w == P \o Q
  <2>0. A[1] = [empty |-> <<>>, range |-> P]
    BY <1>8
  <2> HIDE DEF A, w
  <2>1. A[1].range = P /\ [A[1] EXCEPT !.range = w] = [empty |-> <<>>, range |-> w]
    BY ONLY <2>0
  <2>2. [A EXCEPT ![1].range = @ \o Q] = [A EXCEPT ![1] = [A[1] EXCEPT !.range = A[1].range \o Q]]
    OBVIOUS
  <2>3. A[1].range \o Q = w
    BY <2>1 DEF w
  <2>4. [A[1] EXCEPT !.range = w] = z
    BY <2>1 DEF w
  <2> HIDE DEF z
  <2> QED BY <2>2, <2>3, <2>4
<1>12. [A EXCEPT ![1] = z] = TwoStates(P \o Q)
  <2> DEFINE y == [empty |-> <<>>, range |-> P]
  <2>1. A = <<y, EmptyState(<<2>>)>>
    BY <1>10
  <2>2. TwoStates(P \o Q) = <<z, EmptyState(<<2>>)>>
    BY DEF TwoStates
  <2> HIDE DEF y, z, A
  <2>3. [A EXCEPT ![1] = z] = <<z, EmptyState(<<2>>)>>
    BY <2>1
  <2> QED BY <2>2, <2>3
<1>13. P \o Q \in Seq(Transitions(2)) /\ ToSet(P \o Q) = ToSet(P) \cup ToSet(Q)
  BY <1>2, ConcatList
<1> DEFINE R == P \o Q
<1> HIDE DEF R
<1>14. \A r \in ToSet(R) : r.state = 2
  BY <1>5, <1>13 DEF R
<1>15. \A c \in Chars : (\E r \in ToSet(R) : InRange(c, r)) <=> <<c>> \in WordsOf(m) \cup WordsOf(ranges)
  BY <1>6, <1>13 DEF R
<1>16. R \in Seq(Transitions(2))
  BY <1>13 DEF R
<1>17. IsMatch(TwoStates(R), WordsOf(m) \cup WordsOf(ranges))
  BY <1>14, <1>15, <1>16, TwoStatesMatch
<1> QED BY <1>3, <1>9, <1>11, <1>12, <1>17 DEF R

-----------------------------------------------------------------------------
(* Chains of single empty transitions end *)

\* States without the end state each of which has one empty transition to another
\* of them: a chain of single empty transitions which never ends.  An InTrap is
\* an OutTrap of the reversed automaton.
IsOutTrap(A, X) ==
    /\ X \subseteq DOMAIN A \ {Len(A)}
    /\ \A s \in X : \E t \in X : t # s /\ \A u \in DOMAIN A \ {s} : EmptyMove(A, s, u) <=> u = t
IsInTrap(A, X) ==
    /\ X \subseteq DOMAIN A \ {1}
    /\ \A s \in X : \E t \in X : t # s /\ \A u \in DOMAIN A \ {s} : EmptyMove(A, u, s) <=> u = t
NoTraps(A) ==
    /\ \A X : IsOutTrap(A, X) => X = {}
    /\ \A X : IsInTrap(A, X) => X = {}

GoodAutomaton(A) == WellFormed(A) /\ NoTraps(A)

\* Every transition of such an automaton leads to its end.
LEMMA TwoStatesTraps ==
    ASSUME NEW A, WellFormed(A), Len(A) = 2
    PROVE  GoodAutomaton(A)
<1>1. DOMAIN A = {1, 2}
  BY MoveFacts
<1>2. ASSUME NEW X, IsOutTrap(A, X) PROVE X = {}
  BY <1>1, <1>2 DEF IsOutTrap
<1>3. ASSUME NEW X, IsInTrap(A, X) PROVE X = {}
  BY <1>1, <1>3 DEF IsInTrap
<1> QED BY <1>2, <1>3 DEF GoodAutomaton, NoTraps

\* A block has no states of a trap unless the state behind it is one.
LEMMA BlockOutTrap ==
    ASSUME NEW C, WellFormed(C), NEW A, GoodAutomaton(A), NEW d \in Nat, Len(A) + d <= Len(C),
           NEW e \in DOMAIN C, Block(C, A, d, e), \A s \in DOMAIN A : s + d # e,
           NEW X, IsOutTrap(C, X), e \notin X
    PROVE  \A s \in DOMAIN A : s + d \notin X
<1> DEFINE n == Len(A)
           Y == {s \in DOMAIN A : s + d \in X}
<1>1. n \in Nat /\ n \in DOMAIN A /\ DOMAIN A = 1 .. n /\ DOMAIN C = 1 .. Len(C) /\ Len(C) \in Nat
  BY MoveFacts DEF GoodAutomaton
<1>2. \A s \in DOMAIN A : s + d \in DOMAIN C
  BY <1>1
<1>3. n + d \notin X
  <2> SUFFICES ASSUME n + d \in X PROVE FALSE
    OBVIOUS
  <2>1. PICK t \in X : \A u \in DOMAIN C \ {n + d} : EmptyMove(C, n + d, u) <=> u = t
    BY DEF IsOutTrap
  <2>2. EmptyMove(C, n + d, e) /\ e \in DOMAIN C \ {n + d}
    BY <1>1 DEF Block
  <2> QED BY <2>1, <2>2
<1>4. ASSUME NEW s \in Y
      PROVE  \E t \in Y : t # s /\ \A u \in DOMAIN A \ {s} : EmptyMove(A, s, u) <=> u = t
  <2>1. s \in DOMAIN A /\ s + d \in X /\ s # n
    BY <1>3
  <2>2. PICK v \in X : v # s + d /\ \A u \in DOMAIN C \ {s + d} : EmptyMove(C, s + d, u) <=> u = v
    BY <2>1 DEF IsOutTrap
  <2>3. v \in DOMAIN C /\ EmptyMove(C, s + d, v)
    BY <2>2 DEF IsOutTrap
  <2>4. PICK t \in DOMAIN A : EmptyMove(A, s, t) /\ v = t + d
    BY <2>1, <2>3 DEF Block
  <2>5. t # s /\ t \in Y
    BY <2>2, <2>4
  <2>6. ASSUME NEW u \in DOMAIN A \ {s} PROVE EmptyMove(A, s, u) <=> u = t
    <3>1. u + d \in DOMAIN C \ {s + d}
      BY <1>1, <1>2
    <3>2. EmptyMove(A, s, u) => EmptyMove(C, s + d, u + d)
      BY <2>1 DEF Block
    <3>3. u + d = v => u = t
      BY <1>1, <2>4
    <3> QED BY <2>2, <2>4, <3>1, <3>2, <3>3
  <2> QED BY <2>5, <2>6
<1>5. IsOutTrap(A, Y)
  BY <1>3, <1>4 DEF IsOutTrap
<1>6. Y = {}
  <2> HIDE DEF Y
  <2> QED BY <1>5 DEF GoodAutomaton, NoTraps
<1> QED BY <1>6

\* The same for chains which are followed backwards: the block is entered only
\* at its start, from f too.
LEMMA BlockInTrap ==
    ASSUME NEW C, WellFormed(C), NEW A, GoodAutomaton(A), NEW d \in Nat, Len(A) + d <= Len(C),
           NEW e \in DOMAIN C, Block(C, A, d, e), \A s \in DOMAIN A : s + d # e,
           NEW f \in DOMAIN C, EmptyMove(C, f, 1 + d), f # 1 + d,
           \A s \in DOMAIN A \ {1}, u \in DOMAIN C : EmptyMove(C, u, s + d) => \E v \in DOMAIN A : u = v + d,
           NEW X, IsInTrap(C, X), f \notin X
    PROVE  \A s \in DOMAIN A : s + d \notin X
<1> DEFINE n == Len(A)
           Y == {s \in DOMAIN A : s + d \in X}
<1>1. n \in Nat /\ 1 \in DOMAIN A /\ DOMAIN A = 1 .. n /\ DOMAIN C = 1 .. Len(C) /\ Len(C) \in Nat
  BY MoveFacts DEF GoodAutomaton
<1>2. \A s \in DOMAIN A : s + d \in DOMAIN C
  BY <1>1
<1>3. 1 + d \notin X
  BY DEF IsInTrap
<1>4. ASSUME NEW s \in Y
      PROVE  \E t \in Y : t # s /\ \A u \in DOMAIN A \ {s} : EmptyMove(A, u, s) <=> u = t
  <2>1. s \in DOMAIN A /\ s + d \in X /\ s # 1 /\ s + d \in DOMAIN C
    BY <1>2, <1>3
  <2>2. PICK v \in X : v # s + d /\ \A u \in DOMAIN C \ {s + d} : EmptyMove(C, u, s + d) <=> u = v
    BY <2>1 DEF IsInTrap
  <2>3. v \in DOMAIN C /\ EmptyMove(C, v, s + d)
    BY <2>2 DEF IsInTrap
  <2>4. PICK t \in DOMAIN A : v = t + d
    BY <2>1, <2>3
  <2>5. t # s /\ t \in Y
    BY <2>2, <2>4
  <2>6. EmptyMove(A, t, s)
    <3>1. PICK w \in DOMAIN A : EmptyMove(A, t, w) /\ s + d = w + d
      BY <2>1, <2>3, <2>4 DEF Block
    <3>2. w = s
      BY <1>1, <2>1, <3>1
    <3> QED BY <3>1, <3>2
  <2>7. ASSUME NEW u \in DOMAIN A \ {s} PROVE EmptyMove(A, u, s) <=> u = t
    <3>1. u + d \in DOMAIN C \ {s + d}
      BY <1>1, <1>2, SMTT(30)
    <3>2. EmptyMove(A, u, s) => EmptyMove(C, u + d, s + d)
      BY <2>1 DEF Block
    <3>3. u + d = v => u = t
      BY <1>1, <2>4
    <3> QED BY <2>2, <2>6, <3>1, <3>2, <3>3
  <2> QED BY <2>5, <2>7
<1>5. IsInTrap(A, Y)
  BY <1>3, <1>4 DEF IsInTrap
<1>6. Y = {}
  <2> HIDE DEF Y
  <2> QED BY <1>5 DEF GoodAutomaton, NoTraps
<1> QED BY <1>6

\* Where the states of a block lead to.
LEMMA BlockTargets ==
    ASSUME NEW C, WellFormed(C), NEW A, WellFormed(A), NEW d \in Nat, NEW e, Block(C, A, d, e),
           NEW s \in DOMAIN A, NEW u, EmptyMove(C, s + d, u), Len(A) + d <= Len(C)
    PROVE  (\E t \in DOMAIN A : u = t + d) \/ (s = Len(A) /\ u = e)
<1>1. s + d \in DOMAIN C
  BY MoveFacts
<1>2. u \in DOMAIN C
  BY <1>1, MoveFacts
<1> QED BY <1>2 DEF Block

\* Reversing keeps an automaton free of traps: one kind becomes the other.
LEMMA ReverseTraps ==
    ASSUME NEW A, GoodAutomaton(A)
    PROVE  GoodAutomaton(OpReverse(A))
<1> DEFINE n == Len(A)
           C == OpReverse(A)
<1>1. n \in Nat /\ n >= 2 /\ DOMAIN A = 1 .. n
  BY MoveFacts DEF GoodAutomaton
<1>2. IsReversed(C, A)
  BY ReverseStates DEF GoodAutomaton
<1> HIDE DEF C
<1>3. WellFormed(C) /\ Len(C) = n /\ DOMAIN C = 1 .. n
  BY <1>2, MoveFacts DEF IsReversed
<1>a. \A s \in 1 .. n : n + 1 - s \in 1 .. n /\ n + 1 - (n + 1 - s) = s
  BY <1>1
<1>4. \A s, t \in 1 .. n : t # s => (EmptyMove(C, s, t) <=> EmptyMove(A, n + 1 - t, n + 1 - s))
  BY <1>1, <1>2 DEF IsReversed
<1>5. ASSUME NEW X, IsOutTrap(C, X) PROVE X = {}
  <2> DEFINE Y == {s \in 1 .. n : n + 1 - s \in X}
  <2>1. \A x \in X : x \in 1 .. n /\ x # n
    BY <1>3, <1>5 DEF IsOutTrap
  <2>2. ASSUME NEW s \in Y
        PROVE  \E t \in Y : t # s /\ \A u \in DOMAIN A \ {s} : EmptyMove(A, u, s) <=> u = t
    <3> DEFINE x == n + 1 - s
    <3>1. x \in X /\ x \in 1 .. n /\ s = n + 1 - x /\ s \in 1 .. n
      BY <1>a
    <3> HIDE DEF x, Y
    <3>2. PICK y \in X : y # x /\ \A u \in 1 .. n : u # x => (EmptyMove(C, x, u) <=> u = y)
      <4>1. X \subseteq 1 .. n
        BY <2>1
      <4> QED BY <1>3, <1>5, <3>1, <4>1 DEF IsOutTrap
    <3> DEFINE t == n + 1 - y
    <3>3. t \in 1 .. n /\ n + 1 - t = y /\ t \in Y /\ t # s
      <4>1. y \in 1 .. n /\ t \in 1 .. n /\ n + 1 - t = y
        BY <1>a, <2>1
      <4>2. t \in Y
        BY <4>1 DEF Y
      <4> QED BY <1>1, <3>1, <3>2, <4>1, <4>2
    <3> HIDE DEF t
    <3>4. ASSUME NEW u \in DOMAIN A \ {s} PROVE EmptyMove(A, u, s) <=> u = t
      <4> DEFINE w == n + 1 - u
      <4>1. w \in 1 .. n /\ w # x /\ u = n + 1 - w
        <5>1. u \in 1 .. n /\ u # s
          BY <1>1
        <5>2. w \in 1 .. n /\ u = n + 1 - w
          BY <1>a, <5>1
        <5> QED BY <3>1, <5>1, <5>2
      <4>2. EmptyMove(C, x, w) <=> EmptyMove(A, u, s)
        BY <1>4, <3>1, <4>1
      <4>3. w = y <=> u = t
        <5>1. w = y => u = t
          BY <4>1 DEF t
        <5>2. u = t => w = y
          BY <3>3
        <5> QED BY <5>1, <5>2
      <4> HIDE DEF w, x
      <4> QED BY <3>2, <4>1, <4>2, <4>3
    <3> QED BY <3>3, <3>4
  <2>3. 1 \notin Y
    BY <1>1, <2>1
  <2>4. IsInTrap(A, Y)
    BY <1>1, <2>2, <2>3 DEF IsInTrap
  <2>5. Y = {}
    <3> HIDE DEF Y
    <3> QED BY <2>4 DEF GoodAutomaton, NoTraps
  <2> QED BY <1>a, <2>1, <2>5
<1>6. ASSUME NEW X, IsInTrap(C, X) PROVE X = {}
  <2> DEFINE Y == {s \in 1 .. n : n + 1 - s \in X}
  <2>1. \A x \in X : x \in 1 .. n /\ x # 1
    BY <1>3, <1>6 DEF IsInTrap
  <2>2. ASSUME NEW s \in Y
        PROVE  \E t \in Y : t # s /\ \A u \in DOMAIN A \ {s} : EmptyMove(A, s, u) <=> u = t
    <3> DEFINE x == n + 1 - s
    <3>1. x \in X /\ x \in 1 .. n /\ s = n + 1 - x /\ s \in 1 .. n
      BY <1>a
    <3> HIDE DEF x, Y
    <3>2. PICK y \in X : y # x /\ \A u \in 1 .. n : u # x => (EmptyMove(C, u, x) <=> u = y)
      <4>1. X \subseteq 1 .. n
        BY <2>1
      <4> QED BY <1>3, <1>6, <3>1, <4>1 DEF IsInTrap
    <3> DEFINE t == n + 1 - y
    <3>3. t \in 1 .. n /\ n + 1 - t = y /\ t \in Y /\ t # s
      <4>1. y \in 1 .. n /\ t \in 1 .. n /\ n + 1 - t = y
        BY <1>a, <2>1
      <4>2. t \in Y
        BY <4>1 DEF Y
      <4> QED BY <1>1, <3>1, <3>2, <4>1, <4>2
    <3> HIDE DEF t
    <3>4. ASSUME NEW u \in DOMAIN A \ {s} PROVE EmptyMove(A, s, u) <=> u = t
      <4> DEFINE w == n + 1 - u
      <4>1. w \in 1 .. n /\ w # x /\ u = n + 1 - w
        <5>1. u \in 1 .. n /\ u # s
          BY <1>1
        <5>2. w \in 1 .. n /\ u = n + 1 - w
          BY <1>a, <5>1
        <5> QED BY <3>1, <5>1, <5>2
      <4>2. EmptyMove(C, w, x) <=> EmptyMove(A, s, u)
        BY <1>4, <3>1, <4>1
      <4>3. w = y <=> u = t
        <5>1. w = y => u = t
          BY <4>1 DEF t
        <5>2. u = t => w = y
          BY <3>3
        <5> QED BY <5>1, <5>2
      <4> HIDE DEF w, x
      <4> QED BY <3>2, <4>1, <4>2, <4>3
    <3> QED BY <3>3, <3>4
  <2>3. n \notin Y
    BY <1>1, <2>1
  <2>4. IsOutTrap(A, Y)
    BY <1>1, <2>2, <2>3 DEF IsOutTrap
  <2>5. Y = {}
    <3> HIDE DEF Y
    <3> QED BY <2>4 DEF GoodAutomaton, NoTraps
  <2> QED BY <1>a, <2>1, <2>5
<1> QED BY <1>3, <1>5, <1>6 DEF GoodAutomaton, NoTraps, C

\* A trap has at least two states.
LEMMA TrapHasTwo ==
    ASSUME NEW C, NEW X, IsOutTrap(C, X) \/ IsInTrap(C, X), NEW z, X \subseteq {z}
    PROVE  X = {}
BY DEF IsOutTrap, IsInTrap

\* A trap of the sequence or alternative would be one of a part.
LEMMA JoinedTraps ==
    ASSUME NEW A, GoodAutomaton(A), NEW B, GoodAutomaton(B), NEW N, N = Len(A) + Len(B) + 2,
           NEW t, NEW e, NEW C, IsJoined(C, t, A, e, B, N),
           \/ t = << 2 >> /\ e = Len(A) + 2
           \/ t = <<2, Len(A) + 2>> /\ e = N
    PROVE  GoodAutomaton(C)
<1> DEFINE n == Len(A)
           m == Len(B)
<1>1. WellFormed(C) /\ Len(C) = N /\ C[1] = EmptyState(t) /\ C[N] = EmptyState(<<N>>)
      /\ Block(C, A, 1, e) /\ Block(C, B, n + 1, N)
  BY DEF IsJoined
<1>2. n \in Nat /\ n >= 2 /\ m \in Nat /\ m >= 2 /\ N \in Nat /\ N = n + m + 2
      /\ DOMAIN A = 1 .. n /\ DOMAIN B = 1 .. m
  BY MoveFacts DEF GoodAutomaton
<1>3. DOMAIN C = 1 .. N
  BY <1>1, MoveFacts
<1>4. ASSUME NEW u \in 1 .. N
      PROVE  \/ u = 1
             \/ \E s \in DOMAIN A : u = s + 1
             \/ \E s \in DOMAIN B : u = s + (n + 1)
             \/ u = N
  <2>1. CASE u \in 2 .. n + 1
    <3>1. u - 1 \in 1 .. n /\ u = (u - 1) + 1
      BY <1>2, <2>1
    <3> QED BY <1>2, <3>1
  <2>2. CASE u \in n + 2 .. n + m + 1
    <3>1. u - (n + 1) \in 1 .. m /\ u = (u - (n + 1)) + (n + 1)
      BY <1>2, <2>2
    <3> QED BY <1>2, <3>1
  <2> QED BY <1>2, <2>1, <2>2
<1>5. (\A u : EmptyMove(C, 1, u) <=> u \in ToSet(t)) /\ (\A u : EmptyMove(C, N, u) <=> u \in ToSet(<<N>>))
  BY <1>1, EmptyStateMoves
<1>6. /\ t = <<2>> => \A u : EmptyMove(C, 1, u) <=> u = 2
      /\ t = <<2, n + 2>> => \A u : EmptyMove(C, 1, u) <=> u \in {2, n + 2}
      /\ \A u : EmptyMove(C, N, u) <=> u = N
  <2>1. ToSet(<<2>>) = {2} /\ ToSet(<<2, n + 2>>) = {2, n + 2} /\ ToSet(<<N>>) = {N}
    BY DEF ToSet
  <2> QED BY <1>5, <2>1
<1>7. 1 \in Nat /\ n + 1 \in Nat /\ n + 1 <= Len(C) /\ m + (n + 1) <= Len(C) /\ e \in DOMAIN C /\ N \in DOMAIN C
      /\ (\A s \in DOMAIN A : s + 1 # e) /\ (\A s \in DOMAIN B : s + (n + 1) # N)
  BY <1>1, <1>2, <1>3
<1>8. ASSUME NEW X, IsOutTrap(C, X) PROVE X = {}
  <2>1. N \notin X /\ X \subseteq 1 .. N
    BY <1>1, <1>3, <1>8 DEF IsOutTrap
  <2>2. \A s \in DOMAIN B : s + (n + 1) \notin X
    BY <1>1, <1>7, <1>8, <2>1, BlockOutTrap
  <2>3. e \notin X
    <3>1. 1 \in DOMAIN B /\ n + 2 = 1 + (n + 1)
      BY <1>2
    <3> QED BY <2>1, <2>2, <3>1
  <2>4. \A s \in DOMAIN A : s + 1 \notin X
    BY <1>1, <1>7, <1>8, <2>3, BlockOutTrap
  <2>5. X \subseteq {1}
    BY <1>4, <2>1, <2>2, <2>4
  <2> QED BY <1>8, <2>5, TrapHasTwo
<1>9. ASSUME NEW s \in DOMAIN A, NEW u, EmptyMove(C, s + 1, u) PROVE (\E v \in DOMAIN A : u = v + 1) \/ (s = n /\ u = e)
  <2>1. WellFormed(A) /\ 1 \in Nat
    BY DEF GoodAutomaton
  <2> QED BY <1>1, <1>7, <1>9, <2>1, BlockTargets
<1>10. ASSUME NEW s \in DOMAIN B, NEW u, EmptyMove(C, s + (n + 1), u) PROVE (\E v \in DOMAIN B : u = v + (n + 1)) \/ (s = m /\ u = N)
  <2>1. WellFormed(B) /\ n + 1 \in Nat
    BY <1>2 DEF GoodAutomaton
  <2> QED BY <1>1, <1>7, <1>10, <2>1, BlockTargets
<1>11. ASSUME NEW s \in DOMAIN A \ {1}, NEW u \in DOMAIN C, EmptyMove(C, u, s + 1) PROVE \E v \in DOMAIN A : u = v + 1
  <2>0. s \in 2 .. n
    BY <1>2
  <2>1. u # 1
    BY <1>2, <1>6, <1>11, <2>0
  <2>2. u # N
    BY <1>2, <1>6, <1>11, <2>0
  <2>3. ASSUME NEW v \in DOMAIN B, u = v + (n + 1) PROVE FALSE
    <3>1. (\E w \in DOMAIN B : s + 1 = w + (n + 1)) \/ s + 1 = N
      BY <1>10, <1>11, <2>3
    <3> QED BY <1>2, <2>0, <3>1
  <2> QED BY <1>3, <1>4, <2>1, <2>2, <2>3
<1>12. ASSUME NEW s \in DOMAIN B \ {1}, NEW u \in DOMAIN C, EmptyMove(C, u, s + (n + 1)) PROVE \E v \in DOMAIN B : u = v + (n + 1)
  <2>0. s \in 2 .. m
    BY <1>2
  <2>1. u # 1
    BY <1>2, <1>6, <1>12, <2>0
  <2>2. u # N
    BY <1>2, <1>6, <1>12, <2>0
  <2>3. ASSUME NEW v \in DOMAIN A, u = v + 1 PROVE FALSE
    <3>1. (\E w \in DOMAIN A : s + (n + 1) = w + 1) \/ s + (n + 1) = e
      BY <1>9, <1>12, <2>3
    <3> QED BY <1>2, <2>0, <3>1
  <2> QED BY <1>3, <1>4, <2>1, <2>2, <2>3
<1>13. ASSUME NEW X, IsInTrap(C, X) PROVE X = {}
  <2>1. 1 \notin X /\ X \subseteq 1 .. N
    BY <1>3, <1>13 DEF IsInTrap
  <2>2. EmptyMove(C, 1, 1 + 1) /\ 1 # 1 + 1 /\ 1 \in DOMAIN C
    BY <1>2, <1>3, <1>6
  <2>3. \A s \in DOMAIN A : s + 1 \notin X
    BY <1>1, <1>7, <1>11, <1>13, <2>1, <2>2, BlockInTrap
  <2>4. PICK f \in DOMAIN C : EmptyMove(C, f, 1 + (n + 1)) /\ f # 1 + (n + 1) /\ f \notin X
    <3>1. CASE t = <<2>>
      <4>1. EmptyMove(C, n + 1, e) /\ e = 1 + (n + 1)
        <5>1. t # <<2, n + 2>>
          <6>1. Len(<<2>>) = 1 /\ Len(<<2, n + 2>>) = 2
            OBVIOUS
          <6> QED BY <3>1, <6>1
        <5> QED BY <1>1, <1>2, <5>1 DEF Block
      <4>2. n + 1 \in DOMAIN C /\ n + 1 # 1 + (n + 1) /\ n \in DOMAIN A
        BY <1>2, <1>3
      <4> QED BY <2>3, <4>1, <4>2
    <3>2. CASE t = <<2, n + 2>>
      <4>1. EmptyMove(C, 1, 1 + (n + 1)) /\ 1 # 1 + (n + 1)
        BY <1>2, <1>6, <3>2
      <4> QED BY <2>1, <2>2, <4>1
    <3> QED BY <3>1, <3>2
  <2>5. \A s \in DOMAIN B : s + (n + 1) \notin X
    BY <1>1, <1>7, <1>12, <1>13, <2>4, BlockInTrap
  <2>6. X \subseteq {N}
    BY <1>4, <2>1, <2>3, <2>5
  <2> QED BY <1>13, <2>6, TrapHasTwo
<1> QED BY <1>1, <1>8, <1>13 DEF GoodAutomaton, NoTraps

\* A trap of the repetition would be one of the part.
LEMMA RepeatTraps ==
    ASSUME NEW A, GoodAutomaton(A), NEW again \in {1, 2}, NEW N, NEW C, IsRepeated(C, A, again, N)
    PROVE  GoodAutomaton(C)
<1> DEFINE n == Len(A)
<1>1. /\ WellFormed(C) /\ Len(C) = N /\ N = again + n + 1
      /\ again = 2 => C[1] = EmptyState(<<3>>)
      /\ C[again] = EmptyState(<<again + 1, N>>) /\ C[N] = EmptyState(<<N>>)
      /\ Block(C, A, again, again)
  BY DEF IsRepeated
<1>2. n \in Nat /\ n >= 2 /\ N \in Nat /\ DOMAIN A = 1 .. n /\ DOMAIN C = 1 .. N
  BY <1>1, MoveFacts DEF GoodAutomaton
<1>3. ASSUME NEW u \in 1 .. N
      PROVE  u = 1 \/ u = again \/ (\E s \in DOMAIN A : u = s + again) \/ u = N
  <2>1. CASE u \in again + 1 .. again + n
    <3>1. u - again \in 1 .. n /\ u = (u - again) + again
      BY <1>2, <2>1
    <3> QED BY <1>2, <3>1
  <2> QED BY <1>1, <1>2, <2>1
<1>4. /\ again = 2 => \A u : EmptyMove(C, 1, u) <=> u = 3
      /\ \A u : EmptyMove(C, again, u) <=> u \in {again + 1, N}
      /\ \A u : EmptyMove(C, N, u) <=> u = N
  <2>1. ToSet(<<3>>) = {3} /\ ToSet(<<again + 1, N>>) = {again + 1, N} /\ ToSet(<<N>>) = {N}
    BY DEF ToSet
  <2>2. /\ again = 2 => \A u : EmptyMove(C, 1, u) <=> u \in ToSet(<<3>>)
        /\ \A u : EmptyMove(C, again, u) <=> u \in ToSet(<<again + 1, N>>)
        /\ \A u : EmptyMove(C, N, u) <=> u \in ToSet(<<N>>)
    BY <1>1, EmptyStateMoves
  <2> QED BY <2>1, <2>2
<1>5. /\ again \in Nat /\ n + again <= Len(C) /\ again \in DOMAIN C
      /\ \A s \in DOMAIN A : s + again # again
  BY <1>1, <1>2
<1>6. ASSUME NEW s \in DOMAIN A, NEW u, EmptyMove(C, s + again, u)
      PROVE  (\E v \in DOMAIN A : u = v + again) \/ (s = n /\ u = again)
  <2>1. WellFormed(A)
    BY DEF GoodAutomaton
  <2> QED BY <1>1, <1>5, <1>6, <2>1, BlockTargets
<1>7. ASSUME NEW X, IsOutTrap(C, X) PROVE X = {}
  <2>1. N \notin X /\ X \subseteq 1 .. N
    BY <1>1, <1>2, <1>7 DEF IsOutTrap
  <2>2. again \notin X
    <3> SUFFICES ASSUME again \in X PROVE FALSE
      OBVIOUS
    <3>1. PICK v \in X : \A u \in DOMAIN C \ {again} : EmptyMove(C, again, u) <=> u = v
      BY <1>7 DEF IsOutTrap
    <3>2. again + 1 \in DOMAIN C \ {again} /\ N \in DOMAIN C \ {again} /\ N # again + 1
      BY <1>1, <1>2
    <3> QED BY <1>4, <3>1, <3>2
  <2>3. \A s \in DOMAIN A : s + again \notin X
    BY <1>1, <1>5, <1>7, <2>2, BlockOutTrap
  <2>4. X \subseteq {1}
    BY <1>3, <2>1, <2>2, <2>3
  <2> QED BY <1>7, <2>4, TrapHasTwo
<1>8. ASSUME NEW s \in DOMAIN A \ {1}, NEW u \in DOMAIN C, EmptyMove(C, u, s + again) PROVE \E v \in DOMAIN A : u = v + again
  <2>0. s \in 2 .. n
    BY <1>2
  <2>1. u # again
    BY <1>1, <1>2, <1>4, <1>8, <2>0
  <2>2. u # N
    BY <1>1, <1>2, <1>4, <1>8, <2>0
  <2>3. u # 1
    BY <1>4, <1>8, <2>0, <2>1
  <2> QED BY <1>2, <1>3, <2>1, <2>2, <2>3
<1>9. ASSUME NEW X, IsInTrap(C, X) PROVE X = {}
  <2>1. 1 \notin X /\ X \subseteq 1 .. N
    BY <1>2, <1>9 DEF IsInTrap
  <2>2. EmptyMove(C, 1, 1 + again) /\ 1 # 1 + again /\ 1 \in DOMAIN C
    BY <1>1, <1>2, <1>4
  <2>3. \A s \in DOMAIN A : s + again \notin X
    BY <1>1, <1>5, <1>8, <1>9, <2>1, <2>2, BlockInTrap
  <2>4. again \notin X
    <3> SUFFICES ASSUME again \in X PROVE FALSE
      OBVIOUS
    <3>1. PICK v \in X : \A u \in DOMAIN C \ {again} : EmptyMove(C, u, again) <=> u = v
      BY <1>9 DEF IsInTrap
    <3>2. EmptyMove(C, n + again, again) /\ n + again \in DOMAIN C \ {again} /\ n \in DOMAIN A
      BY <1>1, <1>2 DEF Block
    <3> QED BY <2>3, <3>1, <3>2
  <2>5. X \subseteq {N}
    BY <1>3, <2>1, <2>3, <2>4
  <2> QED BY <1>9, <2>5, TrapHasTwo
<1> QED BY <1>1, <1>7, <1>9 DEF GoodAutomaton, NoTraps

ChainStep(A) == [t \in DOMAIN A |-> IF Single(A, t) THEN A[t].empty[1] ELSE t]

\* The one move of a state with a single empty transition.
LEMMA SingleMove ==
    ASSUME NEW A, WellFormed(A), NEW s \in DOMAIN A, Single(A, s)
    PROVE  /\ A[s].empty[1] \in DOMAIN A
           /\ \A u : EmptyMove(A, s, u) <=> u = A[s].empty[1]
           /\ \A c, u : ~CharMove(A, c, s, u)
           /\ s = Len(A) => A[s].empty[1] = s
<1>1. A \in Seq(StatesOf(Len(A))) /\ DOMAIN A = 1 .. Len(A) /\ Len(A) \in Nat
  BY MoveFacts DEF WellFormed
<1>2. A[s].empty \in Seq(1 .. Len(A)) /\ Len(A[s].empty) = 1 /\ A[s].range = <<>>
  BY <1>1, StateFacts DEF Single
<1>3. DOMAIN A[s].empty = {1}
  BY <1>2
<1>4. A[s].empty[1] \in 1 .. Len(A)
  BY <1>2, <1>3
<1>5. \A u : EmptyMove(A, s, u) <=> u = A[s].empty[1]
  BY <1>3 DEF EmptyMove, ToSet
<1>6. \A c, u : ~CharMove(A, c, s, u)
  BY <1>2, EmptyList DEF CharMove
<1>7. s = Len(A) => A[s].empty[1] = s
  BY <1>2 DEF WellFormed, Last
<1> QED BY <1>1, <1>4, <1>5, <1>6, <1>7

\* The chains which start with a state end.
LEMMA ChainEndFacts ==
    ASSUME NEW A, GoodAutomaton(A), NEW s \in DOMAIN A
    PROVE  /\ ChainEnd(A, s) \in DOMAIN A
           /\ ChainEnd(A, ChainEnd(A, s)) = ChainEnd(A, s)
           /\ ~Single(A, s) => ChainEnd(A, s) = s
           /\ Single(A, s) /\ A[s].empty[1] = s => ChainEnd(A, s) = s
           /\ Single(A, s) => ChainEnd(A, s) = ChainEnd(A, A[s].empty[1])
           /\ Single(A, ChainEnd(A, s)) => A[ChainEnd(A, s)].empty[1] = ChainEnd(A, s)
           /\ ChainEnd(A, s) \in Orbit(DOMAIN A, ChainStep(A), s)
<1> DEFINE D == DOMAIN A
           g == ChainStep(A)
           O == Orbit(D, g, s)
<1>1. \A t \in D : g[t] = IF Single(A, t) THEN A[t].empty[1] ELSE t
  BY DEF ChainStep
<1>2. \A t \in D : Single(A, t) => A[t].empty[1] \in D
  BY SingleMove DEF GoodAutomaton
<1>3. g \in [D -> D]
  BY <1>2 DEF ChainStep
<1>4. \A t : ChainEnd(A, t) = Loop(D, g, t)
  BY DEF ChainEnd, ChainStep
<1> HIDE DEF g
<1>5. s \in O /\ (\A u \in O : g[u] \in O) /\ O \subseteq D
  BY <1>3, OrbitFacts
<1>6. \E x \in O : g[x] = x
  <2> SUFFICES ASSUME \A x \in O : g[x] # x PROVE FALSE
    OBVIOUS
  <2> HIDE DEF O
  <2>1. Len(A) \notin O
    BY <1>1, <1>5, SingleMove DEF GoodAutomaton
  <2>2. ASSUME NEW x \in O PROVE \E t \in O : t # x /\ \A u \in D \ {x} : EmptyMove(A, x, u) <=> u = t
    <3>1. Single(A, x) /\ g[x] = A[x].empty[1] /\ x \in D
      BY <1>1, <1>5
    <3> QED BY <1>5, <3>1, SingleMove DEF GoodAutomaton
  <2>3. IsOutTrap(A, O)
    BY <1>5, <2>1, <2>2 DEF IsOutTrap
  <2> QED BY <1>5, <2>3 DEF GoodAutomaton, NoTraps
<1>7. Loop(D, g, s) \in O /\ g[Loop(D, g, s)] = Loop(D, g, s)
  BY <1>3, <1>6, LoopResult
<1>15. ChainEnd(A, s) \in Orbit(DOMAIN A, ChainStep(A), s)
  BY <1>4, <1>7 DEF g
<1> HIDE DEF O
<1> DEFINE e == ChainEnd(A, s)
<1>8. e \in D /\ g[e] = e
  BY <1>4, <1>5, <1>7
<1>9. /\ g[s] = s => Loop(D, g, s) = s
      /\ g[s] # s => Loop(D, g, s) = Loop(D, g, g[s])
  BY <1>3, LoopStep
<1>10. ChainEnd(A, e) = e
  <2> HIDE DEF e
  <2>1. Loop(D, g, e) = e
    BY <1>3, <1>8, LoopStep
  <2> QED BY <1>4, <2>1
<1>11. ~Single(A, s) => e = s
  BY <1>1, <1>4, <1>9
<1>12. Single(A, s) /\ A[s].empty[1] = s => e = s
  BY <1>1, <1>4, <1>9
<1>13. Single(A, s) => e = ChainEnd(A, A[s].empty[1])
  BY <1>1, <1>4, <1>9
<1>14. Single(A, e) => A[e].empty[1] = e
  BY <1>1, <1>8
<1> QED BY <1>8, <1>10, <1>11, <1>12, <1>13, <1>14, <1>15

\* What remove_single_empty_transitions makes of the states.
IsShortened(B, A) ==
    /\ WellFormed(B) /\ Len(B) = Len(A)
    /\ \A s \in DOMAIN A : Single(A, s) => B[s].empty = <<ChainEnd(A, s)>>
    /\ \A s \in DOMAIN A : ~Single(A, s) => B[s].empty = A[s].empty
    /\ \A s \in DOMAIN A : /\ Len(B[s].range) = Len(A[s].range)
                           /\ \A k \in 1 .. Len(A[s].range) :
                                 B[s].range[k] = [A[s].range[k] EXCEPT !.state = ChainEnd(A, A[s].range[k].state)]

\* remove_single_empty_transitions keeps the number of states and the end state.
LEMMA ShortenedStates ==
    ASSUME NEW A, GoodAutomaton(A)
    PROVE  IsShortened(RemoveSingle(A), A)
<1> DEFINE n == Len(A)
           Em(s) == IF Single(A, s) THEN <<ChainEnd(A, s)>> ELSE A[s].empty
           Ra(s) == [k \in 1 .. Len(A[s].range) |-> [A[s].range[k] EXCEPT !.state = ChainEnd(A, A[s].range[k].state)]]
           f == [s \in 1 .. n |-> [empty |-> Em(s), range |-> Ra(s)]]
           B == RemoveSingle(A)
<1>1. A \in Seq(StatesOf(n)) /\ n \in Nat /\ DOMAIN A = 1 .. n /\ n >= 2 /\ n \in 1 .. n
  BY DEF WellFormed, GoodAutomaton
<1>2. ASSUME NEW s \in 1 .. n
      PROVE  /\ Em(s) \in Seq(1 .. n)
             /\ Ra(s) \in Seq(Transitions(n)) /\ Ra(s) \o <<>> = Ra(s) /\ Len(Ra(s)) = Len(A[s].range)
  <2>1. A[s].empty \in Seq(1 .. n) /\ A[s].range \in Seq(Transitions(n)) /\ Len(A[s].range) \in Nat
    BY <1>1, StateFacts
  <2>2. ChainEnd(A, s) \in 1 .. n
    BY <1>1, ChainEndFacts
  <2>3. Ra(s) \in [1 .. Len(A[s].range) -> Transitions(n)]
    <3> SUFFICES ASSUME NEW k \in 1 .. Len(A[s].range)
                 PROVE  [A[s].range[k] EXCEPT !.state = ChainEnd(A, A[s].range[k].state)] \in Transitions(n)
      BY <2>1
    <3> DEFINE r == A[s].range[k]
               t == ChainEnd(A, r.state)
    <3>1. r \in Transitions(n)
      BY <2>1
    <3> HIDE DEF r
    <3>2. r.state \in 1 .. n
      BY <3>1 DEF Transitions
    <3>3. t \in 1 .. n
      BY <1>1, <3>2, ChainEndFacts
    <3> HIDE DEF t
    <3>4. [r EXCEPT !.state = t] \in Transitions(n)
      BY ONLY <3>1, <3>3, OtherTarget
    <3> QED BY <3>4 DEF r, t
  <2> HIDE DEF Ra
  <2>4. Ra(s) \in Seq(Transitions(n)) /\ Ra(s) \o <<>> = Ra(s) /\ Len(Ra(s)) = Len(A[s].range)
    BY <2>1, <2>3, BuildSeq, ZenonT(60)
  <2>5. Em(s) \in Seq(1 .. n)
    <3> DEFINE e == ChainEnd(A, s)
    <3>1. e \in 1 .. n
      BY <2>2
    <3> HIDE DEF e, n
    <3>2. <<e>> \in Seq(1 .. n)
      BY ONLY <3>1
    <3>3. Em(s) \in {<<e>>, A[s].empty}
      BY DEF e
    <3> HIDE DEF Em
    <3> QED BY <2>1, <3>2, <3>3
  <2> QED BY <2>4, <2>5
<1>3. B = [s \in 1 .. n |-> [empty |-> Em(s), range |-> Ra(s) \o <<>>]] \o <<>>
  BY DEF RemoveSingle, MapSeq, Build
<1> HIDE DEF Em, Ra, B
<1>4. f \in [1 .. n -> StatesOf(n)]
  BY <1>2 DEF StatesOf
<1>5. [s \in 1 .. n |-> [empty |-> Em(s), range |-> Ra(s) \o <<>>]] = f
  BY <1>2
<1>6. \A s \in 1 .. n : f[s].empty = Em(s) /\ f[s].range = Ra(s)
  OBVIOUS
<1> HIDE DEF f
<1>7. B = f /\ f \in Seq(StatesOf(n)) /\ Len(f) = n
  BY <1>1, <1>3, <1>4, <1>5, BuildSeq, SMTT(30)
<1>8. \A s \in DOMAIN A : Single(A, s) => B[s].empty = <<ChainEnd(A, s)>>
  BY <1>1, <1>6, <1>7 DEF Em
<1>9. \A s \in DOMAIN A : ~Single(A, s) => B[s].empty = A[s].empty
  BY <1>1, <1>6, <1>7 DEF Em
<1>10. B[n].empty # <<>> /\ B[n].empty[Len(B[n].empty)] = n
  <2>1. CASE Single(A, n)
    <3>1. ChainEnd(A, n) = n
      BY <1>1, <2>1, SingleMove, ChainEndFacts DEF GoodAutomaton
    <3>2. B[n].empty = <<n>>
      BY <1>1, <1>8, <2>1, <3>1
    <3> QED BY <3>2
  <2>2. CASE ~Single(A, n)
    BY <1>1, <1>9, <2>2 DEF GoodAutomaton, WellFormed, Last
  <2> QED BY <2>1, <2>2
<1>11. WellFormed(B)
  BY <1>1, <1>7, <1>10 DEF WellFormed, Last
<1>12. ASSUME NEW s \in DOMAIN A
       PROVE  /\ Len(B[s].range) = Len(A[s].range)
              /\ \A k \in 1 .. Len(A[s].range) :
                    B[s].range[k] = [A[s].range[k] EXCEPT !.state = ChainEnd(A, A[s].range[k].state)]
  <2>1. B[s].range = Ra(s)
    BY <1>1, <1>6, <1>7
  <2>2. Len(Ra(s)) = Len(A[s].range)
    BY <1>1, <1>2
  <2> QED BY <2>1, <2>2 DEF Ra
<1> QED BY <1>7, <1>8, <1>9, <1>11, <1>12 DEF IsShortened, B

\* The transitions it leaves lead to the ends of chains.
LEMMA ShortenedMoves ==
    ASSUME NEW A, GoodAutomaton(A), NEW B, IsShortened(B, A), NEW s \in DOMAIN A
    PROVE  /\ Single(A, s) => \A u : EmptyMove(B, s, u) <=> u = ChainEnd(A, s)
           /\ ~Single(A, s) => \A u : EmptyMove(B, s, u) <=> EmptyMove(A, s, u)
           /\ \A c, t : CharMove(B, c, s, t) <=> \E u \in DOMAIN A : CharMove(A, c, s, u) /\ t = ChainEnd(A, u)
<1>1. Single(A, s) => \A u : EmptyMove(B, s, u) <=> u = ChainEnd(A, s)
  <2>1. ToSet(<<ChainEnd(A, s)>>) = {ChainEnd(A, s)}
    BY DEF ToSet
  <2> QED BY <2>1 DEF IsShortened, EmptyMove
<1>2. ~Single(A, s) => \A u : EmptyMove(B, s, u) <=> EmptyMove(A, s, u)
  BY DEF IsShortened, EmptyMove
<1>3. ASSUME NEW c, NEW t
      PROVE  CharMove(B, c, s, t) <=> \E u \in DOMAIN A : CharMove(A, c, s, u) /\ t = ChainEnd(A, u)
  <2> DEFINE n == Len(A)
             R == A[s].range
             Q == B[s].range
             m == Len(R)
  <2>1. A \in Seq(StatesOf(n)) /\ B \in Seq(StatesOf(n)) /\ DOMAIN A = 1 .. n /\ DOMAIN B = 1 .. n
    BY MoveFacts DEF GoodAutomaton, WellFormed, IsShortened
  <2>2. R \in Seq(Transitions(n)) /\ Q \in Seq(Transitions(n)) /\ Len(Q) = m /\ m \in Nat
        /\ \A k \in 1 .. m : Q[k] = [R[k] EXCEPT !.state = ChainEnd(A, R[k].state)]
    BY <2>1, StateFacts DEF IsShortened
  <2>8. DOMAIN R = 1 .. m /\ \A k \in 1 .. m : R[k] \in Transitions(n)
    BY <2>2
  <2> HIDE DEF R, Q, m
  <2>3. ASSUME NEW k \in 1 .. m
        PROVE  /\ R[k].state \in DOMAIN A /\ Q[k].state = ChainEnd(A, R[k].state)
               /\ InRange(c, Q[k]) <=> InRange(c, R[k])
    <3> DEFINE r == R[k]
               u == ChainEnd(A, r.state)
    <3>1. r \in Transitions(n)
      BY <2>8
    <3> HIDE DEF r
    <3>2. r.state \in DOMAIN A
      BY <2>1, <3>1 DEF Transitions
    <3>3. u \in 1 .. n
      BY <2>1, <3>2, ChainEndFacts
    <3> HIDE DEF u
    <3>4. [r EXCEPT !.state = u].state = u /\ (InRange(c, [r EXCEPT !.state = u]) <=> InRange(c, r))
      BY ONLY <3>1, <3>3, OtherTarget
    <3>5. Q[k] = [r EXCEPT !.state = u]
      BY <2>2 DEF r, u
    <3>6. Q[k].state = u /\ (InRange(c, Q[k]) <=> InRange(c, r))
      BY <3>4, <3>5
    <3> QED BY <3>2, <3>6 DEF r, u
  <2>4. CharMove(B, c, s, t) <=> \E k \in 1 .. m : Q[k].state = t /\ InRange(c, Q[k])
    BY <2>2 DEF CharMove, ToSet, Q
  <2>5. \A u : CharMove(A, c, s, u) <=> \E k \in 1 .. m : R[k].state = u /\ InRange(c, R[k])
    BY <2>2 DEF CharMove, ToSet, R, m
  <2>6. ASSUME NEW k \in 1 .. m, Q[k].state = t, InRange(c, Q[k])
        PROVE  \E u \in DOMAIN A : CharMove(A, c, s, u) /\ t = ChainEnd(A, u)
    <3>1. R[k].state \in DOMAIN A /\ t = ChainEnd(A, R[k].state) /\ InRange(c, R[k])
      BY <2>3, <2>6
    <3>2. CharMove(A, c, s, R[k].state)
      BY <2>5, <3>1
    <3> QED BY <3>1, <3>2
  <2>7. ASSUME NEW u \in DOMAIN A, CharMove(A, c, s, u), t = ChainEnd(A, u)
        PROVE  \E k \in 1 .. m : Q[k].state = t /\ InRange(c, Q[k])
    <3>1. PICK k \in 1 .. m : R[k].state = u /\ InRange(c, R[k])
      BY <2>5, <2>7
    <3> QED BY <2>3, <2>7, <3>1
  <2> QED BY <2>4, <2>6, <2>7
<1> QED BY <1>1, <1>2, <1>3

\* A smallest set of those which are not empty.
LEMMA SmallestSet ==
    ASSUME NEW S, IsFiniteSet(S), NEW T \in SUBSET (SUBSET S), T # {}
    PROVE  \E X \in T : \A Y \in T : Y \subseteq X => Y = X
<1> DEFINE M == {Cardinality(X) : X \in T}
<1>1. \A X \in T : IsFiniteSet(X) /\ Cardinality(X) \in Nat
  BY FS_Subset, FS_CardinalityType
<1>2. M \subseteq Nat /\ M # {}
  BY <1>1
<1>3. PICK least \in M : \A n \in M : <<n, least>> \notin OpToRel(<, Nat)
  <2> HIDE DEF M
  <2> QED BY <1>2, NatLessThanWellFounded, WFMin
<1>4. \A n \in M : ~(n < least)
  <2> HIDE DEF M
  <2> QED BY <1>2, <1>3 DEF OpToRel
<1>5. PICK X \in T : Cardinality(X) = least
  OBVIOUS
<1>6. ASSUME NEW Y \in T, Y \subseteq X PROVE Y = X
  <2>1. ~(Cardinality(Y) < Cardinality(X))
    BY <1>4, <1>5
  <2>2. IsFiniteSet(X) /\ Y \in SUBSET X
    BY <1>1, <1>6
  <2>3. Cardinality(Y) <= Cardinality(X) /\ (Cardinality(Y) = Cardinality(X) => X = Y)
    BY <2>2, FS_Subset
  <2>4. Cardinality(X) \in Nat /\ Cardinality(Y) \in Nat
    BY <1>1
  <2> HIDE DEF M
  <2> QED BY ONLY <2>1, <2>3, <2>4
<1> QED BY <1>6

\* A trap behind it was one before.
LEMMA ShortenedOutTrap ==
    ASSUME NEW A, GoodAutomaton(A), NEW B, IsShortened(B, A), NEW X, IsOutTrap(B, X)
    PROVE  X = {}
<1> DEFINE n == Len(A)
           D == DOMAIN A
           Y == X \cup {y \in D : Single(A, y) /\ ChainEnd(A, y) \in X /\ y # ChainEnd(A, y)}
<1>1. D = 1 .. n /\ n \in D /\ DOMAIN B = D /\ Len(B) = n
  BY MoveFacts DEF GoodAutomaton, IsShortened
<1>2. X \subseteq D \ {n}
  BY <1>1 DEF IsOutTrap
<1>3. n \notin Y
  <2>1. Single(A, n) => ChainEnd(A, n) = n
    BY <1>1, SingleMove, ChainEndFacts DEF GoodAutomaton
  <2> QED BY <1>2, <2>1
\* On the way to the end of a chain all states are of Y.
<1>4. ASSUME NEW s \in D, Single(A, s), ChainEnd(A, s) \in X, s # ChainEnd(A, s)
      PROVE  \E t \in Y : t # s /\ \A u \in D \ {s} : EmptyMove(A, s, u) <=> u = t
  <2> DEFINE t == A[s].empty[1]
  <2>1. t \in D /\ \A u : EmptyMove(A, s, u) <=> u = t
    BY <1>4, SingleMove DEF GoodAutomaton
  <2>2. t # s /\ ChainEnd(A, t) = ChainEnd(A, s)
    BY <1>4, ChainEndFacts
  <2> HIDE DEF t
  <2>3. t \in Y
    <3>1. CASE t = ChainEnd(A, t)
      BY <1>4, <2>2, <3>1
    <3>2. CASE t # ChainEnd(A, t)
      <4>1. Single(A, t)
        BY <2>1, <3>2, ChainEndFacts
      <4> QED BY <1>4, <2>1, <2>2, <3>2, <4>1
    <3> QED BY <3>1, <3>2
  <2> QED BY <2>1, <2>2, <2>3
<1>5. ASSUME NEW s \in Y
      PROVE  \E t \in Y : t # s /\ \A u \in D \ {s} : EmptyMove(A, s, u) <=> u = t
  <2>1. CASE s \in X
    <3>0. s \in D
      BY <1>2, <2>1
    <3>1. PICK t \in X : t # s /\ \A u \in D \ {s} : EmptyMove(B, s, u) <=> u = t
      BY <1>1, <2>1 DEF IsOutTrap
    <3>2. t \in D \ {s}
      BY <1>2, <3>1
    <3>3. CASE Single(A, s)
      <4>1. t = ChainEnd(A, s)
        BY <3>0, <3>1, <3>2, <3>3, ShortenedMoves
      <4> QED BY <1>4, <3>0, <3>1, <3>3, <4>1
    <3>4. CASE ~Single(A, s)
      <4>1. \A u : EmptyMove(B, s, u) <=> EmptyMove(A, s, u)
        BY <3>0, <3>4, ShortenedMoves
      <4> QED BY <3>1, <4>1
    <3> QED BY <3>3, <3>4
  <2>2. CASE s \notin X
    <3>1. s \in D /\ Single(A, s) /\ ChainEnd(A, s) \in X /\ s # ChainEnd(A, s)
      BY <2>2
    <3> HIDE DEF Y
    <3> QED BY <1>4, <3>1
  <2> QED BY <2>1, <2>2
<1>6. Y \subseteq D
  BY <1>2
<1> HIDE DEF Y
<1>7. IsOutTrap(A, Y)
  BY <1>3, <1>5, <1>6 DEF IsOutTrap
<1>8. Y = {}
  BY <1>7 DEF GoodAutomaton, NoTraps
<1> QED BY <1>8 DEF Y

\* The same for chains which are followed backwards.
LEMMA ShortenedInTrap ==
    ASSUME NEW A, GoodAutomaton(A), NEW B, IsShortened(B, A), NEW Z, IsInTrap(B, Z)
    PROVE  Z = {}
<1> SUFFICES ASSUME Z # {} PROVE FALSE
  OBVIOUS
<1> DEFINE n == Len(A)
           D == DOMAIN A
           T == {X \in SUBSET D : IsInTrap(B, X) /\ X # {}}
<1>1. D = 1 .. n /\ n \in Nat /\ DOMAIN B = D /\ Len(B) = n
  BY MoveFacts DEF GoodAutomaton, IsShortened
<1>2. T \in SUBSET (SUBSET D) /\ T # {}
  BY <1>1 DEF IsInTrap
<1>3. IsFiniteSet(D)
  BY <1>1, FS_Interval
<1>4. PICK X \in T : \A Y \in T : Y \subseteq X => Y = X
  <2> HIDE DEF T, D
  <2> QED BY <1>2, <1>3, SmallestSet
<1>5. /\ X \subseteq D \ {1} /\ X # {}
      /\ \A s \in X : \E t \in X : t # s /\ \A u \in D \ {s} : EmptyMove(B, u, s) <=> u = t
  BY <1>1, <1>4 DEF IsInTrap
\* Every state of X leads to another one of X.
<1>6. ASSUME NEW s \in X PROVE \E t \in X \ {s} : EmptyMove(B, s, t)
  <2> SUFFICES ASSUME \A t \in X \ {s} : ~EmptyMove(B, s, t) PROVE FALSE
    OBVIOUS
  <2> DEFINE Y == X \ {s}
  <2>1. ASSUME NEW v \in Y PROVE \E t \in Y : t # v /\ \A u \in D \ {v} : EmptyMove(B, u, v) <=> u = t
    <3>1. PICK t \in X : t # v /\ \A u \in D \ {v} : EmptyMove(B, u, v) <=> u = t
      BY <1>5
    <3>2. EmptyMove(B, t, v)
      BY <1>5, <3>1
    <3> QED BY <3>1, <3>2
  <2>3. Y # {} /\ Y \subseteq D \ {1} /\ Y \subseteq X /\ Y # X
    BY <1>5
  <2> HIDE DEF Y
  <2>2. IsInTrap(B, Y)
    <3>1. DOMAIN B = D
      BY <1>1
    <3> HIDE DEF D
    <3> QED BY ONLY <2>1, <2>3, <3>1, Zenon DEF IsInTrap
  <2>4. Y \in T
    BY <2>2, <2>3
  <2> QED BY <1>4, <2>3, <2>4
<1>7. ASSUME NEW s \in X
      PROVE  \E t \in X : t # s /\ \A u \in D \ {s} : EmptyMove(A, u, s) <=> u = t
  <2>1. PICK t \in X : t # s /\ \A u \in D \ {s} : EmptyMove(B, u, s) <=> u = t
    BY <1>5
  <2>2. s \in D /\ t \in D /\ EmptyMove(B, t, s)
    BY <1>5, <2>1
  \* A state in front of s whose only move leads to s is a state in front of s in B.
  <2>3. ASSUME NEW u \in D \ {s}, EmptyMove(A, u, s) PROVE u = t
    <3>1. CASE ~Single(A, u)
      BY <2>1, <2>3, <3>1, ShortenedMoves
    <3>2. CASE Single(A, u)
      <4>1. A[u].empty[1] = s
        BY <2>3, <3>2, SingleMove DEF GoodAutomaton
      <4>2. ChainEnd(A, u) = ChainEnd(A, s)
        BY <3>2, <4>1, ChainEndFacts
      <4>3. CASE ChainEnd(A, s) = s
        <5>1. EmptyMove(B, u, s)
          BY <3>2, <4>2, <4>3, ShortenedMoves
        <5> QED BY <2>1, <5>1
      <4>4. CASE ChainEnd(A, s) # s
        <5> DEFINE e == ChainEnd(A, s)
        <5>1. Single(A, s)
          BY <2>2, <4>4, ChainEndFacts
        <5>2. PICK v \in X \ {s} : EmptyMove(B, s, v)
          BY <1>6
        <5>3. v = e
          BY <2>2, <5>1, <5>2, ShortenedMoves
        <5>4. EmptyMove(B, u, e) /\ EmptyMove(B, s, e)
          BY <3>2, <4>2, <5>2, <5>3, ShortenedMoves
        <5>5. PICK w \in X : \A y \in D \ {e} : EmptyMove(B, y, e) <=> y = w
          BY <1>5, <5>2, <5>3
        <5>6. u # e
          <6>1. Single(A, e) => A[e].empty[1] = e
            BY <2>2, ChainEndFacts
          <6> QED BY <3>2, <4>1, <4>4, <6>1
        <5> QED BY <2>2, <2>3, <4>4, <5>4, <5>5, <5>6
      <4> QED BY <4>3, <4>4
    <3> QED BY <3>1, <3>2
  <2>4. EmptyMove(A, t, s)
    <3>1. CASE ~Single(A, t)
      BY <2>2, <3>1, ShortenedMoves
    <3>2. CASE Single(A, t)
      <4>1. s = ChainEnd(A, t)
        BY <2>2, <3>2, ShortenedMoves
      <4> DEFINE u == A[t].empty[1]
      <4>2. u \in D /\ EmptyMove(A, t, u) /\ ChainEnd(A, u) = s
        BY <2>2, <3>2, <4>1, SingleMove, ChainEndFacts DEF GoodAutomaton
      <4>3. u # t
        BY <2>1, <2>2, <3>2, <4>1, ChainEndFacts
      <4> HIDE DEF u
      <4>4. CASE u = s
        BY <4>2, <4>4
      <4>5. CASE u # s
        <5>1. Single(A, u)
          BY <4>2, <4>5, ChainEndFacts
        <5>2. EmptyMove(B, u, s)
          BY <4>2, <5>1, ShortenedMoves
        <5> QED BY <2>1, <4>2, <4>3, <4>5, <5>2
      <4> QED BY <4>4, <4>5
    <3> QED BY <3>1, <3>2
  <2> QED BY <2>1, <2>3, <2>4
<1>8. IsInTrap(A, X)
  BY <1>5, <1>7 DEF IsInTrap
<1> QED BY <1>5, <1>8 DEF GoodAutomaton, NoTraps

\* An object makedfa_automat has changed before it failed can still be used.
LEMMA ShortenedGood ==
    ASSUME NEW A, GoodAutomaton(A)
    PROVE  GoodAutomaton(RemoveSingle(A)) /\ IsShortened(RemoveSingle(A), A)
<1>1. IsShortened(RemoveSingle(A), A)
  BY ShortenedStates
<1>2. NoTraps(RemoveSingle(A))
  BY <1>1, ShortenedOutTrap, ShortenedInTrap DEF NoTraps
<1> QED BY <1>1, <1>2 DEF GoodAutomaton, IsShortened

-----------------------------------------------------------------------------
(* Sets of states *)

Operations == {"DFA", "OP_AND", "OP_AND_NOT"}

\* What makedfa2_automat works on: one automaton, or two which are combined.
Operands(As, op) ==
    /\ DOMAIN As = 1 .. Len(As) /\ Len(As) \in {1, 2}
    /\ op \in Operations /\ (op # "DFA" => Len(As) = 2)
    /\ \A k \in DOMAIN As : WellFormed(As[k])

\* The states of the operands of a DFA are finitely many.
LEMMA PlacesFacts ==
    ASSUME NEW As, NEW op, Operands(As, op)
    PROVE  /\ \A v : v \in Places(As) <=> \E k \in DOMAIN As : \E s \in DOMAIN As[k] : v = <<k, s>>
           /\ \A k \in DOMAIN As : \A s \in DOMAIN As[k] : <<k, s>> \in Places(As)
           /\ \A v \in Places(As) : v = <<v[1], v[2]>> /\ v[1] \in DOMAIN As /\ v[2] \in DOMAIN As[v[1]]
           /\ IsFiniteSet(Places(As))
<1>1. \A v : v \in Places(As) <=> \E k \in DOMAIN As : \E s \in DOMAIN As[k] : v = <<k, s>>
  BY DEF Places
<1>2. \A k \in DOMAIN As : \A s \in DOMAIN As[k] : <<k, s>> \in Places(As)
  BY <1>1
<1>3. \A v \in Places(As) : v = <<v[1], v[2]>> /\ v[1] \in DOMAIN As /\ v[2] \in DOMAIN As[v[1]]
  BY <1>1
<1>4. IsFiniteSet(Places(As))
  <2>1. \A k \in DOMAIN As : DOMAIN As[k] = 1 .. Len(As[k]) /\ Len(As[k]) \in Nat
    BY MoveFacts DEF Operands
  <2>2. PICK m \in Nat : \A k \in DOMAIN As : Len(As[k]) <= m
    <3>1. CASE Len(As) = 1
      <4>1. DOMAIN As = {1}
        BY <3>1 DEF Operands
      <4> QED BY <2>1, <4>1
    <3>2. CASE Len(As) = 2
      <4>1. DOMAIN As = {1, 2}
        BY <3>2 DEF Operands
      <4>2. Len(As[1]) \in Nat /\ Len(As[2]) \in Nat
        BY <2>1, <4>1
      <4>3. Len(As[1]) + Len(As[2]) \in Nat /\ Len(As[1]) <= Len(As[1]) + Len(As[2]) /\ Len(As[2]) <= Len(As[1]) + Len(As[2])
        <5>1. \A a, b \in Nat : a + b \in Nat /\ a <= a + b /\ b <= a + b
          OBVIOUS
        <5> QED BY <4>2, <5>1
      <4> QED BY <4>1, <4>3
    <3> QED BY <3>1, <3>2 DEF Operands
  <2>3. IsFiniteSet((1 .. 2) \X (1 .. m))
    <3>0. 1 \in Int /\ 2 \in Int /\ m \in Int
      OBVIOUS
    <3>1. IsFiniteSet(1 .. 2) /\ IsFiniteSet(1 .. m)
      BY ONLY <3>0, FS_Interval
    <3> QED BY <3>1, FS_Product
  <2>4. Places(As) \subseteq (1 .. 2) \X (1 .. m)
    <3> SUFFICES ASSUME NEW v \in Places(As) PROVE v \in (1 .. 2) \X (1 .. m)
      OBVIOUS
    <3>1. v[1] \in DOMAIN As /\ v[2] \in DOMAIN As[v[1]] /\ v = <<v[1], v[2]>>
      BY <1>3
    <3>2. v[1] \in 1 .. 2
      BY <3>1 DEF Operands
    <3>3. v[2] \in 1 .. m
      BY <2>1, <2>2, <3>1
    <3> QED BY <3>1, <3>2, <3>3
  <2> QED BY <2>3, <2>4, FS_Subset
<1> QED BY <1>1, <1>2, <1>3, <1>4

\* What EmptyTargets and Read find.
LEMMA TargetFacts ==
    ASSUME NEW As, NEW op, Operands(As, op), NEW V \in SUBSET Places(As)
    PROVE  /\ EmptyTargets(As, V) \in SUBSET Places(As)
           /\ \A k \in DOMAIN As : \A t \in DOMAIN As[k] :
                 <<k, t>> \in EmptyTargets(As, V) <=> \E s \in DOMAIN As[k] : <<k, s>> \in V /\ EmptyMove(As[k], s, t)
           /\ \A c : Read(As, V, c) \in SUBSET Places(As)
           /\ \A c : \A k \in DOMAIN As : \A t \in DOMAIN As[k] :
                 <<k, t>> \in Read(As, V, c) <=> \E s \in DOMAIN As[k] : <<k, s>> \in V /\ CharMove(As[k], c, s, t)
<1>1. \A v \in V : v = <<v[1], v[2]>> /\ v[1] \in DOMAIN As /\ v[2] \in DOMAIN As[v[1]]
  BY PlacesFacts
<1>2. \A k \in DOMAIN As : WellFormed(As[k])
  BY DEF Operands
<1>3. \A x : x \in EmptyTargets(As, V) <=> \E v \in V : \E t : EmptyMove(As[v[1]], v[2], t) /\ x = <<v[1], t>>
  BY DEF EmptyTargets, EmptyMove
<1>4. \A v \in V : \A t : EmptyMove(As[v[1]], v[2], t) => t \in DOMAIN As[v[1]]
  BY <1>1, <1>2, MoveFacts
<1>5. EmptyTargets(As, V) \in SUBSET Places(As)
  BY <1>1, <1>3, <1>4, PlacesFacts
<1>6. ASSUME NEW k \in DOMAIN As, NEW t \in DOMAIN As[k]
      PROVE  <<k, t>> \in EmptyTargets(As, V) <=> \E s \in DOMAIN As[k] : <<k, s>> \in V /\ EmptyMove(As[k], s, t)
  <2>1. ASSUME <<k, t>> \in EmptyTargets(As, V) PROVE \E s \in DOMAIN As[k] : <<k, s>> \in V /\ EmptyMove(As[k], s, t)
    <3>1. PICK v \in V : \E u : EmptyMove(As[v[1]], v[2], u) /\ <<k, t>> = <<v[1], u>>
      BY <1>3, <2>1
    <3>2. v[1] = k /\ EmptyMove(As[v[1]], v[2], t) /\ v = <<k, v[2]>>
      BY <1>1, <3>1
    <3>3. v[2] \in DOMAIN As[k] /\ <<k, v[2]>> \in V
      BY <1>1, <3>2
    <3> QED BY <3>2, <3>3
  <2>2. ASSUME NEW s \in DOMAIN As[k], <<k, s>> \in V, EmptyMove(As[k], s, t) PROVE <<k, t>> \in EmptyTargets(As, V)
    <3> DEFINE v == <<k, s>>
    <3>1. v \in V /\ v[1] = k /\ v[2] = s
      BY <2>2
    <3> HIDE DEF v
    <3>2. EmptyMove(As[v[1]], v[2], t) /\ <<k, t>> = <<v[1], t>>
      BY <2>2, <3>1
    <3> QED BY <1>3, <3>1, <3>2
  <2> QED BY <2>1, <2>2
<1>7. ASSUME NEW c
      PROVE  \A x : x \in Read(As, V, c) <=> \E v \in V : \E t : CharMove(As[v[1]], c, v[2], t) /\ x = <<v[1], t>>
  BY DEF Read, CharMove
<1>8. \A c, t : \A v \in V : CharMove(As[v[1]], c, v[2], t) => t \in DOMAIN As[v[1]]
  BY <1>1, <1>2, MoveFacts
<1>9. \A c : Read(As, V, c) \in SUBSET Places(As)
  BY <1>1, <1>7, <1>8, PlacesFacts
<1>10. ASSUME NEW c, NEW k \in DOMAIN As, NEW t \in DOMAIN As[k]
      PROVE  <<k, t>> \in Read(As, V, c) <=> \E s \in DOMAIN As[k] : <<k, s>> \in V /\ CharMove(As[k], c, s, t)
  <2>1. ASSUME <<k, t>> \in Read(As, V, c) PROVE \E s \in DOMAIN As[k] : <<k, s>> \in V /\ CharMove(As[k], c, s, t)
    <3>1. PICK v \in V : \E u : CharMove(As[v[1]], c, v[2], u) /\ <<k, t>> = <<v[1], u>>
      BY <1>7, <2>1
    <3>2. v[1] = k /\ CharMove(As[v[1]], c, v[2], t) /\ v = <<k, v[2]>>
      BY <1>1, <3>1
    <3>3. v[2] \in DOMAIN As[k] /\ <<k, v[2]>> \in V
      BY <1>1, <3>2
    <3> QED BY <3>2, <3>3
  <2>2. ASSUME NEW s \in DOMAIN As[k], <<k, s>> \in V, CharMove(As[k], c, s, t) PROVE <<k, t>> \in Read(As, V, c)
    <3> DEFINE v == <<k, s>>
    <3>1. v \in V /\ v[1] = k /\ v[2] = s
      BY <2>2
    <3> HIDE DEF v
    <3>2. CharMove(As[v[1]], c, v[2], t) /\ <<k, t>> = <<v[1], t>>
      BY <2>2, <3>1
    <3> QED BY <1>7, <3>1, <3>2
  <2> QED BY <2>1, <2>2
<1> QED BY <1>5, <1>6, <1>9, <1>10

\* Sets no empty transition leaves.
EmptyClosed(As, M) == EmptyTargets(As, M) \subseteq M

\* follow_empty_transition computes the smallest such set.
LEMMA FollowFacts ==
    ASSUME NEW As, NEW op, Operands(As, op), NEW V \in SUBSET Places(As)
    PROVE  /\ Follow(As, V) \in SUBSET Places(As)
           /\ V \subseteq Follow(As, V)
           /\ EmptyClosed(As, Follow(As, V))
           /\ \A M \in SUBSET Places(As) : V \subseteq M /\ EmptyClosed(As, M) => Follow(As, V) \subseteq M
<1> DEFINE P == Places(As)
           D == SUBSET P
           g == [W \in D |-> W \cup EmptyTargets(As, W)]
           m == [W \in D |-> Cardinality(P \ W)]
           T == {W \in D : V \subseteq W /\ \A M \in D : V \subseteq M /\ EmptyClosed(As, M) => W \subseteq M}
           F == Follow(As, V)
<1>1. IsFiniteSet(P) /\ \A W \in D : EmptyTargets(As, W) \in D
  BY PlacesFacts, TargetFacts
<1>2. \A W, M \in D : W \subseteq M => EmptyTargets(As, W) \subseteq EmptyTargets(As, M)
  BY DEF EmptyTargets
<1>3. F = Loop(D, g, V)
  BY DEF Follow
<1> HIDE DEF P, F
<1>4. g \in [D -> D] /\ \A W \in D : g[W] = W \cup EmptyTargets(As, W)
  BY <1>1
<1>5. \A W \in D : m[W] = Cardinality(P \ W) /\ IsFiniteSet(P \ W) /\ Cardinality(P \ W) \in Nat
  BY <1>1, FS_Subset, FS_CardinalityType
<1>6. m \in [D -> Nat]
  BY <1>5
<1> HIDE DEF g, m
<1>7. ASSUME NEW W \in D, g[W] # W PROVE m[g[W]] < m[W]
  <2>1. P \ g[W] \subseteq P \ W /\ P \ g[W] # P \ W /\ g[W] \in D
    BY <1>4, <1>7
  <2>2. Cardinality(P \ g[W]) < Cardinality(P \ W)
    <3> DEFINE X == P \ g[W]
               Y == P \ W
    <3>1. IsFiniteSet(Y) /\ X \in SUBSET Y /\ X # Y /\ Cardinality(Y) \in Nat /\ Cardinality(X) \in Nat
      BY <1>5, <2>1
    <3> HIDE DEF X, Y
    <3>2. Cardinality(X) <= Cardinality(Y) /\ (Cardinality(Y) = Cardinality(X) => Y = X)
      BY <3>1, FS_Subset
    <3>3. Cardinality(X) < Cardinality(Y)
      BY ONLY <3>1, <3>2
    <3> QED BY <3>3 DEF X, Y
  <2> QED BY <1>5, <2>1, <2>2
<1>8. V \in T /\ T \in SUBSET D
  BY DEF P
<1>9. ASSUME NEW W \in T PROVE g[W] \in T
  <2>1. g[W] = W \cup EmptyTargets(As, W) /\ g[W] \in D /\ V \subseteq g[W]
    BY <1>4
  <2>2. ASSUME NEW M \in D, V \subseteq M, EmptyClosed(As, M) PROVE g[W] \subseteq M
    <3>1. W \subseteq M
      BY <2>2
    <3>2. EmptyTargets(As, W) \subseteq M
      BY <1>2, <2>2, <3>1 DEF EmptyClosed
    <3> QED BY <2>1, <3>1, <3>2
  <2> QED BY <2>1, <2>2
<1>a. V \in D
  BY DEF P
<1> HIDE DEF T, D
<1>b. \A u \in D : g[u] = u \/ m[g[u]] < m[u]
  BY <1>7
<1>10. Loop(D, g, V) \in T /\ g[Loop(D, g, V)] = Loop(D, g, V)
  BY ONLY <1>4, <1>6, <1>b, <1>8, <1>9, <1>a, LoopEnds
<1>11. F \in D /\ V \subseteq F /\ \A M \in D : V \subseteq M /\ EmptyClosed(As, M) => F \subseteq M
  BY <1>3, <1>10 DEF T
<1>12. EmptyClosed(As, F)
  BY <1>3, <1>4, <1>10, <1>11 DEF EmptyClosed
<1> QED BY <1>11, <1>12 DEF F, D, P

\* The targets of a set of states.
LEMMA RowFacts ==
    ASSUME NEW As, NEW op, Operands(As, op), NEW V \in SUBSET Places(As)
    PROVE  /\ \A c : Target(As, op, V, c) \in SUBSET Places(As)
           /\ Row(As, op, V) \in Seq(SUBSET Places(As))
           /\ Len(Row(As, op, V)) = MaxChar + 1
           /\ \A a \in 1 .. MaxChar + 1 : Row(As, op, V)[a] = Target(As, op, V, a - 1)
<1> DEFINE f == [a \in 1 .. MaxChar + 1 |-> Target(As, op, V, a - 1)]
<1>1. ASSUME NEW c PROVE Target(As, op, V, c) \in SUBSET Places(As)
  <2> DEFINE R == Read(As, V, c)
             W == Follow(As, R)
  <2>1. R \in SUBSET Places(As)
    BY TargetFacts
  <2> HIDE DEF R
  <2>2. W \in SUBSET Places(As)
    BY <2>1, FollowFacts
  <2>3. Target(As, op, V, c) = IF LeadsToEnd(op, W) THEN W ELSE {}
    BY DEF Target, R
  <2> HIDE DEF W
  <2> QED BY <2>2, <2>3
<1>2. MaxChar + 1 \in Nat
  BY AutomatAssumption
<1>3. f \in [1 .. MaxChar + 1 -> SUBSET Places(As)] /\ \A a \in 1 .. MaxChar + 1 : f[a] = Target(As, op, V, a - 1)
  BY <1>1
<1>4. Row(As, op, V) = f \o <<>>
  BY DEF Row, Build
<1> HIDE DEF f
<1>5. f \o <<>> = f /\ f \in Seq(SUBSET Places(As)) /\ Len(f) = MaxChar + 1
  BY <1>2, <1>3, BuildSeq
<1> QED BY <1>1, <1>3, <1>4, <1>5

\* The sets which are found next.
LEMMA NewSetsFacts ==
    ASSUME NEW S, NEW found \in Seq(S), NEW row \in Seq(S)
    PROVE  /\ NewSets(found, row) \in Seq(S)
           /\ IsInjective(NewSets(found, row))
           /\ ToSet(NewSets(found, row)) = ToSet(row) \ (ToSet(found) \cup {{}})
<1> DEFINE D == DOMAIN row
           K == {a \in D : row[a] \notin ToSet(found) \cup {{}} /\ \A b \in 1 .. a - 1 : row[b] # row[a]}
           asc == Ascending(K)
           q == NewSets(found, row)
<1>1. D = 1 .. Len(row) /\ Len(row) \in Nat /\ K \in SUBSET (1 .. Len(row)) /\ row \in [D -> S]
  OBVIOUS
<1>2. q = Mapped(asc, row)
  BY DEF NewSets, MapSeq, Build, Mapped
<1> HIDE DEF q, K, D
<1>3. /\ asc \in Seq(K) /\ Len(asc) = Cardinality(K) /\ ToSet(asc) = K
      /\ \A i, j \in DOMAIN asc : i < j => asc[i] < asc[j]
  BY ONLY <1>1, AscendingList
<1> HIDE DEF asc
<1>a. row \in [D -> S]
  BY <1>1
<1>b. asc \in Seq(D)
  <2>1. K \subseteq D
    BY <1>1
  <2> QED BY <1>3, <2>1
<1>4. DOMAIN asc = 1 .. Len(asc) /\ Len(asc) \in Nat
  BY <1>3
<1>c. Mapped(asc, row) \in Seq(S)
  BY ONLY <1>a, <1>b, MapMembers
<1>d. Len(Mapped(asc, row)) = Len(asc)
  BY ONLY <1>a, <1>b, MapMembers
<1>e. \A k \in 1 .. Len(asc) : Mapped(asc, row)[k] = row[asc[k]]
  BY ONLY <1>a, <1>b, MapMembers
<1>f. ToSet(Mapped(asc, row)) = {row[t] : t \in ToSet(asc)}
  <2> DEFINE p == Mapped(asc, row)
  <2>1. p \in Seq(S) /\ Len(p) = Len(asc) /\ \A k \in 1 .. Len(asc) : p[k] = row[asc[k]]
    BY <1>c, <1>d, <1>e
  <2> HIDE DEF p
  <2>2. DOMAIN p = 1 .. Len(asc)
    BY <2>1
  <2>3. ToSet(p) = {row[t] : t \in ToSet(asc)}
    BY <1>4, <2>1, <2>2 DEF ToSet
  <2> QED BY <2>3 DEF p
<1>6. q \in Seq(S) /\ DOMAIN q = 1 .. Len(asc) /\ (\A k \in 1 .. Len(asc) : q[k] = row[asc[k]])
      /\ ToSet(q) = {row[t] : t \in K}
  BY <1>2, <1>3, <1>4, <1>c, <1>d, <1>e, <1>f
<1>7. \A a, b \in K : a < b => row[a] # row[b]
  <2> SUFFICES ASSUME NEW a \in K, NEW b \in K, a < b PROVE row[a] # row[b]
    OBVIOUS
  <2>1. a \in 1 .. b - 1
    BY <1>1
  <2> QED BY <2>1 DEF K
<1>8. ASSUME NEW i \in DOMAIN q, NEW j \in DOMAIN q, q[i] = q[j] PROVE i = j
  <2>1. i \in 1 .. Len(asc) /\ j \in 1 .. Len(asc) /\ row[asc[i]] = row[asc[j]] /\ asc[i] \in K /\ asc[j] \in K
    BY <1>3, <1>6, <1>8
  <2>2. ~(i < j)
    BY <1>3, <1>4, <1>7, <2>1
  <2>3. ~(j < i)
    BY <1>3, <1>4, <1>7, <2>1
  <2> QED BY <1>4, <2>1, <2>2, <2>3
<1>9. IsInjective(q)
  BY <1>8 DEF IsInjective
<1>10. ASSUME NEW x \in ToSet(row), x \notin ToSet(found) \cup {{}} PROVE \E a \in K : x = row[a]
  <2> DEFINE M == {a \in D : row[a] = x}
  <2>1. M \in SUBSET Nat /\ M # {}
    BY <1>1, <1>10 DEF ToSet, D
  <2>2. PICK a \in M : \A y \in M : a <= y
    <3> HIDE DEF M
    <3> QED BY <2>1, LeastNumber
  <2>3. ASSUME NEW b \in 1 .. a - 1 PROVE row[b] # row[a]
    <3>1. a \in D /\ row[a] = x
      OBVIOUS
    <3>2. b \in D /\ ~(a <= b)
      BY <1>1, <3>1
    <3> QED BY <2>2, <3>1, <3>2
  <2> QED BY <1>10, <2>3 DEF K
<1>11. \A a \in K : row[a] \in ToSet(row) /\ row[a] \notin ToSet(found) \cup {{}}
  BY DEF K, D, ToSet
<1>12. ToSet(q) = ToSet(row) \ (ToSet(found) \cup {{}})
  BY <1>6, <1>10, <1>11
<1> QED BY <1>6, <1>9, <1>12 DEF q

\* A set is the target of one found before it.
FoundFrom(As, op, found, i) == \E j \in 1 .. i - 1 : found[i] \in ToSet(Row(As, op, found[j]))

\* The sets of states which can be reached from start, each once.
IsExplored(As, op, start, found) ==
    /\ found \in Seq(SUBSET Places(As)) /\ Len(found) >= 1 /\ found[1] = start
    /\ IsInjective(found)
    /\ \A i \in DOMAIN found : i # 1 => found[i] # {}
    /\ \A i \in DOMAIN found : ToSet(Row(As, op, found[i])) \subseteq ToSet(found) \cup {{}}
    /\ \A i \in DOMAIN found : i # 1 => FoundFrom(As, op, found, i)

\* What the loop keeps: the first done sets of found are processed.
Processed(As, op, start, u) ==
    /\ u \in Unprocessed(As) /\ Len(u.found) >= 1 /\ u.found[1] = start
    /\ IsInjective(u.found)
    /\ \A i \in DOMAIN u.found : i # 1 => u.found[i] # {}
    /\ \A i \in 1 .. u.done : ToSet(Row(As, op, u.found[i])) \subseteq ToSet(u.found) \cup {{}}
    /\ \A i \in DOMAIN u.found : i # 1 => FoundFrom(As, op, u.found, i)

\* The sets which are not found and those which are not processed.
Remaining(As, u) == Cardinality((SUBSET Places(As)) \ ToSet(u.found)) + (Len(u.found) - u.done)

\* What processing a set does.
IsStep(As, op, u, v) ==
    /\ v \in Unprocessed(As) /\ v.done = u.done + 1
    /\ ToSet(v.found) = ToSet(u.found) \cup (ToSet(Row(As, op, u.found[u.done + 1])) \ {{}})
    /\ Len(u.found) <= Len(v.found) /\ \A i \in 1 .. Len(u.found) : v.found[i] = u.found[i]
    /\ \A i \in Len(u.found) + 1 .. Len(v.found) : v.found[i] # {} /\ v.found[i] \in ToSet(Row(As, op, u.found[u.done + 1]))
    /\ IsInjective(u.found) => IsInjective(v.found)
    /\ Remaining(As, u) \in Nat /\ Remaining(As, v) \in Nat /\ Remaining(As, v) < Remaining(As, u)

\* It is a step of the loop which ends.
LEMMA ProcessStep ==
    ASSUME NEW As, NEW op, Operands(As, op), NEW u \in Unprocessed(As), u.done # Len(u.found)
    PROVE  IsStep(As, op, u, ProcessFirst(As, op, u))
<1> DEFINE S == SUBSET Places(As)
           f == u.found
           d == u.done
           row == Row(As, op, f[d + 1])
           q == NewSets(f, row)
           h == f \o q
           v == ProcessFirst(As, op, u)
<1>1. f \in Seq(S) /\ d \in Nat /\ Len(f) \in Nat /\ d < Len(f) /\ u = [done |-> d, found |-> f]
  BY DEF Unprocessed
<1>2. v = [done |-> d + 1, found |-> h] /\ u.found = f /\ u.done = d
  BY DEF ProcessFirst
<1>3. f[d + 1] \in S
  BY <1>1
<1>4. row \in Seq(S)
  BY <1>3, RowFacts
<1> HIDE DEF v, row, S, f
<1>5. q \in Seq(S) /\ IsInjective(q) /\ ToSet(q) = ToSet(row) \ (ToSet(f) \cup {{}})
  BY ONLY <1>1, <1>4, NewSetsFacts
<1> HIDE DEF q, d
<1>6. /\ h \in Seq(S) /\ Len(h) = Len(f) + Len(q)
      /\ ToSet(h) = ToSet(f) \cup ToSet(q)
      /\ IsInjective(f) => IsInjective(h)
  BY <1>1, <1>5, ConcatList
<1>7. \A i \in 1 .. Len(f) : h[i] = f[i]
  BY ONLY <1>1, <1>5, ConcatTwo
<1>8. \A i \in 1 .. Len(q) : h[Len(f) + i] = q[i]
  BY ONLY <1>1, <1>5, ConcatTwo
<1> HIDE DEF h
<1>9. v.done = d + 1 /\ v.found = h
  BY <1>2
<1>10. Len(q) \in Nat /\ DOMAIN q = 1 .. Len(q)
  BY <1>5
<1>11. v \in Unprocessed(As)
  <2>1. d + 1 \in Nat /\ d + 1 <= Len(h)
    BY <1>1, <1>6, <1>10
  <2>2. v \in [done : Nat, found : Seq(S)]
    BY <1>2, <1>6, <2>1
  <2> QED BY <1>9, <2>1, <2>2 DEF Unprocessed, S
<1>12. \A i \in Len(f) + 1 .. Len(h) : h[i] # {} /\ h[i] \in ToSet(row)
  <2> SUFFICES ASSUME NEW i \in Len(f) + 1 .. Len(h) PROVE h[i] # {} /\ h[i] \in ToSet(row)
    OBVIOUS
  <2> DEFINE k == i - Len(f)
  <2>1. k \in 1 .. Len(q) /\ i = Len(f) + k
    BY <1>1, <1>6, <1>10
  <2> HIDE DEF k
  <2>2. q[k] \in ToSet(q)
    BY <1>10, <2>1 DEF ToSet
  <2>3. q[k] # {} /\ q[k] \in ToSet(row)
    BY <1>5, <2>2
  <2> QED BY <1>8, <2>1, <2>3
<1>13. Remaining(As, u) \in Nat /\ Remaining(As, v) \in Nat /\ Remaining(As, v) < Remaining(As, u)
  <2> DEFINE X == S \ ToSet(f)
             Y == S \ ToSet(h)
  <2>1. IsFiniteSet(S)
    BY PlacesFacts, FS_SUBSET DEF S
  <2>2. ToSet(q) \subseteq X /\ Y = X \ ToSet(q)
    <3>1. ToSet(q) \subseteq S
      BY <1>5 DEF ToSet
    <3> QED BY <1>5, <1>6, <3>1
  <2>3. IsFiniteSet(X)
    BY <2>1, FS_Subset
  <2>4. IsFiniteSet(ToSet(q)) /\ Cardinality(ToSet(q)) = Len(q)
    BY <1>5, InjectiveLength
  <2> HIDE DEF X, Y
  <2>5. IsFiniteSet(Y) /\ Cardinality(Y) = Cardinality(X) - Cardinality(X \cap ToSet(q))
    BY <2>2, <2>3, FS_Difference
  <2>6. X \cap ToSet(q) = ToSet(q)
    BY <2>2
  <2>7. Cardinality(X) \in Nat /\ Cardinality(Y) \in Nat
    BY <2>3, <2>5, FS_CardinalityType
  <2>8. Remaining(As, u) = Cardinality(X) + (Len(f) - d)
    BY ONLY <1>2, Zenon DEF Remaining, X, S
  <2>a. Remaining(As, v) = Cardinality(Y) + (Len(h) - (d + 1))
    BY ONLY <1>9, Zenon DEF Remaining, Y, S
  <2>9. Cardinality(Y) = Cardinality(X) - Len(q) /\ Len(h) = Len(f) + Len(q)
    BY <1>6, <2>4, <2>5, <2>6
  <2> QED BY ONLY <1>1, <1>10, <2>7, <2>8, <2>a, <2>9
<1>14. ToSet(h) = ToSet(f) \cup (ToSet(row) \ {{}})
  BY <1>5, <1>6
<1>15. Len(f) <= Len(h)
  BY <1>1, <1>6, <1>10
<1> QED BY <1>2, <1>6, <1>7, <1>9, <1>11, <1>12, <1>13, <1>14, <1>15 DEF IsStep, v, row

\* The loop over unprocessed ends, and its result holds the target of every set.
LEMMA ExploreFacts ==
    ASSUME NEW As, NEW op, Operands(As, op), NEW start \in SUBSET Places(As)
    PROVE  /\ IsExplored(As, op, start, Explore(As, op, start).found)
           /\ Len(Explore(As, op, start).targets) = Len(Explore(As, op, start).found)
           /\ DOMAIN Explore(As, op, start).targets = DOMAIN Explore(As, op, start).found
           /\ \A i \in DOMAIN Explore(As, op, start).found :
                 Explore(As, op, start).targets[i] = Row(As, op, Explore(As, op, start).found[i])
<1> DEFINE S == SUBSET Places(As)
           D == Unprocessed(As)
           g == [u \in D |-> ProcessFirst(As, op, u)]
           m == [u \in D |-> Remaining(As, u)]
           T == {u \in D : Processed(As, op, start, u)}
           u0 == [done |-> 0, found |-> <<start>>]
           w == Loop(D, g, u0)
<1>1. ASSUME NEW u \in D, u.done = Len(u.found) PROVE ProcessFirst(As, op, u) = u
  BY <1>1 DEF ProcessFirst
<1>2. ASSUME NEW u \in D
      PROVE  /\ ProcessFirst(As, op, u) \in D
             /\ ProcessFirst(As, op, u) = u \/ Remaining(As, ProcessFirst(As, op, u)) < Remaining(As, u)
  <2>1. CASE u.done = Len(u.found)
    BY <1>1, <2>1
  <2>2. CASE u.done # Len(u.found)
    BY <2>2, ProcessStep DEF IsStep
  <2> QED BY <2>1, <2>2
<1>3. ASSUME NEW u \in D PROVE Remaining(As, u) \in Nat
  <2>1. u.done \in Nat /\ Len(u.found) \in Nat /\ u.done <= Len(u.found)
    BY DEF Unprocessed
  <2>2. IsFiniteSet(S)
    BY PlacesFacts, FS_SUBSET
  <2>3. Cardinality(S \ ToSet(u.found)) \in Nat
    BY <2>2, FS_Subset, FS_CardinalityType
  <2>4. Len(u.found) - u.done \in Nat
    BY ONLY <2>1
  <2> DEFINE a == Cardinality(S \ ToSet(u.found))
             b == Len(u.found) - u.done
  <2>5. Remaining(As, u) = a + b
    BY ONLY Zenon DEF Remaining
  <2> HIDE DEF a, b
  <2>6. a + b \in Nat
    BY ONLY <2>3, <2>4 DEF a, b
  <2> QED BY <2>5, <2>6
<1>4. g \in [D -> D] /\ m \in [D -> Nat]
  BY <1>2, <1>3
<1>5. \A u \in D : g[u] = ProcessFirst(As, op, u) /\ m[u] = Remaining(As, u)
  OBVIOUS
<1> HIDE DEF g, m
<1>6. u0 \in T
  <2> DEFINE s == <<start>>
  <2>1. s \in Seq(S) /\ Len(s) = 1 /\ s[1] = start /\ DOMAIN s = {1}
    OBVIOUS
  <2>2. u0 = [done |-> 0, found |-> s]
    OBVIOUS
  <2> HIDE DEF s, u0, S
  <2>3. u0.done = 0 /\ u0.found = s /\ u0 \in [done : Nat, found : Seq(S)]
    BY <2>1, <2>2
  <2>4. u0 \in D
    BY <2>1, <2>3 DEF Unprocessed, S
  <2>5. IsInjective(s)
    BY <2>1 DEF IsInjective
  <2> QED BY <2>1, <2>3, <2>4, <2>5 DEF Processed
<1>7. ASSUME NEW u \in T PROVE g[u] \in T
  <2>0. u \in D /\ Processed(As, op, start, u) /\ g[u] = ProcessFirst(As, op, u)
    BY <1>5
  <2>1. CASE u.done = Len(u.found)
    <3>1. g[u] = u
      BY <1>1, <2>0, <2>1
    <3> QED BY <3>1
  <2>2. CASE u.done # Len(u.found)
    <3> DEFINE v == g[u]
    <3>0. IsStep(As, op, u, v)
      BY <2>0, <2>2, ProcessStep
    <3>1. /\ v \in Unprocessed(As) /\ v.done = u.done + 1
          /\ ToSet(v.found) = ToSet(u.found) \cup (ToSet(Row(As, op, u.found[u.done + 1])) \ {{}})
          /\ Len(u.found) <= Len(v.found) /\ \A i \in 1 .. Len(u.found) : v.found[i] = u.found[i]
          /\ \A i \in Len(u.found) + 1 .. Len(v.found) :
                v.found[i] # {} /\ v.found[i] \in ToSet(Row(As, op, u.found[u.done + 1]))
          /\ IsInjective(u.found) => IsInjective(v.found)
      BY <3>0 DEF IsStep
    <3> HIDE DEF v
    <3>2. /\ u.found \in Seq(S) /\ DOMAIN u.found = 1 .. Len(u.found) /\ Len(u.found) \in Nat
          /\ u.done \in Nat /\ u.done < Len(u.found)
      BY <2>0, <2>2 DEF Unprocessed
    <3>3. v.found \in Seq(S) /\ DOMAIN v.found = 1 .. Len(v.found) /\ Len(v.found) \in Nat
      BY <3>1 DEF Unprocessed
    <3>4. v.found[1] = start /\ Len(v.found) >= 1
      BY <2>0, <3>1, <3>2, <3>3 DEF Processed
    <3>5. ASSUME NEW i \in DOMAIN v.found, i # 1 PROVE v.found[i] # {}
      <4>1. CASE i \in 1 .. Len(u.found)
        BY <2>0, <3>1, <3>2, <3>5, <4>1 DEF Processed
      <4>2. CASE i \notin 1 .. Len(u.found)
        <5>1. i \in Len(u.found) + 1 .. Len(v.found)
          BY <3>2, <3>3, <4>2
        <5> QED BY <3>1, <5>1
      <4> QED BY <4>1, <4>2
    <3>6. ASSUME NEW i \in 1 .. v.done PROVE ToSet(Row(As, op, v.found[i])) \subseteq ToSet(v.found) \cup {{}}
      <4>0. i \in 1 .. Len(u.found) /\ v.found[i] = u.found[i] /\ (i \in 1 .. u.done \/ i = u.done + 1)
        BY <3>1, <3>2
      <4>1. CASE i \in 1 .. u.done
        <5>1. ToSet(Row(As, op, u.found[i])) \subseteq ToSet(u.found) \cup {{}}
          BY <2>0, <4>1 DEF Processed
        <5> QED BY <3>1, <4>0, <5>1
      <4>2. CASE i = u.done + 1
        BY <3>1, <4>0, <4>2
      <4> QED BY <4>0, <4>1, <4>2
    <3>7. IsInjective(v.found)
      BY <2>0, <3>1 DEF Processed
    <3>8. ASSUME NEW i \in DOMAIN v.found, i # 1 PROVE FoundFrom(As, op, v.found, i)
      <4>1. CASE i \in 1 .. Len(u.found)
        <5>1. PICK j \in 1 .. i - 1 : u.found[i] \in ToSet(Row(As, op, u.found[j]))
          BY <2>0, <3>2, <3>8, <4>1 DEF Processed, FoundFrom
        <5>2. j \in 1 .. Len(u.found)
          BY <3>2, <4>1
        <5>3. v.found[i] \in ToSet(Row(As, op, v.found[j]))
          BY <3>1, <4>1, <5>1, <5>2
        <5> QED BY <5>3 DEF FoundFrom
      <4>2. CASE i \notin 1 .. Len(u.found)
        <5> DEFINE j == u.done + 1
        <5>1. i \in Len(u.found) + 1 .. Len(v.found) /\ j \in 1 .. i - 1 /\ j \in 1 .. Len(u.found)
          BY <3>2, <3>3, <4>2
        <5>2. v.found[i] \in ToSet(Row(As, op, u.found[j])) /\ v.found[j] = u.found[j]
          BY <3>1, <5>1
        <5> HIDE DEF j
        <5>3. v.found[i] \in ToSet(Row(As, op, v.found[j]))
          BY <5>2
        <5> QED BY <5>1, <5>3 DEF FoundFrom
      <4> QED BY <4>1, <4>2
    <3>9. Processed(As, op, start, v)
      BY <3>1, <3>4, <3>5, <3>6, <3>7, <3>8 DEF Processed
    <3> QED BY <3>1, <3>9 DEF v
  <2> QED BY <2>1, <2>2
<1>8. T \in SUBSET D /\ u0 \in D /\ \A u \in D : g[u] = u \/ m[g[u]] < m[u]
  BY <1>2, <1>5, <1>6
<1> HIDE DEF D, T, u0
<1>9. Loop(D, g, u0) \in T /\ g[Loop(D, g, u0)] = Loop(D, g, u0)
  BY ONLY <1>4, <1>6, <1>7, <1>8, LoopEnds
<1> HIDE DEF w
<1>10. w \in T /\ g[w] = w
  BY <1>9 DEF w
<1>11. w \in D /\ Processed(As, op, start, w) /\ g[w] = ProcessFirst(As, op, w) /\ w \in Unprocessed(As)
  BY <1>5, <1>10 DEF T, D
<1>12. w.done = Len(w.found)
  <2> SUFFICES ASSUME w.done # Len(w.found) PROVE FALSE
    OBVIOUS
  <2>1. g[w].done = w.done + 1
    BY <1>11, ProcessStep DEF IsStep
  <2>2. w.done \in Nat
    BY <1>11 DEF Unprocessed
  <2> QED BY <1>10, <2>1, <2>2
<1> DEFINE f == w.found
<1>13. f \in Seq(S) /\ DOMAIN f = 1 .. Len(f) /\ Len(f) \in Nat
  BY <1>11 DEF Unprocessed
<1>14. IsExplored(As, op, start, f)
  BY <1>11, <1>12, <1>13 DEF Processed, IsExplored
<1> DEFINE h == [k \in 1 .. Len(f) |-> Row(As, op, f[k])]
<1>15. Explore(As, op, start) = [found |-> f, targets |-> h \o <<>>]
  BY DEF Explore, MapSeq, Build, w, g, D, u0
<1>16. h \in [1 .. Len(f) -> Seq(S)] /\ \A k \in 1 .. Len(f) : h[k] = Row(As, op, f[k])
  <2>1. \A k \in 1 .. Len(f) : f[k] \in S
    BY <1>13
  <2> QED BY <2>1, RowFacts
<1> HIDE DEF h, f
<1>17. h \o <<>> = h /\ Len(h) = Len(f) /\ DOMAIN h = DOMAIN f
  BY <1>13, <1>16, BuildSeq
<1>18. Explore(As, op, start).found = f /\ Explore(As, op, start).targets = h
  BY <1>15, <1>17
<1> QED BY <1>13, <1>14, <1>16, <1>17, <1>18

-----------------------------------------------------------------------------
(* The states of the DFA *)

\* The characters which start a run, and the last of a run.
Starts(row) == {a \in DOMAIN row : row[a] # {} /\ (a = 1 \/ ~SameRun(row, a - 1, a))}

\* The end of a run: characters with the same target, and no longer run.
LEMMA RunEndFacts ==
    ASSUME NEW S, NEW row \in Seq(S), NEW a \in Starts(row)
    PROVE  /\ RunEnd(row, a) \in a .. Len(row)
           /\ \A c \in a .. RunEnd(row, a) : row[c] = row[a]
           /\ \A c \in a .. Len(row) : (\A x \in a .. c : row[x] = row[a]) => c <= RunEnd(row, a)
<1> DEFINE n == Len(row)
           M == {b \in a .. n : \A c \in a .. b : SameRun(row, a, c)}
           e == RunEnd(row, a)
<1>1. n \in Nat /\ DOMAIN row = 1 .. n /\ a \in 1 .. n /\ row[a] # {}
  BY DEF Starts
<1>2. \A c \in a .. n : SameRun(row, a, c) <=> row[c] = row[a]
  BY <1>1 DEF SameRun
<1>3. a \in M
  BY <1>1, <1>2
<1>4. M \in SUBSET (0 .. n)
  BY <1>1
<1>5. e = CHOOSE x \in M : \A y \in M : x >= y
  BY DEF RunEnd, Max
<1> HIDE DEF M, e, n
<1>6. \E x \in M : \A y \in M : y <= x
  BY ONLY <1>1, <1>3, <1>4, GreatestNumber
<1>7. \A x, y \in M : y <= x <=> x >= y
  BY <1>1, <1>4
<1>8. e \in M /\ \A y \in M : y <= e
  BY <1>5, <1>6, <1>7
<1>9. e \in a .. n /\ \A c \in a .. e : SameRun(row, a, c)
  BY <1>8 DEF M
<1>10. ASSUME NEW c \in a .. e PROVE row[c] = row[a]
  BY <1>9, <1>10 DEF SameRun
<1>11. ASSUME NEW c \in a .. n, \A x \in a .. c : row[x] = row[a] PROVE c <= e
  <2>1. \A x \in a .. c : x \in a .. n
    BY <1>1
  <2>2. c \in M
    BY <1>2, <1>11, <2>1 DEF M
  <2> QED BY <1>8, <2>2
<1> QED BY <1>9, <1>10, <1>11 DEF e, n

\* The runs are disjoint and cover all characters with a target.
LEMMA RunFacts ==
    ASSUME NEW S, NEW row \in Seq(S)
    PROVE  /\ \A a, b \in Starts(row) : a < b => RunEnd(row, a) < b
           /\ \A c \in DOMAIN row : row[c] # {} => \E a \in Starts(row) : c \in a .. RunEnd(row, a) /\ row[a] = row[c]
<1>1. Len(row) \in Nat /\ DOMAIN row = 1 .. Len(row) /\ Starts(row) \subseteq 1 .. Len(row)
  BY DEF Starts
<1>2. ASSUME NEW a \in Starts(row), NEW b \in Starts(row), a < b, ~(RunEnd(row, a) < b) PROVE FALSE
  <2>1. RunEnd(row, a) \in a .. Len(row) /\ \A c \in a .. RunEnd(row, a) : row[c] = row[a]
    BY RunEndFacts
  <2>2. b \in a .. RunEnd(row, a) /\ b - 1 \in a .. RunEnd(row, a) /\ b # 1
    BY <1>1, <1>2, <2>1
  <2>3. row[b] = row[a] /\ row[b - 1] = row[a]
    BY <2>1, <2>2
  <2> QED BY <2>2, <2>3 DEF Starts, SameRun
<1>3. ASSUME NEW c \in DOMAIN row, row[c] # {}
      PROVE  \E a \in Starts(row) : c \in a .. RunEnd(row, a) /\ row[a] = row[c]
  <2> DEFINE L == {a \in 1 .. c : \A x \in a .. c : row[x] = row[c]}
  <2>1. c \in L /\ L \in SUBSET Nat
    BY <1>1
  <2> HIDE DEF L
  <2>2. PICK a \in L : \A y \in L : a <= y
    BY ONLY <2>1, LeastNumber
  <2>3. a \in 1 .. c /\ \A x \in a .. c : row[x] = row[c]
    BY DEF L
  <2>4. a \in 1 .. Len(row) /\ c \in a .. Len(row) /\ c \in 1 .. Len(row) /\ row[a] = row[c]
    BY <1>1, <2>3
  <2>5. a = 1 \/ ~SameRun(row, a - 1, a)
    <3> SUFFICES ASSUME a # 1, SameRun(row, a - 1, a) PROVE FALSE
      OBVIOUS
    <3>1. row[a - 1] = row[c] /\ a - 1 \in 1 .. c
      BY <2>3, <2>4 DEF SameRun
    <3>2. \A x \in a - 1 .. c : x = a - 1 \/ x \in a .. c
      BY <2>4
    <3>3. a - 1 \in L
      BY <2>3, <3>1, <3>2 DEF L
    <3> QED BY <2>2, <2>4, <3>3
  <2>6. a \in Starts(row)
    BY <1>1, <1>3, <2>4, <2>5 DEF Starts
  <2>7. c <= RunEnd(row, a) /\ RunEnd(row, a) \in a .. Len(row)
    BY <2>3, <2>4, <2>6, RunEndFacts
  <2> QED BY <2>4, <2>6, <2>7
<1> QED BY <1>2, <1>3

\* The number of a set.
LEMMA NumberFacts ==
    ASSUME NEW all, NEW kept, NEW m \in Nat, DOMAIN kept = 1 .. m, Len(kept) = m, NEW V
    PROVE  /\ NumberOf(all, kept, V) \in 1 .. m + 1
           /\ \A k \in DOMAIN kept : all.found[kept[k]] = V =>
                 /\ NumberOf(all, kept, V) \in DOMAIN kept
                 /\ all.found[kept[NumberOf(all, kept, V)]] = V
           /\ (\A k \in DOMAIN kept : all.found[kept[k]] # V) => NumberOf(all, kept, V) = m + 1
<1>1. CASE \E k \in DOMAIN kept : all.found[kept[k]] = V
  <2>1. NumberOf(all, kept, V) = CHOOSE k \in DOMAIN kept : all.found[kept[k]] = V
    BY <1>1 DEF NumberOf
  <2>2. NumberOf(all, kept, V) \in DOMAIN kept /\ all.found[kept[NumberOf(all, kept, V)]] = V
    BY <1>1, <2>1
  <2> QED BY <1>1, <2>2
<1>2. CASE ~\E k \in DOMAIN kept : all.found[kept[k]] = V
  <2>1. NumberOf(all, kept, V) = m + 1
    BY <1>2 DEF NumberOf
  <2> QED BY <1>2, <2>1
<1> QED BY <1>1, <1>2

\* The range transitions of the state which a set becomes.
IsRanges(R, all, kept, row) ==
    /\ R \in Seq(Transitions(Len(kept) + 1))
    /\ \A k \in 1 .. Len(R) - 1 : R[k].to < R[k + 1].from
    /\ \A k \in 1 .. Len(R) : R[k].from <= R[k].to
    /\ \A k \in 1 .. Len(R) : \A c \in Chars : InRange(c, R[k]) =>
           row[c + 1] # {} /\ R[k].state = NumberOf(all, kept, row[c + 1])
    /\ \A c \in Chars : row[c + 1] # {} => \E k \in 1 .. Len(R) : InRange(c, R[k])

\* The ranges of a state of a DFA are sorted, disjoint and hold every character
\* with a target once.
LEMMA RangesFacts ==
    ASSUME NEW S, NEW row \in Seq(S), Len(row) = MaxChar + 1,
           NEW all, NEW kept, Len(kept) \in Nat, DOMAIN kept = 1 .. Len(kept)
    PROVE  IsRanges(Ranges(all, kept, row), all, kept, row)
<1> DEFINE n == MaxChar + 1
           K == Starts(row)
           T == Transitions(Len(kept) + 1)
           f == [a \in K |-> RangeTrans(a - 1, RunEnd(row, a) - 1, NumberOf(all, kept, row[a]))]
           s == RunStarts(row)
           R == Ranges(all, kept, row)
<1>1. DOMAIN row = 1 .. n /\ n \in Nat /\ MaxChar \in Nat /\ K \in SUBSET (1 .. n)
  BY AutomatAssumption DEF Starts
<1>2. s = Ascending(K)
  BY DEF RunStarts, Starts
<1> HIDE DEF K, s, R
<1>3. s \in Seq(K) /\ ToSet(s) = K /\ \A i, j \in DOMAIN s : i < j => s[i] < s[j]
  BY <1>1, <1>2, AscendingList
<1>4. \A a \in K : /\ RunEnd(row, a) \in a .. n /\ \A c \in a .. RunEnd(row, a) : row[c] = row[a]
                   /\ row[a] # {}
  BY RunEndFacts DEF K, Starts
<1>5. \A a \in K : f[a] = [from |-> a - 1, to |-> RunEnd(row, a) - 1, state |-> NumberOf(all, kept, row[a])]
  BY DEF RangeTrans
<1> HIDE DEF f
<1>c. ASSUME NEW a \in K
      PROVE  /\ f[a] \in T /\ f[a].from <= f[a].to
             /\ f[a].from = a - 1 /\ f[a].to = RunEnd(row, a) - 1
             /\ f[a].state = NumberOf(all, kept, row[a])
  <2>1. a \in 1 .. n /\ RunEnd(row, a) \in a .. n
    BY <1>1, <1>4
  <2>2. a - 1 \in Chars /\ RunEnd(row, a) - 1 \in Chars /\ a - 1 <= RunEnd(row, a) - 1
    BY <1>1, <2>1 DEF Chars
  <2>3. NumberOf(all, kept, row[a]) \in 1 .. Len(kept) + 1
    BY NumberFacts
  <2> DEFINE x == a - 1
             y == RunEnd(row, a) - 1
             z == NumberOf(all, kept, row[a])
  <2>4. f[a] = [from |-> x, to |-> y, state |-> z]
    BY <1>5
  <2>5. x \in Chars /\ y \in Chars /\ x <= y /\ z \in 1 .. Len(kept) + 1
    BY <2>2, <2>3
  <2> HIDE DEF x, y, z
  <2>6. f[a] \in T /\ f[a].from <= f[a].to /\ f[a].from = x /\ f[a].to = y /\ f[a].state = z
    BY ONLY <2>4, <2>5 DEF Transitions
  <2> QED BY <2>6 DEF x, y, z
<1>6. \A a \in K : /\ f[a].from = a - 1 /\ f[a].to = RunEnd(row, a) - 1
                   /\ f[a].state = NumberOf(all, kept, row[a])
  BY <1>c
<1>7. \A a \in K : f[a] \in T /\ f[a].from <= f[a].to
  BY <1>c
<1>8. f \in [K -> T]
  BY <1>7 DEF f
<1>9. DOMAIN s = 1 .. Len(s) /\ Len(s) \in Nat /\ \A k \in 1 .. Len(s) : s[k] \in K
  BY <1>3
<1> DEFINE h == [k \in 1 .. Len(s) |-> f[s[k]]]
<1>d. R = h \o <<>>
  <2> DEFINE g == [k \in 1 .. Len(s) |-> RangeTrans(s[k] - 1, RunEnd(row, s[k]) - 1, NumberOf(all, kept, row[s[k]]))]
  <2>2. R = g \o <<>>
    BY DEF R, s, Ranges, MapSeq, Build
  <2>3. g = h
    BY <1>9, <1>5 DEF RangeTrans
  <2> HIDE DEF g, h
  <2> QED BY <2>2, <2>3
<1> HIDE DEF T
<1>e. h \in [1 .. Len(s) -> T] /\ \A k \in 1 .. Len(s) : h[k] = f[s[k]]
  BY <1>7, <1>9
<1> HIDE DEF h
<1>10. R \in Seq(T) /\ Len(R) = Len(s) /\ \A k \in 1 .. Len(s) : R[k] = f[s[k]]
  <2>1. h \o <<>> = h /\ h \in Seq(T) /\ Len(h) = Len(s)
    BY ONLY <1>9, <1>e, BuildSeq
  <2> QED BY <1>d, <1>e, <2>1
<1>12. ASSUME NEW k \in 1 .. Len(R) - 1 PROVE R[k].to < R[k + 1].from
  <2>1. k \in 1 .. Len(s) /\ k + 1 \in 1 .. Len(s) /\ k < k + 1
    BY <1>10, <1>9
  <2>2. s[k] \in K /\ s[k + 1] \in K /\ s[k] < s[k + 1]
    BY <1>3, <1>9, <2>1
  <2>3. RunEnd(row, s[k]) < s[k + 1]
    BY <2>2, RunFacts DEF K
  <2>4. R[k].to = RunEnd(row, s[k]) - 1 /\ R[k + 1].from = s[k + 1] - 1
    BY <1>6, <1>10, <2>1, <2>2
  <2>5. RunEnd(row, s[k]) \in s[k] .. n /\ s[k] \in 1 .. n /\ s[k + 1] \in 1 .. n
    BY <1>1, <1>4, <2>2
  <2> QED BY <2>3, <2>4, <2>5
<1>13. \A k \in 1 .. Len(R) : R[k].from <= R[k].to
  BY <1>7, <1>10, <1>9
<1>14. ASSUME NEW k \in 1 .. Len(R), NEW c \in Chars, InRange(c, R[k])
       PROVE  row[c + 1] # {} /\ R[k].state = NumberOf(all, kept, row[c + 1])
  <2>1. s[k] \in K /\ R[k] = f[s[k]] /\ s[k] \in 1 .. n
    BY <1>1, <1>10, <1>9
  <2>2. s[k] - 1 <= c /\ c <= RunEnd(row, s[k]) - 1
    BY <1>6, <1>14, <2>1 DEF InRange
  <2>3. RunEnd(row, s[k]) \in s[k] .. n /\ row[s[k]] # {}
    BY <1>4, <2>1
  <2>4. c + 1 \in s[k] .. RunEnd(row, s[k])
    BY <2>1, <2>2, <2>3 DEF Chars
  <2>5. row[c + 1] = row[s[k]]
    BY <1>4, <2>1, <2>4
  <2> QED BY <1>6, <2>1, <2>3, <2>5
<1>15. ASSUME NEW c \in Chars, row[c + 1] # {} PROVE \E k \in 1 .. Len(R) : InRange(c, R[k])
  <2>1. c + 1 \in DOMAIN row /\ c \in Nat
    BY <1>1 DEF Chars
  <2>2. PICK a \in K : c + 1 \in a .. RunEnd(row, a)
    BY <1>15, <2>1, RunFacts DEF K
  <2>3. PICK k \in 1 .. Len(s) : s[k] = a
    BY <1>3, <1>9 DEF ToSet
  <2>4. R[k] = f[a]
    BY <1>10, <2>3
  <2>5. a \in 1 .. n /\ RunEnd(row, a) \in a .. n
    BY <1>1, <1>4
  <2>7. R[k].from = a - 1 /\ R[k].to = RunEnd(row, a) - 1
    BY <1>6, <2>4
  <2>8. a - 1 <= c /\ c <= RunEnd(row, a) - 1
    BY ONLY <2>1, <2>2, <2>5, <1>1
  <2>6. R[k].from <= c /\ c <= R[k].to
    BY ONLY <2>7, <2>8, Zenon
  <2> QED BY <1>10, <2>3, <2>6 DEF InRange
<1> QED BY <1>10, <1>12, <1>13, <1>14, <1>15 DEF IsRanges, T, R

\* What the explored sets look like.
IsAll(all, As, op) ==
    /\ all.found \in Seq(SUBSET Places(As)) /\ Len(all.found) >= 1
    /\ Len(all.targets) = Len(all.found) /\ DOMAIN all.targets = DOMAIN all.found
    /\ \A i \in DOMAIN all.found : all.targets[i] = Row(As, op, all.found[i])

\* The sets which become states.
IsKept(As, op, all, i) == i = 1 \/ ~IsEnd(As, op, all.found[i]) \/ \E W \in ToSet(all.targets[i]) : W # {}

\* The automaton A which is made of the sets kept.
IsConverted(A, As, op, all, kept) ==
    /\ kept \in Seq(DOMAIN all.found) /\ Len(kept) >= 1 /\ kept[1] = 1
    /\ \A i, j \in DOMAIN kept : i < j => kept[i] < kept[j]
    /\ \A i \in DOMAIN all.found : i \in ToSet(kept) <=> IsKept(As, op, all, i)
    /\ WellFormed(A) /\ Len(A) = Len(kept) + 1 /\ A[Len(A)] = EmptyState(<<Len(A)>>)
    /\ \A k \in DOMAIN kept : /\ IsEnd(As, op, all.found[kept[k]]) => A[k].empty = <<Len(A)>>
                              /\ ~IsEnd(As, op, all.found[kept[k]]) => A[k].empty = <<>>
                              /\ IsRanges(A[k].range, all, kept, all.targets[kept[k]])

\* convert_statevector: the states of the DFA are the kept sets.
LEMMA ConvertFacts ==
    ASSUME NEW As, NEW op, Operands(As, op), NEW all, IsAll(all, As, op)
    PROVE  IsConverted(ConvertSets(As, op, all), As, op, all, KeptSets(As, op, all))
<1> DEFINE m == Len(all.found)
           K == {i \in DOMAIN all.found : IsKept(As, op, all, i)}
           kept == KeptSets(As, op, all)
           n == Len(kept)
           N == n + 1
           A == ConvertSets(As, op, all)
           S == StatesOf(N)
<1>1. m \in Nat /\ m >= 1 /\ DOMAIN all.found = 1 .. m /\ K \in SUBSET (1 .. m) /\ 1 \in K
  BY DEF IsAll, IsKept
<1>2. kept = Ascending(K)
  BY DEF KeptSets, IsKept
<1> HIDE DEF kept, K
<1>3. /\ kept \in Seq(K) /\ ToSet(kept) = K
      /\ \A i, j \in DOMAIN kept : i < j => kept[i] < kept[j]
  BY <1>1, <1>2, AscendingList
<1>4. n \in Nat /\ DOMAIN kept = 1 .. n /\ \A k \in 1 .. n : kept[k] \in K
  BY <1>3
<1>5. n >= 1 /\ kept[1] = 1
  <2>1. PICK k \in 1 .. n : kept[k] = 1
    BY <1>1, <1>3, <1>4 DEF ToSet
  <2>2. k = 1
    <3> SUFFICES ASSUME k # 1 PROVE FALSE
      OBVIOUS
    <3>1. 1 \in DOMAIN kept /\ 1 < k /\ k \in DOMAIN kept
      BY <1>4
    <3>2. kept[1] < 1 /\ kept[1] \in 1 .. m
      BY <1>1, <1>3, <1>4, <2>1, <3>1
    <3> QED BY <1>1, <3>2
  <2> QED BY <1>4, <2>1, <2>2
<1>6. kept \in Seq(DOMAIN all.found)
  <2>1. \A k \in 1 .. n : kept[k] \in 1 .. m
    BY <1>1, <1>4
  <2>2. kept \in Seq(1 .. m)
    BY <1>3, <1>4, <2>1
  <2> QED BY <1>1, <2>2
<1>7. \A i \in DOMAIN all.found : i \in ToSet(kept) <=> IsKept(As, op, all, i)
  BY <1>3 DEF K
<1> DEFINE z(i) == [empty |-> IF IsEnd(As, op, all.found[i]) THEN <<N>> ELSE <<>>,
                    range |-> Ranges(all, kept, all.targets[i])]
           h == [k \in 1 .. n |-> z(kept[k])]
           b == h \o <<>>
           e == EmptyState(<<N>>)
<1>8. A = Append(b, e)
  BY DEF A, kept, ConvertSets, ListStates, MapSeq, Build
<1>9. \A k \in 1 .. n : h[k] = z(kept[k])
  OBVIOUS
<1> HIDE DEF h
<1>10. ASSUME NEW k \in 1 .. n
       PROVE  /\ IsRanges(Ranges(all, kept, all.targets[kept[k]]), all, kept, all.targets[kept[k]])
              /\ h[k] \in S /\ h[k].range = Ranges(all, kept, all.targets[kept[k]])
              /\ IsEnd(As, op, all.found[kept[k]]) => h[k].empty = <<N>>
              /\ ~IsEnd(As, op, all.found[kept[k]]) => h[k].empty = <<>>
  <2> DEFINE i == kept[k]
             row == all.targets[i]
             R == Ranges(all, kept, row)
  <2>a. i \in DOMAIN all.found /\ all.found \in Seq(SUBSET Places(As))
    BY <1>1, <1>4 DEF IsAll
  <2>b. row = Row(As, op, all.found[i])
    BY <2>a DEF IsAll
  <2>1. i \in DOMAIN all.found /\ all.found[i] \in SUBSET Places(As) /\ row = Row(As, op, all.found[i])
    BY ONLY <2>a, <2>b
  <2>2. Row(As, op, all.found[i]) \in Seq(SUBSET Places(As)) /\ Len(Row(As, op, all.found[i])) = MaxChar + 1
    BY <2>1, RowFacts
  <2>3. row \in Seq(SUBSET Places(As)) /\ Len(row) = MaxChar + 1
    BY <2>1, <2>2
  <2> HIDE DEF row
  <2>4. IsRanges(R, all, kept, row)
    BY ONLY <1>4, <2>3, RangesFacts
  <2> HIDE DEF R
  <2>5. h[k] = [empty |-> IF IsEnd(As, op, all.found[i]) THEN <<N>> ELSE <<>>, range |-> R]
    BY <1>9 DEF R, row
  <2>6. R \in Seq(Transitions(N))
    BY <2>4 DEF IsRanges
  <2>7. N \in 1 .. N /\ <<N>> \in Seq(1 .. N) /\ <<>> \in Seq(1 .. N)
    BY <1>4
  <2> HIDE DEF N, i
  <2>8. CASE IsEnd(As, op, all.found[i])
    <3>1. h[k] = [empty |-> <<N>>, range |-> R]
      BY <2>5, <2>8
    <3>2. h[k] \in S /\ h[k].range = R /\ h[k].empty = <<N>>
      BY <2>6, <2>7, <3>1 DEF StatesOf
    <3> QED BY <2>4, <2>8, <3>2 DEF R, row, i
  <2>9. CASE ~IsEnd(As, op, all.found[i])
    <3>1. h[k] = [empty |-> <<>>, range |-> R]
      BY <2>5, <2>9
    <3>2. h[k] \in S /\ h[k].range = R /\ h[k].empty = <<>>
      BY <2>6, <2>7, <3>1 DEF StatesOf
    <3> QED BY <2>4, <2>9, <3>2 DEF R, row, i
  <2> QED BY <2>8, <2>9
<1> HIDE DEF S
<1>11. h \in [1 .. n -> S]
  <2>1. \A k \in 1 .. n : h[k] \in S
    BY <1>10
  <2>2. h = [k \in 1 .. n |-> h[k]]
    BY DEF h
  <2> QED BY <2>1, <2>2
<1>12. b = h /\ b \in Seq(S) /\ Len(b) = n
  BY ONLY <1>4, <1>11, BuildSeq
<1> HIDE DEF b
<1>13. N \in Nat /\ N \in 1 .. N /\ N >= 2 /\ <<N>> \in Seq(1 .. N)
  BY <1>4, <1>5
<1> HIDE DEF e, A
<1>14. e \in S /\ e.empty = <<N>> /\ e.range = <<>>
  BY <1>13 DEF e, EmptyState, S, StatesOf
<1>15. /\ A \in Seq(S) /\ Len(A) = N /\ A[N] = e
       /\ \A k \in 1 .. n : A[k] = h[k]
  BY <1>4, <1>8, <1>12, <1>14
<1>16. WellFormed(A)
  <2>1. A[Len(A)].empty # <<>> /\ Last(A[Len(A)].empty) = Len(A)
    <3>1. A[Len(A)].empty = <<N>> /\ Len(A) = N
      BY <1>14, <1>15
    <3>2. <<N>> # <<>> /\ Last(<<N>>) = N
      BY DEF Last
    <3> HIDE DEF N
    <3> QED BY ONLY <3>1, <3>2
  <2> QED BY <1>13, <1>15, <2>1 DEF WellFormed, S
<1>17. A[Len(A)] = EmptyState(<<Len(A)>>)
  BY <1>15 DEF e
<1>18. \A k \in DOMAIN kept : /\ IsEnd(As, op, all.found[kept[k]]) => A[k].empty = <<Len(A)>>
                              /\ ~IsEnd(As, op, all.found[kept[k]]) => A[k].empty = <<>>
                              /\ IsRanges(A[k].range, all, kept, all.targets[kept[k]])
  BY <1>4, <1>10, <1>15
<1> QED BY <1>3, <1>5, <1>6, <1>7, <1>15, <1>16, <1>17, <1>18 DEF IsConverted, kept, A

-----------------------------------------------------------------------------
(* Deterministic automata *)

\* What the binary search of matchchar32_dfa_automat relies on.
IsDeterministic(A) ==
    /\ \A i \in DOMAIN A : /\ \A k \in 1 .. Len(A[i].range) - 1 : A[i].range[k].to < A[i].range[k + 1].from
                           /\ \A k \in 1 .. Len(A[i].range) : A[i].range[k].from <= A[i].range[k].to
                           /\ A[i].empty \in {<<>>, <<Len(A)>>}
    /\ A[Len(A)].range = <<>>

\* What makedfa2_automat builds is deterministic.
LEMMA ConvertedDeterministic ==
    ASSUME NEW As, NEW op, NEW all, NEW kept, NEW A, IsConverted(A, As, op, all, kept)
    PROVE  IsDeterministic(A) /\ WellFormed(A)
<1>1. /\ WellFormed(A) /\ A[Len(A)] = EmptyState(<<Len(A)>>) /\ Len(A) = Len(kept) + 1
      /\ DOMAIN kept = 1 .. Len(kept) /\ Len(kept) \in Nat
  BY DEF IsConverted
<1>2. DOMAIN A = 1 .. Len(A) /\ Len(A) \in Nat
  BY <1>1, MoveFacts
<1>3. A[Len(A)].range = <<>> /\ A[Len(A)].empty = <<Len(A)>>
  BY <1>1 DEF EmptyState
<1>4. ASSUME NEW i \in DOMAIN A
      PROVE  /\ \A k \in 1 .. Len(A[i].range) - 1 : A[i].range[k].to < A[i].range[k + 1].from
             /\ \A k \in 1 .. Len(A[i].range) : A[i].range[k].from <= A[i].range[k].to
             /\ A[i].empty \in {<<>>, <<Len(A)>>}
  <2>1. CASE i = Len(A)
    <3>1. Len(A[i].range) = 0 /\ A[i].empty = <<Len(A)>>
      BY <1>3, <2>1
    <3> QED BY <3>1
  <2>2. CASE i # Len(A)
    <3>1. i \in DOMAIN kept
      BY <1>1, <1>2, <2>2
    <3>2. A[i].empty \in {<<>>, <<Len(A)>>} /\ IsRanges(A[i].range, all, kept, all.targets[kept[i]])
      BY <3>1 DEF IsConverted
    <3> QED BY <3>2 DEF IsRanges
  <2> QED BY <2>1, <2>2
<1> QED BY <1>1, <1>3, <1>4 DEF IsDeterministic

\* A DFA has no empty transition but those to the end state, hence no trap.
LEMMA DeterministicTraps ==
    ASSUME NEW A, WellFormed(A), IsDeterministic(A)
    PROVE  GoodAutomaton(A)
<1>1. \A s \in DOMAIN A : \A u : EmptyMove(A, s, u) => u = Len(A)
  <2> SUFFICES ASSUME NEW s \in DOMAIN A, NEW u, EmptyMove(A, s, u) PROVE u = Len(A)
    OBVIOUS
  <2>1. A[s].empty = <<>> \/ A[s].empty = <<Len(A)>>
    BY DEF IsDeterministic
  <2>2. u \in ToSet(A[s].empty)
    BY DEF EmptyMove
  <2> QED BY <2>1, <2>2 DEF ToSet
<1>2. ASSUME NEW X, IsOutTrap(A, X), NEW s \in X PROVE FALSE
  <2>1. PICK t \in X : t # s /\ \A u \in DOMAIN A \ {s} : EmptyMove(A, s, u) <=> u = t
    BY <1>2 DEF IsOutTrap
  <2>2. s \in DOMAIN A /\ t \in DOMAIN A \ {s} /\ t # Len(A)
    BY <1>2, <2>1 DEF IsOutTrap
  <2> QED BY <1>1, <2>1, <2>2
<1>3. ASSUME NEW X, IsInTrap(A, X), NEW s \in X PROVE FALSE
  <2>1. PICK t \in X : t # s /\ \A u \in DOMAIN A \ {s} : EmptyMove(A, u, s) <=> u = t
    BY <1>3 DEF IsInTrap
  <2>2. PICK v \in X : v # t /\ \A u \in DOMAIN A \ {t} : EmptyMove(A, u, t) <=> u = v
    BY <1>3, <2>1 DEF IsInTrap
  <2>3. s \in DOMAIN A /\ t \in DOMAIN A /\ v \in DOMAIN A
    BY <1>3, <2>1, <2>2 DEF IsInTrap
  <2>4. EmptyMove(A, t, s) /\ EmptyMove(A, v, t)
    BY <2>1, <2>2, <2>3
  <2> QED BY <1>1, <2>1, <2>3, <2>4
<1> QED BY <1>2, <1>3 DEF GoodAutomaton, NoTraps

\* remove_single_empty_transitions leaves a DFA deterministic.
LEMMA ShortenedDeterministic ==
    ASSUME NEW A, GoodAutomaton(A), IsDeterministic(A)
    PROVE  IsDeterministic(RemoveSingle(A))
<1> DEFINE B == RemoveSingle(A)
<1>1. IsShortened(B, A)
  BY ShortenedStates
<1>2. WellFormed(A) /\ DOMAIN A = 1 .. Len(A) /\ Len(A) \in DOMAIN A /\ Len(A) \in Nat /\ A \in Seq(StatesOf(Len(A)))
  BY MoveFacts DEF GoodAutomaton, WellFormed
<1> HIDE DEF B
<1>3. WellFormed(B) /\ Len(B) = Len(A) /\ DOMAIN B = DOMAIN A
  BY <1>1, <1>2, MoveFacts DEF IsShortened
<1>4. A[Len(A)].range = <<>> /\ A[Len(A)].empty = <<Len(A)>>
  <2>1. A[Len(A)].empty # <<>>
    BY <1>2 DEF WellFormed
  <2> QED BY <1>2, <2>1 DEF IsDeterministic
<1>5. ChainEnd(A, Len(A)) = Len(A)
  <2>1. Single(A, Len(A)) /\ A[Len(A)].empty[1] = Len(A)
    BY <1>4 DEF Single
  <2> QED BY <1>2, <2>1, ChainEndFacts
<1>6. ASSUME NEW s \in DOMAIN A PROVE B[s].empty \in {<<>>, <<Len(B)>>}
  <2>1. CASE Single(A, s)
    <3>0. Len(A[s].empty) = 1 /\ Len(<<>>) = 0
      BY <2>1 DEF Single
    <3>1. A[s].empty # <<>>
      BY <3>0
    <3>2. A[s].empty = <<Len(A)>>
      BY <3>1 DEF IsDeterministic
    <3>4. A[s].empty[1] = Len(A)
      BY <3>2
    <3>5. ChainEnd(A, s) = ChainEnd(A, A[s].empty[1])
      BY <2>1, ChainEndFacts
    <3>3. ChainEnd(A, s) = Len(A)
      BY <1>5, <3>4, <3>5
    <3> QED BY <1>1, <1>3, <2>1, <3>3 DEF IsShortened
  <2>2. CASE ~Single(A, s)
    BY <1>1, <1>3, <2>2 DEF IsShortened, IsDeterministic
  <2> QED BY <2>1, <2>2
<1>7. ASSUME NEW s \in DOMAIN A
      PROVE  /\ Len(B[s].range) = Len(A[s].range) /\ Len(A[s].range) \in Nat
             /\ \A k \in 1 .. Len(A[s].range) :
                  B[s].range[k].from = A[s].range[k].from /\ B[s].range[k].to = A[s].range[k].to
  <2>1. A[s].range \in Seq(Transitions(Len(A)))
    BY <1>2, StateFacts
  <2>2. ASSUME NEW k \in 1 .. Len(A[s].range)
        PROVE  B[s].range[k].from = A[s].range[k].from /\ B[s].range[k].to = A[s].range[k].to
    <3> DEFINE r == A[s].range[k]
    <3>1. r \in Transitions(Len(A))
      BY <2>1
    <3>2. B[s].range[k] = [r EXCEPT !.state = ChainEnd(A, r.state)]
      BY <1>1 DEF IsShortened
    <3> HIDE DEF r
    <3>3. B[s].range[k].from = r.from /\ B[s].range[k].to = r.to
      BY <3>1, <3>2 DEF Transitions
    <3> QED BY <3>3 DEF r
  <2> QED BY <1>1, <2>1, <2>2 DEF IsShortened
<1>8. ASSUME NEW s \in DOMAIN A
      PROVE  /\ \A k \in 1 .. Len(B[s].range) - 1 : B[s].range[k].to < B[s].range[k + 1].from
             /\ \A k \in 1 .. Len(B[s].range) : B[s].range[k].from <= B[s].range[k].to
  <2>1. ASSUME NEW k \in 1 .. Len(B[s].range) - 1 PROVE B[s].range[k].to < B[s].range[k + 1].from
    <3>1. k \in 1 .. Len(A[s].range) /\ k + 1 \in 1 .. Len(A[s].range) /\ k \in 1 .. Len(A[s].range) - 1
      BY <1>7
    <3>2. A[s].range[k].to < A[s].range[k + 1].from
      BY <3>1 DEF IsDeterministic
    <3> QED BY <1>7, <3>1, <3>2
  <2>2. ASSUME NEW k \in 1 .. Len(B[s].range) PROVE B[s].range[k].from <= B[s].range[k].to
    <3>1. k \in 1 .. Len(A[s].range)
      BY <1>7
    <3>2. A[s].range[k].from <= A[s].range[k].to
      BY <3>1 DEF IsDeterministic
    <3> QED BY <1>7, <3>1, <3>2
  <2> QED BY <2>1, <2>2
<1>9. B[Len(B)].range = <<>>
  <2>1. Len(B[Len(A)].range) = 0
    BY <1>2, <1>4, <1>7
  <2>2. B \in Seq(StatesOf(Len(B))) /\ Len(B) \in DOMAIN B /\ Len(B) \in Nat
    BY <1>2, <1>3 DEF WellFormed
  <2>3. B[Len(B)].range \in Seq(Transitions(Len(B)))
    BY <2>2, StateFacts
  <2> QED BY <1>3, <2>1, <2>3
<1> QED BY <1>3, <1>6, <1>8, <1>9 DEF IsDeterministic, B

-----------------------------------------------------------------------------
(* makedfa_automat and makedfa2_automat *)

Shortened(Bs) == MapSeq(Bs, RemoveSingle)
StartSet(As) == Follow(As, {<<k, 1>> : k \in DOMAIN As})

\* The automata makedfa2_automat works on.
GoodOperands(Bs, op) ==
    /\ DOMAIN Bs = 1 .. Len(Bs) /\ Len(Bs) \in {1, 2}
    /\ op \in Operations /\ (op # "DFA" => Len(Bs) = 2)
    /\ \A k \in DOMAIN Bs : GoodAutomaton(Bs[k])

\* The operands of makedfa2_automat after remove_single_empty_transitions.
LEMMA ShortenedOperands ==
    ASSUME NEW Bs, NEW op, GoodOperands(Bs, op)
    PROVE  /\ Operands(Shortened(Bs), op) /\ DOMAIN Shortened(Bs) = DOMAIN Bs
           /\ Len(Shortened(Bs)) = Len(Bs)
           /\ \A k \in DOMAIN Bs : Shortened(Bs)[k] = RemoveSingle(Bs[k])
<1> DEFINE n == Len(Bs)
           h == [k \in 1 .. n |-> RemoveSingle(Bs[k])]
           S == {h[k] : k \in 1 .. n}
<1>1. n \in Nat /\ DOMAIN Bs = 1 .. n
  BY DEF GoodOperands
<1>2. Shortened(Bs) = h \o <<>>
  BY DEF Shortened, MapSeq, Build
<1>3. h \in [1 .. n -> S] /\ \A k \in 1 .. n : h[k] = RemoveSingle(Bs[k])
  OBVIOUS
<1> HIDE DEF h, S
<1>4. h \o <<>> = h /\ Len(h) = n /\ h \in Seq(S)
  BY ONLY <1>1, <1>3, BuildSeq
<1>5. DOMAIN h = 1 .. n
  BY <1>3
<1>6. \A k \in 1 .. n : WellFormed(RemoveSingle(Bs[k]))
  BY <1>1, ShortenedGood DEF GoodOperands, GoodAutomaton
<1> HIDE DEF n
<1>7. Operands(h, op)
  <2>1. /\ n \in {1, 2} /\ op \in Operations /\ (op # "DFA" => n = 2)
    BY DEF GoodOperands, n
  <2> QED BY <1>3, <1>4, <1>5, <1>6, <2>1 DEF Operands
<1> QED BY <1>1, <1>2, <1>3, <1>4, <1>5, <1>7 DEF n

\* The first set of the construction.
LEMMA StartSetFacts ==
    ASSUME NEW As, NEW op, Operands(As, op)
    PROVE  StartSet(As) \in SUBSET Places(As) /\ {<<k, 1>> : k \in DOMAIN As} \in SUBSET Places(As)
<1>1. \A k \in DOMAIN As : 1 \in DOMAIN As[k]
  BY MoveFacts DEF Operands
<1>2. {<<k, 1>> : k \in DOMAIN As} \in SUBSET Places(As)
  BY <1>1, PlacesFacts
<1> QED BY <1>2, FollowFacts DEF StartSet

\* The sets which are explored.
Explored(Bs, op) == Explore(Shortened(Bs), op, StartSet(Shortened(Bs)))
KeptOf(Bs, op) == KeptSets(Shortened(Bs), op, Explored(Bs, op))

\* makedfa_automat and makedfa2_automat: what they explore and what they build.
LEMMA MakeDFAFacts ==
    ASSUME NEW Bs, NEW op, GoodOperands(Bs, op)
    PROVE  /\ Operands(Shortened(Bs), op)
           /\ IsExplored(Shortened(Bs), op, StartSet(Shortened(Bs)), Explored(Bs, op).found)
           /\ IsAll(Explored(Bs, op), Shortened(Bs), op)
           /\ IsConverted(MakeDFA(Bs, op), Shortened(Bs), op, Explored(Bs, op), KeptOf(Bs, op))
<1> DEFINE As == Shortened(Bs)
           start == StartSet(As)
           all == Explored(Bs, op)
<1>1. Operands(As, op)
  BY ShortenedOperands
<1>2. start \in SUBSET Places(As)
  BY <1>1, StartSetFacts
<1>3. all = Explore(As, op, start)
  BY DEF Explored
<1>4. MakeDFA(Bs, op) = ConvertSets(As, op, all) /\ KeptOf(Bs, op) = KeptSets(As, op, all)
  BY DEF MakeDFA, Determinize, Explored, KeptOf, StartSet, Shortened
<1> HIDE DEF As, start
<1>5. IsExplored(As, op, start, Explore(As, op, start).found)
  BY ONLY <1>1, <1>2, ExploreFacts
<1>6. /\ Len(Explore(As, op, start).targets) = Len(Explore(As, op, start).found)
      /\ DOMAIN Explore(As, op, start).targets = DOMAIN Explore(As, op, start).found
      /\ \A i \in DOMAIN Explore(As, op, start).found :
            Explore(As, op, start).targets[i] = Row(As, op, Explore(As, op, start).found[i])
  BY ONLY <1>1, <1>2, ExploreFacts
<1> HIDE DEF all
<1>7. IsAll(all, As, op)
  BY <1>3, <1>5, <1>6 DEF IsAll, IsExplored
<1>8. IsConverted(ConvertSets(As, op, all), As, op, all, KeptSets(As, op, all))
  BY ONLY <1>1, <1>7, ConvertFacts
<1> QED BY <1>1, <1>3, <1>4, <1>5, <1>7, <1>8 DEF As, all, start

\* What it builds is a DFA.
LEMMA MakeDFAGood ==
    ASSUME NEW Bs, NEW op, GoodOperands(Bs, op)
    PROVE  GoodAutomaton(MakeDFA(Bs, op)) /\ IsDeterministic(MakeDFA(Bs, op))
<1>1. IsConverted(MakeDFA(Bs, op), Shortened(Bs), op, Explored(Bs, op), KeptOf(Bs, op))
  BY MakeDFAFacts
<1>2. IsDeterministic(MakeDFA(Bs, op)) /\ WellFormed(MakeDFA(Bs, op))
  BY <1>1, ConvertedDeterministic
<1> QED BY <1>2, DeterministicTraps

-----------------------------------------------------------------------------
(* What the functions of the interface build *)

\* An automaton and whether it is a DFA.
GoodResult(A, dfa) == GoodAutomaton(A) /\ (dfa => IsDeterministic(A))

\* Automata with two states can be operands.
LEMMA MatchGood ==
    ASSUME NEW A, NEW L, IsMatch(A, L)
    PROVE  GoodAutomaton(A)
BY TwoStatesTraps DEF IsMatch

\* The operands of a single automaton and of two.
LEMMA OneOperand ==
    ASSUME NEW A, GoodAutomaton(A)
    PROVE  /\ GoodOperands(<<A>>, "DFA")
           /\ <<A>>[1] = A /\ DOMAIN <<A>> = {1} /\ Len(<<A>>) = 1
BY DEF GoodOperands, Operations

\* The operands of opand_automat and opandnot_automat.
LEMMA TwoOperands ==
    ASSUME NEW A, NEW B, GoodAutomaton(A), GoodAutomaton(B), NEW op \in {"OP_AND", "OP_AND_NOT"}
    PROVE  /\ GoodOperands(<<A, B>>, op)
           /\ <<A, B>>[1] = A /\ <<A, B>>[2] = B /\ DOMAIN <<A, B>> = {1, 2} /\ Len(<<A, B>>) = 2
<1>1. <<A, B>>[1] = A /\ <<A, B>>[2] = B /\ DOMAIN <<A, B>> = 1 .. 2 /\ Len(<<A, B>>) = 2
  OBVIOUS
<1>2. \A k \in 1 .. 2 : GoodAutomaton(<<A, B>>[k])
  <2> SUFFICES ASSUME NEW k \in 1 .. 2 PROVE GoodAutomaton(<<A, B>>[k])
    OBVIOUS
  <2>1. k = 1 \/ k = 2
    OBVIOUS
  <2> QED BY <1>1, <2>1
<1>3. 1 .. 2 = {1, 2}
  OBVIOUS
<1> QED BY <1>1, <1>2, <1>3 DEF GoodOperands, Operations

\* The automaton which matches every string.
AnyChars == Match(<<<<0, MaxChar>>>>)

\* opnot_automat: the automaton for any string can be an operand.
LEMMA AnyCharsGood ==
    /\ <<<<0, MaxChar>>>> \in Seq(Chars \X Chars)
    /\ GoodAutomaton(AnyChars) /\ GoodAutomaton(OpRepeat(AnyChars, FALSE))
<1>1. 0 \in Chars /\ MaxChar \in Chars
  BY AutomatAssumption DEF Chars
<1>2. <<<<0, MaxChar>>>> \in Seq(Chars \X Chars)
  BY <1>1
<1>3. GoodAutomaton(AnyChars)
  BY <1>2, MatchStates, MatchGood DEF AnyChars
<1>4. IsRepeated(OpRepeat(AnyChars, FALSE), AnyChars, Repeated(FALSE), Repeated(FALSE) + Len(AnyChars) + 1)
  BY <1>3, RepeatStates DEF GoodAutomaton
<1>5. Repeated(FALSE) \in {1, 2}
  BY DEF Repeated
<1>6. GoodAutomaton(OpRepeat(AnyChars, FALSE))
  BY <1>3, <1>4, <1>5, RepeatTraps
<1> QED BY <1>2, <1>3, <1>6

\* Every operation builds a good automaton out of good ones.
LEMMA ResultsAreGood ==
    /\ GoodAutomaton(Empty)
    /\ \A r \in Matches : GoodAutomaton(Match(r)) /\ GoodAutomaton(ExtendMatch(Match(r), Extend))
    /\ \A A : GoodAutomaton(A) =>
          /\ GoodAutomaton(OpReverse(A)) /\ GoodAutomaton(OpRepeat(A, TRUE)) /\ GoodAutomaton(OpRepeat(A, FALSE))
          /\ GoodResult(MakeDFA(<<A>>, "DFA"), TRUE) /\ GoodResult(Minimize(A), TRUE) /\ GoodResult(OpNot(A), TRUE)
          /\ \A d : GoodResult(A, d) => GoodResult(RemoveSingle(A), d)
    /\ \A A, B : GoodAutomaton(A) /\ GoodAutomaton(B) =>
          /\ GoodAutomaton(OpSequence(A, B)) /\ GoodAutomaton(OpOr(A, B))
          /\ \A op \in {"OP_AND", "OP_AND_NOT"} : GoodResult(MakeDFA(<<A, B>>, op), TRUE)
<1>1. GoodAutomaton(Empty)
  BY EmptyWellFormed, TwoStatesTraps
<1>2. ASSUME NEW r \in Matches PROVE GoodAutomaton(Match(r)) /\ GoodAutomaton(ExtendMatch(Match(r), Extend))
  <2>1. r \in Seq(Chars \X Chars) /\ Extend \in Seq(Chars \X Chars)
    BY AutomatAssumption
  <2>2. IsMatch(Match(r), WordsOf(r))
    BY <2>1, MatchStates
  <2>3. IsMatch(ExtendMatch(Match(r), Extend), WordsOf(r) \cup WordsOf(Extend))
    BY <2>1, ExtendStates
  <2> QED BY <2>2, <2>3, MatchGood
<1>3. ASSUME NEW A, GoodAutomaton(A) PROVE GoodResult(MakeDFA(<<A>>, "DFA"), TRUE)
  BY <1>3, OneOperand, MakeDFAGood DEF GoodResult
<1>4. ASSUME NEW A, NEW B, GoodAutomaton(A), GoodAutomaton(B), NEW op \in {"OP_AND", "OP_AND_NOT"}
      PROVE  GoodResult(MakeDFA(<<A, B>>, op), TRUE)
  BY <1>4, TwoOperands, MakeDFAGood DEF GoodResult
<1>5. ASSUME NEW A, GoodAutomaton(A), NEW p \in BOOLEAN PROVE GoodAutomaton(OpRepeat(A, p))
  <2>1. IsRepeated(OpRepeat(A, p), A, Repeated(p), Repeated(p) + Len(A) + 1)
    BY <1>5, RepeatStates DEF GoodAutomaton
  <2>2. Repeated(p) \in {1, 2}
    BY DEF Repeated
  <2> QED BY <1>5, <2>1, <2>2, RepeatTraps
<1>6. ASSUME NEW A, GoodAutomaton(A) PROVE GoodResult(Minimize(A), TRUE) /\ GoodResult(OpNot(A), TRUE)
  <2>1. GoodAutomaton(MakeDFA(<<OpReverse(A)>>, "DFA"))
    BY <1>3, <1>6, ReverseTraps DEF GoodResult
  <2>2. GoodResult(Minimize(A), TRUE)
    BY <1>3, <2>1, ReverseTraps DEF Minimize
  <2>3. OpNot(A) = MakeDFA(<<OpRepeat(AnyChars, FALSE), A>>, "OP_AND_NOT")
    BY DEF OpNot, AnyChars
  <2>4. GoodResult(MakeDFA(<<OpRepeat(AnyChars, FALSE), A>>, "OP_AND_NOT"), TRUE)
    BY <1>4, <1>6, AnyCharsGood
  <2> QED BY <2>2, <2>3, <2>4
<1>7. ASSUME NEW A, GoodAutomaton(A), NEW d, GoodResult(A, d) PROVE GoodResult(RemoveSingle(A), d)
  BY <1>7, ShortenedGood, ShortenedDeterministic DEF GoodResult
<1>8. ASSUME NEW A, NEW B, GoodAutomaton(A), GoodAutomaton(B)
      PROVE  GoodAutomaton(OpSequence(A, B)) /\ GoodAutomaton(OpOr(A, B))
  <2> DEFINE N == Len(A) + Len(B) + 2
             S == OpSequence(A, B)
             T == OpOr(A, B)
  <2>1. IsJoined(S, <<2>>, A, Len(A) + 2, B, N) /\ IsJoined(T, <<2, Len(A) + 2>>, A, N, B, N)
    BY <1>8, SequenceStates, OrStates DEF GoodAutomaton
  <2> HIDE DEF S, T
  <2>2. GoodAutomaton(S)
    BY ONLY <1>8, <2>1, JoinedTraps
  <2>3. GoodAutomaton(T)
    BY ONLY <1>8, <2>1, JoinedTraps
  <2> QED BY <2>2, <2>3 DEF S, T
<1>9. \A A : GoodAutomaton(A) =>
          /\ GoodAutomaton(OpReverse(A)) /\ GoodAutomaton(OpRepeat(A, TRUE)) /\ GoodAutomaton(OpRepeat(A, FALSE))
          /\ GoodResult(MakeDFA(<<A>>, "DFA"), TRUE) /\ GoodResult(Minimize(A), TRUE) /\ GoodResult(OpNot(A), TRUE)
          /\ \A d : GoodResult(A, d) => GoodResult(RemoveSingle(A), d)
  BY <1>3, <1>5, <1>6, <1>7, ReverseTraps
<1> QED BY <1>1, <1>2, <1>4, <1>8, <1>9

-----------------------------------------------------------------------------
(* Heaps *)

Automata == UNION {Seq(StatesOf(n)) : n \in Nat}

\* The objects which use heap h.
Users(f, h) == {n \in Names : f[n] = h}

\* What the code calls initialized or automat_FREE: a list of states with start
\* and end state, or none.
ObjectsInv ==
    /\ states \in [Names -> Automata] /\ isDFA \in [Names -> BOOLEAN]
    /\ \A x \in Names : /\ ~IsFree(x) => GoodAutomaton(states[x])
                        /\ isDFA[x] => ~IsFree(x) /\ IsDeterministic(states[x])

\* What the heaps have to do with the objects.
HeapsInv ==
    /\ mman \in [Names -> Heaps \cup {0}] /\ onHeaps \in [Names -> SUBSET Heaps]
    /\ refcount \in [Heaps -> Nat]
    /\ \A x \in Names : onHeaps[x] = IF mman[x] = 0 THEN {} ELSE {mman[x]}
    /\ \A h \in Heaps : refcount[h] = Cardinality(Users(mman, h))

\* The inductive invariant: an object has states if and only if it has a heap.
AutomatInv ==
    /\ ObjectsInv /\ HeapsInv /\ ops \in 0 .. MaxOps
    /\ \A x \in Names : IsFree(x) <=> mman[x] = 0

\* f with another value for x.
Changed(f, x, a) == [f EXCEPT ![x] = a]

\* An object changes its heap.
LEMMA UsersChange ==
    ASSUME NEW f, NEW x \in Names, DOMAIN f = Names, NEW a, NEW h
    PROVE  /\ Cardinality(Users(f, h)) \in Nat /\ Cardinality(Users(Changed(f, x, a), h)) \in Nat
           /\ a = h /\ f[x] # h => Cardinality(Users(Changed(f, x, a), h)) = Cardinality(Users(f, h)) + 1
           /\ a # h /\ f[x] = h => Cardinality(Users(Changed(f, x, a), h)) = Cardinality(Users(f, h)) - 1
           /\ (a = h <=> f[x] = h) => Cardinality(Users(Changed(f, x, a), h)) = Cardinality(Users(f, h))
<1> DEFINE g == Changed(f, x, a)
<1> DEFINE U == Users(f, h)
           V == Users(g, h)
<1>1. IsFiniteSet(Names)
  BY AutomatAssumption
<1>2. U \in SUBSET Names /\ V \in SUBSET Names
  BY DEF Users
<1>3. \A n \in Names : n # x => (n \in U <=> n \in V)
  BY DEF Users, Changed
<1>4. (x \in U <=> f[x] = h) /\ (x \in V <=> a = h)
  BY DEF Users, Changed
<1> HIDE DEF U, V
<1>5. IsFiniteSet(U) /\ IsFiniteSet(V) /\ Cardinality(U) \in Nat /\ Cardinality(V) \in Nat
  BY <1>1, <1>2, FS_Subset, FS_CardinalityType
<1>6. CASE a = h /\ f[x] # h
  <2>1. V = U \cup {x} /\ x \notin U
    BY <1>2, <1>3, <1>4, <1>6
  <2>2. Cardinality(V) = Cardinality(U) + 1
    BY <1>5, <2>1, FS_AddElement
  <2> QED BY <1>5, <1>6, <2>2 DEF U, V, g
<1>7. CASE a # h /\ f[x] = h
  <2>1. V = U \ {x} /\ x \in U
    BY <1>2, <1>3, <1>4, <1>7
  <2>2. Cardinality(V) = Cardinality(U) - 1
    BY <1>5, <2>1, FS_RemoveElement
  <2> QED BY <1>5, <1>7, <2>2 DEF U, V, g
<1>8. CASE a = h <=> f[x] = h
  <2>1. V = U
    BY <1>2, <1>3, <1>4, <1>8
  <2> QED BY <1>5, <1>8, <2>1 DEF U, V, g
<1> QED BY <1>6, <1>7, <1>8

\* A new object gets the heap of another one or a heap of its own.
LEMMA AllocateHeaps ==
    ASSUME HeapsInv, NEW x \in Names, NEW u \in Names, mman[x] = 0,
           \A n \in Names : IsFree(n) <=> mman[n] = 0, Allocate(x, u)
    PROVE  HeapsInv' /\ \E h \in Heaps : mman' = [mman EXCEPT ![x] = h]
<1> DEFINE h == IF u = x THEN NewHeap ELSE mman[u]
<1>1. 0 \notin Heaps
  BY AutomatAssumption
<1>2. h \in Heaps
  <2>1. CASE u = x
    <3>1. CanAllocate
      BY <2>1 DEF Allocate
    <3> QED BY <2>1, <3>1 DEF CanAllocate, NewHeap
  <2>2. CASE u # x
    <3>1. mman[u] # 0
      BY <2>2 DEF Allocate
    <3> QED BY <2>2, <3>1 DEF HeapsInv
  <2> QED BY <2>1, <2>2
<1>3. mman' = [mman EXCEPT ![x] = h] /\ onHeaps' = [onHeaps EXCEPT ![x] = {h}] /\ refcount' = Used(h)
  BY DEF Allocate
<1> HIDE DEF h
<1>4. h # 0 /\ DOMAIN mman = Names
  BY <1>1, <1>2 DEF HeapsInv
<1>5. \A k \in Heaps : /\ k = h => refcount'[k] = refcount[k] + 1
                       /\ k # h => refcount'[k] = refcount[k]
  BY <1>2, <1>3 DEF Used, HeapsInv
<1>a. mman' = Changed(mman, x, h)
  BY <1>3 DEF Changed
<1>6. ASSUME NEW k \in Heaps PROVE refcount'[k] = Cardinality(Users(mman', k))
  <2>1. k # 0 /\ refcount[k] = Cardinality(Users(mman, k))
    BY <1>1 DEF HeapsInv
  <2>2. k = h => Cardinality(Users(mman', k)) = Cardinality(Users(mman, k)) + 1
    BY <1>a, <1>4, <2>1, UsersChange
  <2>3. k # h => Cardinality(Users(mman', k)) = Cardinality(Users(mman, k))
    BY <1>a, <1>4, <2>1, UsersChange
  <2> QED BY <1>5, <2>1, <2>2, <2>3
<1>7. mman' \in [Names -> Heaps \cup {0}] /\ onHeaps' \in [Names -> SUBSET Heaps] /\ refcount' \in [Heaps -> Nat]
  BY <1>2, <1>3 DEF HeapsInv, Used
<1>8. \A n \in Names : onHeaps'[n] = IF mman'[n] = 0 THEN {} ELSE {mman'[n]}
  BY <1>3, <1>4 DEF HeapsInv
<1> QED BY <1>2, <1>3, <1>6, <1>7, <1>8 DEF HeapsInv

\* An object gives up its heap; another one takes over its states.
LEMMA ReleaseHeaps ==
    ASSUME HeapsInv, NEW x \in Names, mman[x] # 0,
           mman' = [mman EXCEPT ![x] = 0],
           refcount' = [refcount EXCEPT ![mman[x]] = @ - 1],
           onHeaps' \in [Names -> SUBSET Heaps],
           onHeaps'[x] = {}, \A n \in Names \ {x} : onHeaps'[n] = onHeaps[n]
    PROVE  HeapsInv'
<1> DEFINE h == mman[x]
<1>1. 0 \notin Heaps /\ h \in Heaps /\ DOMAIN mman = Names
  BY AutomatAssumption DEF HeapsInv
<1>2. \A k \in Heaps : /\ k = h => refcount'[k] = refcount[k] - 1
                       /\ k # h => refcount'[k] = refcount[k]
  BY <1>1 DEF HeapsInv
<1>a. mman' = Changed(mman, x, 0)
  BY DEF Changed
<1>b. x \in Names /\ mman[x] = h
  OBVIOUS
<1> HIDE DEF h
<1>3. ASSUME NEW k \in Heaps
      PROVE  refcount'[k] = Cardinality(Users(mman', k)) /\ Cardinality(Users(mman', k)) \in Nat
  <2>1. k # 0 /\ refcount[k] = Cardinality(Users(mman, k))
    BY <1>1 DEF HeapsInv
  <2>2. k = h => Cardinality(Users(mman', k)) = Cardinality(Users(mman, k)) - 1
    BY ONLY <1>1, <1>a, <1>b, <2>1, UsersChange
  <2>3. k # h => Cardinality(Users(mman', k)) = Cardinality(Users(mman, k))
    BY ONLY <1>1, <1>a, <1>b, <2>1, UsersChange
  <2>4. Cardinality(Users(mman', k)) \in Nat
    BY ONLY <1>1, <1>a, <1>b, <2>1, UsersChange
  <2> QED BY <1>2, <2>1, <2>2, <2>3, <2>4
<1>4. mman' \in [Names -> Heaps \cup {0}]
  BY DEF HeapsInv
<1>5. DOMAIN refcount' = Heaps
  BY DEF HeapsInv
<1>6. refcount' \in [Heaps -> Nat]
  <2>1. refcount' = [k \in Heaps |-> refcount'[k]]
    BY DEF HeapsInv
  <2>2. \A k \in Heaps : refcount'[k] \in Nat
    BY <1>3
  <2> QED BY <2>1, <2>2
<1>7. \A n \in Names : onHeaps'[n] = IF mman'[n] = 0 THEN {} ELSE {mman'[n]}
  BY <1>1 DEF HeapsInv, h
<1> QED BY <1>3, <1>4, <1>6, <1>7 DEF HeapsInv

\* The copy of an object replaces it.
LEMMA MoveHeaps ==
    ASSUME HeapsInv, NEW x \in Names, NEW y \in Names, mman[x] # 0, mman[y] # 0, mman[x] # mman[y],
           mman' = [mman EXCEPT ![y] = mman[x]],
           onHeaps' = [onHeaps EXCEPT ![y] = {mman[x]}],
           refcount' = [refcount EXCEPT ![mman[x]] = @ + 1, ![mman[y]] = @ - 1]
    PROVE  HeapsInv'
<1> DEFINE h == mman[x]
           g == mman[y]
<1>1. 0 \notin Heaps /\ h \in Heaps /\ g \in Heaps /\ DOMAIN mman = Names
  BY AutomatAssumption DEF HeapsInv
<1>2. \A k \in Heaps : /\ k = h => refcount'[k] = refcount[k] + 1
                       /\ k = g => refcount'[k] = refcount[k] - 1
                       /\ k \notin {h, g} => refcount'[k] = refcount[k]
  BY <1>1 DEF HeapsInv
<1>a. mman' = Changed(mman, y, h)
  BY DEF Changed
<1>b. x \in Names /\ y \in Names /\ h # g /\ mman[x] = h /\ mman[y] = g
  OBVIOUS
<1> HIDE DEF h, g
<1>3. ASSUME NEW k \in Heaps
      PROVE  refcount'[k] = Cardinality(Users(mman', k)) /\ Cardinality(Users(mman', k)) \in Nat
  <2>1. k # 0 /\ refcount[k] = Cardinality(Users(mman, k))
    BY <1>1 DEF HeapsInv
  <2>2. k = h => Cardinality(Users(mman', k)) = Cardinality(Users(mman, k)) + 1
    BY ONLY <1>1, <1>a, <1>b, <2>1, UsersChange
  <2>3. k = g => Cardinality(Users(mman', k)) = Cardinality(Users(mman, k)) - 1
    BY ONLY <1>1, <1>a, <1>b, <2>1, UsersChange
  <2>4. k \notin {g, h} => Cardinality(Users(mman', k)) = Cardinality(Users(mman, k))
    BY ONLY <1>1, <1>a, <1>b, <2>1, UsersChange
  <2>5. Cardinality(Users(mman', k)) \in Nat
    BY ONLY <1>1, <1>a, <1>b, <2>1, UsersChange
  <2> QED BY <1>2, <2>1, <2>2, <2>3, <2>4, <2>5
<1>4. mman' \in [Names -> Heaps \cup {0}] /\ onHeaps' \in [Names -> SUBSET Heaps]
  BY <1>1 DEF HeapsInv, h
<1>6. refcount' \in [Heaps -> Nat]
  <2>1. refcount' = [k \in Heaps |-> refcount'[k]]
    BY DEF HeapsInv
  <2>2. \A k \in Heaps : refcount'[k] \in Nat
    BY <1>3
  <2> QED BY <2>1, <2>2
<1>7. \A n \in Names : onHeaps'[n] = IF mman'[n] = 0 THEN {} ELSE {mman'[n]}
  BY <1>1 DEF HeapsInv, h
<1> QED BY <1>3, <1>4, <1>6, <1>7 DEF HeapsInv

\* The states are built on a new heap.
LEMMA RebuildHeaps ==
    ASSUME HeapsInv, NEW x \in Names, NEW released \in SUBSET (Names \ {x}), Rebuilt(x, released)
    PROVE  /\ HeapsInv'
           /\ \A n \in Names : mman'[n] = 0 <=> n # x /\ (n \in released \/ mman[n] = 0)
<1> DEFINE R == {x} \cup released
           new == NewHeap
           freed == [h \in Heaps |-> refcount[h] - Cardinality({n \in R : mman[n] = h})]
<1>1. 0 \notin Heaps /\ IsFiniteSet(Names)
  BY AutomatAssumption
<1>2. new \in Heaps /\ refcount[new] = 0
  BY DEF Rebuilt, CanAllocate, NewHeap
<1>3. /\ refcount' = [freed EXCEPT ![new] = 1]
      /\ mman' = [n \in Names |-> IF n = x THEN new ELSE IF n \in released THEN 0 ELSE mman[n]]
      /\ onHeaps' = [n \in Names |-> IF n = x THEN {new} ELSE IF n \in released THEN {} ELSE onHeaps[n]]
  BY DEF Rebuilt
<1> HIDE DEF new
<1>4. \A n \in Names : /\ n = x => mman'[n] = new /\ onHeaps'[n] = {new}
                       /\ n # x /\ n \in released => mman'[n] = 0 /\ onHeaps'[n] = {}
                       /\ n \notin R => mman'[n] = mman[n] /\ onHeaps'[n] = onHeaps[n]
  BY <1>3
<1>5. \A k \in Heaps : IsFiniteSet(Users(mman, k)) /\ refcount[k] = Cardinality(Users(mman, k))
  BY <1>1, FS_Subset DEF Users, HeapsInv
<1>6. Users(mman, new) = {}
  BY <1>2, <1>5, FS_EmptySet
<1>7. ASSUME NEW k \in Heaps, k # new
      PROVE  refcount'[k] = Cardinality(Users(mman', k)) /\ Cardinality(Users(mman', k)) \in Nat
  <2> DEFINE U == Users(mman, k)
             V == Users(mman', k)
             W == {n \in R : mman[n] = k}
  <2>1. k # 0
    BY <1>1
  <2>2. V = U \ W
    BY <1>4, <1>7, <2>1 DEF Users
  <2>3. W = U \cap W
    BY DEF Users
  <2>4. refcount'[k] = refcount[k] - Cardinality(W)
    BY <1>3, <1>7
  <2> HIDE DEF U, V, W
  <2>5. IsFiniteSet(U) /\ refcount[k] = Cardinality(U)
    BY <1>5 DEF U
  <2>6. IsFiniteSet(V) /\ Cardinality(V) = Cardinality(U) - Cardinality(U \cap W)
    BY <2>2, <2>5, FS_Difference
  <2>7. Cardinality(V) \in Nat
    BY <2>6, FS_CardinalityType
  <2> QED BY <2>3, <2>4, <2>5, <2>6, <2>7 DEF V
<1>8. refcount'[new] = 1
  BY <1>2, <1>3
<1>9. Users(mman', new) = {x}
  BY <1>1, <1>2, <1>4, <1>6 DEF Users
<1>10. ASSUME NEW k \in Heaps PROVE refcount'[k] = Cardinality(Users(mman', k)) /\ refcount'[k] \in Nat
  <2>1. Cardinality({x}) = 1
    BY FS_Singleton
  <2>2. CASE k = new
    BY <1>8, <1>9, <2>1, <2>2
  <2>3. CASE k # new
    BY <1>7, <2>3
  <2> QED BY <2>2, <2>3
<1>11. refcount' \in [Heaps -> Nat]
  <2>1. DOMAIN freed = Heaps
    OBVIOUS
  <2> HIDE DEF freed
  <2>2. refcount' = [k \in Heaps |-> refcount'[k]]
    BY <1>3, <2>1
  <2> QED BY <1>10, <2>2
<1>12. mman' \in [Names -> Heaps \cup {0}] /\ onHeaps' \in [Names -> SUBSET Heaps]
  BY <1>2, <1>3 DEF HeapsInv
<1>13. \A n \in Names : onHeaps'[n] = IF mman'[n] = 0 THEN {} ELSE {mman'[n]}
  BY <1>1, <1>2, <1>4 DEF HeapsInv
<1>14. \A n \in Names : mman'[n] = 0 <=> n # x /\ (n \in released \/ mman[n] = 0)
  BY <1>1, <1>2, <1>4
<1> QED BY <1>10, <1>11, <1>12, <1>13, <1>14 DEF HeapsInv

\* What an operation assigns: an automaton, or automat_FREE.
IsResult(A, d) == d \in BOOLEAN /\ (GoodResult(A, d) \/ (A = <<>> /\ d = FALSE))

\* What an operation stores in an object.
LEMMA ResultTypes ==
    ASSUME NEW A, NEW d, IsResult(A, d)
    PROVE  /\ A \in Automata /\ d \in BOOLEAN
           /\ A # <<>> => GoodAutomaton(A)
           /\ d => A # <<>> /\ IsDeterministic(A)
           /\ GoodAutomaton(A) => A # <<>>
<1>1. <<>> \in Automata /\ ~GoodAutomaton(<<>>)
  <2>1. <<>> \in Seq(StatesOf(0)) /\ 0 \in Nat /\ ~(Len(<<>>) >= 2)
    OBVIOUS
  <2> QED BY <2>1 DEF Automata, GoodAutomaton, WellFormed
<1>2. GoodAutomaton(A) => A \in Automata
  <2> SUFFICES ASSUME GoodAutomaton(A) PROVE A \in Automata
    OBVIOUS
  <2>1. A \in Seq(StatesOf(Len(A))) /\ Len(A) \in Nat
    BY MoveFacts DEF GoodAutomaton, WellFormed
  <2> QED BY <2>1 DEF Automata
<1> QED BY <1>1, <1>2 DEF IsResult, GoodResult

\* One object gets a new automaton, the others keep theirs.
LEMMA ReplaceObject ==
    ASSUME ObjectsInv, NEW x \in Names, NEW A, NEW d, IsResult(A, d),
           states' = [states EXCEPT ![x] = A], isDFA' = [isDFA EXCEPT ![x] = d]
    PROVE  /\ ObjectsInv'
           /\ IsFree(x)' <=> A = <<>>
           /\ \A n \in Names : n # x => (IsFree(n)' <=> IsFree(n))
<1>1. /\ A \in Automata /\ d \in BOOLEAN
      /\ A # <<>> => GoodAutomaton(A)
      /\ d => A # <<>> /\ IsDeterministic(A)
  BY ResultTypes
<1>2. /\ states'[x] = A /\ isDFA'[x] = d
      /\ \A n \in Names : n # x => states'[n] = states[n] /\ isDFA'[n] = isDFA[n]
  BY DEF ObjectsInv
<1>3. states' \in [Names -> Automata] /\ isDFA' \in [Names -> BOOLEAN]
  BY <1>1 DEF ObjectsInv
<1>4. ASSUME NEW n \in Names
      PROVE  /\ states'[n] # <<>> => GoodAutomaton(states'[n])
             /\ isDFA'[n] => states'[n] # <<>> /\ IsDeterministic(states'[n])
  <2>1. CASE n = x
    BY <1>1, <1>2, <2>1
  <2>2. CASE n # x
    BY <1>2, <2>2 DEF ObjectsInv, IsFree
  <2> QED BY <2>1, <2>2
<1> QED BY <1>2, <1>3, <1>4 DEF ObjectsInv, IsFree

\* The same if another object is freed.
LEMMA MergeObjects ==
    ASSUME ObjectsInv, NEW x \in Names, NEW y \in Names, x # y, NEW A, NEW d, IsResult(A, d), A # <<>>,
           states' = [states EXCEPT ![x] = A, ![y] = <<>>],
           isDFA' = [isDFA EXCEPT ![x] = d, ![y] = FALSE]
    PROVE  /\ ObjectsInv'
           /\ ~IsFree(x)' /\ IsFree(y)'
           /\ \A n \in Names : n # x /\ n # y => (IsFree(n)' <=> IsFree(n))
<1>1. /\ A \in Automata /\ d \in BOOLEAN /\ <<>> \in Automata
      /\ A # <<>> => GoodAutomaton(A)
      /\ d => A # <<>> /\ IsDeterministic(A)
  BY ResultTypes DEF IsResult
<1>2. /\ states'[x] = A /\ isDFA'[x] = d /\ states'[y] = <<>> /\ isDFA'[y] = FALSE
      /\ \A n \in Names : n # x /\ n # y => states'[n] = states[n] /\ isDFA'[n] = isDFA[n]
  BY DEF ObjectsInv
<1>3. states' \in [Names -> Automata] /\ isDFA' \in [Names -> BOOLEAN]
  BY <1>1 DEF ObjectsInv
<1>4. ASSUME NEW n \in Names
      PROVE  /\ states'[n] # <<>> => GoodAutomaton(states'[n])
             /\ isDFA'[n] => states'[n] # <<>> /\ IsDeterministic(states'[n])
  <2>1. CASE n = x
    BY <1>1, <1>2, <2>1
  <2>2. CASE n = y
    BY <1>2, <2>2
  <2>3. CASE n # x /\ n # y
    BY <1>2, <2>3 DEF ObjectsInv, IsFree
  <2> QED BY <2>1, <2>2, <2>3
<1> QED BY <1>2, <1>3, <1>4 DEF ObjectsInv, IsFree

-----------------------------------------------------------------------------
(* The actions *)

\* initempty_automat, initmatch_automat, initcopy_automat, initreverse_automat.
LEMMA InitKeeps ==
    ASSUME AutomatInv, NEW x \in Names, NEW u \in Names, NEW A, NEW d, NEW P, Count, IsFree(x),
           GoodResult(A, d), d \in BOOLEAN, Allocate(x, u), Becomes(x, A, d, P)
    PROVE  AutomatInv'
<1>1. HeapsInv' /\ \E h \in Heaps : mman' = [mman EXCEPT ![x] = h]
  BY AllocateHeaps DEF AutomatInv
<1>2. 0 \notin Heaps /\ DOMAIN mman = Names
  BY AutomatAssumption DEF AutomatInv, HeapsInv
<1>3. mman'[x] # 0 /\ \A n \in Names : n # x => mman'[n] = mman[n]
  BY <1>1, <1>2
<1>4. IsResult(A, d) /\ A # <<>>
  BY ResultTypes DEF IsResult, GoodResult
<1>5. states' = [states EXCEPT ![x] = A] /\ isDFA' = [isDFA EXCEPT ![x] = d]
  BY DEF Becomes
<1>6. ObjectsInv' /\ (IsFree(x)' <=> A = <<>>) /\ \A n \in Names : n # x => (IsFree(n)' <=> IsFree(n))
  <2>1. ObjectsInv /\ x \in Names
    BY DEF AutomatInv
  <2>2. ObjectsInv'
    BY ONLY <1>4, <1>5, <2>1, ReplaceObject
  <2>3. IsFree(x)' <=> A = <<>>
    BY ONLY <1>5, <2>1 DEF ObjectsInv, IsFree
  <2>4. \A n \in Names : n # x => (IsFree(n)' <=> IsFree(n))
    BY ONLY <1>4, <1>5, <2>1, ReplaceObject
  <2> QED BY <2>2, <2>3, <2>4
<1>7. ops' \in 0 .. MaxOps
  BY AutomatAssumption DEF AutomatInv, Count
<1>8. \A n \in Names : IsFree(n)' <=> mman'[n] = 0
  BY <1>3, <1>4, <1>6 DEF AutomatInv
<1> QED BY <1>1, <1>6, <1>7, <1>8 DEF AutomatInv

\* Operations which change the states of x and no heap.
LEMMA ChangeKeeps ==
    ASSUME AutomatInv, NEW x \in Names, NEW A, NEW d, NEW P, Count, ~IsFree(x),
           GoodResult(A, d), d \in BOOLEAN, Becomes(x, A, d, P), UNCHANGED heapVars
    PROVE  AutomatInv'
<1>1. HeapsInv' /\ mman' = mman
  BY DEF AutomatInv, HeapsInv, heapVars, Users
<1>4. IsResult(A, d) /\ A # <<>>
  BY ResultTypes DEF IsResult, GoodResult
<1>5. states' = [states EXCEPT ![x] = A] /\ isDFA' = [isDFA EXCEPT ![x] = d]
  BY DEF Becomes
<1>6. ObjectsInv' /\ (IsFree(x)' <=> A = <<>>) /\ \A n \in Names : n # x => (IsFree(n)' <=> IsFree(n))
  <2>1. ObjectsInv /\ x \in Names
    BY DEF AutomatInv
  <2>2. ObjectsInv'
    BY ONLY <1>4, <1>5, <2>1, ReplaceObject
  <2>3. IsFree(x)' <=> A = <<>>
    BY ONLY <1>5, <2>1 DEF ObjectsInv, IsFree
  <2>4. \A n \in Names : n # x => (IsFree(n)' <=> IsFree(n))
    BY ONLY <1>4, <1>5, <2>1, ReplaceObject
  <2> QED BY <2>2, <2>3, <2>4
<1>7. ops' \in 0 .. MaxOps
  BY AutomatAssumption DEF AutomatInv, Count
<1>8. \A n \in Names : IsFree(n)' <=> mman'[n] = 0
  BY <1>1, <1>4, <1>6 DEF AutomatInv
<1> QED BY <1>1, <1>6, <1>7, <1>8 DEF AutomatInv

\* Operations which build x on a new heap.
LEMMA RebuildKeeps ==
    ASSUME AutomatInv, NEW x \in Names, NEW A, NEW d, NEW P, Count, ~IsFree(x),
           GoodResult(A, d), d \in BOOLEAN, Becomes(x, A, d, P), Rebuilt(x, {})
    PROVE  AutomatInv'
<1>0. {} \in SUBSET (Names \ {x})
  OBVIOUS
<1>1. HeapsInv' /\ \A n \in Names : mman'[n] = 0 <=> n # x /\ (n \in {} \/ mman[n] = 0)
  BY <1>0, RebuildHeaps DEF AutomatInv
<1>4. IsResult(A, d) /\ A # <<>>
  BY ResultTypes DEF IsResult, GoodResult
<1>5. states' = [states EXCEPT ![x] = A] /\ isDFA' = [isDFA EXCEPT ![x] = d]
  BY DEF Becomes
<1>6. ObjectsInv' /\ (IsFree(x)' <=> A = <<>>) /\ \A n \in Names : n # x => (IsFree(n)' <=> IsFree(n))
  <2>1. ObjectsInv /\ x \in Names
    BY DEF AutomatInv
  <2>2. ObjectsInv'
    BY ONLY <1>4, <1>5, <2>1, ReplaceObject
  <2>3. IsFree(x)' <=> A = <<>>
    BY ONLY <1>5, <2>1 DEF ObjectsInv, IsFree
  <2>4. \A n \in Names : n # x => (IsFree(n)' <=> IsFree(n))
    BY ONLY <1>4, <1>5, <2>1, ReplaceObject
  <2> QED BY <2>2, <2>3, <2>4
<1>7. ops' \in 0 .. MaxOps
  BY AutomatAssumption DEF AutomatInv, Count
<1>8. \A n \in Names : IsFree(n)' <=> mman'[n] = 0
  BY <1>1, <1>4, <1>6 DEF AutomatInv
<1> QED BY <1>1, <1>6, <1>7, <1>8 DEF AutomatInv

\* free_automat.
LEMMA FreeKeeps ==
    ASSUME AutomatInv, NEW x \in Names, FreeAutomat(x)
    PROVE  AutomatInv'
<1>1. mman[x] # 0 /\ DOMAIN mman = Names
  BY DEF AutomatInv, HeapsInv, FreeAutomat
<1>2. onHeaps' \in [Names -> SUBSET Heaps] /\ onHeaps'[x] = {} /\ \A n \in Names \ {x} : onHeaps'[n] = onHeaps[n]
  BY DEF AutomatInv, HeapsInv, FreeAutomat
<1>3. HeapsInv'
  BY <1>1, <1>2, ReleaseHeaps DEF AutomatInv, FreeAutomat
<1>4. IsResult(<<>>, FALSE)
  BY DEF IsResult
<1>5. states' = [states EXCEPT ![x] = <<>>] /\ isDFA' = [isDFA EXCEPT ![x] = FALSE]
  BY DEF FreeAutomat, Becomes
<1>6. ObjectsInv' /\ IsFree(x)' /\ \A n \in Names : n # x => (IsFree(n)' <=> IsFree(n))
  BY <1>4, <1>5, ReplaceObject DEF AutomatInv
<1>7. ops' \in 0 .. MaxOps
  BY AutomatAssumption DEF AutomatInv, FreeAutomat, Count
<1>8. \A n \in Names : IsFree(n)' <=> mman'[n] = 0
  BY <1>1, <1>6 DEF AutomatInv, FreeAutomat
<1> QED BY <1>3, <1>6, <1>7, <1>8 DEF AutomatInv

\* opsequence_automat, opor_automat.
LEMMA CombineKeeps ==
    ASSUME AutomatInv, NEW x \in Names, NEW y \in Names, NEW A, NEW P, GoodAutomaton(A), Combine(x, y, A, P)
    PROVE  AutomatInv'
<1>1. x # y /\ mman[x] # 0 /\ mman[y] # 0 /\ DOMAIN mman = Names
  BY DEF AutomatInv, HeapsInv, Combine
<1>2. onHeaps[x] = {mman[x]} /\ onHeaps[y] = {mman[y]} /\ onHeaps \in [Names -> SUBSET Heaps]
  BY <1>1 DEF AutomatInv, HeapsInv
<1>3. /\ onHeaps'[y] = {} /\ DOMAIN onHeaps' = Names
      /\ \A n \in Names : n # x /\ n # y => onHeaps'[n] = onHeaps[n]
      /\ onHeaps'[x] = IF Copied(x, y) THEN onHeaps[x] ELSE onHeaps[x] \cup onHeaps[y]
  BY <1>1, <1>2 DEF Combine
<1>4. onHeaps'[x] = onHeaps[x]
  BY <1>2, <1>3 DEF Copied
<1>5. onHeaps' \in [Names -> SUBSET Heaps] /\ \A n \in Names \ {y} : onHeaps'[n] = onHeaps[n]
  <2>1. onHeaps' = [n \in Names |-> onHeaps'[n]]
    BY <1>2 DEF Combine
  <2>2. \A n \in Names : onHeaps'[n] \in SUBSET Heaps
    BY <1>2, <1>3, <1>4
  <2> QED BY <1>3, <1>4, <2>1, <2>2
<1>6. HeapsInv'
  BY <1>1, <1>3, <1>5, ReleaseHeaps DEF AutomatInv, Combine
<1>7. IsResult(A, FALSE) /\ A # <<>>
  BY ResultTypes DEF IsResult, GoodResult
<1>8. /\ ObjectsInv' /\ ~IsFree(x)' /\ IsFree(y)'
      /\ \A n \in Names : n # x /\ n # y => (IsFree(n)' <=> IsFree(n))
  BY <1>1, <1>7, MergeObjects DEF AutomatInv, Combine
<1>9. ops' \in 0 .. MaxOps
  BY AutomatAssumption DEF AutomatInv, Combine, Count
<1>10. \A n \in Names : IsFree(n)' <=> mman'[n] = 0
  BY <1>1, <1>8 DEF AutomatInv, Combine
<1> QED BY <1>6, <1>8, <1>9, <1>10 DEF AutomatInv

\* The failing opsequence_automat and opor_automat.
LEMMA CombineFailsKeeps ==
    ASSUME AutomatInv, NEW x \in Names, NEW y \in Names, CombineFails(x, y)
    PROVE  AutomatInv'
<1>1. x # y /\ mman[x] # 0 /\ mman[y] # 0 /\ DOMAIN mman = Names /\ mman[x] # mman[y]
  BY DEF AutomatInv, HeapsInv, CombineFails, Copied
<1>2. HeapsInv'
  BY <1>1, MoveHeaps DEF AutomatInv, CombineFails
<1>3. ObjectsInv' /\ \A n \in Names : IsFree(n)' <=> IsFree(n)
  BY DEF AutomatInv, ObjectsInv, CombineFails, IsFree
<1>4. ops' \in 0 .. MaxOps
  BY AutomatAssumption DEF AutomatInv, CombineFails, Count
<1>5. \A n \in Names : IsFree(n)' <=> mman'[n] = 0
  BY <1>1, <1>3 DEF AutomatInv, CombineFails
<1> QED BY <1>2, <1>3, <1>4, <1>5 DEF AutomatInv

\* opand_automat, opandnot_automat.
LEMMA And2Keeps ==
    ASSUME AutomatInv, NEW x \in Names, NEW y \in Names, NEW op \in {"OP_AND", "OP_AND_NOT"}, NEW P,
           And2(x, y, op, P)
    PROVE  AutomatInv'
<1>1. x # y /\ ~IsFree(x) /\ ~IsFree(y) /\ {y} \in SUBSET (Names \ {x})
  BY DEF And2
<1>2. HeapsInv' /\ \A n \in Names : mman'[n] = 0 <=> n # x /\ (n \in {y} \/ mman[n] = 0)
  BY <1>1, RebuildHeaps DEF AutomatInv, And2
<1> DEFINE A == MakeDFA(<<states[x], states[y]>>, op)
<1>3. GoodResult(A, TRUE)
  BY <1>1, ResultsAreGood DEF AutomatInv, ObjectsInv
<1>4. states' = [states EXCEPT ![x] = A, ![y] = <<>>] /\ isDFA' = [isDFA EXCEPT ![x] = TRUE, ![y] = FALSE]
  BY DEF And2
<1> HIDE DEF A
<1>5. IsResult(A, TRUE) /\ A # <<>>
  BY <1>3, ResultTypes DEF IsResult, GoodResult
<1>6. /\ ObjectsInv' /\ ~IsFree(x)' /\ IsFree(y)'
      /\ \A n \in Names : n # x /\ n # y => (IsFree(n)' <=> IsFree(n))
  BY <1>1, <1>4, <1>5, MergeObjects DEF AutomatInv
<1>7. ops' \in 0 .. MaxOps
  BY AutomatAssumption DEF AutomatInv, And2, Count
<1>8. \A n \in Names : IsFree(n)' <=> mman'[n] = 0
  BY <1>2, <1>6 DEF AutomatInv
<1> QED BY <1>2, <1>6, <1>7, <1>8 DEF AutomatInv

-----------------------------------------------------------------------------

\* Before the first operation all objects are free.
LEMMA AutomatInitInv == AutomatInit => AutomatInv
<1> SUFFICES ASSUME AutomatInit PROVE AutomatInv
  OBVIOUS
<1>1. <<>> \in Automata /\ MaxOps \in Nat /\ IsFiniteSet(Names) /\ 0 \notin Heaps
  BY ResultTypes, AutomatAssumption DEF IsResult
<1>2. ObjectsInv
  BY <1>1 DEF AutomatInit, ObjectsInv, IsFree
<1>3. \A h \in Heaps : Users(mman, h) = {}
  BY <1>1 DEF AutomatInit, Users
<1>4. HeapsInv
  BY <1>3, FS_EmptySet DEF AutomatInit, HeapsInv
<1> QED BY <1>1, <1>2, <1>4 DEF AutomatInit, AutomatInv, IsFree

\* Every operation preserves the invariant.
LEMMA AutomatNextInv == AutomatInv /\ [AutomatNext]_automatVars => AutomatInv'
<1> SUFFICES ASSUME AutomatInv, [AutomatNext]_automatVars PROVE AutomatInv'
  OBVIOUS
<1>0. \A n \in Names : /\ ~IsFree(n) => GoodResult(states[n], isDFA[n]) /\ GoodAutomaton(states[n])
                       /\ isDFA[n] \in BOOLEAN
  BY DEF AutomatInv, ObjectsInv, GoodResult
<1>1. ASSUME NEW x \in Names, NEW u \in Names, InitEmpty(x, u) PROVE AutomatInv'
  <2>1. GoodResult(Empty, FALSE)
    BY ResultsAreGood DEF GoodResult
  <2> QED BY <1>1, <2>1, InitKeeps DEF InitEmpty
<1>2. ASSUME NEW x \in Names, NEW u \in Names, NEW m \in Matches, InitMatch(x, u, m) PROVE AutomatInv'
  <2>1. GoodResult(Match(m), FALSE)
    BY ResultsAreGood DEF GoodResult
  <2> QED BY <1>2, <2>1, InitKeeps DEF InitMatch
<1>3. ASSUME NEW x \in Names, NEW y \in Names, NEW u \in Names, InitCopy(x, y, u) PROVE AutomatInv'
  <2>1. GoodResult(states[y], isDFA[y]) /\ isDFA[y] \in BOOLEAN
    BY <1>0, <1>3 DEF InitCopy
  <2> QED BY <1>3, <2>1, InitKeeps DEF InitCopy
<1>4. ASSUME NEW x \in Names, NEW y \in Names, NEW u \in Names, InitReverse(x, y, u) PROVE AutomatInv'
  <2>1. GoodResult(OpReverse(states[y]), FALSE)
    BY <1>0, <1>4, ResultsAreGood DEF GoodResult, InitReverse
  <2> QED BY <1>4, <2>1, InitKeeps DEF InitReverse
<1>5. ASSUME NEW x \in Names, ExtendMatchOf(x) PROVE AutomatInv'
  <2>1. PICK r \in Matches : states[x] = Match(r)
    BY <1>5 DEF ExtendMatchOf
  <2>2. GoodResult(ExtendMatch(states[x], Extend), FALSE) /\ GoodAutomaton(states[x])
    BY <2>1, ResultsAreGood DEF GoodResult
  <2>3. ~IsFree(x)
    BY <2>2, ResultTypes DEF IsResult, GoodResult, IsFree
  <2> QED BY <1>5, <2>2, <2>3, ChangeKeeps DEF ExtendMatchOf
<1>6. ASSUME NEW x \in Names, NEW y \in Names, Sequence(x, y) PROVE AutomatInv'
  <2>1. GoodAutomaton(OpSequence(states[x], states[y]))
    BY <1>0, <1>6, ResultsAreGood DEF Sequence, Combine
  <2> QED BY <1>6, <2>1, CombineKeeps DEF Sequence
<1>7. ASSUME NEW x \in Names, NEW y \in Names, Or(x, y) PROVE AutomatInv'
  <2>1. GoodAutomaton(OpOr(states[x], states[y]))
    BY <1>0, <1>7, ResultsAreGood DEF Or, Combine
  <2> QED BY <1>7, <2>1, CombineKeeps DEF Or
<1>8. ASSUME NEW x \in Names, NEW y \in Names, And(x, y) \/ AndNot(x, y) PROVE AutomatInv'
  BY <1>8, And2Keeps DEF And, AndNot
<1>9. ASSUME NEW x \in Names, NEW plus \in BOOLEAN, Repeat(x, plus) PROVE AutomatInv'
  <2>1. GoodResult(OpRepeat(states[x], plus), FALSE)
    BY <1>0, <1>9, ResultsAreGood DEF GoodResult, Repeat
  <2> QED BY <1>9, <2>1, ChangeKeeps DEF Repeat
<1>10. ASSUME NEW x \in Names, MakeDFAOf(x) PROVE AutomatInv'
  <2>1. GoodResult(MakeDFA(<<states[x]>>, "DFA"), TRUE)
    BY <1>0, <1>10, ResultsAreGood DEF MakeDFAOf
  <2> QED BY <1>10, <2>1, RebuildKeeps DEF MakeDFAOf
<1>11. ASSUME NEW x \in Names, MakeDFAFails(x) PROVE AutomatInv'
  <2>1. GoodResult(RemoveSingle(states[x]), isDFA[x]) /\ isDFA[x] \in BOOLEAN
    BY <1>0, <1>11, ResultsAreGood DEF MakeDFAFails
  <2> QED BY <1>11, <2>1, ChangeKeeps DEF MakeDFAFails
<1>12. ASSUME NEW x \in Names, MinimizeOf(x) PROVE AutomatInv'
  <2>1. GoodResult(Minimize(states[x]), TRUE)
    BY <1>0, <1>12, ResultsAreGood DEF MinimizeOf
  <2> QED BY <1>12, <2>1, RebuildKeeps DEF MinimizeOf
<1>13. ASSUME NEW x \in Names, Not(x) PROVE AutomatInv'
  <2>1. GoodResult(OpNot(states[x]), TRUE)
    BY <1>0, <1>13, ResultsAreGood DEF Not
  <2> QED BY <1>13, <2>1, RebuildKeeps DEF Not
<1>14. CASE UNCHANGED automatVars
  BY <1>14 DEF AutomatInv, ObjectsInv, HeapsInv, Users, IsFree, automatVars, heapVars
<1> QED BY <1>1, <1>2, <1>3, <1>4, <1>5, <1>6, <1>7, <1>8, <1>9, <1>10, <1>11, <1>12, <1>13, <1>14,
           FreeKeeps, CombineFailsKeeps DEF AutomatNext

\* In every state the objects are automata every operation of automat.c can be
\* applied to, and the heaps are counted.
THEOREM AutomatInvariant == AutomatSpec => []AutomatInv
BY AutomatInitInv, AutomatNextInv, PTL DEF AutomatSpec

\* "a every state of a single automat must be located on the same memory heap":
\* every object uses one heap, and a heap lives as long as objects use it.
THEOREM HeapsAreHeld == AutomatSpec => []HeapsHoldStates
<1>1. AutomatInv => HeapsHoldStates
  <2> SUFFICES ASSUME AutomatInv PROVE HeapsHoldStates
    OBVIOUS
  <2>1. \A h \in Heaps : {x \in Names : mman[x] = h} = Users(mman, h)
    BY DEF Users
  <2> QED BY <2>1 DEF AutomatInv, HeapsInv, HeapsHoldStates
<1> QED BY <1>1, AutomatInvariant, PTL

\* An object with isDFA set has sorted disjoint ranges in every state and empty
\* transitions only to the end: the binary search may be used.
THEOREM DFAsAreDeterministic == AutomatSpec => []Deterministic
<1>1. AutomatInv => Deterministic
  BY DEF AutomatInv, ObjectsInv, IsDeterministic, Deterministic
<1> QED BY <1>1, AutomatInvariant, PTL

-----------------------------------------------------------------------------
(* Words *)

\* The words up to a length.
LEMMA WordsFacts ==
    ASSUME NEW m \in Nat, NEW w
    PROVE  w \in Words(m) <=> w \in Seq(Chars) /\ Len(w) <= m
<1>1. ASSUME w \in Words(m) PROVE w \in Seq(Chars) /\ Len(w) <= m
  <2>1. PICK k \in 0 .. m : w \in [1 .. k -> Chars]
    BY <1>1, SMTT(30) DEF Words
  <2> QED BY <2>1
<1>2. ASSUME w \in Seq(Chars), Len(w) <= m PROVE w \in Words(m)
  <2>1. Len(w) \in 0 .. m /\ w \in [1 .. Len(w) -> Chars]
    BY <1>2
  <2> QED BY <2>1 DEF Words
<1> QED BY <1>1, <1>2

\* The letters between two places of a word.
LEMMA SegmentFacts ==
    ASSUME NEW w \in Seq(Chars), NEW i \in 0 .. Len(w), NEW j \in i .. Len(w)
    PROVE  /\ SubSeq(w, i + 1, j) \in Seq(Chars) /\ Len(SubSeq(w, i + 1, j)) = j - i
           /\ \A k \in 1 .. j - i : SubSeq(w, i + 1, j)[k] = w[i + k]
<1>1. i + 1 \in Int /\ j \in Int /\ Len(w) \in Nat /\ \A k \in i + 1 .. j : w[k] \in Chars
  OBVIOUS
<1>2. /\ SubSeq(w, i + 1, j) \in Seq(Chars)
      /\ Len(SubSeq(w, i + 1, j)) = IF i + 1 <= j THEN j - (i + 1) + 1 ELSE 0
      /\ \A k \in 1 .. j - (i + 1) + 1 : SubSeq(w, i + 1, j)[k] = w[i + 1 + k - 1]
  BY ONLY <1>1, SubSeqProperties, SMTT(30)
<1> QED BY <1>1, <1>2

\* A word is its first letters and the others.
LEMMA CutFacts ==
    ASSUME NEW w \in Seq(Chars), NEW j \in 0 .. Len(w)
    PROVE  w = SubSeq(w, 1, j) \o SubSeq(w, j + 1, Len(w)) /\ SubSeq(w, 1, Len(w)) = w
<1>1. 1 \in 1 .. Len(w) + 1 /\ j \in 1 - 1 .. Len(w) /\ Len(w) \in j .. Len(w)
  OBVIOUS
<1>2. SubSeq(w, 1, j) \o SubSeq(w, j + 1, Len(w)) = SubSeq(w, 1, Len(w))
  BY ONLY <1>1, w \in Seq(Chars), ConcatAdjacentSubSeq
<1>3. SubSeq(w, 1, Len(w)) = w
  BY SubSeqFull
<1> QED BY <1>2, <1>3

\* The parts of two joined words.
LEMMA JoinFacts ==
    ASSUME NEW u \in Seq(Chars), NEW v \in Seq(Chars)
    PROVE  /\ u \o v \in Seq(Chars) /\ Len(u \o v) = Len(u) + Len(v)
           /\ SubSeq(u \o v, 1, Len(u)) = u
           /\ SubSeq(u \o v, Len(u) + 1, Len(u) + Len(v)) = v
<1> DEFINE w == u \o v
           n == Len(u)
           m == Len(v)
           a == SubSeq(w, 0 + 1, n)
           b == SubSeq(w, n + 1, n + m)
<1>1. w \in Seq(Chars) /\ Len(w) = n + m /\ n \in Nat /\ m \in Nat /\ n \in 0 .. n /\ u \in Seq(Chars) /\ v \in Seq(Chars)
  OBVIOUS
<1>2. (\A i \in 1 .. n : w[i] = u[i]) /\ (\A i \in 1 .. m : w[n + i] = v[i])
  OBVIOUS
<1> HIDE DEF w, n, m
<1>3. 0 \in 0 .. Len(w) /\ n \in 0 .. Len(w) /\ n + m \in n .. Len(w)
  BY <1>1
<1>4. a \in Seq(Chars) /\ Len(a) = n /\ \A k \in 1 .. n : a[k] = w[k]
  <2>1. a \in Seq(Chars) /\ Len(a) = n - 0 /\ \A k \in 1 .. n - 0 : a[k] = w[0 + k]
    BY <1>1, <1>3, SegmentFacts
  <2> QED BY <1>1, <2>1
<1>5. b \in Seq(Chars) /\ Len(b) = n + m - n /\ \A k \in 1 .. n + m - n : b[k] = w[n + k]
  BY <1>1, <1>3, SegmentFacts
<1> HIDE DEF a, b
<1>6. a = u
  BY <1>1, <1>2, <1>4, SeqEqual DEF n
<1>7. b = v
  BY <1>1, <1>2, <1>5, SeqEqual DEF m
<1> QED BY <1>1, <1>6, <1>7 DEF a, b, w, n, m

-----------------------------------------------------------------------------
(* What an automaton accepts *)

\* X holds for every state the places of w at which the automaton may be in it:
\* no transition leads out of X.
Closed(A, w, X) ==
    /\ X \in [DOMAIN A -> SUBSET (0 .. Len(w))]
    /\ \A s, t \in DOMAIN A : EmptyMove(A, s, t) => X[s] \subseteq X[t]
    /\ \A k \in 1 .. Len(w) : \A s, t \in DOMAIN A : k - 1 \in X[s] /\ CharMove(A, w[k], s, t) => k \in X[t]

\* From state s at place i of w the automaton can come to state t at place j.
Reaches(A, w, s, i, t, j) == \A X : Closed(A, w, X) /\ i \in X[s] => j \in X[t]

\* It accepts the letters of w between i and j.
Accepts(A, w, i, j) == Reaches(A, w, 1, i, Len(A), j)

Language(A) == {w \in Words(MaxWord) : Accepts(A, w, 0, Len(w))}

\* Single transitions, and one after the other.
LEMMA ReachesSteps ==
    ASSUME NEW A, NEW w
    PROVE  /\ \A s, i : Reaches(A, w, s, i, s, i)
           /\ \A s, t \in DOMAIN A : \A i : EmptyMove(A, s, t) => Reaches(A, w, s, i, t, i)
           /\ \A k \in 1 .. Len(w) : \A s, t \in DOMAIN A : CharMove(A, w[k], s, t) => Reaches(A, w, s, k - 1, t, k)
           /\ \A s, i, t, j, u, k : Reaches(A, w, s, i, t, j) /\ Reaches(A, w, t, j, u, k) => Reaches(A, w, s, i, u, k)
<1>1. \A s, i : Reaches(A, w, s, i, s, i)
  BY DEF Reaches
<1>2. \A s, t \in DOMAIN A : \A i : EmptyMove(A, s, t) => Reaches(A, w, s, i, t, i)
  BY DEF Reaches, Closed
<1>3. \A k \in 1 .. Len(w) : \A s, t \in DOMAIN A : CharMove(A, w[k], s, t) => Reaches(A, w, s, k - 1, t, k)
  BY DEF Reaches, Closed
<1>4. \A s, i, t, j, u, k : Reaches(A, w, s, i, t, j) /\ Reaches(A, w, t, j, u, k) => Reaches(A, w, s, i, u, k)
  BY DEF Reaches
<1> QED BY <1>1, <1>2, <1>3, <1>4

\* One way after the other.
LEMMA ReachesOn ==
    ASSUME NEW A, NEW w, NEW s, NEW i, NEW t, NEW j, NEW u, NEW k,
           Reaches(A, w, s, i, t, j), Reaches(A, w, t, j, u, k)
    PROVE  Reaches(A, w, s, i, u, k)
BY DEF Reaches

\* What can be reached from a place.
ReachedFrom(A, w, s, i) == [t \in DOMAIN A |-> {j \in 0 .. Len(w) : Reaches(A, w, s, i, t, j)}]

\* It is closed, so it is the least closed family with that place.
LEMMA ReachedClosed ==
    ASSUME NEW A, NEW w, Len(w) \in Nat, NEW s \in DOMAIN A, NEW i \in 0 .. Len(w)
    PROVE  Closed(A, w, ReachedFrom(A, w, s, i))
<1> DEFINE X == ReachedFrom(A, w, s, i)
<1>1. X \in [DOMAIN A -> SUBSET (0 .. Len(w))]
  BY DEF ReachedFrom
<1>2. \A t \in DOMAIN A : \A j : j \in X[t] <=> j \in 0 .. Len(w) /\ Reaches(A, w, s, i, t, j)
  BY DEF ReachedFrom
<1> HIDE DEF X
<1>3. \A u, t \in DOMAIN A : EmptyMove(A, u, t) => X[u] \subseteq X[t]
  BY <1>1, <1>2, ReachesSteps
<1>4. ASSUME NEW k \in 1 .. Len(w), NEW u \in DOMAIN A, NEW t \in DOMAIN A, k - 1 \in X[u], CharMove(A, w[k], u, t)
      PROVE  k \in X[t]
  <2>1. Reaches(A, w, s, i, u, k - 1) /\ Reaches(A, w, u, k - 1, t, k)
    BY <1>2, <1>4, ReachesSteps
  <2>2. Reaches(A, w, s, i, t, k)
    BY <2>1, ReachesSteps
  <2>3. k \in 0 .. Len(w)
    OBVIOUS
  <2> QED BY <1>2, <2>2, <2>3
<1> QED BY <1>1, <1>3, <1>4 DEF Closed, X

\* No transition leads back in the word.
LEMMA ReachesForward ==
    ASSUME NEW A, NEW w, Len(w) \in Nat, NEW s \in DOMAIN A, NEW i \in 0 .. Len(w),
           NEW t \in DOMAIN A, NEW j, Reaches(A, w, s, i, t, j)
    PROVE  j \in i .. Len(w)
<1> DEFINE X == [u \in DOMAIN A |-> i .. Len(w)]
<1>1. Closed(A, w, X)
  <2>1. X \in [DOMAIN A -> SUBSET (0 .. Len(w))]
    OBVIOUS
  <2>2. \A k \in 1 .. Len(w) : k - 1 \in i .. Len(w) => k \in i .. Len(w)
    OBVIOUS
  <2> QED BY <2>1, <2>2 DEF Closed
<1>2. i \in X[s]
  OBVIOUS
<1> HIDE DEF X
<1>3. j \in X[t]
  BY <1>1, <1>2 DEF Reaches
<1> QED BY <1>3 DEF X

\* Acceptance depends on the letters read only.
LEMMA ReachesSegment ==
    ASSUME NEW A, NEW w \in Seq(Chars), NEW i \in 0 .. Len(w), NEW j \in i .. Len(w),
           NEW s \in DOMAIN A, NEW t \in DOMAIN A
    PROVE  Reaches(A, w, s, i, t, j) <=> Reaches(A, SubSeq(w, i + 1, j), s, 0, t, j - i)
<1> DEFINE v == SubSeq(w, i + 1, j)
           n == Len(w)
           m == j - i
<1>1. v \in Seq(Chars) /\ Len(v) = m /\ \A k \in 1 .. m : v[k] = w[i + k]
  BY SegmentFacts
<1>2. n \in Nat /\ i \in Nat /\ j \in Nat /\ m \in Nat /\ i <= j /\ j <= n /\ j = i + m
  OBVIOUS
<1> HIDE DEF v, n, m
<1>3. ASSUME Reaches(A, w, s, i, t, j), NEW Y, Closed(A, v, Y), 0 \in Y[s] PROVE m \in Y[t]
  <2> DEFINE X == [u \in DOMAIN A |-> {k \in 0 .. n : i <= k /\ (k <= j => k - i \in Y[u])}]
  <2>1. \A u \in DOMAIN A : \A k : k \in X[u] <=> k \in 0 .. n /\ i <= k /\ (k <= j => k - i \in Y[u])
    OBVIOUS
  <2>2. X \in [DOMAIN A -> SUBSET (0 .. n)]
    OBVIOUS
  <2> HIDE DEF X
  <2>3. \A a, b \in DOMAIN A : EmptyMove(A, a, b) => X[a] \subseteq X[b]
    BY <1>3, <2>1, <2>2 DEF Closed
  <2>4. ASSUME NEW k \in 1 .. n, NEW a \in DOMAIN A, NEW b \in DOMAIN A, k - 1 \in X[a], CharMove(A, w[k], a, b)
        PROVE  k \in X[b]
    <3>1. i <= k - 1 /\ (k - 1 <= j => k - 1 - i \in Y[a])
      BY <2>1, <2>4
    <3>2. CASE k <= j
      <4> DEFINE q == k - i
      <4>1. q \in 1 .. m /\ q - 1 = k - 1 - i /\ k = i + q
        BY <1>2, <3>1, <3>2
      <4>2. q - 1 \in Y[a] /\ CharMove(A, v[q], a, b)
        BY <1>1, <1>2, <2>4, <3>1, <3>2, <4>1
      <4> HIDE DEF q
      <4>3. \A p \in 1 .. m : \A c, d \in DOMAIN A : p - 1 \in Y[c] /\ CharMove(A, v[p], c, d) => p \in Y[d]
        BY <1>1, <1>3 DEF Closed
      <4>4. a \in DOMAIN A /\ b \in DOMAIN A
        OBVIOUS
      <4>5. q \in Y[b]
        BY ONLY <4>1, <4>2, <4>3, <4>4
      <4>6. k - i \in Y[b]
        BY <4>5 DEF q
      <4> QED BY <1>2, <2>1, <3>1, <4>6
    <3>3. CASE ~(k <= j)
      BY <1>2, <2>1, <3>1, <3>3
    <3> QED BY <3>2, <3>3
  <2>5. Closed(A, w, X)
    BY <2>2, <2>3, <2>4 DEF Closed, n
  <2>6. i \in X[s]
    <3>1. i \in 0 .. n /\ i <= i /\ i - i = 0
      BY <1>2
    <3> QED BY <1>3, <2>1, <3>1
  <2>7. j \in X[t]
    BY <1>3, <2>5, <2>6 DEF Reaches
  <2> QED BY <1>2, <2>1, <2>7
<1>4. ASSUME Reaches(A, v, s, 0, t, m), NEW X, Closed(A, w, X), i \in X[s] PROVE j \in X[t]
  <2> DEFINE Y == [u \in DOMAIN A |-> {k \in 0 .. m : i + k \in X[u]}]
  <2>1. \A u \in DOMAIN A : \A k : k \in Y[u] <=> k \in 0 .. m /\ i + k \in X[u]
    OBVIOUS
  <2>2. Y \in [DOMAIN A -> SUBSET (0 .. m)]
    OBVIOUS
  <2> HIDE DEF Y
  <2>3. \A a, b \in DOMAIN A : EmptyMove(A, a, b) => Y[a] \subseteq Y[b]
    BY <1>4, <2>1, <2>2 DEF Closed
  <2>4. ASSUME NEW k \in 1 .. m, NEW a \in DOMAIN A, NEW b \in DOMAIN A, k - 1 \in Y[a], CharMove(A, v[k], a, b)
        PROVE  k \in Y[b]
    <3> DEFINE q == i + k
    <3>1. q \in 1 .. n /\ q - 1 = i + (k - 1)
      BY <1>2
    <3>2. q - 1 \in X[a] /\ CharMove(A, w[q], a, b)
      BY <1>1, <2>1, <2>4, <3>1
    <3>3. q \in X[b]
      BY <1>4, <3>1, <3>2 DEF Closed, n
    <3> QED BY <2>1, <3>3
  <2>5. Closed(A, v, Y)
    BY <1>1, <2>2, <2>3, <2>4 DEF Closed
  <2>6. 0 \in Y[s]
    BY <1>2, <1>4, <2>1
  <2>7. m \in Y[t]
    BY <1>4, <2>5, <2>6 DEF Reaches
  <2> QED BY <1>2, <2>1, <2>7
<1>5. Reaches(A, w, s, i, t, j) => Reaches(A, v, s, 0, t, m)
  BY <1>3 DEF Reaches
<1>6. Reaches(A, v, s, 0, t, m) => Reaches(A, w, s, i, t, j)
  BY <1>4 DEF Reaches
<1> QED BY <1>5, <1>6 DEF v, m

\* The words between two places of an accepted word.
LEMMA SegmentLanguage ==
    ASSUME NEW A, WellFormed(A), NEW w \in Words(MaxWord), NEW i \in 0 .. Len(w), NEW j \in i .. Len(w)
    PROVE  /\ SubSeq(w, i + 1, j) \in Words(MaxWord)
           /\ SubSeq(w, i + 1, j) \in Language(A) <=> Accepts(A, w, i, j)
<1>1. MaxWord \in Nat
  BY AutomatAssumption
<1>2. w \in Seq(Chars) /\ Len(w) <= MaxWord /\ Len(w) \in Nat
  BY <1>1, WordsFacts
<1> DEFINE v == SubSeq(w, i + 1, j)
<1>3. v \in Seq(Chars) /\ Len(v) = j - i
  BY <1>2, SegmentFacts
<1>4. 1 \in DOMAIN A /\ Len(A) \in DOMAIN A
  BY MoveFacts
<1>5. Reaches(A, w, 1, i, Len(A), j) <=> Reaches(A, v, 1, 0, Len(A), j - i)
  BY <1>2, <1>4, ReachesSegment
<1>6. v \in Words(MaxWord)
  <2>1. Len(v) <= MaxWord
    BY <1>1, <1>2, <1>3
  <2> QED BY <1>1, <1>3, <2>1, WordsFacts
<1> QED BY <1>3, <1>5, <1>6 DEF Language, Accepts

\* The moves from state s do not lead out of X.
StaysIn(C, w, X, s) ==
    /\ \A u \in DOMAIN C : EmptyMove(C, s, u) => X[s] \subseteq X[u]
    /\ \A k \in 1 .. Len(w) : \A u \in DOMAIN C : k - 1 \in X[s] /\ CharMove(C, w[k], s, u) => k \in X[u]

\* Closed, state by state.
LEMMA ClosedStays ==
    ASSUME NEW C, NEW w, NEW X
    PROVE  Closed(C, w, X) <=> X \in [DOMAIN C -> SUBSET (0 .. Len(w))] /\ \A s \in DOMAIN C : StaysIn(C, w, X, s)
BY DEF Closed, StaysIn

\* The places which can be reached from the start state at one of the places I.
ReachedAfter(A, w, I) == [t \in DOMAIN A |-> {j \in 0 .. Len(w) : \E i \in I : Reaches(A, w, 1, i, t, j)}]

\* It is closed, and at the end state it tells what is accepted.
LEMMA ReachedAfterClosed ==
    ASSUME NEW A, WellFormed(A), NEW w, Len(w) \in Nat, NEW I \in SUBSET (0 .. Len(w))
    PROVE  /\ Closed(A, w, ReachedAfter(A, w, I))
           /\ I \subseteq ReachedAfter(A, w, I)[1]
           /\ \A j : j \in ReachedAfter(A, w, I)[Len(A)] <=> j \in 0 .. Len(w) /\ \E i \in I : Accepts(A, w, i, j)
<1> DEFINE X == ReachedAfter(A, w, I)
<1>0. 1 \in DOMAIN A /\ Len(A) \in DOMAIN A
  BY MoveFacts
<1>1. X \in [DOMAIN A -> SUBSET (0 .. Len(w))]
  BY DEF ReachedAfter
<1>2. \A t \in DOMAIN A : \A j : j \in X[t] <=> j \in 0 .. Len(w) /\ \E i \in I : Reaches(A, w, 1, i, t, j)
  BY DEF ReachedAfter
<1> HIDE DEF X
<1>3. ASSUME NEW u \in DOMAIN A, NEW t \in DOMAIN A, EmptyMove(A, u, t), NEW j \in X[u] PROVE j \in X[t]
  <2>1. PICK i \in I : Reaches(A, w, 1, i, u, j)
    BY <1>2
  <2>2. Reaches(A, w, u, j, t, j)
    BY <1>3, ReachesSteps
  <2>3. Reaches(A, w, 1, i, t, j)
    BY <2>1, <2>2, ReachesSteps
  <2> QED BY <1>2, <2>3
<1>4. ASSUME NEW k \in 1 .. Len(w), NEW u \in DOMAIN A, NEW t \in DOMAIN A, k - 1 \in X[u], CharMove(A, w[k], u, t)
      PROVE  k \in X[t]
  <2>1. PICK i \in I : Reaches(A, w, 1, i, u, k - 1)
    BY <1>2, <1>4
  <2>2. Reaches(A, w, u, k - 1, t, k)
    BY <1>4, ReachesSteps
  <2>3. Reaches(A, w, 1, i, t, k)
    BY <2>1, <2>2, ReachesSteps
  <2>4. k \in 0 .. Len(w)
    OBVIOUS
  <2> QED BY <1>2, <2>3, <2>4
<1>5. Closed(A, w, X)
  BY <1>1, <1>3, <1>4 DEF Closed
<1>6. I \subseteq X[1]
  BY <1>0, <1>2, ReachesSteps
<1>7. \A j : j \in X[Len(A)] <=> j \in 0 .. Len(w) /\ \E i \in I : Accepts(A, w, i, j)
  BY <1>0, <1>2 DEF Accepts
<1> QED BY <1>5, <1>6, <1>7 DEF X

\* What a block of C can reach.
LEMMA BlockReaches ==
    ASSUME NEW C, WellFormed(C), NEW A, WellFormed(A), NEW d \in Nat, Len(A) + d <= Len(C), NEW e, Block(C, A, d, e),
           NEW w \in Seq(Chars), NEW s \in DOMAIN A, NEW i, NEW t \in DOMAIN A, NEW j, Reaches(A, w, s, i, t, j)
    PROVE  Reaches(C, w, s + d, i, t + d, j)
<1>1. /\ Len(A) \in Nat /\ DOMAIN A = 1 .. Len(A) /\ Len(C) \in Nat /\ DOMAIN C = 1 .. Len(C)
      /\ \A u \in DOMAIN A : u + d \in DOMAIN C
  BY MoveFacts
<1> SUFFICES ASSUME NEW X, Closed(C, w, X), i \in X[s + d] PROVE j \in X[t + d]
  BY DEF Reaches
<1> DEFINE Y == [u \in DOMAIN A |-> X[u + d]]
<1>2. \A u \in DOMAIN A : Y[u] = X[u + d]
  OBVIOUS
<1>3. Y \in [DOMAIN A -> SUBSET (0 .. Len(w))]
  BY <1>1 DEF Closed
<1> HIDE DEF Y
<1>4. ASSUME NEW a \in DOMAIN A, NEW b \in DOMAIN A, EmptyMove(A, a, b) PROVE Y[a] \subseteq Y[b]
  <2>1. CASE a = b
    BY <2>1
  <2>2. CASE a # b
    <3>1. EmptyMove(C, a + d, b + d)
      BY <1>4, <2>2 DEF Block
    <3> QED BY <1>1, <1>2, <3>1 DEF Closed
  <2> QED BY <2>1, <2>2
<1>5. ASSUME NEW k \in 1 .. Len(w), NEW a \in DOMAIN A, NEW b \in DOMAIN A, k - 1 \in Y[a], CharMove(A, w[k], a, b)
      PROVE  k \in Y[b]
  <2>1. w[k] \in Chars /\ a + d \in DOMAIN C /\ b + d \in DOMAIN C
    BY <1>1, SMTT(30)
  <2>2. CharMove(C, w[k], a + d, b + d)
    BY <1>5, <2>1 DEF Block
  <2>3. k - 1 \in X[a + d]
    BY <1>2, <1>5
  <2>4. k \in X[b + d]
    BY <2>1, <2>2, <2>3 DEF Closed
  <2> QED BY <1>2, <2>4
<1>6. Closed(A, w, Y)
  BY <1>3, <1>4, <1>5 DEF Closed
<1>7. i \in Y[s]
  BY <1>2
<1>8. j \in Y[t]
  BY <1>6, <1>7 DEF Reaches
<1> QED BY <1>2, <1>8

\* From the start state of a block to the state after it.
LEMMA BlockAccepts ==
    ASSUME NEW C, WellFormed(C), NEW A, WellFormed(A), NEW d \in Nat, Len(A) + d <= Len(C), NEW e \in DOMAIN C,
           Block(C, A, d, e), NEW w \in Seq(Chars), NEW i, NEW j, Accepts(A, w, i, j)
    PROVE  Reaches(C, w, 1 + d, i, e, j)
<1>1. 1 \in DOMAIN A /\ Len(A) \in DOMAIN A /\ Len(A) + d \in DOMAIN C
  BY MoveFacts
<1>2. Reaches(C, w, 1 + d, i, Len(A) + d, j)
  BY <1>1, BlockReaches DEF Accepts
<1>3. EmptyMove(C, Len(A) + d, e)
  BY DEF Block
<1>4. Reaches(C, w, Len(A) + d, j, e, j)
  BY <1>1, <1>3, ReachesSteps
<1> QED BY <1>2, <1>4, ReachesSteps

\* A family of sets of C which holds a closed one of A.
LEMMA BlockStays ==
    ASSUME NEW C, WellFormed(C), NEW A, WellFormed(A), NEW d \in Nat, Len(A) + d <= Len(C), NEW e \in DOMAIN C,
           Block(C, A, d, e), NEW w \in Seq(Chars), NEW Y, Closed(A, w, Y), NEW X,
           \A s \in DOMAIN A : X[s + d] = Y[s], Y[Len(A)] \subseteq X[e]
    PROVE  \A s \in DOMAIN A : StaysIn(C, w, X, s + d)
<1> SUFFICES ASSUME NEW s \in DOMAIN A PROVE StaysIn(C, w, X, s + d)
  OBVIOUS
<1>1. ASSUME NEW u \in DOMAIN C, EmptyMove(C, s + d, u) PROVE X[s + d] \subseteq X[u]
  <2>1. (\E t \in DOMAIN A : EmptyMove(A, s, t) /\ u = t + d) \/ (s = Len(A) /\ u = e)
    BY <1>1 DEF Block
  <2>2. CASE s = Len(A) /\ u = e
    BY <2>2
  <2>3. ASSUME NEW t \in DOMAIN A, EmptyMove(A, s, t), u = t + d PROVE X[s + d] \subseteq X[u]
    <3>1. Y[s] \subseteq Y[t]
      BY <2>3 DEF Closed
    <3> QED BY <2>3, <3>1
  <2> QED BY <2>1, <2>2, <2>3
<1>2. ASSUME NEW k \in 1 .. Len(w), NEW u \in DOMAIN C, k - 1 \in X[s + d], CharMove(C, w[k], s + d, u)
      PROVE  k \in X[u]
  <2>1. w[k] \in Chars
    OBVIOUS
  <2>2. PICK t \in DOMAIN A : CharMove(A, w[k], s, t) /\ u = t + d
    BY <1>2, <2>1 DEF Block
  <2>3. k - 1 \in Y[s]
    BY <1>2
  <2>4. k \in Y[t]
    BY <2>2, <2>3 DEF Closed
  <2> QED BY <2>2, <2>4
<1> QED BY <1>1, <1>2 DEF StaysIn

-----------------------------------------------------------------------------
(* opsequence_automat and opor_automat *)

JoinedFamily(A, B, Y, Z, E) ==
    [u \in 1 .. Len(A) + Len(B) + 2 |->
        IF u = 1 THEN {0} ELSE IF u <= Len(A) + 1 THEN Y[u - 1]
        ELSE IF u = Len(A) + Len(B) + 2 THEN E ELSE Z[u - (Len(A) + 1)]]

\* Closed families of the parts give one of the sequence or alternative.
LEMMA JoinedClosed ==
    ASSUME NEW A, WellFormed(A), NEW B, WellFormed(B), NEW N, N = Len(A) + Len(B) + 2,
           NEW t, NEW e \in {Len(A) + 2, N}, NEW C, IsJoined(C, t, A, e, B, N),
           NEW w \in Seq(Chars), NEW Y, Closed(A, w, Y), NEW Z, Closed(B, w, Z), NEW E \in SUBSET (0 .. Len(w)),
           0 \in Y[1], Z[Len(B)] \subseteq E,
           \/ t = << 2 >> /\ e = Len(A) + 2 /\ Y[Len(A)] \subseteq Z[1]
           \/ t = <<2, Len(A) + 2>> /\ e = N /\ 0 \in Z[1] /\ Y[Len(A)] \subseteq E
    PROVE  /\ Closed(C, w, JoinedFamily(A, B, Y, Z, E))
           /\ 0 \in JoinedFamily(A, B, Y, Z, E)[1] /\ JoinedFamily(A, B, Y, Z, E)[Len(C)] = E
<1> DEFINE X == JoinedFamily(A, B, Y, Z, E)
           a == Len(A)
           b == Len(B)
<1>1. /\ a \in Nat /\ a >= 2 /\ DOMAIN A = 1 .. a /\ b \in Nat /\ b >= 2 /\ DOMAIN B = 1 .. b
      /\ N \in Nat /\ N = a + b + 2
  BY MoveFacts
<1>2. /\ WellFormed(C) /\ Len(C) = N /\ DOMAIN C = 1 .. N
      /\ C[1] = EmptyState(t) /\ C[N] = EmptyState(<<N>>)
      /\ Block(C, A, 1, e) /\ Block(C, B, a + 1, N)
  <2>1. WellFormed(C) /\ Len(C) = N
    BY DEF IsJoined
  <2>2. DOMAIN C = 1 .. N
    BY <2>1, MoveFacts
  <2> QED BY <2>1, <2>2 DEF IsJoined
<1>3. /\ DOMAIN X = 1 .. N
      /\ X[1] = {0} /\ X[N] = E
      /\ \A s \in 1 .. a : X[s + 1] = Y[s]
      /\ \A s \in 1 .. b : X[s + (a + 1)] = Z[s]
  BY <1>1 DEF JoinedFamily
<1>a. X = [u \in 1 .. N |-> X[u]]
  BY <1>1 DEF JoinedFamily
<1> HIDE DEF X, a, b
<1>4. \A u \in 1 .. N : \/ u = 1 \/ u = N \/ (\E s \in 1 .. a : u = s + 1) \/ \E s \in 1 .. b : u = s + (a + 1)
  <2> SUFFICES ASSUME NEW u \in 1 .. N, u # 1, u # N
               PROVE  (\E s \in 1 .. a : u = s + 1) \/ \E s \in 1 .. b : u = s + (a + 1)
    OBVIOUS
  <2>1. CASE u <= a + 1
    <3>1. u - 1 \in 1 .. a /\ u = (u - 1) + 1
      BY <1>1, <2>1
    <3> QED BY <3>1
  <2>2. CASE ~(u <= a + 1)
    <3>1. u - (a + 1) \in 1 .. b /\ u = (u - (a + 1)) + (a + 1)
      BY <1>1, <2>2
    <3> QED BY <3>1
  <2> QED BY <2>1, <2>2
<1>5. X \in [DOMAIN C -> SUBSET (0 .. Len(w))]
  <2>1. \A s \in 1 .. a : Y[s] \in SUBSET (0 .. Len(w))
    BY <1>1 DEF Closed
  <2>2. \A s \in 1 .. b : Z[s] \in SUBSET (0 .. Len(w))
    BY <1>1 DEF Closed
  <2>3. {0} \in SUBSET (0 .. Len(w))
    OBVIOUS
  <2>4. ASSUME NEW u \in 1 .. N PROVE X[u] \in SUBSET (0 .. Len(w))
    <3>1. ASSUME NEW s \in 1 .. a, u = s + 1 PROVE X[u] \in SUBSET (0 .. Len(w))
      BY <1>3, <2>1, <3>1
    <3>2. ASSUME NEW s \in 1 .. b, u = s + (a + 1) PROVE X[u] \in SUBSET (0 .. Len(w))
      BY <1>3, <2>2, <3>2
    <3>3. u = 1 \/ u = N => X[u] \in SUBSET (0 .. Len(w))
      BY <1>3, <2>3
    <3> QED BY <1>4, <3>1, <3>2, <3>3
  <2> QED BY <1>2, <1>a, <2>4
<1>6. e \in DOMAIN C /\ N \in DOMAIN C /\ 1 \in Nat /\ a + 1 \in Nat /\ a + 1 <= N /\ b + (a + 1) <= N
  BY <1>1, <1>2 DEF a
<1>7. Y[a] \subseteq X[e] /\ Z[b] \subseteq X[N]
  <2>1. 1 + (a + 1) = a + 2 /\ 1 \in 1 .. b
    BY <1>1
  <2>2. X[a + 2] = Z[1]
    BY <1>3, <2>1
  <2> QED BY <1>3, <2>2 DEF a, b
<1>8. \A s \in DOMAIN A : StaysIn(C, w, X, s + 1)
  <2>1. \A s \in DOMAIN A : X[s + 1] = Y[s]
    BY <1>1, <1>3
  <2>2. Len(A) + 1 <= Len(C) /\ Y[Len(A)] \subseteq X[e]
    BY <1>2, <1>6, <1>7 DEF a
  <2>3. WellFormed(A) /\ Closed(A, w, Y) /\ w \in Seq(Chars)
    OBVIOUS
  <2> QED BY ONLY <1>2, <1>6, <2>1, <2>2, <2>3, BlockStays
<1>9. \A s \in DOMAIN B : StaysIn(C, w, X, s + (a + 1))
  <2>1. \A s \in DOMAIN B : X[s + (a + 1)] = Z[s]
    BY <1>1, <1>3
  <2>2. Len(B) + (a + 1) <= Len(C) /\ Z[Len(B)] \subseteq X[N]
    BY <1>2, <1>6, <1>7 DEF b
  <2>3. WellFormed(B) /\ Closed(B, w, Z) /\ w \in Seq(Chars)
    OBVIOUS
  <2> QED BY ONLY <1>2, <1>6, <2>1, <2>2, <2>3, BlockStays, ZenonT(60)
<1>10. StaysIn(C, w, X, 1)
  <2>1. \A c, u : ~CharMove(C, c, 1, u)
    BY <1>2, EmptyStateMoves
  <2>2. \A u : EmptyMove(C, 1, u) <=> u \in ToSet(t)
    BY <1>2, EmptyStateMoves
  <2>3. X[2] = Y[1] /\ X[a + 2] = Z[1]
    <3>1. 1 \in 1 .. a /\ 1 + 1 = 2 /\ 1 \in 1 .. b /\ 1 + (a + 1) = a + 2
      BY <1>1
    <3> QED BY <1>3, <3>1
  <2>4. \A u \in ToSet(t) : X[1] \subseteq X[u]
    <3>1. CASE t = <<2>>
      <4>1. ToSet(t) = {2}
        BY <3>1 DEF ToSet
      <4> QED BY <1>3, <2>3, <4>1
    <3>2. CASE t = <<2, Len(A) + 2>> /\ 0 \in Z[1]
      <4>1. ToSet(t) = {2, a + 2}
        BY <3>2 DEF ToSet, a
      <4> QED BY <1>3, <2>3, <3>2, <4>1
    <3> QED BY <3>1, <3>2
  <2> QED BY <2>1, <2>2, <2>4 DEF StaysIn
<1>11. StaysIn(C, w, X, N)
  <2>1. \A c, u : ~CharMove(C, c, N, u)
    BY <1>2, EmptyStateMoves
  <2>2. \A u : EmptyMove(C, N, u) <=> u \in ToSet(<<N>>)
    BY <1>2, EmptyStateMoves
  <2>3. ToSet(<<N>>) = {N}
    BY DEF ToSet
  <2> QED BY <2>1, <2>2, <2>3 DEF StaysIn
<1>12. \A u \in DOMAIN C : StaysIn(C, w, X, u)
  <2> SUFFICES ASSUME NEW u \in 1 .. N PROVE StaysIn(C, w, X, u)
    BY <1>2
  <2>1. ASSUME NEW s \in 1 .. a, u = s + 1 PROVE StaysIn(C, w, X, u)
    BY <1>1, <1>8, <2>1
  <2>2. ASSUME NEW s \in 1 .. b, u = s + (a + 1) PROVE StaysIn(C, w, X, u)
    BY <1>1, <1>9, <2>2
  <2> QED BY <1>4, <1>10, <1>11, <2>1, <2>2
<1>13. Closed(C, w, X)
  BY <1>5, <1>12, ClosedStays
<1> QED BY <1>2, <1>3, <1>13 DEF X

\* A word of Concat can be cut.
LEMMA ConcatWords ==
    ASSUME NEW P \in SUBSET Words(MaxWord), NEW Q \in SUBSET Words(MaxWord)
    PROVE  /\ Concat(P, Q) \in SUBSET Words(MaxWord)
           /\ \A w : w \in Concat(P, Q) <=>
                 w \in Words(MaxWord) /\ \E j \in 0 .. Len(w) : SubSeq(w, 1, j) \in P /\ SubSeq(w, j + 1, Len(w)) \in Q
<1>0. MaxWord \in Nat
  BY AutomatAssumption
<1>1. \A w : w \in Words(MaxWord) <=> w \in Seq(Chars) /\ Len(w) <= MaxWord
  BY <1>0, WordsFacts
<1>2. ASSUME NEW w, w \in Concat(P, Q)
      PROVE  w \in Words(MaxWord) /\ \E j \in 0 .. Len(w) : SubSeq(w, 1, j) \in P /\ SubSeq(w, j + 1, Len(w)) \in Q
  <2>1. PICK u \in P, v \in Q : w = u \o v /\ Len(w) <= MaxWord
    BY <1>2 DEF Concat
  <2>2. u \in Seq(Chars) /\ v \in Seq(Chars)
    BY <1>1
  <2>3. /\ u \o v \in Seq(Chars) /\ Len(u \o v) = Len(u) + Len(v)
        /\ SubSeq(u \o v, 1, Len(u)) = u /\ SubSeq(u \o v, Len(u) + 1, Len(u) + Len(v)) = v
    BY <2>2, JoinFacts
  <2>a. Len(u) \in Nat /\ Len(v) \in Nat /\ Len(w) = Len(u) + Len(v)
    BY <2>1, <2>2, <2>3
  <2>b. w \in Words(MaxWord)
    BY <1>1, <2>1, <2>3
  <2>4. Len(u) \in 0 .. Len(w) /\ w \in Words(MaxWord)
    BY <2>a, <2>b
  <2>5. SubSeq(w, 1, Len(u)) = u /\ SubSeq(w, Len(u) + 1, Len(w)) = v
    BY <2>1, <2>3
  <2> QED BY <2>4, <2>5
<1>3. ASSUME NEW w \in Words(MaxWord), NEW j \in 0 .. Len(w), SubSeq(w, 1, j) \in P, SubSeq(w, j + 1, Len(w)) \in Q
      PROVE  w \in Concat(P, Q)
  <2>1. w = SubSeq(w, 1, j) \o SubSeq(w, j + 1, Len(w)) /\ Len(w) <= MaxWord
    BY <1>1, CutFacts
  <2> DEFINE u == SubSeq(w, 1, j)
             v == SubSeq(w, j + 1, Len(w))
  <2>2. u \in P /\ v \in Q /\ w = u \o v
    BY <1>3, <2>1
  <2> HIDE DEF u, v
  <2> QED BY <2>1, <2>2 DEF Concat
<1> QED BY <1>2, <1>3

\* The cut parts of a word are accepted or not.
LEMMA CutLanguages ==
    ASSUME NEW A, WellFormed(A), NEW w \in Words(MaxWord), NEW j \in 0 .. Len(w)
    PROVE  /\ SubSeq(w, 1, j) \in Words(MaxWord) /\ SubSeq(w, j + 1, Len(w)) \in Words(MaxWord)
           /\ SubSeq(w, 1, j) \in Language(A) <=> Accepts(A, w, 0, j)
           /\ SubSeq(w, j + 1, Len(w)) \in Language(A) <=> Accepts(A, w, j, Len(w))
<1>1. Len(w) \in Nat
  BY AutomatAssumption, WordsFacts
<1>2. 0 \in 0 .. Len(w) /\ Len(w) \in j .. Len(w) /\ 0 + 1 = 1 /\ j \in 0 .. Len(w)
  BY <1>1
<1>3. SubSeq(w, 0 + 1, j) \in Words(MaxWord) /\ (SubSeq(w, 0 + 1, j) \in Language(A) <=> Accepts(A, w, 0, j))
  BY <1>2, SegmentLanguage
<1>4. SubSeq(w, j + 1, Len(w)) \in Words(MaxWord) /\ (SubSeq(w, j + 1, Len(w)) \in Language(A) <=> Accepts(A, w, j, Len(w)))
  BY <1>2, SegmentLanguage
<1> QED BY <1>2, <1>3, <1>4

\* opor_automat: what the one or the other operand accepts.
LEMMA OrLanguage ==
    ASSUME NEW A, WellFormed(A), NEW B, WellFormed(B)
    PROVE  Language(OpOr(A, B)) = Language(A) \cup Language(B)
<1> DEFINE C == OpOr(A, B)
           N == Len(A) + Len(B) + 2
           t == <<2, Len(A) + 2>>
<1>1. IsJoined(C, t, A, N, B, N)
  BY OrStates
<1> HIDE DEF C
<1>2. /\ Len(A) \in Nat /\ Len(A) >= 2 /\ Len(B) \in Nat /\ Len(B) >= 2 /\ 1 \in DOMAIN A /\ 1 \in DOMAIN B
      /\ Len(A) \in DOMAIN A /\ Len(B) \in DOMAIN B
  BY MoveFacts
<1>3. WellFormed(C) /\ Len(C) = N /\ C[1] = EmptyState(t) /\ Block(C, A, 1, N) /\ Block(C, B, Len(A) + 1, N)
  BY <1>1 DEF IsJoined
<1>4. DOMAIN C = 1 .. N /\ 1 \in DOMAIN C /\ N \in DOMAIN C /\ N \in Nat
  BY <1>3, MoveFacts
<1>5. ASSUME NEW w \in Words(MaxWord)
      PROVE  Accepts(C, w, 0, Len(w)) <=> Accepts(A, w, 0, Len(w)) \/ Accepts(B, w, 0, Len(w))
  <2> DEFINE n == Len(w)
             Y == ReachedAfter(A, w, {0})
             Z == ReachedAfter(B, w, {0})
             E == Y[Len(A)] \cup Z[Len(B)]
             X == JoinedFamily(A, B, Y, Z, E)
  <2>1. w \in Seq(Chars) /\ n \in Nat /\ {0} \in SUBSET (0 .. n)
    BY AutomatAssumption, WordsFacts
  <2> HIDE DEF n
  <2>2. /\ Closed(A, w, Y) /\ {0} \subseteq Y[1]
        /\ \A j : j \in Y[Len(A)] <=> j \in 0 .. n /\ \E i \in {0} : Accepts(A, w, i, j)
    BY <2>1, ReachedAfterClosed DEF n
  <2>3. /\ Closed(B, w, Z) /\ {0} \subseteq Z[1]
        /\ \A j : j \in Z[Len(B)] <=> j \in 0 .. n /\ \E i \in {0} : Accepts(B, w, i, j)
    BY <2>1, ReachedAfterClosed DEF n
  <2> HIDE DEF Y, Z, E
  <2>4. E \in SUBSET (0 .. Len(w)) /\ Y[Len(A)] \subseteq E /\ Z[Len(B)] \subseteq E
    BY <2>2, <2>3 DEF E, n
  <2>c. /\ N = Len(A) + Len(B) + 2 /\ N \in {Len(A) + 2, N} /\ t = <<2, Len(A) + 2>>
        /\ 0 \in Y[1] /\ 0 \in Z[1] /\ Y[Len(A)] \subseteq E /\ Z[Len(B)] \subseteq E
    BY <2>2, <2>3, <2>4
  <2>d. w \in Seq(Chars) /\ Closed(A, w, Y) /\ Closed(B, w, Z) /\ E \in SUBSET (0 .. Len(w))
    BY <2>1, <2>2, <2>3, <2>4
  <2>5. Closed(C, w, X) /\ 0 \in X[1] /\ X[Len(C)] = E
    <3> HIDE DEF N, t
    <3> QED BY ONLY WellFormed(A), WellFormed(B), <1>1, <2>c, <2>d, JoinedClosed, SMTT(30)
  <2> HIDE DEF X
  <2>6. Accepts(C, w, 0, n) => n \in E
    BY <2>5 DEF Accepts, Reaches
  <2>7. n \in E => Accepts(A, w, 0, n) \/ Accepts(B, w, 0, n)
    BY <2>2, <2>3 DEF E
  <2>8. EmptyMove(C, 1, 2) /\ EmptyMove(C, 1, Len(A) + 2)
    <3>1. 2 \in ToSet(t) /\ Len(A) + 2 \in ToSet(t)
      BY DEF ToSet
    <3> QED BY <1>3, <3>1, EmptyStateMoves
  <2>9. Reaches(C, w, 1, 0, 2, 0) /\ Reaches(C, w, 1, 0, Len(A) + 2, 0)
    <3>1. 2 \in DOMAIN C /\ Len(A) + 2 \in DOMAIN C
      BY <1>2, <1>4
    <3> QED BY <1>4, <2>8, <3>1, ReachesSteps
  <2>10. ASSUME Accepts(A, w, 0, n) PROVE Accepts(C, w, 0, n)
    <3>1. 1 \in Nat /\ Len(A) + 1 <= Len(C) /\ 1 + 1 = 2
      BY <1>2, <1>3
    <3>2. Reaches(C, w, 1 + 1, 0, N, n)
      BY <1>3, <1>4, <2>1, <2>10, <3>1, BlockAccepts
    <3>3. Reaches(C, w, 2, 0, N, n)
      BY ONLY <3>1, <3>2
    <3>4. Reaches(C, w, 1, 0, N, n)
      BY ONLY <2>9, <3>3, ReachesOn
    <3> QED BY ONLY <1>3, <3>4 DEF Accepts
  <2>11. ASSUME Accepts(B, w, 0, n) PROVE Accepts(C, w, 0, n)
    <3>1. Len(A) + 1 \in Nat /\ Len(B) + (Len(A) + 1) <= Len(C) /\ 1 + (Len(A) + 1) = Len(A) + 2
      BY <1>2, <1>3
    <3>2. Reaches(C, w, 1 + (Len(A) + 1), 0, N, n)
      BY <1>3, <1>4, <2>1, <2>11, <3>1, BlockAccepts
    <3>3. Reaches(C, w, Len(A) + 2, 0, N, n)
      BY ONLY <3>1, <3>2
    <3>4. Reaches(C, w, 1, 0, N, n)
      BY ONLY <2>9, <3>3, ReachesOn
    <3> QED BY ONLY <1>3, <3>4 DEF Accepts
  <2> QED BY <2>6, <2>7, <2>10, <2>11 DEF n
<1> QED BY <1>5 DEF Language, C

\* opsequence_automat: the words of the first operand followed by those of the
\* second.
LEMMA SequenceLanguage ==
    ASSUME NEW A, WellFormed(A), NEW B, WellFormed(B)
    PROVE  Language(OpSequence(A, B)) = Concat(Language(A), Language(B))
<1> DEFINE C == OpSequence(A, B)
           N == Len(A) + Len(B) + 2
           t == <<2>>
           e == Len(A) + 2
<1>1. IsJoined(C, t, A, e, B, N)
  BY SequenceStates
<1> HIDE DEF C
<1>2. /\ Len(A) \in Nat /\ Len(A) >= 2 /\ Len(B) \in Nat /\ Len(B) >= 2 /\ 1 \in DOMAIN A /\ 1 \in DOMAIN B
      /\ Len(A) \in DOMAIN A /\ Len(B) \in DOMAIN B
  BY MoveFacts
<1>3. WellFormed(C) /\ Len(C) = N /\ C[1] = EmptyState(t) /\ Block(C, A, 1, e) /\ Block(C, B, Len(A) + 1, N)
  BY <1>1 DEF IsJoined
<1>4. DOMAIN C = 1 .. N /\ 1 \in DOMAIN C /\ N \in DOMAIN C /\ N \in Nat /\ e \in DOMAIN C /\ 2 \in DOMAIN C
  BY <1>2, <1>3, MoveFacts
<1>5. ASSUME NEW w \in Words(MaxWord)
      PROVE  Accepts(C, w, 0, Len(w)) <=> \E j \in 0 .. Len(w) : Accepts(A, w, 0, j) /\ Accepts(B, w, j, Len(w))
  <2> DEFINE n == Len(w)
             Y == ReachedAfter(A, w, {0})
             I == Y[Len(A)]
             Z == ReachedAfter(B, w, I)
             E == Z[Len(B)]
             X == JoinedFamily(A, B, Y, Z, E)
  <2>1. w \in Seq(Chars) /\ n \in Nat /\ {0} \in SUBSET (0 .. n)
    BY AutomatAssumption, WordsFacts
  <2> HIDE DEF n
  <2>2. /\ Closed(A, w, Y) /\ {0} \subseteq Y[1]
        /\ \A j : j \in Y[Len(A)] <=> j \in 0 .. n /\ \E i \in {0} : Accepts(A, w, i, j)
    BY <2>1, ReachedAfterClosed DEF n
  <2> HIDE DEF Y
  <2>a. I \in SUBSET (0 .. n)
    BY <2>2
  <2> HIDE DEF I
  <2>3. /\ Closed(B, w, Z) /\ I \subseteq Z[1]
        /\ \A j : j \in Z[Len(B)] <=> j \in 0 .. n /\ \E i \in I : Accepts(B, w, i, j)
    BY <2>1, <2>a, ReachedAfterClosed DEF n
  <2> HIDE DEF Z
  <2>4. E \in SUBSET (0 .. Len(w)) /\ Y[Len(A)] \subseteq Z[1] /\ Z[Len(B)] \subseteq E /\ 0 \in Y[1]
    BY <2>2, <2>3 DEF n, I
  <2> HIDE DEF E
  <2>b. t = <<2>> /\ e = Len(A) + 2 /\ e \in {Len(A) + 2, N} /\ N = Len(A) + Len(B) + 2
    OBVIOUS
  <2>5. Closed(C, w, X) /\ 0 \in X[1] /\ X[Len(C)] = E
    BY ONLY WellFormed(A), WellFormed(B), <1>1, <2>1, <2>2, <2>3, <2>4, <2>b, JoinedClosed, SMTT(30)
  <2> HIDE DEF X
  <2>6. Accepts(C, w, 0, n) => n \in E
    BY <2>5 DEF Accepts, Reaches
  <2>7. n \in E => \E j \in 0 .. n : Accepts(A, w, 0, j) /\ Accepts(B, w, j, n)
    BY <2>2, <2>3 DEF E, I
  <2>8. EmptyMove(C, 1, 2)
    <3>1. 2 \in ToSet(t)
      BY DEF ToSet
    <3> QED BY <1>3, <3>1, EmptyStateMoves
  <2>9. Reaches(C, w, 1, 0, 2, 0)
    BY <1>4, <2>8, ReachesSteps
  <2>10. ASSUME NEW j \in 0 .. n, Accepts(A, w, 0, j), Accepts(B, w, j, n) PROVE Accepts(C, w, 0, n)
    <3>1. 1 \in Nat /\ Len(A) + 1 <= Len(C) /\ 1 + 1 = 2
      BY <1>2, <1>3
    <3>2. Reaches(C, w, 1 + 1, 0, e, j)
      BY <1>3, <1>4, <2>1, <2>10, <3>1, BlockAccepts
    <3>3. Len(A) + 1 \in Nat /\ Len(B) + (Len(A) + 1) <= Len(C) /\ 1 + (Len(A) + 1) = e
      BY <1>2, <1>3
    <3>4. Reaches(C, w, 1 + (Len(A) + 1), j, N, n)
      BY <1>3, <1>4, <2>1, <2>10, <3>3, BlockAccepts
    <3>a. Reaches(C, w, 2, 0, e, j) /\ Reaches(C, w, e, j, N, n)
      BY ONLY <3>1, <3>2, <3>3, <3>4
    <3>5. Reaches(C, w, 1, 0, e, j)
      BY ONLY <2>9, <3>a, ReachesOn
    <3>6. Reaches(C, w, 1, 0, N, n)
      BY ONLY <3>a, <3>5, ReachesOn
    <3> QED BY ONLY <1>3, <3>6 DEF Accepts
  <2> QED BY <2>6, <2>7, <2>10 DEF n
<1>6. Language(A) \in SUBSET Words(MaxWord) /\ Language(B) \in SUBSET Words(MaxWord)
  BY DEF Language
<1>7. ASSUME NEW w \in Words(MaxWord) PROVE w \in Concat(Language(A), Language(B)) <=> w \in Language(C)
  <2>1. \A j \in 0 .. Len(w) : /\ SubSeq(w, 1, j) \in Language(A) <=> Accepts(A, w, 0, j)
                               /\ SubSeq(w, j + 1, Len(w)) \in Language(B) <=> Accepts(B, w, j, Len(w))
    BY CutLanguages
  <2>2. w \in Concat(Language(A), Language(B)) <=>
          \E j \in 0 .. Len(w) : SubSeq(w, 1, j) \in Language(A) /\ SubSeq(w, j + 1, Len(w)) \in Language(B)
    BY <1>6, ConcatWords
  <2>3. w \in Language(C) <=> Accepts(C, w, 0, Len(w))
    BY DEF Language
  <2> QED BY <1>5, <2>1, <2>2, <2>3
<1>8. Concat(Language(A), Language(B)) \subseteq Words(MaxWord) /\ Language(C) \subseteq Words(MaxWord)
  BY <1>6, ConcatWords DEF Language
<1>9. \A w : w \in Language(C) <=> w \in Concat(Language(A), Language(B))
  BY <1>7, <1>8
<1> QED BY <1>9 DEF C

-----------------------------------------------------------------------------
(* oprepeat_automat *)

\* There are finitely many words up to a length.
LEMMA WordsFinite ==
    ASSUME NEW m \in Nat
    PROVE  IsFiniteSet(Words(m))
<1> DEFINE T == {k \in Nat : IsFiniteSet(Words(k))}
<1>1. IsFiniteSet(Chars)
  BY FS_Interval, AutomatAssumption DEF Chars
<1>2. 0 \in T
  <2>1. \A w \in Words(0) : w = <<>>
    <3> SUFFICES ASSUME NEW w \in Words(0) PROVE w = <<>>
      OBVIOUS
    <3>1. w \in Seq(Chars) /\ Len(w) <= 0
      BY WordsFacts
    <3> QED BY <3>1
  <2>2. Words(0) \in SUBSET {<<>>} /\ IsFiniteSet({<<>>})
    BY <2>1, FS_Singleton
  <2> QED BY <2>2, FS_Subset
<1>3. ASSUME NEW k \in Nat, k \in T PROVE k + 1 \in T
  <2> DEFINE S == Words(k) \X Chars
             f == [p \in S |-> Append(p[1], p[2])]
             R == {f[p] : p \in S}
  <2>1. IsFiniteSet(Words(k)) /\ IsFiniteSet(S)
    BY <1>1, <1>3, FS_Product
  <2>2. \A u \in Words(k), c \in Chars : <<u, c>> \in S /\ f[<<u, c>>] = Append(u, c)
    OBVIOUS
  <2> HIDE DEF S
  <2>3. f \in Surjection(S, R)
    BY DEF Surjection
  <2> HIDE DEF f, R
  <2>4. IsFiniteSet(R)
    BY <2>1, <2>3, FS_Surjection
  <2>5. IsFiniteSet(Words(k) \cup R)
    BY <2>1, <2>4, FS_Union
  <2>6. ASSUME NEW w \in Words(k + 1) PROVE w \in Words(k) \cup R
    <3>1. w \in Seq(Chars) /\ Len(w) <= k + 1 /\ Len(w) \in Nat
      BY WordsFacts
    <3>2. CASE Len(w) <= k
      BY <3>1, <3>2, WordsFacts
    <3>3. CASE Len(w) = k + 1
      <4> DEFINE u == [i \in 1 .. k |-> w[i]]
                 c == w[k + 1]
      <4>1. u \in Seq(Chars) /\ Len(u) = k /\ c \in Chars /\ w = Append(u, c)
        BY <3>1, <3>3
      <4> HIDE DEF u, c
      <4>2. u \in Words(k)
        BY <4>1, WordsFacts
      <4>3. <<u, c>> \in S /\ w = f[<<u, c>>]
        BY <2>2, <4>1, <4>2
      <4> QED BY <4>3 DEF R
    <3> QED BY <3>1, <3>2, <3>3
  <2>7. Words(k + 1) \in SUBSET (Words(k) \cup R)
    BY <2>6
  <2> QED BY <2>5, <2>7, FS_Subset
<1>4. \A k \in Nat : k \in T
  BY <1>2, <1>3, SetInduction
<1> QED BY <1>4

\* Plus is the smallest set which holds found and a word of P after every word.
LEMMA PlusFacts ==
    ASSUME NEW P \in SUBSET Words(MaxWord), NEW found \in SUBSET Words(MaxWord)
    PROVE  /\ Plus(P, found) \in SUBSET Words(MaxWord)
           /\ found \subseteq Plus(P, found)
           /\ Concat(Plus(P, found), P) \subseteq Plus(P, found)
           /\ \A M \in SUBSET Words(MaxWord) : found \subseteq M /\ Concat(M, P) \subseteq M => Plus(P, found) \subseteq M
<1> DEFINE W == Words(MaxWord)
           D == SUBSET W
           g == [Q \in D |-> Q \cup Concat(Q, P)]
           m == [Q \in D |-> Cardinality(W \ Q)]
           T == {Q \in D : found \subseteq Q /\ \A M \in D : found \subseteq M /\ Concat(M, P) \subseteq M => Q \subseteq M}
           F == Plus(P, found)
<1>1. IsFiniteSet(W) /\ \A Q \in D : Concat(Q, P) \in D
  BY WordsFinite, ConcatWords, AutomatAssumption
<1>2. \A Q, M \in D : Q \subseteq M => Concat(Q, P) \subseteq Concat(M, P)
  BY DEF Concat
<1>3. F = Loop(D, g, found)
  BY DEF Plus
<1> HIDE DEF W, F
<1>4. g \in [D -> D] /\ \A Q \in D : g[Q] = Q \cup Concat(Q, P)
  BY <1>1
<1>5. \A Q \in D : m[Q] = Cardinality(W \ Q) /\ IsFiniteSet(W \ Q) /\ Cardinality(W \ Q) \in Nat
  BY <1>1, FS_Subset, FS_CardinalityType
<1>6. m \in [D -> Nat]
  BY <1>5
<1> HIDE DEF g, m
<1>7. ASSUME NEW Q \in D, g[Q] # Q PROVE m[g[Q]] < m[Q]
  <2>1. g[Q] \in D /\ Q \subseteq g[Q]
    BY <1>4, <1>7
  <2> DEFINE X == W \ g[Q]
             Y == W \ Q
  <2>2. m[g[Q]] = Cardinality(X) /\ m[Q] = Cardinality(Y) /\ IsFiniteSet(Y) /\ Cardinality(X) \in Nat /\ Cardinality(Y) \in Nat
    BY <1>5, <2>1
  <2>3. X \in SUBSET Y /\ X # Y
    BY <1>7, <2>1
  <2> HIDE DEF X, Y
  <2>4. Cardinality(X) <= Cardinality(Y) /\ (Cardinality(Y) = Cardinality(X) => Y = X)
    BY <2>2, <2>3, FS_Subset
  <2> QED BY <2>2, <2>3, <2>4
<1>8. found \in T /\ T \in SUBSET D
  BY DEF W
<1>9. ASSUME NEW Q \in T PROVE g[Q] \in T
  <2>1. Q \in D /\ g[Q] = Q \cup Concat(Q, P) /\ g[Q] \in D
    BY <1>4
  <2>2. ASSUME NEW M \in D, found \subseteq M, Concat(M, P) \subseteq M PROVE g[Q] \subseteq M
    <3>1. Q \subseteq M
      BY <2>2
    <3> QED BY <1>2, <2>1, <2>2, <3>1
  <2> QED BY <2>1, <2>2
<1>a. found \in D
  BY DEF W
<1> HIDE DEF T, D
<1>b. \A u \in D : g[u] = u \/ m[g[u]] < m[u]
  BY <1>7
<1>10. Loop(D, g, found) \in T /\ g[Loop(D, g, found)] = Loop(D, g, found)
  BY ONLY <1>4, <1>6, <1>b, <1>8, <1>9, <1>a, LoopEnds
<1>11. F \in D /\ found \subseteq F /\ \A M \in D : found \subseteq M /\ Concat(M, P) \subseteq M => F \subseteq M
  BY <1>3, <1>10 DEF T
<1>12. Concat(F, P) \subseteq F
  BY <1>3, <1>4, <1>10, <1>11
<1> QED BY <1>11, <1>12 DEF F, D, W

\* What IsRepeated says of single moves.
LEMMA RepeatedMoves ==
    ASSUME NEW A, WellFormed(A), NEW again \in {1, 2}, NEW N, NEW C, IsRepeated(C, A, again, N)
    PROVE  /\ WellFormed(C) /\ Len(C) = N /\ DOMAIN C = 1 .. N /\ N \in Nat /\ N = again + Len(A) + 1 /\ again \in Nat
           /\ Len(A) \in Nat /\ Len(A) >= 2 /\ DOMAIN A = 1 .. Len(A)
           /\ Block(C, A, again, again) /\ Len(A) + again <= Len(C)
           /\ again \in DOMAIN C /\ again + 1 \in DOMAIN C /\ N \in DOMAIN C /\ 1 \in DOMAIN C
           /\ \A u : EmptyMove(C, again, u) <=> u \in {again + 1, N}
           /\ \A u : EmptyMove(C, N, u) <=> u = N
           /\ again = 2 => \A u : EmptyMove(C, 1, u) <=> u = again + 1
           /\ \A c, u : ~CharMove(C, c, again, u) /\ ~CharMove(C, c, N, u) /\ (again = 2 => ~CharMove(C, c, 1, u))
           /\ \A u \in DOMAIN C : \/ u = again \/ u = N \/ (again = 2 /\ u = 1)
                                  \/ \E s \in DOMAIN A : u = s + again
<1>1. WellFormed(C) /\ Len(C) = N /\ N = again + Len(A) + 1 /\ Block(C, A, again, again)
  BY DEF IsRepeated
<1>2. Len(A) \in Nat /\ Len(A) >= 2 /\ DOMAIN A = 1 .. Len(A) /\ again \in Nat /\ (again = 1 \/ again = 2)
  BY MoveFacts
<1>3. N \in Nat /\ DOMAIN C = 1 .. N
  BY <1>1, <1>2, MoveFacts
<1>4. again \in DOMAIN C /\ again + 1 \in DOMAIN C /\ N \in DOMAIN C /\ 1 \in DOMAIN C /\ Len(A) + again <= Len(C)
  BY <1>1, <1>2, <1>3
<1>5. C[again] = EmptyState(<<again + 1, N>>) /\ C[N] = EmptyState(<<N>>) /\ (again = 2 => C[1] = EmptyState(<<3>>))
  BY DEF IsRepeated
<1>6. ToSet(<<again + 1, N>>) = {again + 1, N} /\ ToSet(<<N>>) = {N} /\ ToSet(<<3>>) = {3}
  BY DEF ToSet
<1>7. \A u : EmptyMove(C, again, u) <=> u \in {again + 1, N}
  <2>1. \A u : EmptyMove(C, again, u) <=> u \in ToSet(<<again + 1, N>>)
    BY ONLY <1>5, EmptyStateMoves
  <2> QED BY ONLY <1>6, <2>1
<1>8. \A u : EmptyMove(C, N, u) <=> u = N
  BY <1>5, <1>6, EmptyStateMoves
<1>9. ASSUME again = 2 PROVE \A u : EmptyMove(C, 1, u) <=> u = again + 1
  <2>1. C[1] = EmptyState(<<3>>) /\ again + 1 = 3
    BY <1>5, <1>9
  <2>2. \A u : EmptyMove(C, 1, u) <=> u \in ToSet(<<3>>)
    BY ONLY <2>1, EmptyStateMoves
  <2> QED BY ONLY <1>6, <2>1, <2>2
<1>10. \A c, u : ~CharMove(C, c, again, u) /\ ~CharMove(C, c, N, u) /\ (again = 2 => ~CharMove(C, c, 1, u))
  BY <1>5, EmptyStateMoves
<1>11. ASSUME NEW u \in DOMAIN C, u # again, u # N, ~(again = 2 /\ u = 1) PROVE \E s \in DOMAIN A : u = s + again
  <2>1. u - again \in DOMAIN A /\ u = (u - again) + again
    BY <1>1, <1>2, <1>3, <1>11
  <2> QED BY <2>1
<1> QED BY <1>1, <1>2, <1>3, <1>4, <1>7, <1>8, <1>9, <1>10, <1>11

\* The end state is only reached from the state before every iteration.
LEMMA RepeatedEnd ==
    ASSUME NEW A, WellFormed(A), NEW again \in {1, 2}, NEW N, NEW C, IsRepeated(C, A, again, N),
           NEW w \in Seq(Chars), NEW j, Reaches(C, w, 1, 0, N, j)
    PROVE  Reaches(C, w, 1, 0, again, j)
<1>0. /\ WellFormed(C) /\ Len(C) = N /\ DOMAIN C = 1 .. N /\ N \in Nat /\ N = again + Len(A) + 1 /\ again \in Nat
      /\ Len(A) \in Nat /\ Len(A) >= 2 /\ DOMAIN A = 1 .. Len(A)
      /\ Block(C, A, again, again) /\ Len(A) + again <= Len(C)
      /\ again \in DOMAIN C /\ again + 1 \in DOMAIN C /\ N \in DOMAIN C /\ 1 \in DOMAIN C
  BY RepeatedMoves
<1>1. /\ \A u : EmptyMove(C, again, u) <=> u \in {again + 1, N}
      /\ \A u : EmptyMove(C, N, u) <=> u = N
      /\ again = 2 => \A u : EmptyMove(C, 1, u) <=> u = again + 1
      /\ \A c, u : ~CharMove(C, c, again, u) /\ ~CharMove(C, c, N, u) /\ (again = 2 => ~CharMove(C, c, 1, u))
  BY RepeatedMoves
<1>2. \A u \in DOMAIN C : \/ u = again \/ u = N \/ (again = 2 /\ u = 1)
                          \/ \E s \in DOMAIN A : u = s + again
  BY RepeatedMoves
<1> DEFINE n == Len(w)
           R == ReachedFrom(C, w, 1, 0)
           X == [u \in DOMAIN C |-> IF u = N THEN R[again] ELSE R[u]]
<1>3. n \in Nat /\ 0 \in 0 .. n
  OBVIOUS
<1>4. Closed(C, w, R)
  BY <1>0, <1>3, ReachedClosed
<1>5. \A u \in DOMAIN C : \A k : k \in R[u] <=> k \in 0 .. n /\ Reaches(C, w, 1, 0, u, k)
  BY DEF ReachedFrom
<1> HIDE DEF R, n
<1>6. X[N] = R[again] /\ \A u \in DOMAIN C : u # N => X[u] = R[u]
  BY <1>0
<1>7. R \in [DOMAIN C -> SUBSET (0 .. Len(w))]
  BY <1>4 DEF Closed
<1>8. X \in [DOMAIN C -> SUBSET (0 .. Len(w))]
  BY <1>0, <1>7
<1> HIDE DEF X
<1>9. ASSUME NEW u \in DOMAIN C, EmptyMove(C, u, N) PROVE u = again \/ u = N
  <2>1. CASE again = 2 /\ u = 1
    BY <1>0, <1>1, <1>9, <2>1
  <2>2. ASSUME NEW s \in DOMAIN A, u = s + again PROVE FALSE
    <3>1. EmptyMove(C, s + again, N)
      BY <1>9, <2>2
    <3>2. (\E t \in DOMAIN A : N = t + again) \/ (s = Len(A) /\ N = again)
      BY <1>0, <3>1, BlockTargets
    <3> QED BY <1>0, <3>2
  <2> QED BY <1>2, <2>1, <2>2
<1>10. ASSUME NEW u \in DOMAIN C, NEW c \in Chars PROVE ~CharMove(C, c, u, N)
  <2>1. ASSUME NEW s \in DOMAIN A, u = s + again, CharMove(C, c, u, N) PROVE FALSE
    <3>1. \E t \in DOMAIN A : N = t + again
      BY <1>0, <2>1 DEF Block
    <3> QED BY <1>0, <3>1
  <2> QED BY <1>1, <1>2, <2>1
<1>11. ASSUME NEW u \in DOMAIN C, NEW t \in DOMAIN C, EmptyMove(C, u, t) PROVE X[u] \subseteq X[t]
  <2>1. CASE t = N
    BY <1>6, <1>9, <1>11, <2>1
  <2>2. CASE t # N
    <3>1. u # N
      BY <1>1, <1>11, <2>2
    <3>2. R[u] \subseteq R[t]
      BY <1>4, <1>11 DEF Closed
    <3> QED BY <1>6, <2>2, <3>1, <3>2
  <2> QED BY <2>1, <2>2
<1>12. ASSUME NEW k \in 1 .. Len(w), NEW u \in DOMAIN C, NEW t \in DOMAIN C, k - 1 \in X[u], CharMove(C, w[k], u, t)
       PROVE  k \in X[t]
  <2>0. w[k] \in Chars
    OBVIOUS
  <2>1. t # N /\ u # N
    BY <1>1, <1>10, <1>12, <2>0
  <2>2. k - 1 \in R[u]
    BY <1>6, <1>12, <2>1
  <2>3. k \in R[t]
    BY <1>4, <1>12, <2>2 DEF Closed
  <2> QED BY <1>6, <2>1, <2>3
<1>13. Closed(C, w, X)
  BY <1>8, <1>11, <1>12 DEF Closed
<1>14. 0 \in X[1]
  <2>1. 1 # N
    BY <1>0
  <2>2. Reaches(C, w, 1, 0, 1, 0)
    BY ReachesSteps
  <2> QED BY <1>0, <1>3, <1>5, <1>6, <2>1, <2>2
<1>15. j \in X[N]
  BY <1>13, <1>14 DEF Reaches
<1> QED BY <1>0, <1>5, <1>6, <1>15

\* The empty word is one of them.
LEMMA EmptyWord == <<>> \in Words(MaxWord) /\ <<>> \in Seq(Chars) /\ Len(<<>>) = 0
<1>1. <<>> \in Seq(Chars) /\ Len(<<>>) = 0 /\ MaxWord \in Nat
  BY AutomatAssumption
<1>2. Len(<<>>) <= MaxWord
  BY <1>1
<1> QED BY ONLY <1>1, <1>2, WordsFacts

\* The words of one iteration, or none if the part may be left out.
Iterated(A, again) == IF again = 2 THEN Language(A) ELSE {<<>>} \cup Language(A)

\* The way through a repetition: once more, or out of it.
LEMMA RepeatedWays ==
    ASSUME NEW A, WellFormed(A), NEW again \in {1, 2}, NEW N, NEW C, IsRepeated(C, A, again, N),
           NEW w \in Seq(Chars)
    PROVE  /\ \A i : Reaches(C, w, again, i, N, i)
           /\ \A i, j : Accepts(A, w, i, j) => Reaches(C, w, again, i, again, j)
           /\ \A j : Accepts(A, w, 0, j) => Reaches(C, w, 1, 0, again, j)
<1>1. /\ WellFormed(C) /\ Len(C) = N /\ again \in Nat
      /\ Block(C, A, again, again) /\ Len(A) + again <= Len(C)
      /\ again \in DOMAIN C /\ again + 1 \in DOMAIN C /\ N \in DOMAIN C /\ 1 \in DOMAIN C
  BY RepeatedMoves
<1>2. /\ \A u : EmptyMove(C, again, u) <=> u \in {again + 1, N}
      /\ again = 2 => \A u : EmptyMove(C, 1, u) <=> u = again + 1
  BY RepeatedMoves
<1>3. /\ \A s, t \in DOMAIN C : \A i : EmptyMove(C, s, t) => Reaches(C, w, s, i, t, i)
      /\ \A s, i : Reaches(C, w, s, i, s, i)
  BY ReachesSteps
<1>4. \A i : Reaches(C, w, again, i, N, i) /\ Reaches(C, w, again, i, again + 1, i)
  BY <1>1, <1>2, <1>3
<1>5. ASSUME NEW i, NEW j, Accepts(A, w, i, j) PROVE Reaches(C, w, again + 1, i, again, j)
  <2>1. Reaches(C, w, 1 + again, i, again, j)
    BY <1>1, <1>5, BlockAccepts
  <2>2. 1 + again = again + 1
    BY <1>1
  <2> QED BY ONLY <2>1, <2>2
<1>6. ASSUME NEW i, NEW j, Accepts(A, w, i, j) PROVE Reaches(C, w, again, i, again, j)
  <2>1. Reaches(C, w, again, i, again + 1, i) /\ Reaches(C, w, again + 1, i, again, j)
    BY <1>4, <1>5, <1>6
  <2> QED BY ONLY <2>1, ReachesOn
<1>7. ASSUME NEW j, Accepts(A, w, 0, j) PROVE Reaches(C, w, 1, 0, again, j)
  <2>1. Reaches(C, w, 1, 0, again + 1, 0)
    <3>1. CASE again = 1
      BY <1>4, <3>1
    <3>2. CASE again = 2
      BY <1>1, <1>2, <1>3, <3>2
    <3> QED BY <3>1, <3>2
  <2>2. Reaches(C, w, again + 1, 0, again, j)
    BY <1>5, <1>7
  <2> QED BY ONLY <2>1, <2>2, ReachesOn
<1> QED BY <1>4, <1>6, <1>7

\* The repetition accepts every word the iterations make up.
LEMMA RepeatedAccepts ==
    ASSUME NEW A, WellFormed(A), NEW again \in {1, 2}, NEW N, NEW C, IsRepeated(C, A, again, N)
    PROVE  Plus(Language(A), Iterated(A, again)) \subseteq Language(C)
<1> DEFINE P == Language(A)
           M == Language(C)
           F == Iterated(A, again)
<1>0. MaxWord \in Nat
  BY AutomatAssumption
<1>1. WellFormed(C) /\ Len(C) = N
  BY RepeatedMoves
<1>2. <<>> \in Words(MaxWord)
  BY EmptyWord
<1>3. P \in SUBSET Words(MaxWord) /\ M \in SUBSET Words(MaxWord)
  BY DEF Language
<1>4. F \in SUBSET Words(MaxWord)
  BY <1>2, <1>3 DEF Iterated
<1>5. \A w \in Words(MaxWord) : w \in Seq(Chars) /\ Len(w) \in Nat
  BY <1>0, WordsFacts
<1>6. ASSUME NEW w \in Words(MaxWord), Reaches(C, w, 1, 0, again, Len(w)) PROVE w \in M
  <2>1. Reaches(C, w, again, Len(w), N, Len(w))
    BY <1>5, RepeatedWays
  <2>2. Reaches(C, w, 1, 0, N, Len(w))
    BY ONLY <1>6, <2>1, ReachesOn
  <2> QED BY <1>1, <2>2 DEF Language, Accepts
<1>7. P \subseteq M
  <2> SUFFICES ASSUME NEW w \in P PROVE w \in M
    OBVIOUS
  <2>1. w \in Words(MaxWord) /\ Accepts(A, w, 0, Len(w))
    BY DEF Language
  <2>2. Reaches(C, w, 1, 0, again, Len(w))
    BY <1>5, <2>1, RepeatedWays
  <2> QED BY <1>6, <2>1, <2>2
<1>8. again = 1 => <<>> \in M
  <2>1. again = 1 => Reaches(C, <<>>, 1, 0, again, Len(<<>>))
    BY ReachesSteps
  <2> QED BY <1>2, <1>6, <2>1
<1>9. F \subseteq M
  BY <1>7, <1>8 DEF Iterated
<1>10. Concat(M, P) \subseteq M
  <2> SUFFICES ASSUME NEW w \in Concat(M, P) PROVE w \in M
    OBVIOUS
  <2>1. w \in Words(MaxWord) /\ \E j \in 0 .. Len(w) : SubSeq(w, 1, j) \in M /\ SubSeq(w, j + 1, Len(w)) \in P
    BY <1>3, ConcatWords
  <2>2. PICK j \in 0 .. Len(w) : SubSeq(w, 1, j) \in M /\ SubSeq(w, j + 1, Len(w)) \in P
    BY <2>1
  <2>3. Accepts(C, w, 0, j)
    BY <1>1, <2>1, <2>2, CutLanguages
  <2>4. Accepts(A, w, j, Len(w))
    BY <2>1, <2>2, CutLanguages
  <2>5. Reaches(C, w, 1, 0, again, j)
    BY <1>1, <1>5, <2>1, <2>3, RepeatedEnd DEF Accepts
  <2>6. Reaches(C, w, again, j, again, Len(w))
    BY <1>5, <2>1, <2>4, RepeatedWays
  <2>7. Reaches(C, w, 1, 0, again, Len(w))
    BY ONLY <2>5, <2>6, ReachesOn
  <2> QED BY <1>6, <2>1, <2>7
<1> HIDE DEF P, M, F
<1>11. Plus(P, F) \subseteq M
  BY <1>3, <1>4, <1>9, <1>10, PlusFacts
<1> QED BY <1>11 DEF P, M, F

\* The places at which an iteration of a repetition may start or end.
RepeatedFamily(A, again, N, Y, Z) ==
    [u \in 1 .. N |-> IF u = N \/ u = again THEN Z ELSE IF u < again THEN {0} ELSE Y[u - again]]

\* A family of the part which begins where it ends gives one of the repetition.
LEMMA RepeatedClosed ==
    ASSUME NEW A, WellFormed(A), NEW again \in {1, 2}, NEW N, NEW C, IsRepeated(C, A, again, N),
           NEW w \in Seq(Chars), NEW Y, Closed(A, w, Y), NEW Z \in SUBSET (0 .. Len(w)),
           Z \subseteq Y[1], 0 \in Y[1], Y[Len(A)] \subseteq Z, again = 1 => 0 \in Z
    PROVE  /\ Closed(C, w, RepeatedFamily(A, again, N, Y, Z))
           /\ 0 \in RepeatedFamily(A, again, N, Y, Z)[1] /\ RepeatedFamily(A, again, N, Y, Z)[N] = Z
<1> DEFINE X == RepeatedFamily(A, again, N, Y, Z)
<1>1. /\ WellFormed(C) /\ Len(C) = N /\ DOMAIN C = 1 .. N /\ N \in Nat /\ N = again + Len(A) + 1 /\ again \in Nat
      /\ Len(A) \in Nat /\ Len(A) >= 2 /\ DOMAIN A = 1 .. Len(A)
      /\ Block(C, A, again, again) /\ Len(A) + again <= Len(C)
      /\ again \in DOMAIN C /\ again + 1 \in DOMAIN C /\ N \in DOMAIN C /\ 1 \in DOMAIN C
  BY RepeatedMoves
<1>2. /\ \A u : EmptyMove(C, again, u) <=> u \in {again + 1, N}
      /\ \A u : EmptyMove(C, N, u) <=> u = N
      /\ again = 2 => \A u : EmptyMove(C, 1, u) <=> u = again + 1
      /\ \A c, u : ~CharMove(C, c, again, u) /\ ~CharMove(C, c, N, u) /\ (again = 2 => ~CharMove(C, c, 1, u))
  BY RepeatedMoves
<1>3. \A u \in DOMAIN C : \/ u = again \/ u = N \/ (again = 2 /\ u = 1)
                          \/ \E s \in DOMAIN A : u = s + again
  BY RepeatedMoves
<1>4. X[N] = Z /\ X[again] = Z /\ (again = 2 => X[1] = {0})
  BY <1>1 DEF RepeatedFamily
<1>5. ASSUME NEW s \in DOMAIN A PROVE X[s + again] = Y[s]
  <2>1. s + again \in 1 .. N /\ s + again # N /\ s + again # again /\ ~(s + again < again) /\ s + again - again = s
    BY <1>1
  <2> QED BY <2>1 DEF RepeatedFamily
<1>6. DOMAIN X = 1 .. N /\ X = [u \in 1 .. N |-> X[u]]
  BY DEF RepeatedFamily
<1> HIDE DEF X
<1>7. Y \in [DOMAIN A -> SUBSET (0 .. Len(w))]
  BY DEF Closed
<1>8. X[again + 1] = Y[1]
  <2>1. 1 \in DOMAIN A /\ 1 + again = again + 1
    BY <1>1
  <2> QED BY <1>5, <2>1
<1>9. ASSUME NEW u \in 1 .. N PROVE X[u] \in SUBSET (0 .. Len(w))
  <2>1. CASE u = again \/ u = N
    BY <1>4, <2>1
  <2>2. CASE again = 2 /\ u = 1
    <3>1. 0 \in 0 .. Len(w)
      OBVIOUS
    <3> QED BY <1>4, <2>2, <3>1
  <2>3. ASSUME NEW s \in DOMAIN A, u = s + again PROVE X[u] \in SUBSET (0 .. Len(w))
    BY <1>5, <1>7, <2>3
  <2> QED BY <1>1, <1>3, <2>1, <2>2, <2>3
<1>10. X \in [DOMAIN C -> SUBSET (0 .. Len(w))]
  BY <1>1, <1>6, <1>9
<1>11. \A s \in DOMAIN A : StaysIn(C, w, X, s + again)
  <2>1. Y[Len(A)] \subseteq X[again] /\ WellFormed(A) /\ Closed(A, w, Y) /\ w \in Seq(Chars)
    BY <1>4
  <2> QED BY ONLY <1>1, <1>5, <2>1, BlockStays, ZenonT(60)
<1>12. StaysIn(C, w, X, again) /\ StaysIn(C, w, X, N)
  BY <1>2, <1>4, <1>8 DEF StaysIn
<1>13. again = 2 => StaysIn(C, w, X, 1)
  BY <1>2, <1>4, <1>8 DEF StaysIn
<1>14. \A u \in DOMAIN C : StaysIn(C, w, X, u)
  BY <1>3, <1>11, <1>12, <1>13
<1>15. Closed(C, w, X)
  BY <1>10, <1>14, ClosedStays
<1>16. 0 \in X[1]
  BY <1>4
<1> QED BY <1>4, <1>15, <1>16 DEF X

\* A word the repetition accepts is made up of iterations.
LEMMA RepeatedWords ==
    ASSUME NEW A, WellFormed(A), NEW again \in {1, 2}, NEW N, NEW C, IsRepeated(C, A, again, N)
    PROVE  Language(C) \subseteq Plus(Language(A), Iterated(A, again))
<1> DEFINE P == Language(A)
           F == Iterated(A, again)
           S == Plus(P, F)
<1>0. MaxWord \in Nat /\ Len(C) = N
  BY AutomatAssumption, RepeatedMoves
<1>1. <<>> \in Words(MaxWord)
  BY EmptyWord
<1>2. P \in SUBSET Words(MaxWord)
  BY DEF Language
<1>3. F \in SUBSET Words(MaxWord) /\ P \subseteq F /\ (again = 1 => <<>> \in F)
  BY <1>1, <1>2 DEF Iterated
<1> HIDE DEF F
<1>4. S \in SUBSET Words(MaxWord) /\ F \subseteq S /\ Concat(S, P) \subseteq S
  BY <1>2, <1>3, PlusFacts
<1> HIDE DEF S
<1> SUFFICES ASSUME NEW w \in Language(C) PROVE w \in S
  BY DEF S, F
<1>5. w \in Words(MaxWord) /\ Accepts(C, w, 0, Len(w))
  BY DEF Language
<1>6. w \in Seq(Chars) /\ Len(w) \in Nat /\ Len(w) <= MaxWord
  BY <1>0, <1>5, WordsFacts
<1> DEFINE n == Len(w)
           Z == {k \in 0 .. n : SubSeq(w, 1, k) \in S}
           I == Z \cup {0}
           Y == ReachedAfter(A, w, I)
           X == RepeatedFamily(A, again, N, Y, Z)
<1>7. Z \in SUBSET (0 .. n) /\ I \in SUBSET (0 .. n) /\ \A k : k \in Z <=> k \in 0 .. n /\ SubSeq(w, 1, k) \in S
  BY <1>6
<1>8. 0 \in I /\ Z \subseteq I /\ \A i \in I : i \in Z \/ i = 0
  OBVIOUS
<1> HIDE DEF Z, I
<1>9. /\ Closed(A, w, Y) /\ I \subseteq Y[1]
      /\ \A j : j \in Y[Len(A)] <=> j \in 0 .. n /\ \E i \in I : Accepts(A, w, i, j)
  BY <1>6, <1>7, ReachedAfterClosed
<1> HIDE DEF Y
<1>10. ASSUME NEW j \in Y[Len(A)] PROVE j \in Z
  <2>1. PICK i \in I : Accepts(A, w, i, j)
    BY <1>9
  <2>2. i \in 0 .. n /\ j \in 0 .. n
    BY <1>7, <1>9
  <2>3. j \in i .. n
    <3>1. 1 \in DOMAIN A /\ Len(A) \in DOMAIN A /\ Len(w) \in Nat
      BY <1>6, MoveFacts
    <3> QED BY <2>1, <2>2, <3>1, ReachesForward DEF Accepts
  <2>4. SubSeq(w, i + 1, j) \in P
    BY <1>5, <2>1, <2>2, <2>3, SegmentLanguage
  <2>5. SubSeq(w, 1, j) \in Words(MaxWord) /\ SubSeq(w, 1, i) \in Words(MaxWord)
    BY <1>5, <2>2, CutLanguages
  <2>6. CASE i = 0
    <3>1. SubSeq(w, 1, j) \in P
      <4>1. i + 1 = 1
        BY <2>6
      <4> QED BY ONLY <2>4, <4>1
    <3> QED BY <1>3, <1>4, <1>7, <2>2, <3>1
  <2>7. CASE i \in Z
    <3> DEFINE u == SubSeq(w, 1, i)
               v == SubSeq(w, i + 1, j)
               x == SubSeq(w, 1, j)
    <3>1. u \in S /\ v \in P
      BY <1>7, <2>4, <2>7
    <3>2. u \o v = x
      <4>1. 1 \in 1 .. Len(w) + 1 /\ i \in 1 - 1 .. Len(w) /\ j \in i .. Len(w)
        BY <1>6, <2>2, <2>3
      <4> QED BY ONLY <4>1, <1>6, ConcatAdjacentSubSeq
    <3>3. Len(x) <= MaxWord
      BY <1>0, <2>5, WordsFacts
    <3> HIDE DEF u, v, x
    <3>4. x \in Concat(S, P)
      BY <3>1, <3>2, <3>3 DEF Concat
    <3>5. x \in S
      BY <1>4, <3>4
    <3> QED BY <1>7, <2>2, <3>5 DEF x
  <2> QED BY <1>8, <2>6, <2>7
<1>11. again = 1 => 0 \in Z
  <2>1. SubSeq(w, 1, 0) = <<>> /\ 0 \in 0 .. n
    BY <1>6
  <2> QED BY <1>3, <1>4, <1>7, <2>1
<1>12. Z \subseteq Y[1] /\ 0 \in Y[1] /\ Y[Len(A)] \subseteq Z /\ Z \in SUBSET (0 .. Len(w))
  BY <1>7, <1>8, <1>9, <1>10
<1>13. Closed(C, w, X) /\ 0 \in X[1] /\ X[N] = Z
  BY <1>6, <1>9, <1>11, <1>12, RepeatedClosed
<1> HIDE DEF X
<1>14. n \in Z
  BY <1>0, <1>5, <1>13 DEF Accepts, Reaches
<1>15. SubSeq(w, 1, n) = w
  BY <1>6, SubSeqFull
<1> QED BY <1>7, <1>14, <1>15

\* oprepeat_automat: one or more words of the operand, or any number of them.
LEMMA RepeatLanguage ==
    ASSUME NEW A, WellFormed(A), NEW isAtLeastOneTime \in BOOLEAN
    PROVE  Language(OpRepeat(A, isAtLeastOneTime)) =
              Plus(Language(A), IF isAtLeastOneTime THEN Language(A) ELSE {<<>>} \cup Language(A))
<1> DEFINE again == Repeated(isAtLeastOneTime)
           C == OpRepeat(A, isAtLeastOneTime)
           N == again + Len(A) + 1
<1>1. IsRepeated(C, A, again, N)
  BY RepeatStates
<1>2. again \in {1, 2} /\ (again = 2 <=> isAtLeastOneTime)
  BY DEF Repeated
<1> HIDE DEF again, C, N
<1>3. Language(C) \subseteq Plus(Language(A), Iterated(A, again)) /\ Plus(Language(A), Iterated(A, again)) \subseteq Language(C)
  BY <1>1, <1>2, RepeatedWords, RepeatedAccepts
<1>4. Iterated(A, again) = IF isAtLeastOneTime THEN Language(A) ELSE {<<>>} \cup Language(A)
  BY <1>2 DEF Iterated
<1>5. Language(C) = Plus(Language(A), Iterated(A, again))
  BY <1>3
<1> QED BY ONLY <1>4, <1>5 DEF C

\* The automaton of initmatch_automat accepts the words of one character it is built for.
LEMMA MatchLanguage ==
    ASSUME NEW L \in SUBSET {<<c>> : c \in Chars}, NEW A, IsMatch(A, L)
    PROVE  Language(A) = L
<1>1. /\ WellFormed(A) /\ Len(A) = 2 /\ DOMAIN A = 1 .. 2 /\ A[1].empty = <<>> /\ A[2] = EmptyState(<<2>>)
      /\ \A c \in Chars, t \in DOMAIN A : CharMove(A, c, 1, t) <=> t = 2 /\ <<c>> \in L
      /\ MaxWord \in Nat /\ MaxWord >= 1
  BY MoveFacts, AutomatAssumption DEF IsMatch
<1>2. ASSUME NEW w \in L PROVE w \in Language(A)
  <2>1. PICK c \in Chars : w = <<c>>
    OBVIOUS
  <2>2. w \in Seq(Chars) /\ Len(w) = 1 /\ w[1] = c
    BY <2>1
  <2>3. w \in Words(MaxWord)
    BY <1>1, <2>2, WordsFacts
  <2>4. 1 \in DOMAIN A /\ 2 \in DOMAIN A /\ 1 \in 1 .. Len(w) /\ 1 - 1 = 0
    BY <1>1, <2>2
  <2>5. CharMove(A, w[1], 1, 2)
    BY <1>1, <2>1, <2>2, <2>4
  <2>6. Reaches(A, w, 1, 1 - 1, 2, 1)
    BY ONLY <2>4, <2>5, ReachesSteps
  <2>7. Reaches(A, w, 1, 0, 2, 1)
    BY ONLY <2>4, <2>6
  <2> QED BY <1>1, <2>2, <2>3, <2>7 DEF Language, Accepts
<1>3. ASSUME NEW w \in Language(A) PROVE w \in L
  <2>1. w \in Words(MaxWord) /\ Reaches(A, w, 1, 0, 2, Len(w))
    BY <1>1 DEF Language, Accepts
  <2>2. w \in Seq(Chars) /\ Len(w) \in Nat
    BY <1>1, <2>1, WordsFacts
  <2> DEFINE n == Len(w)
             X == [s \in 1 .. 2 |-> IF s = 1 THEN {0} ELSE {j \in 0 .. n : j = 1 /\ <<w[1]>> \in L}]
  <2>3. X \in [1 .. 2 -> SUBSET (0 .. n)] /\ 0 \in X[1]
    BY <2>2
  <2>4. /\ X[1] = {0}
        /\ \A j : j \in X[2] <=> j \in 0 .. n /\ j = 1 /\ <<w[1]>> \in L
    OBVIOUS
  <2> HIDE DEF X
  <2>5. \A t : ~EmptyMove(A, 1, t)
    BY <1>1, EmptyList DEF EmptyMove
  <2>6. \A t : EmptyMove(A, 2, t) => t = 2
    <3>1. \A t : EmptyMove(A, 2, t) <=> t \in ToSet(<<2>>)
      BY ONLY <1>1, EmptyStateMoves
    <3> QED BY <3>1 DEF ToSet
  <2>7. \A c, t : ~CharMove(A, c, 2, t)
    BY ONLY <1>1, EmptyStateMoves
  <2>8. \A s, t \in DOMAIN A : EmptyMove(A, s, t) => X[s] \subseteq X[t]
    <3> SUFFICES ASSUME NEW s \in 1 .. 2, NEW t \in 1 .. 2, EmptyMove(A, s, t) PROVE X[s] \subseteq X[t]
      BY <1>1
    <3>1. s = 2 /\ t = 2
      BY <2>5, <2>6
    <3> QED BY <3>1
  <2>9. ASSUME NEW k \in 1 .. n, NEW s \in 1 .. 2, NEW t \in 1 .. 2, k - 1 \in X[s], CharMove(A, w[k], s, t)
        PROVE  k \in X[t]
    <3>1. s = 1
      BY <2>7, <2>9
    <3>2. k = 1
      BY <2>4, <2>9, <3>1
    <3>3. w[k] \in Chars
      BY <2>2
    <3>4. t = 2 /\ <<w[1]>> \in L
      BY <1>1, <2>9, <3>1, <3>2, <3>3
    <3>5. 1 \in 0 .. n
      BY <2>2, <3>2
    <3> QED BY <2>4, <3>2, <3>4, <3>5
  <2>10. Closed(A, w, X)
    BY <1>1, <2>3, <2>8, <2>9 DEF Closed, n
  <2>11. n \in X[2]
    BY <2>1, <2>3, <2>10 DEF Reaches
  <2>12. n = 1 /\ <<w[1]>> \in L
    BY <2>4, <2>11
  <2>13. w = <<w[1]>>
    BY <2>2, <2>12
  <2> QED BY <2>12, <2>13
<1> QED BY <1>2, <1>3

\* initempty_automat: the empty word.
LEMMA EmptyLanguage == Language(Empty) = {<<>>}
<1> DEFINE z == EmptyState(<<2>>)
           A == Empty
<1>1. WellFormed(A) /\ Len(A) = 2 /\ DOMAIN A = 1 .. 2 /\ MaxWord \in Nat
  BY EmptyWellFormed, MoveFacts, AutomatAssumption
<1>2. \A s \in 1 .. 2 : A[s] = z
  <2>1. A = <<z, z>>
    BY DEF Empty
  <2> HIDE DEF A, z
  <2>2. A[1] = z /\ A[2] = z
    BY <2>1
  <2> QED BY <2>2
<1> HIDE DEF A
<1>3. \A s \in 1 .. 2 : (\A t : EmptyMove(A, s, t) <=> t = 2) /\ (\A c, t : ~CharMove(A, c, s, t))
  <2> SUFFICES ASSUME NEW s \in 1 .. 2 PROVE (\A t : EmptyMove(A, s, t) <=> t = 2) /\ (\A c, t : ~CharMove(A, c, s, t))
    OBVIOUS
  <2>1. A[s] = EmptyState(<<2>>)
    BY <1>2
  <2>2. /\ \A t : EmptyMove(A, s, t) <=> t \in ToSet(<<2>>)
        /\ \A c, t : ~CharMove(A, c, s, t)
    BY ONLY <2>1, EmptyStateMoves
  <2> QED BY <2>2 DEF ToSet
<1>4. <<>> \in Language(A)
  <2>1. Reaches(A, <<>>, 1, 0, 2, 0)
    BY <1>1, <1>3, ReachesSteps, SMTT(30)
  <2> QED BY <1>1, <2>1, EmptyWord DEF Language, Accepts
<1>5. ASSUME NEW w \in Language(A) PROVE w = <<>>
  <2>1. w \in Words(MaxWord) /\ Reaches(A, w, 1, 0, 2, Len(w))
    BY <1>1 DEF Language, Accepts
  <2>2. w \in Seq(Chars) /\ Len(w) \in Nat
    BY <1>1, <2>1, WordsFacts
  <2> DEFINE X == [s \in 1 .. 2 |-> {0}]
  <2>3. X \in [DOMAIN A -> SUBSET (0 .. Len(w))] /\ 0 \in X[1] /\ X[2] = {0}
    BY <1>1, <2>2
  <2>4. \A s, t \in DOMAIN A : EmptyMove(A, s, t) => X[s] \subseteq X[t]
    BY <1>1
  <2> HIDE DEF X
  <2>5. Closed(A, w, X)
    BY <1>1, <1>3, <2>3, <2>4 DEF Closed
  <2>6. Len(w) = 0
    BY <2>1, <2>3, <2>5 DEF Reaches
  <2> QED BY <2>2, <2>6
<1> QED BY <1>4, <1>5 DEF A

-----------------------------------------------------------------------------
(* The reversed automaton *)

\* Every transition of C is one of A turned round, or leads nowhere.
IsDual(C, A) ==
    /\ DOMAIN C = 1 .. Len(A) /\ DOMAIN A = 1 .. Len(A) /\ Len(C) = Len(A) /\ Len(A) \in Nat \ {0}
    /\ \A s, t \in DOMAIN A : EmptyMove(C, s, t) => s = t \/ EmptyMove(A, Len(A) + 1 - t, Len(A) + 1 - s)
    /\ \A c, s, t : s \in DOMAIN A /\ t \in DOMAIN A =>
          (CharMove(C, c, s, t) => CharMove(A, c, Len(A) + 1 - t, Len(A) + 1 - s))

\* A word backwards.
LEMMA ReverseFacts ==
    ASSUME NEW w \in Seq(Chars)
    PROVE  /\ Reverse(w) \in Seq(Chars) /\ Len(Reverse(w)) = Len(w)
           /\ \A k \in 1 .. Len(w) : Reverse(w)[k] = w[Len(w) + 1 - k]
           /\ Reverse(Reverse(w)) = w
<1> DEFINE n == Len(w)
           v == Reverse(w)
           u == Reverse(v)
<1>1. n \in Nat /\ \A k \in 1 .. n : n - k + 1 \in 1 .. n /\ n + 1 - k = n - k + 1 /\ w[n - k + 1] \in Chars
  OBVIOUS
<1>2. v = [i \in 1 .. n |-> w[(n - i) + 1]]
  BY DEF Reverse
<1>3. v \in [1 .. n -> Chars]
  BY <1>1, <1>2
<1> HIDE DEF n
<1>4. v \in Seq(Chars) /\ Len(v) = n /\ \A k \in 1 .. n : v[k] = w[n - k + 1]
  <2>1. v \in Seq(Chars) /\ Len(v) = n
    <3> HIDE DEF v
    <3> QED BY <1>1, <1>3
  <2> QED BY <1>2, <2>1
<1>5. u = [i \in 1 .. Len(v) |-> v[(Len(v) - i) + 1]]
  BY DEF Reverse
<1> HIDE DEF v, u
<1>6. u = [i \in 1 .. n |-> v[(n - i) + 1]]
  BY <1>4, <1>5
<1>7. \A i \in 1 .. n : v[(n - i) + 1] = w[i]
  <2> SUFFICES ASSUME NEW i \in 1 .. n PROVE v[(n - i) + 1] = w[i]
    OBVIOUS
  <2> DEFINE k == (n - i) + 1
  <2>1. k \in 1 .. n /\ n - k + 1 = i
    BY <1>1
  <2> HIDE DEF k
  <2>2. v[k] = w[n - k + 1]
    BY <1>4, <2>1
  <2>3. v[k] = w[i]
    BY <2>1, <2>2
  <2> QED BY <2>3 DEF k
<1>8. u = w
  <2>1. u \in [1 .. n -> Chars] /\ DOMAIN w = 1 .. n /\ w = [i \in 1 .. n |-> w[i]]
    BY <1>1, <1>3, <1>6, <1>7 DEF n
  <2> QED BY <1>6, <1>7, <2>1
<1> QED BY <1>1, <1>4, <1>8 DEF u, v, n

\* A way through C is one through A in the other direction.
LEMMA DualAccepts ==
    ASSUME NEW A, NEW C, IsDual(C, A), NEW w \in Seq(Chars), NEW v \in Seq(Chars), Len(v) = Len(w),
           \A k \in 1 .. Len(w) : v[k] = w[Len(w) + 1 - k], Accepts(C, w, 0, Len(w))
    PROVE  Accepts(A, v, 0, Len(v))
<1> DEFINE n == Len(w)
           N == Len(A)
<1>1. n \in Nat /\ N \in Nat /\ N >= 1 /\ Len(C) = N /\ DOMAIN C = 1 .. N /\ DOMAIN A = 1 .. N /\ Len(v) = n
  BY DEF IsDual
<1>2. /\ \A s, t \in 1 .. N : EmptyMove(C, s, t) => s = t \/ EmptyMove(A, N + 1 - t, N + 1 - s)
      /\ \A c : \A s, t \in 1 .. N : CharMove(C, c, s, t) => CharMove(A, c, N + 1 - t, N + 1 - s)
  BY <1>1 DEF IsDual
<1>3. \A k \in 1 .. n : v[k] = w[n + 1 - k]
  OBVIOUS
<1>4. Reaches(C, w, 1, 0, N, n)
  BY <1>1 DEF Accepts
<1> HIDE DEF n, N
<1>5. ASSUME NEW X, Closed(A, v, X), 0 \in X[1] PROVE n \in X[N]
  <2> DEFINE Y == [s \in 1 .. N |-> {k \in 0 .. n : n - k \notin X[N + 1 - s]}]
  <2>1. X \in [1 .. N -> SUBSET (0 .. n)]
    BY <1>1, <1>5 DEF Closed
  <2>a. /\ \A s, t \in 1 .. N : EmptyMove(A, s, t) => X[s] \subseteq X[t]
        /\ \A k \in 1 .. n : \A s, t \in 1 .. N : k - 1 \in X[s] /\ CharMove(A, v[k], s, t) => k \in X[t]
    BY <1>1, <1>5 DEF Closed
  <2>2. \A s \in 1 .. N : \A k : k \in Y[s] <=> k \in 0 .. n /\ n - k \notin X[N + 1 - s]
    OBVIOUS
  <2>3. Y \in [1 .. N -> SUBSET (0 .. n)]
    OBVIOUS
  <2> HIDE DEF Y
  <2>4. \A s \in 1 .. N : N + 1 - s \in 1 .. N
    BY <1>1
  <2>5. ASSUME NEW s \in 1 .. N, NEW t \in 1 .. N, EmptyMove(C, s, t) PROVE Y[s] \subseteq Y[t]
    <3>1. s = t \/ EmptyMove(A, N + 1 - t, N + 1 - s)
      BY <1>2, <2>5
    <3>a. N + 1 - t \in 1 .. N /\ N + 1 - s \in 1 .. N
      BY <2>4
    <3>2. s = t \/ X[N + 1 - t] \subseteq X[N + 1 - s]
      BY ONLY <2>a, <3>a, <3>1
    <3> QED BY <2>2, <3>2
  <2>6. ASSUME NEW k \in 1 .. n, NEW s \in 1 .. N, NEW t \in 1 .. N, k - 1 \in Y[s], CharMove(C, w[k], s, t)
        PROVE  k \in Y[t]
    <3> DEFINE q == n + 1 - k
    <3>1. q \in 1 .. n /\ q - 1 = n - k /\ q = n - (k - 1) /\ n + 1 - q = k /\ k \in 0 .. n
      BY <1>1
    <3>2. CharMove(A, w[k], N + 1 - t, N + 1 - s)
      BY <1>2, <2>6
    <3>3. q \notin X[N + 1 - s]
      BY <2>2, <2>6, <3>1
    <3> HIDE DEF q
    <3>4. v[q] = w[k]
      BY <1>3, <3>1
    <3>5. q - 1 \notin X[N + 1 - t]
      <4>1. N + 1 - t \in 1 .. N /\ N + 1 - s \in 1 .. N /\ CharMove(A, v[q], N + 1 - t, N + 1 - s)
        BY <2>4, <3>2, <3>4
      <4> QED BY ONLY <2>a, <3>1, <3>3, <4>1
    <3> QED BY <2>2, <3>1, <3>5
  <2>7. Closed(C, w, Y)
    BY <1>1, <2>3, <2>5, <2>6 DEF Closed, n
  <2> SUFFICES ASSUME n \notin X[N] PROVE FALSE
    OBVIOUS
  <2>8. 0 \in Y[1]
    <3>1. 0 \in 0 .. n /\ n - 0 = n /\ N + 1 - 1 = N /\ 1 \in 1 .. N
      BY <1>1
    <3> QED BY <2>2, <3>1
  <2>9. n \in Y[N]
    BY <1>4, <2>7, <2>8 DEF Reaches
  <2>10. n - n = 0 /\ N + 1 - N = 1 /\ N \in 1 .. N
    BY <1>1
  <2> QED BY <1>5, <2>2, <2>9, <2>10
<1> QED BY <1>1, <1>5 DEF Accepts, Reaches, N, n

\* initreverse_automat: the words of the other automaton backwards.
LEMMA ReverseLanguage ==
    ASSUME NEW A, WellFormed(A)
    PROVE  Language(OpReverse(A)) = {Reverse(w) : w \in Language(A)}
<1> DEFINE C == OpReverse(A)
           n == Len(A)
<1>1. IsReversed(C, A)
  BY ReverseStates
<1> HIDE DEF C
<1>2. /\ n \in Nat /\ n >= 2 /\ DOMAIN A = 1 .. n /\ DOMAIN C = 1 .. n /\ Len(C) = n
      /\ \A s \in 1 .. n : n + 1 - s \in 1 .. n /\ n + 1 - (n + 1 - s) = s
      /\ MaxWord \in Nat
  BY <1>1, MoveFacts, AutomatAssumption DEF IsReversed
<1>3. IsDual(C, A)
  <2>1. \A s, t \in DOMAIN A : EmptyMove(C, s, t) => s = t \/ EmptyMove(A, n + 1 - t, n + 1 - s)
    BY <1>1 DEF IsReversed
  <2>2. \A c, s, t : s \in DOMAIN A /\ t \in DOMAIN A => (CharMove(C, c, s, t) => CharMove(A, c, n + 1 - t, n + 1 - s))
    BY <1>1 DEF IsReversed
  <2> QED BY <1>2, <2>1, <2>2 DEF IsDual
<1>4. IsDual(A, C)
  <2>1. ASSUME NEW s \in 1 .. n, NEW t \in 1 .. n, EmptyMove(A, s, t) PROVE EmptyMove(C, n + 1 - t, n + 1 - s)
    <3> DEFINE p == n + 1 - t
               q == n + 1 - s
    <3>1. p \in DOMAIN A /\ q \in DOMAIN A /\ n + 1 - q = s /\ n + 1 - p = t
      BY <1>2
    <3> HIDE DEF p, q
    <3>2. EmptyMove(A, n + 1 - q, n + 1 - p) => EmptyMove(C, p, q)
      BY <1>1, <3>1 DEF IsReversed
    <3>3. EmptyMove(C, p, q)
      BY <2>1, <3>1, <3>2
    <3> QED BY <3>3 DEF p, q
  <2>2. ASSUME NEW c, NEW s \in 1 .. n, NEW t \in 1 .. n, CharMove(A, c, s, t) PROVE CharMove(C, c, n + 1 - t, n + 1 - s)
    <3> DEFINE p == n + 1 - t
               q == n + 1 - s
    <3>1. p \in DOMAIN A /\ q \in DOMAIN A /\ n + 1 - q = s /\ n + 1 - p = t
      BY <1>2
    <3> HIDE DEF p, q
    <3>2. CharMove(A, c, n + 1 - q, n + 1 - p) => CharMove(C, c, p, q)
      BY <1>1, <3>1 DEF IsReversed
    <3>3. CharMove(C, c, p, q)
      BY <2>2, <3>1, <3>2
    <3> QED BY <3>3 DEF p, q
  <2> QED BY <1>2, <2>1, <2>2 DEF IsDual
<1>5. ASSUME NEW B, NEW D, IsDual(D, B), NEW w \in Language(D) PROVE Reverse(w) \in Language(B)
  <2>1. w \in Words(MaxWord) /\ Accepts(D, w, 0, Len(w))
    BY DEF Language
  <2>2. w \in Seq(Chars) /\ Len(w) <= MaxWord
    BY <1>2, <2>1, WordsFacts
  <2> DEFINE v == Reverse(w)
  <2>3. v \in Seq(Chars) /\ Len(v) = Len(w) /\ \A k \in 1 .. Len(w) : v[k] = w[Len(w) + 1 - k]
    BY <2>2, ReverseFacts
  <2> HIDE DEF v
  <2>4. Accepts(B, v, 0, Len(v))
    BY <1>5, <2>1, <2>2, <2>3, DualAccepts
  <2>5. v \in Words(MaxWord)
    BY <1>2, <2>2, <2>3, WordsFacts
  <2>6. v \in Language(B)
    BY <2>4, <2>5 DEF Language
  <2> QED BY <2>6 DEF v
<1>6. \A w \in Language(A) : Reverse(w) \in Language(C)
  BY <1>4, <1>5
<1>7. \A w \in Language(C) : Reverse(w) \in Language(A) /\ Reverse(Reverse(w)) = w
  <2> SUFFICES ASSUME NEW w \in Language(C) PROVE Reverse(w) \in Language(A) /\ Reverse(Reverse(w)) = w
    OBVIOUS
  <2>1. w \in Seq(Chars)
    BY <1>2, WordsFacts DEF Language
  <2> QED BY <1>3, <1>5, <2>1, ReverseFacts
<1>8. Language(C) = {Reverse(w) : w \in Language(A)}
  BY <1>6, <1>7
<1> QED BY <1>8 DEF C

-----------------------------------------------------------------------------
(* remove_single_empty_transitions *)

\* What holds along a chain holds where it ends.
LEMMA ChainEndIn ==
    ASSUME NEW A, GoodAutomaton(A), NEW s \in DOMAIN A, NEW T \in SUBSET (DOMAIN A), s \in T,
           \A t \in T : Single(A, t) => A[t].empty[1] \in T
    PROVE  ChainEnd(A, s) \in T
<1> DEFINE D == DOMAIN A
           g == ChainStep(A)
           O == Orbit(D, g, s)
<1>1. \A t \in D : g[t] = IF Single(A, t) THEN A[t].empty[1] ELSE t
  BY DEF ChainStep
<1>2. \A t \in D : Single(A, t) => A[t].empty[1] \in D
  BY SingleMove DEF GoodAutomaton
<1>3. g \in [D -> D]
  BY <1>2 DEF ChainStep
<1>4. ChainEnd(A, s) \in O
  BY ChainEndFacts
<1> HIDE DEF g
<1>5. \A t \in T : g[t] \in T
  BY <1>1
<1>6. O \subseteq T
  BY <1>3, <1>5, OrbitFacts
<1> QED BY <1>4, <1>6

\* It does not change what is accepted.
LEMMA ShortenedLanguage ==
    ASSUME NEW A, GoodAutomaton(A)
    PROVE  Language(RemoveSingle(A)) = Language(A)
<1> DEFINE B == RemoveSingle(A)
           N == Len(A)
<1>1. IsShortened(B, A)
  BY ShortenedStates
<1> HIDE DEF B
<1>2. /\ N \in Nat /\ DOMAIN A = 1 .. N /\ 1 \in 1 .. N /\ N \in 1 .. N /\ DOMAIN B = 1 .. N /\ Len(B) = N
      /\ \A s \in 1 .. N : \A t : EmptyMove(A, s, t) => t \in 1 .. N
      /\ \A s \in 1 .. N : \A c, t : CharMove(A, c, s, t) => t \in 1 .. N
  <2>1. WellFormed(A) /\ WellFormed(B) /\ Len(B) = N
    BY <1>1 DEF GoodAutomaton, IsShortened
  <2> QED BY <2>1, MoveFacts
<1> HIDE DEF N
<1>3. \A s \in 1 .. N :
         /\ Single(A, s) => \A u : EmptyMove(B, s, u) <=> u = ChainEnd(A, s)
         /\ ~Single(A, s) => \A u : EmptyMove(B, s, u) <=> EmptyMove(A, s, u)
         /\ \A c, t : CharMove(B, c, s, t) <=> \E u \in 1 .. N : CharMove(A, c, s, u) /\ t = ChainEnd(A, u)
  BY <1>1, <1>2, ShortenedMoves, SMTT(30)
<1>4. \A s \in 1 .. N : Single(A, s) =>
         /\ A[s].empty[1] \in 1 .. N
         /\ \A u : EmptyMove(A, s, u) <=> u = A[s].empty[1]
         /\ \A c, u : ~CharMove(A, c, s, u)
         /\ s = N => A[s].empty[1] = s
  <2>1. WellFormed(A) /\ N = Len(A)
    BY DEF GoodAutomaton, N
  <2> SUFFICES ASSUME NEW s \in 1 .. N, Single(A, s)
               PROVE  /\ A[s].empty[1] \in 1 .. N
                      /\ \A u : EmptyMove(A, s, u) <=> u = A[s].empty[1]
                      /\ \A c, u : ~CharMove(A, c, s, u)
                      /\ s = N => A[s].empty[1] = s
    BY ZenonT(30)
  <2>2. s \in DOMAIN A /\ DOMAIN A = 1 .. N
    BY <1>2
  <2> QED BY ONLY <2>1, <2>2, Single(A, s), SingleMove
<1>5. \A s \in 1 .. N :
         /\ ChainEnd(A, s) \in 1 .. N
         /\ ~Single(A, s) => ChainEnd(A, s) = s
         /\ Single(A, s) /\ A[s].empty[1] = s => ChainEnd(A, s) = s
         /\ Single(A, s) => ChainEnd(A, s) = ChainEnd(A, A[s].empty[1])
  BY <1>2, ChainEndFacts
<1>6. ASSUME NEW w, NEW X, Closed(A, w, X) PROVE Closed(B, w, X)
  <2>1. /\ X \in [1 .. N -> SUBSET (0 .. Len(w))]
        /\ \A s, t \in 1 .. N : EmptyMove(A, s, t) => X[s] \subseteq X[t]
        /\ \A k \in 1 .. Len(w) : \A s, t \in 1 .. N : k - 1 \in X[s] /\ CharMove(A, w[k], s, t) => k \in X[t]
    BY <1>2, <1>6 DEF Closed
  <2>2. ASSUME NEW s \in 1 .. N PROVE X[s] \subseteq X[ChainEnd(A, s)]
    <3> DEFINE T == {t \in 1 .. N : X[s] \subseteq X[t]}
    <3>1. ASSUME NEW t \in T, Single(A, t) PROVE A[t].empty[1] \in T
      <4> DEFINE u == A[t].empty[1]
      <4>1. t \in 1 .. N /\ X[s] \subseteq X[t]
        OBVIOUS
      <4>2. u \in 1 .. N /\ EmptyMove(A, t, u)
        BY <1>4, <3>1, <4>1
      <4> HIDE DEF u, T
      <4>3. X[s] \subseteq X[u]
        BY <2>1, <4>1, <4>2
      <4>4. u \in T
        BY <4>2, <4>3 DEF T
      <4> QED BY <4>4 DEF u
    <3>2. T \in SUBSET (DOMAIN A) /\ s \in T /\ s \in DOMAIN A
      BY <1>2
    <3> HIDE DEF T
    <3>3. ChainEnd(A, s) \in T
      BY <3>1, <3>2, ChainEndIn
    <3> QED BY <3>3 DEF T
  <2>3. \A s, t \in 1 .. N : EmptyMove(B, s, t) => X[s] \subseteq X[t]
    BY <1>3, <2>1, <2>2
  <2>4. ASSUME NEW k \in 1 .. Len(w), NEW s \in 1 .. N, NEW t \in 1 .. N, k - 1 \in X[s], CharMove(B, w[k], s, t)
        PROVE  k \in X[t]
    <3>1. PICK u \in 1 .. N : CharMove(A, w[k], s, u) /\ t = ChainEnd(A, u)
      BY <1>3, <2>4
    <3>2. k \in X[u]
      BY <2>1, <2>4, <3>1
    <3> QED BY <2>2, <3>1, <3>2
  <2> QED BY <1>2, <2>1, <2>3, <2>4 DEF Closed
<1>7. ASSUME NEW w, NEW Y, Closed(B, w, Y), NEW X, X = [s \in 1 .. N |-> Y[ChainEnd(A, s)]] PROVE Closed(A, w, X)
  <2>1. /\ Y \in [1 .. N -> SUBSET (0 .. Len(w))]
        /\ \A s, t \in 1 .. N : EmptyMove(B, s, t) => Y[s] \subseteq Y[t]
        /\ \A k \in 1 .. Len(w) : \A s, t \in 1 .. N : k - 1 \in Y[s] /\ CharMove(B, w[k], s, t) => k \in Y[t]
    BY <1>2, <1>7 DEF Closed
  <2>2. \A s \in 1 .. N : X[s] = Y[ChainEnd(A, s)]
    BY <1>7
  <2>3. X \in [1 .. N -> SUBSET (0 .. Len(w))]
    BY <1>5, <1>7, <2>1
  <2>4. \A s \in 1 .. N : Y[s] \subseteq Y[ChainEnd(A, s)]
    BY <1>3, <1>5, <2>1
  <2>5. ASSUME NEW s \in 1 .. N, NEW t \in 1 .. N, EmptyMove(A, s, t) PROVE X[s] \subseteq X[t]
    <3>1. CASE Single(A, s)
      <4>1. t = A[s].empty[1]
        BY <1>4, <2>5, <3>1
      <4>2. ChainEnd(A, s) = ChainEnd(A, t)
        BY <1>5, <3>1, <4>1
      <4> QED BY <2>2, <4>2
    <3>2. CASE ~Single(A, s)
      <4>1. EmptyMove(B, s, t) /\ ChainEnd(A, s) = s
        BY <1>3, <1>5, <2>5, <3>2
      <4>2. Y[s] \subseteq Y[t]
        BY <2>1, <4>1
      <4> QED BY <2>2, <2>4, <4>1, <4>2
    <3> QED BY <3>1, <3>2
  <2>6. ASSUME NEW k \in 1 .. Len(w), NEW s \in 1 .. N, NEW t \in 1 .. N, k - 1 \in X[s], CharMove(A, w[k], s, t)
        PROVE  k \in X[t]
    <3>1. ChainEnd(A, s) = s
      BY <1>4, <1>5, <2>6
    <3>2. CharMove(B, w[k], s, ChainEnd(A, t)) /\ ChainEnd(A, t) \in 1 .. N
      BY <1>3, <1>5, <2>6
    <3>3. k \in Y[ChainEnd(A, t)]
      BY <2>1, <2>2, <2>6, <3>1, <3>2
    <3> QED BY <2>2, <3>3
  <2> QED BY <1>2, <2>3, <2>5, <2>6 DEF Closed
<1>8. ChainEnd(A, N) = N
  BY <1>2, <1>4, <1>5
<1>9. ASSUME NEW w PROVE Accepts(A, w, 0, Len(w)) <=> Accepts(B, w, 0, Len(w))
  <2>1. ASSUME Reaches(A, w, 1, 0, N, Len(w)), NEW Y, Closed(B, w, Y), 0 \in Y[1] PROVE Len(w) \in Y[N]
    <3> DEFINE X == [s \in 1 .. N |-> Y[ChainEnd(A, s)]]
    <3>1. X[1] = Y[ChainEnd(A, 1)] /\ X[N] = Y[N]
      BY <1>2, <1>8
    <3>2. Y[1] \subseteq Y[ChainEnd(A, 1)]
      <4>1. \A s, t \in 1 .. N : EmptyMove(B, s, t) => Y[s] \subseteq Y[t]
        BY <1>2, <2>1 DEF Closed
      <4> QED BY <1>2, <1>3, <1>5, <4>1
    <3>3. Closed(A, w, X)
      BY <1>7, <2>1
    <3> HIDE DEF X
    <3> QED BY <2>1, <3>1, <3>2, <3>3 DEF Reaches
  <2>2. Reaches(A, w, 1, 0, N, Len(w)) => Reaches(B, w, 1, 0, N, Len(w))
    BY <2>1 DEF Reaches
  <2>3. Reaches(B, w, 1, 0, N, Len(w)) => Reaches(A, w, 1, 0, N, Len(w))
    BY <1>6 DEF Reaches
  <2>4. N = Len(A) /\ N = Len(B)
    BY <1>2 DEF N
  <2> QED BY <2>2, <2>3, <2>4 DEF Accepts
<1> QED BY <1>9 DEF Language, B

-----------------------------------------------------------------------------
(* The sets of states after some characters of a word *)

\* Where the automata may be after the first k characters of w were read.
SimSet(As, w, k) == {v \in Places(As) : Reaches(As[v[1]], w, 1, 0, v[2], k)}
StartPlaces(As) == {<<i, 1>> : i \in DOMAIN As}

\* Its members.
LEMMA SimMembers ==
    ASSUME NEW As, NEW op, Operands(As, op), NEW w, NEW k
    PROVE  /\ SimSet(As, w, k) \in SUBSET Places(As)
           /\ \A i \in DOMAIN As : \A s \in DOMAIN As[i] :
                 <<i, s>> \in SimSet(As, w, k) <=> Reaches(As[i], w, 1, 0, s, k)
<1>1. ASSUME NEW i \in DOMAIN As, NEW s \in DOMAIN As[i]
      PROVE  <<i, s>> \in SimSet(As, w, k) <=> Reaches(As[i], w, 1, 0, s, k)
  <2> DEFINE v == <<i, s>>
  <2>1. v[1] = i /\ v[2] = s
    OBVIOUS
  <2>2. v \in Places(As)
    BY PlacesFacts
  <2> HIDE DEF v
  <2>3. v \in SimSet(As, w, k) <=> Reaches(As[v[1]], w, 1, 0, v[2], k)
    BY <2>2 DEF SimSet
  <2>4. v \in SimSet(As, w, k) <=> Reaches(As[i], w, 1, 0, s, k)
    BY ONLY <2>1, <2>3
  <2> QED BY <2>4 DEF v
<1>2. SimSet(As, w, k) \in SUBSET Places(As)
  BY DEF SimSet
<1> QED BY <1>1, <1>2

\* No empty transition leaves them, and the next character leads to the next one.
LEMMA SimClosed ==
    ASSUME NEW As, NEW op, Operands(As, op), NEW w \in Seq(Chars)
    PROVE  /\ \A k : EmptyClosed(As, SimSet(As, w, k))
           /\ StartPlaces(As) \subseteq SimSet(As, w, 0)
           /\ \A k \in 1 .. Len(w) : Read(As, SimSet(As, w, k - 1), w[k]) \subseteq SimSet(As, w, k)
<1>1. ASSUME NEW k, NEW x \in EmptyTargets(As, SimSet(As, w, k)) PROVE x \in SimSet(As, w, k)
  <2> DEFINE V == SimSet(As, w, k)
  <2>1. V \in SUBSET Places(As)
    BY SimMembers
  <2>2. x \in Places(As)
    BY <2>1, TargetFacts
  <2>3. PICK i \in DOMAIN As : \E t \in DOMAIN As[i] : x = <<i, t>>
    BY <2>2, PlacesFacts
  <2>4. PICK t \in DOMAIN As[i] : x = <<i, t>>
    BY <2>3
  <2>5. PICK s \in DOMAIN As[i] : <<i, s>> \in V /\ EmptyMove(As[i], s, t)
    BY <2>1, <2>4, TargetFacts
  <2>6. Reaches(As[i], w, 1, 0, s, k)
    BY <2>5, SimMembers
  <2>7. Reaches(As[i], w, s, k, t, k)
    BY <2>5, ReachesSteps
  <2>8. Reaches(As[i], w, 1, 0, t, k)
    BY ONLY <2>6, <2>7, ReachesOn
  <2> QED BY <2>4, <2>8, SimMembers
<1>2. StartPlaces(As) \subseteq SimSet(As, w, 0)
  <2> SUFFICES ASSUME NEW i \in DOMAIN As PROVE <<i, 1>> \in SimSet(As, w, 0)
    BY DEF StartPlaces
  <2>1. 1 \in DOMAIN As[i]
    BY MoveFacts DEF Operands
  <2>2. Reaches(As[i], w, 1, 0, 1, 0)
    BY ReachesSteps
  <2> QED BY <2>1, <2>2, SimMembers
<1>3. ASSUME NEW k \in 1 .. Len(w), NEW x \in Read(As, SimSet(As, w, k - 1), w[k]) PROVE x \in SimSet(As, w, k)
  <2> DEFINE V == SimSet(As, w, k - 1)
  <2>1. V \in SUBSET Places(As)
    BY SimMembers
  <2>2. x \in Places(As)
    BY <2>1, TargetFacts
  <2>3. PICK i \in DOMAIN As : \E t \in DOMAIN As[i] : x = <<i, t>>
    BY <2>2, PlacesFacts
  <2>4. PICK t \in DOMAIN As[i] : x = <<i, t>>
    BY <2>3
  <2>5. PICK s \in DOMAIN As[i] : <<i, s>> \in V /\ CharMove(As[i], w[k], s, t)
    BY <2>1, <2>4, TargetFacts
  <2>6. Reaches(As[i], w, 1, 0, s, k - 1)
    BY <2>5, SimMembers
  <2>7. Reaches(As[i], w, s, k - 1, t, k)
    BY <2>5, ReachesSteps
  <2>8. Reaches(As[i], w, 1, 0, t, k)
    BY ONLY <2>6, <2>7, ReachesOn
  <2> QED BY <2>4, <2>8, SimMembers
<1> QED BY <1>1, <1>2, <1>3 DEF EmptyClosed

\* They are the smallest sets with that property.
LEMMA SimLeast ==
    ASSUME NEW As, NEW op, Operands(As, op), NEW w \in Seq(Chars), NEW k \in 0 .. Len(w),
           NEW M \in SUBSET Places(As), EmptyClosed(As, M),
           k = 0 => StartPlaces(As) \subseteq M,
           k # 0 => Read(As, SimSet(As, w, k - 1), w[k]) \subseteq M
    PROVE  SimSet(As, w, k) \subseteq M
<1> SUFFICES ASSUME NEW i \in DOMAIN As, NEW s \in DOMAIN As[i], Reaches(As[i], w, 1, 0, s, k)
             PROVE  <<i, s>> \in M
  <2>1. ASSUME NEW v \in SimSet(As, w, k)
        PROVE  \E i \in DOMAIN As : \E s \in DOMAIN As[i] : v = <<i, s>> /\ Reaches(As[i], w, 1, 0, s, k)
    <3>1. v \in Places(As)
      BY SimMembers
    <3>2. PICK i \in DOMAIN As : \E s \in DOMAIN As[i] : v = <<i, s>>
      BY <3>1, PlacesFacts
    <3>3. PICK s \in DOMAIN As[i] : v = <<i, s>>
      BY <3>2
    <3> QED BY <3>3, SimMembers
  <2> QED BY <2>1
<1> DEFINE A == As[i]
           n == Len(w)
           X == [t \in DOMAIN A |-> {j \in 0 .. n : (j < k => Reaches(A, w, 1, 0, t, j)) /\ (j = k => <<i, t>> \in M)}]
<1>1. /\ n \in Nat /\ k \in Nat /\ k <= n
      /\ X \in [DOMAIN A -> SUBSET (0 .. n)]
      /\ \A t \in DOMAIN A : \A j : j \in X[t] <=>
            j \in 0 .. n /\ (j < k => Reaches(A, w, 1, 0, t, j)) /\ (j = k => <<i, t>> \in M)
  OBVIOUS
<1>2. 1 \in DOMAIN A
  BY MoveFacts DEF Operands
<1>3. \A t, u \in DOMAIN A : <<i, t>> \in M /\ EmptyMove(A, t, u) => <<i, u>> \in M
  BY TargetFacts DEF EmptyClosed
<1>4. \A u \in DOMAIN A : k # 0 /\ (\E t \in DOMAIN A : <<i, t>> \in SimSet(As, w, k - 1) /\ CharMove(A, w[k], t, u))
                          => <<i, u>> \in M
  <2>1. SimSet(As, w, k - 1) \in SUBSET Places(As)
    BY SimMembers
  <2> QED BY <2>1, TargetFacts
<1>5. \A t \in DOMAIN A : <<i, t>> \in SimSet(As, w, k - 1) <=> Reaches(A, w, 1, 0, t, k - 1)
  BY SimMembers
<1>6. k = 0 => <<i, 1>> \in M
  BY DEF StartPlaces
<1>7. s \in DOMAIN A /\ Reaches(A, w, 1, 0, s, k)
  OBVIOUS
<1>8. \A t, u \in DOMAIN A : \A j : EmptyMove(A, t, u) /\ Reaches(A, w, 1, 0, t, j) => Reaches(A, w, 1, 0, u, j)
  <2> SUFFICES ASSUME NEW t \in DOMAIN A, NEW u \in DOMAIN A, NEW j, EmptyMove(A, t, u), Reaches(A, w, 1, 0, t, j)
               PROVE  Reaches(A, w, 1, 0, u, j)
    OBVIOUS
  <2>1. Reaches(A, w, t, j, u, j)
    BY ReachesSteps
  <2> QED BY <2>1, ReachesOn
<1>9. \A j \in 1 .. n : \A t, u \in DOMAIN A :
         CharMove(A, w[j], t, u) /\ Reaches(A, w, 1, 0, t, j - 1) => Reaches(A, w, 1, 0, u, j)
  <2> SUFFICES ASSUME NEW j \in 1 .. n, NEW t \in DOMAIN A, NEW u \in DOMAIN A,
                      CharMove(A, w[j], t, u), Reaches(A, w, 1, 0, t, j - 1)
               PROVE  Reaches(A, w, 1, 0, u, j)
    OBVIOUS
  <2>1. Reaches(A, w, t, j - 1, u, j)
    BY ReachesSteps
  <2> QED BY <2>1, ReachesOn
<1>10. Reaches(A, w, 1, 0, 1, 0)
  BY ReachesSteps
<1> HIDE DEF X, A
<1>11. \A t, u \in DOMAIN A : EmptyMove(A, t, u) => X[t] \subseteq X[u]
  BY <1>1, <1>3, <1>8
<1>12. ASSUME NEW j \in 1 .. n, NEW t \in DOMAIN A, NEW u \in DOMAIN A, j - 1 \in X[t], CharMove(A, w[j], t, u)
       PROVE  j \in X[u]
  <2> DEFINE p == j - 1
  <2>0. n \in Nat /\ k \in Nat /\ t \in DOMAIN A /\ u \in DOMAIN A /\ p \in X[t] /\ p = j - 1
    BY <1>1, <1>12
  <2> HIDE DEF n, p
  <2>1. j \in 0 .. n /\ j \in Nat /\ p \in 0 .. n /\ p \in Nat
    BY <2>0
  <2>2. p < k => Reaches(A, w, 1, 0, t, p)
    BY ONLY <1>1, <2>0
  <2>3. j \in X[u] <=> (j < k => Reaches(A, w, 1, 0, u, j)) /\ (j = k => <<i, u>> \in M)
    BY ONLY <1>1, <2>0, <2>1
  <2>4. Reaches(A, w, 1, 0, t, p) => Reaches(A, w, 1, 0, u, j)
    BY <1>9, <1>12, <2>0
  <2>5. CASE j < k
    <3>1. p < k /\ j # k
      BY ONLY <2>0, <2>1, <2>5
    <3> QED BY <2>2, <2>3, <2>4, <3>1
  <2>6. CASE j = k
    <3>1. p < k /\ ~(j < k) /\ k # 0 /\ k - 1 = p
      BY ONLY <2>0, <2>1, <2>6
    <3>2. Reaches(A, w, 1, 0, t, k - 1)
      BY <2>2, <3>1
    <3>3. <<i, t>> \in SimSet(As, w, k - 1)
      BY <1>5, <2>0, <3>2
    <3>4. CharMove(A, w[k], t, u)
      BY <1>12, <2>6
    <3>5. <<i, u>> \in M
      BY <1>4, <2>0, <3>1, <3>3, <3>4
    <3> QED BY <2>3, <3>1, <3>5
  <2>7. CASE j > k
    <3>1. ~(j < k) /\ j # k
      BY ONLY <2>0, <2>1, <2>7
    <3> QED BY <2>3, <3>1
  <2> QED BY <2>0, <2>1, <2>5, <2>6, <2>7
<1>13. Closed(A, w, X)
  BY <1>1, <1>11, <1>12 DEF Closed
<1>14. 0 \in X[1]
  BY <1>1, <1>2, <1>6, <1>10
<1>15. k \in X[s]
  BY <1>7, <1>13, <1>14 DEF Reaches
<1> QED BY <1>1, <1>7, <1>15

\* They are what the construction of a DFA and the match of an NFA compute.
LEMMA SimSteps ==
    ASSUME NEW As, NEW op, Operands(As, op), NEW w \in Seq(Chars)
    PROVE  /\ SimSet(As, w, 0) = StartSet(As)
           /\ \A k \in 1 .. Len(w) : SimSet(As, w, k) = Follow(As, Read(As, SimSet(As, w, k - 1), w[k]))
<1>1. \A k : SimSet(As, w, k) \in SUBSET Places(As) /\ EmptyClosed(As, SimSet(As, w, k))
  BY SimMembers, SimClosed
<1>2. SimSet(As, w, 0) = StartSet(As)
  <2> DEFINE V == StartPlaces(As)
             F == Follow(As, V)
  <2>1. V \in SUBSET Places(As) /\ F = StartSet(As)
    BY StartSetFacts DEF StartPlaces, StartSet
  <2> HIDE DEF V
  <2>2. /\ F \in SUBSET Places(As) /\ V \subseteq F /\ EmptyClosed(As, F)
        /\ \A M \in SUBSET Places(As) : V \subseteq M /\ EmptyClosed(As, M) => F \subseteq M
    BY ONLY <2>1, Operands(As, op), FollowFacts
  <2> HIDE DEF F
  <2>3. 0 \in 0 .. Len(w) /\ V \subseteq SimSet(As, w, 0)
    BY SimClosed DEF V
  <2>4. SimSet(As, w, 0) \subseteq F
    BY <2>2, <2>3, SimLeast DEF V
  <2> QED BY <1>1, <2>1, <2>2, <2>3, <2>4
<1>3. ASSUME NEW k \in 1 .. Len(w) PROVE SimSet(As, w, k) = Follow(As, Read(As, SimSet(As, w, k - 1), w[k]))
  <2> DEFINE V == Read(As, SimSet(As, w, k - 1), w[k])
             F == Follow(As, V)
  <2>1. V \in SUBSET Places(As)
    BY <1>1, TargetFacts
  <2>2. V \subseteq SimSet(As, w, k)
    BY SimClosed
  <2>3. V = Read(As, SimSet(As, w, k - 1), w[k])
    OBVIOUS
  <2> HIDE DEF V
  <2>4. /\ F \in SUBSET Places(As) /\ V \subseteq F /\ EmptyClosed(As, F)
        /\ \A M \in SUBSET Places(As) : V \subseteq M /\ EmptyClosed(As, M) => F \subseteq M
    BY ONLY <2>1, Operands(As, op), FollowFacts
  <2> HIDE DEF F
  <2>5. k \in 0 .. Len(w) /\ k # 0
    OBVIOUS
  <2>6. SimSet(As, w, k) \subseteq F
    BY <2>3, <2>4, <2>5, SimLeast
  <2>7. SimSet(As, w, k) = F
    BY <1>1, <2>2, <2>4, <2>6
  <2> QED BY <2>7 DEF F, V
<1> QED BY <1>2, <1>3

-----------------------------------------------------------------------------
(* What a DFA accepts *)

\* A is the DFA made of the sets kept of all, for the operands As.
IsDFAOf(A, As, op, all, kept) ==
    /\ Operands(As, op)
    /\ IsExplored(As, op, StartSet(As), all.found)
    /\ IsAll(all, As, op)
    /\ IsConverted(A, As, op, all, kept)

\* The set which became state d.
SetOf(all, kept, d) == all.found[kept[d]]

\* The sets and their numbers.
LEMMA DFASets ==
    ASSUME NEW A, NEW As, NEW op, NEW all, NEW kept, IsDFAOf(A, As, op, all, kept)
    PROVE  /\ Len(kept) \in Nat /\ Len(kept) >= 1 /\ DOMAIN kept = 1 .. Len(kept)
           /\ \A d \in 1 .. Len(kept) : SetOf(all, kept, d) \in ToSet(all.found)
           /\ ToSet(all.found) \subseteq SUBSET Places(As)
           /\ SetOf(all, kept, 1) = StartSet(As) /\ NumberOf(all, kept, StartSet(As)) = 1
           /\ \A V \in ToSet(all.found) : \A c \in Chars :
                 Target(As, op, V, c) # {} => Target(As, op, V, c) \in ToSet(all.found)
           /\ \A V \in ToSet(all.found) :
                 /\ NumberOf(all, kept, V) \in 1 .. Len(kept) + 1
                 /\ NumberOf(all, kept, V) # Len(kept) + 1 => SetOf(all, kept, NumberOf(all, kept, V)) = V
                 /\ NumberOf(all, kept, V) = Len(kept) + 1 =>
                       IsEnd(As, op, V) /\ \A c \in Chars : Target(As, op, V, c) = {}
<1> DEFINE m == Len(kept)
           f == all.found
           Num(V) == NumberOf(all, kept, V)
<1>1. /\ Operands(As, op)
      /\ f \in Seq(SUBSET Places(As)) /\ Len(f) >= 1 /\ f[1] = StartSet(As) /\ IsInjective(f)
      /\ \A i \in DOMAIN f : ToSet(Row(As, op, f[i])) \subseteq ToSet(f) \cup {{}}
      /\ \A i \in DOMAIN f : all.targets[i] = Row(As, op, f[i])
  BY DEF IsDFAOf, IsExplored, IsAll
<1>2. /\ kept \in Seq(DOMAIN f) /\ m >= 1 /\ kept[1] = 1
      /\ \A i, j \in DOMAIN kept : i < j => kept[i] < kept[j]
      /\ \A i \in DOMAIN f : i \in ToSet(kept) <=> IsKept(As, op, all, i)
  BY DEF IsDFAOf, IsConverted
<1>3. m \in Nat /\ DOMAIN kept = 1 .. m /\ \A d \in 1 .. m : kept[d] \in DOMAIN f
  BY <1>2
<1>4. DOMAIN f = 1 .. Len(f) /\ Len(f) \in Nat /\ \A i \in DOMAIN f : f[i] \in SUBSET Places(As)
  BY <1>1
<1>5. \A V : V \in ToSet(f) <=> \E i \in DOMAIN f : f[i] = V
  BY DEF ToSet
<1>6. \A d \in 1 .. m : SetOf(all, kept, d) = f[kept[d]]
  BY DEF SetOf
<1>7. ASSUME NEW V
      PROVE  /\ Num(V) \in 1 .. m + 1
             /\ \A k \in 1 .. m : f[kept[k]] = V => Num(V) \in 1 .. m /\ f[kept[Num(V)]] = V
             /\ (\A k \in 1 .. m : f[kept[k]] # V) => Num(V) = m + 1
  <2>1. m \in Nat /\ DOMAIN kept = 1 .. m /\ Len(kept) = m
    BY <1>3
  <2> HIDE DEF m
  <2>2. NumberOf(all, kept, V) \in 1 .. m + 1
    BY ONLY <2>1, NumberFacts
  <2>3. ASSUME NEW k \in DOMAIN kept, all.found[kept[k]] = V
        PROVE  NumberOf(all, kept, V) \in DOMAIN kept /\ all.found[kept[NumberOf(all, kept, V)]] = V
    BY ONLY <2>1, <2>3, NumberFacts
  <2>4. (\A k \in DOMAIN kept : all.found[kept[k]] # V) => NumberOf(all, kept, V) = m + 1
    <3>1. (\A k \in DOMAIN kept : all.found[kept[k]] # V) => NumberOf(all, kept, V) = Len(kept) + 1
      BY DEF NumberOf
    <3> QED BY <2>1, <3>1
  <2> QED BY <2>1, <2>2, <2>3, <2>4
<1>8. ASSUME NEW i \in DOMAIN f, NEW c \in Chars
      PROVE  Target(As, op, f[i], c) \in ToSet(Row(As, op, f[i]))
  <2>1. c + 1 \in 1 .. MaxChar + 1 /\ c + 1 - 1 = c
    BY AutomatAssumption DEF Chars
  <2> DEFINE row == Row(As, op, f[i])
             a == c + 1
  <2>2. /\ row \in Seq(SUBSET Places(As)) /\ Len(row) = MaxChar + 1
        /\ \A b \in 1 .. MaxChar + 1 : row[b] = Target(As, op, f[i], b - 1)
    BY <1>1, <1>4, RowFacts
  <2>3. a \in 1 .. MaxChar + 1 /\ a - 1 = c
    BY AutomatAssumption DEF Chars
  <2> HIDE DEF row, a
  <2>4. row[a] = Target(As, op, f[i], a - 1) /\ a \in DOMAIN row
    BY <2>2, <2>3
  <2>5. row[a] = Target(As, op, f[i], c)
    BY ONLY <2>3, <2>4
  <2>6. Target(As, op, f[i], c) \in ToSet(row)
    BY <2>4, <2>5 DEF ToSet
  <2> QED BY <2>6 DEF row
<1>9. SetOf(all, kept, 1) = StartSet(As)
  BY <1>1, <1>2, <1>3, <1>6
<1>10. Num(StartSet(As)) = 1
  <2> DEFINE k == Num(StartSet(As))
  <2>1. 1 \in 1 .. m /\ f[kept[1]] = StartSet(As)
    BY <1>1, <1>2, <1>3
  <2>2. k \in 1 .. m /\ f[kept[k]] = StartSet(As)
    BY <1>7, <2>1
  <2> HIDE DEF k
  <2>3. kept[k] = 1
    <3>1. kept[k] \in DOMAIN f /\ 1 \in DOMAIN f /\ f[kept[k]] = f[1]
      BY <1>1, <1>3, <1>4, <2>2
    <3> QED BY <1>1, <3>1 DEF IsInjective
  <2>4. k = 1
    <3>1. 1 < k => kept[1] < kept[k]
      BY <1>2, <1>3, <2>1, <2>2
    <3>2. ~(1 < k)
      BY <1>2, <2>3, <3>1
    <3> QED BY <2>2, <3>2
  <2> QED BY <2>4 DEF k
<1> HIDE DEF Num, f, m
<1>11. ASSUME NEW V \in ToSet(f), NEW c \in Chars, Target(As, op, V, c) # {} PROVE Target(As, op, V, c) \in ToSet(f)
  <2>1. PICK i \in DOMAIN f : f[i] = V
    BY <1>5
  <2>2. Target(As, op, f[i], c) \in ToSet(f) \cup {{}}
    BY <1>1, <1>8
  <2> QED BY <1>11, <2>1, <2>2
<1>12. ASSUME NEW V \in ToSet(f)
       PROVE  /\ Num(V) # m + 1 => SetOf(all, kept, Num(V)) = V
              /\ Num(V) = m + 1 => IsEnd(As, op, V) /\ \A c \in Chars : Target(As, op, V, c) = {}
  <2>1. PICK i \in DOMAIN f : f[i] = V
    BY <1>5
  <2>2. CASE \E k \in 1 .. m : f[kept[k]] = V
    <3>1. Num(V) \in 1 .. m /\ f[kept[Num(V)]] = V
      BY <1>7, <2>2
    <3>2. Num(V) # m + 1
      BY <1>3, <3>1
    <3> QED BY <1>6, <3>1, <3>2
  <2>3. CASE ~\E k \in 1 .. m : f[kept[k]] = V
    <3>1. Num(V) = m + 1
      BY <1>7, <2>3
    <3>2. i \notin ToSet(kept)
      BY <1>3, <2>1, <2>3 DEF ToSet
    <3>3. ~IsKept(As, op, all, i)
      BY <1>2, <3>2
    <3>4. IsEnd(As, op, f[i]) /\ \A W \in ToSet(all.targets[i]) : W = {}
      BY <3>3 DEF IsKept, f
    <3>5. \A W \in ToSet(Row(As, op, f[i])) : W = {}
      BY <1>1, <3>4
    <3>6. \A c \in Chars : Target(As, op, f[i], c) = {}
      BY <1>8, <3>5
    <3> QED BY <2>1, <3>1, <3>4, <3>6
  <2> QED BY <2>2, <2>3
<1>13. ToSet(f) \subseteq SUBSET Places(As)
  BY <1>4, <1>5
<1>14. \A d \in 1 .. m : SetOf(all, kept, d) \in ToSet(f)
  BY <1>3, <1>5, <1>6
<1> QED BY <1>2, <1>3, <1>7, <1>9, <1>10, <1>11, <1>12, <1>13, <1>14 DEF m, f, Num

\* The transitions of a DFA.
LEMMA DFAMoves ==
    ASSUME NEW A, NEW As, NEW op, NEW all, NEW kept, IsDFAOf(A, As, op, all, kept)
    PROVE  /\ WellFormed(A) /\ Len(A) = Len(kept) + 1
           /\ \A d \in 1 .. Len(kept) :
                 /\ \A u : EmptyMove(A, d, u) <=> u = Len(A) /\ IsEnd(As, op, SetOf(all, kept, d))
                 /\ \A c \in Chars : \A u :
                       CharMove(A, c, d, u) <=>
                          /\ Target(As, op, SetOf(all, kept, d), c) # {}
                          /\ u = NumberOf(all, kept, Target(As, op, SetOf(all, kept, d), c))
           /\ \A u : EmptyMove(A, Len(A), u) <=> u = Len(A)
           /\ \A c, u : ~CharMove(A, c, Len(A), u)
<1> DEFINE m == Len(kept)
           N == Len(A)
<1>1. /\ Operands(As, op) /\ all.found \in Seq(SUBSET Places(As))
      /\ \A i \in DOMAIN all.found : all.targets[i] = Row(As, op, all.found[i])
      /\ WellFormed(A) /\ N = m + 1 /\ A[N] = EmptyState(<<N>>)
      /\ \A k \in DOMAIN kept : /\ IsEnd(As, op, all.found[kept[k]]) => A[k].empty = <<N>>
                                /\ ~IsEnd(As, op, all.found[kept[k]]) => A[k].empty = <<>>
                                /\ IsRanges(A[k].range, all, kept, all.targets[kept[k]])
      /\ kept \in Seq(DOMAIN all.found)
  BY DEF IsDFAOf, IsConverted, IsAll
<1>2. DOMAIN kept = 1 .. m /\ m \in Nat /\ \A d \in 1 .. m : kept[d] \in DOMAIN all.found
  BY <1>1
<1>3. /\ \A u : EmptyMove(A, N, u) <=> u = N
      /\ \A c, u : ~CharMove(A, c, N, u)
  <2>1. /\ \A u : EmptyMove(A, N, u) <=> u \in ToSet(<<N>>)
        /\ \A c, u : ~CharMove(A, c, N, u)
    BY <1>1, EmptyStateMoves
  <2> HIDE DEF N
  <2>2. ToSet(<<N>>) = {N}
    BY DEF ToSet
  <2> QED BY <2>1, <2>2
<1>4. ASSUME NEW d \in 1 .. m, NEW u PROVE EmptyMove(A, d, u) <=> u = N /\ IsEnd(As, op, SetOf(all, kept, d))
  <2>1. ToSet(<<N>>) = {N} /\ ToSet(<<>>) = {}
    <3> HIDE DEF N
    <3> QED BY DEF ToSet
  <2>2. /\ IsEnd(As, op, SetOf(all, kept, d)) => A[d].empty = <<N>>
        /\ ~IsEnd(As, op, SetOf(all, kept, d)) => A[d].empty = <<>>
    BY <1>1, <1>2 DEF SetOf
  <2> HIDE DEF N
  <2> QED BY <2>1, <2>2 DEF EmptyMove
<1>5. ASSUME NEW d \in 1 .. m, NEW c \in Chars, NEW u
      PROVE  CharMove(A, c, d, u) <=> /\ Target(As, op, SetOf(all, kept, d), c) # {}
                                      /\ u = NumberOf(all, kept, Target(As, op, SetOf(all, kept, d), c))
  <2> DEFINE V == SetOf(all, kept, d)
             R == A[d].range
             row == Row(As, op, V)
             a == c + 1
             T == Target(As, op, V, c)
  <2>1. kept[d] \in DOMAIN all.found /\ V = all.found[kept[d]] /\ V \in SUBSET Places(As)
    BY <1>1, <1>2 DEF SetOf
  <2>2. IsRanges(R, all, kept, row)
    BY <1>1, <1>2, <2>1
  <2>3. \A b \in 1 .. MaxChar + 1 : row[b] = Target(As, op, V, b - 1)
    BY <1>1, <2>1, RowFacts
  <2>4. a \in 1 .. MaxChar + 1 /\ a - 1 = c
    BY AutomatAssumption DEF Chars
  <2> HIDE DEF V, row, R
  <2>5. /\ R \in Seq(Transitions(m + 1))
        /\ \A k \in 1 .. Len(R) : InRange(c, R[k]) => row[c + 1] # {} /\ R[k].state = NumberOf(all, kept, row[c + 1])
        /\ row[c + 1] # {} => \E k \in 1 .. Len(R) : InRange(c, R[k])
    BY <2>2 DEF IsRanges
  <2> HIDE DEF a
  <2>6. row[a] = Target(As, op, V, a - 1)
    BY <2>3, <2>4
  <2>7. row[a] = T
    BY ONLY <2>4, <2>6
  <2>8. /\ \A k \in 1 .. Len(R) : InRange(c, R[k]) => T # {} /\ R[k].state = NumberOf(all, kept, T)
        /\ T # {} => \E k \in 1 .. Len(R) : InRange(c, R[k])
    <3> HIDE DEF T
    <3> QED BY <2>5, <2>7 DEF a
  <2> HIDE DEF T, m
  <2>9. CharMove(A, c, d, u) <=> \E k \in 1 .. Len(R) : R[k].state = u /\ InRange(c, R[k])
    <3>1. DOMAIN R = 1 .. Len(R)
      BY <2>5
    <3>2. CharMove(A, c, d, u) <=> \E r \in ToSet(R) : r.state = u /\ InRange(c, r)
      BY DEF CharMove, R
    <3> QED BY <3>1, <3>2 DEF ToSet
  <2>10. CharMove(A, c, d, u) <=> T # {} /\ u = NumberOf(all, kept, T)
    BY <2>8, <2>9
  <2> QED BY <2>10 DEF T, V
<1> QED BY <1>1, <1>3, <1>4, <1>5

\* An automaton of which no state is left does not come back.
LEMMA SimLeads ==
    ASSUME NEW As, NEW op, Operands(As, op), NEW w \in Seq(Chars), NEW k \in 1 .. Len(w),
           LeadsToEnd(op, SimSet(As, w, k))
    PROVE  LeadsToEnd(op, SimSet(As, w, k - 1))
<1>1. ASSUME NEW i, \A v \in SimSet(As, w, k - 1) : v[1] # i PROVE \A v \in SimSet(As, w, k) : v[1] # i
  <2> DEFINE M == {v \in Places(As) : v[1] # i}
             V == SimSet(As, w, k - 1)
             R == Read(As, V, w[k])
  <2>1. V \in SUBSET Places(As) /\ R \in SUBSET Places(As)
    BY SimMembers, TargetFacts
  <2>2. EmptyClosed(As, M)
    <3>1. \A x \in EmptyTargets(As, M) : x[1] # i
      BY DEF EmptyTargets
    <3>2. EmptyTargets(As, M) \in SUBSET Places(As)
      BY TargetFacts
    <3> QED BY <3>1, <3>2 DEF EmptyClosed
  <2>3. R \subseteq M
    <3>1. \A x \in R : x[1] # i
      BY <1>1 DEF Read
    <3> QED BY <2>1, <3>1
  <2>4. M \in SUBSET Places(As) /\ k # 0 /\ k \in 0 .. Len(w)
    OBVIOUS
  <2>5. Read(As, SimSet(As, w, k - 1), w[k]) \subseteq M
    BY <2>3
  <2> HIDE DEF M, V, R
  <2>6. SimSet(As, w, k) \subseteq M
    BY <2>2, <2>4, <2>5, SimLeast
  <2> QED BY <2>6 DEF M
<1> QED BY <1>1 DEF LeadsToEnd

\* From a set which leads to an end the DFA has a transition to the next one.
LEMMA SimTarget ==
    ASSUME NEW As, NEW op, Operands(As, op), NEW w \in Seq(Chars), NEW k \in 1 .. Len(w)
    PROVE  /\ LeadsToEnd(op, SimSet(As, w, k)) =>
                 Target(As, op, SimSet(As, w, k - 1), w[k]) = SimSet(As, w, k) /\ SimSet(As, w, k) # {}
           /\ Target(As, op, SimSet(As, w, k - 1), w[k]) # {} =>
                 Target(As, op, SimSet(As, w, k - 1), w[k]) = SimSet(As, w, k)
<1>1. Follow(As, Read(As, SimSet(As, w, k - 1), w[k])) = SimSet(As, w, k)
  BY SimSteps
<1>2. LeadsToEnd(op, SimSet(As, w, k)) => SimSet(As, w, k) # {}
  BY DEF LeadsToEnd
<1> QED BY <1>1, <1>2 DEF Target

\* If an end is reached, every set on the way leads to it.
LEMMA SimLeadsAll ==
    ASSUME NEW As, NEW op, Operands(As, op), NEW w \in Seq(Chars), IsEnd(As, op, SimSet(As, w, Len(w)))
    PROVE  \A k \in 0 .. Len(w) : LeadsToEnd(op, SimSet(As, w, k))
<1> DEFINE n == Len(w)
           M == {k \in 0 .. n : ~LeadsToEnd(op, SimSet(As, w, k))}
<1>1. n \in Nat /\ \A k \in 1 .. n : LeadsToEnd(op, SimSet(As, w, k)) => LeadsToEnd(op, SimSet(As, w, k - 1))
  BY SimLeads
<1>2. LeadsToEnd(op, SimSet(As, w, n))
  <2>1. \A j : <<j, Len(As[j])>>[1] = j
    OBVIOUS
  <2>2. \A V : IsEnd(As, op, V) => LeadsToEnd(op, V)
    BY <2>1 DEF IsEnd, HasEnd, LeadsToEnd
  <2> QED BY <2>2
<1> SUFFICES ASSUME M # {} PROVE FALSE
  OBVIOUS
<1> HIDE DEF n
<1>3. PICK x \in M : \A y \in M : y <= x
  BY <1>1, GreatestNumber
<1> DEFINE z == x + 1
<1>4. x \in 0 .. n /\ x # n /\ ~LeadsToEnd(op, SimSet(As, w, x))
  BY <1>2
<1>5. z \in 1 .. n /\ z \in 0 .. n /\ z - 1 = x /\ ~(z <= x)
  BY <1>1, <1>4
<1> HIDE DEF z
<1>6. z \notin M
  BY <1>3, <1>5
<1>7. LeadsToEnd(op, SimSet(As, w, z - 1))
  BY <1>1, <1>5, <1>6
<1> QED BY <1>4, <1>5, <1>7

\* On the way to an end the DFA is in the state of the set it has reached.
LEMMA DFAFollows ==
    ASSUME NEW A, NEW As, NEW op, NEW all, NEW kept, IsDFAOf(A, As, op, all, kept), NEW w \in Seq(Chars),
           IsEnd(As, op, SimSet(As, w, Len(w)))
    PROVE  \A k \in 0 .. Len(w) :
              /\ SimSet(As, w, k) \in ToSet(all.found)
              /\ Reaches(A, w, 1, 0, NumberOf(all, kept, SimSet(As, w, k)), k)
<1> DEFINE n == Len(w)
           m == Len(kept)
           S(k) == SimSet(As, w, k)
           Num(V) == NumberOf(all, kept, V)
           F == ToSet(all.found)
           M == {k \in 0 .. n : ~(S(k) \in F /\ Reaches(A, w, 1, 0, Num(S(k)), k))}
<1>1. n \in Nat /\ Operands(As, op) /\ \A k \in 1 .. n : w[k] \in Chars
  BY DEF IsDFAOf
<1>2. \A k \in 1 .. n : Target(As, op, S(k - 1), w[k]) = S(k) /\ S(k) # {}
  <2>1. \A k \in 0 .. n : LeadsToEnd(op, S(k))
    BY <1>1, SimLeadsAll
  <2> QED BY <1>1, <2>1, SimTarget
<1>3. S(0) \in F /\ Num(S(0)) = 1
  <2>1. S(0) = StartSet(As)
    BY <1>1, SimSteps
  <2>2. Len(kept) >= 1 /\ Len(kept) \in Nat /\ SetOf(all, kept, 1) = StartSet(As) /\ Num(StartSet(As)) = 1
        /\ \A d \in 1 .. Len(kept) : SetOf(all, kept, d) \in F
    BY DFASets
  <2>3. 1 \in 1 .. Len(kept)
    BY <2>2
  <2> HIDE DEF S, Num, F
  <2> QED BY <2>1, <2>2, <2>3
<1>4. ASSUME NEW k \in 1 .. n, S(k - 1) \in F, Reaches(A, w, 1, 0, Num(S(k - 1)), k - 1)
      PROVE  S(k) \in F /\ Reaches(A, w, 1, 0, Num(S(k)), k)
  <2> DEFINE V == S(k - 1)
             W == S(k)
             d == Num(V)
             e == Num(W)
             c == w[k]
  <2>1. Target(As, op, V, c) = W /\ W # {} /\ c \in Chars /\ V \in F /\ k - 1 \in Nat
    BY <1>1, <1>2, <1>4
  <2>2. /\ \A X \in F : \A b \in Chars : Target(As, op, X, b) # {} => Target(As, op, X, b) \in F
        /\ \A X \in F : /\ Num(X) \in 1 .. m + 1
                        /\ Num(X) # m + 1 => SetOf(all, kept, Num(X)) = X
                        /\ Num(X) = m + 1 => IsEnd(As, op, X) /\ \A b \in Chars : Target(As, op, X, b) = {}
        /\ m \in Nat /\ m >= 1
    BY DFASets
  <2>3. /\ WellFormed(A) /\ Len(A) = m + 1
        /\ \A b \in 1 .. m : \A a \in Chars : \A u :
              CharMove(A, a, b, u) <=> /\ Target(As, op, SetOf(all, kept, b), a) # {}
                                       /\ u = Num(Target(As, op, SetOf(all, kept, b), a))
    BY DFAMoves
  <2>a. Reaches(A, w, 1, 0, d, k - 1)
    BY <1>4
  <2> HIDE DEF V, W, m, F, c
  <2>4. W \in F
    BY <2>1, <2>2
  <2>5. d \in 1 .. m + 1 /\ d # m + 1 /\ SetOf(all, kept, d) = V
    BY <2>1, <2>2
  <2>6. d \in 1 .. m
    BY <2>2, <2>5
  <2>b. e \in 1 .. m + 1 /\ e = Num(W)
    BY <2>2, <2>4
  <2> HIDE DEF d, e, Num
  <2>7. CharMove(A, c, d, e)
    BY <2>1, <2>3, <2>5, <2>6, <2>b
  <2>8. d \in DOMAIN A /\ e \in DOMAIN A
    <3>1. DOMAIN A = 1 .. m + 1
      BY <2>3, MoveFacts
    <3> QED BY <2>2, <2>6, <2>b, <3>1
  <2>9. Reaches(A, w, d, k - 1, e, k)
    BY <2>7, <2>8, ReachesSteps DEF c
  <2>10. Reaches(A, w, 1, 0, e, k)
    BY ONLY <2>a, <2>9, ReachesOn
  <2> QED BY <2>4, <2>10 DEF W, e
<1>5. Reaches(A, w, 1, 0, 1, 0)
  BY ReachesSteps
<1> SUFFICES ASSUME M # {} PROVE FALSE
  OBVIOUS
<1> HIDE DEF S, Num, F, n
<1>6. PICK x \in M : \A y \in M : x <= y
  <2>1. M \in SUBSET Nat
    BY <1>1
  <2> HIDE DEF M
  <2> QED BY <2>1, LeastNumber
<1>7. x \in 0 .. n /\ ~(S(x) \in F /\ Reaches(A, w, 1, 0, Num(S(x)), x))
  OBVIOUS
<1>8. x # 0
  BY <1>3, <1>5, <1>7
<1>9. x \in 1 .. n /\ x - 1 \in 0 .. n /\ ~(x <= x - 1)
  BY <1>1, <1>7, <1>8
<1>10. x - 1 \notin M
  BY <1>6, <1>9
<1>11. S(x - 1) \in F /\ Reaches(A, w, 1, 0, Num(S(x - 1)), x - 1)
  BY <1>9, <1>10
<1> QED BY <1>4, <1>7, <1>9, <1>11

\* A DFA accepts a word if its operands are at an end after it.
LEMMA DFAAccepts ==
    ASSUME NEW A, NEW As, NEW op, NEW all, NEW kept, IsDFAOf(A, As, op, all, kept), NEW w \in Seq(Chars)
    PROVE  Accepts(A, w, 0, Len(w)) <=> IsEnd(As, op, SimSet(As, w, Len(w)))
<1> DEFINE n == Len(w)
           m == Len(kept)
           S == [k \in 0 .. n |-> SimSet(As, w, k)]
           Num(V) == NumberOf(all, kept, V)
           F == ToSet(all.found)
           N == m + 1
           X == [d \in 1 .. N |-> {j \in 0 .. n : /\ d <= m => SetOf(all, kept, d) = S[j]
                                                  /\ d = N => IsEnd(As, op, S[j])}]
<1>1. /\ n \in Nat /\ Operands(As, op) /\ \A k \in 1 .. n : w[k] \in Chars
      /\ \A k \in 0 .. n : S[k] = SimSet(As, w, k)
  BY DEF IsDFAOf
<1>2. \A k \in 1 .. n : Target(As, op, S[k - 1], w[k]) # {} => Target(As, op, S[k - 1], w[k]) = S[k]
  <2> SUFFICES ASSUME NEW k \in 1 .. n
               PROVE  Target(As, op, S[k - 1], w[k]) # {} => Target(As, op, S[k - 1], w[k]) = S[k]
    OBVIOUS
  <2>1. S[k - 1] = SimSet(As, w, k - 1) /\ S[k] = SimSet(As, w, k)
    BY <1>1
  <2>2. Target(As, op, SimSet(As, w, k - 1), w[k]) # {} => Target(As, op, SimSet(As, w, k - 1), w[k]) = SimSet(As, w, k)
    BY <1>1, SimTarget
  <2> HIDE DEF S
  <2> QED BY <2>1, <2>2
<1>3. /\ m \in Nat /\ m >= 1
      /\ \A d \in 1 .. m : SetOf(all, kept, d) \in F
      /\ SetOf(all, kept, 1) = StartSet(As)
      /\ \A V \in F : \A c \in Chars : Target(As, op, V, c) # {} => Target(As, op, V, c) \in F
      /\ \A V \in F : /\ Num(V) \in 1 .. N
                      /\ Num(V) # N => SetOf(all, kept, Num(V)) = V
                      /\ Num(V) = N => IsEnd(As, op, V)
  BY DFASets
<1>4. /\ WellFormed(A) /\ Len(A) = N
      /\ \A d \in 1 .. m :
            /\ \A u : EmptyMove(A, d, u) <=> u = Len(A) /\ IsEnd(As, op, SetOf(all, kept, d))
            /\ \A c \in Chars : \A u :
                  CharMove(A, c, d, u) <=> /\ Target(As, op, SetOf(all, kept, d), c) # {}
                                           /\ u = Num(Target(As, op, SetOf(all, kept, d), c))
      /\ \A u : EmptyMove(A, Len(A), u) <=> u = Len(A)
      /\ \A c, u : ~CharMove(A, c, Len(A), u)
  BY DFAMoves
<1>5. DOMAIN A = 1 .. N
  BY <1>4, MoveFacts
<1>6. S[0] = StartSet(As)
  BY <1>1, SimSteps
<1> HIDE DEF S, Num, F, m
<1>7. ASSUME Accepts(A, w, 0, n) PROVE IsEnd(As, op, S[n])
  <2>0. N \in Nat /\ N = m + 1 /\ \A d \in 1 .. N : d <= m <=> d # N
    BY <1>3
  <2>1. \A d \in 1 .. N : \A j : j \in X[d] <=>
           j \in 0 .. n /\ (d <= m => SetOf(all, kept, d) = S[j]) /\ (d = N => IsEnd(As, op, S[j]))
    OBVIOUS
  <2>2. X \in [1 .. N -> SUBSET (0 .. n)]
    OBVIOUS
  <2> HIDE DEF X, N
  <2>3. \A d, u \in 1 .. N : EmptyMove(A, d, u) => X[d] \subseteq X[u]
    <3> SUFFICES ASSUME NEW d \in 1 .. N, NEW u \in 1 .. N, EmptyMove(A, d, u), NEW j \in X[d] PROVE j \in X[u]
      OBVIOUS
    <3>1. CASE d = N
      <4>1. u = N
        BY <1>4, <3>1
      <4> QED BY <3>1, <4>1
    <3>2. CASE d # N
      <4>1. d \in 1 .. m
        BY <1>3, <2>0, <3>2
      <4>2. u = N /\ IsEnd(As, op, SetOf(all, kept, d))
        BY <1>4, <4>1
      <4>3. j \in 0 .. n /\ SetOf(all, kept, d) = S[j]
        BY <2>0, <2>1, <3>2
      <4> QED BY <2>0, <2>1, <4>2, <4>3
    <3> QED BY <3>1, <3>2
  <2>4. ASSUME NEW k \in 1 .. n, NEW d \in 1 .. N, NEW u \in 1 .. N, k - 1 \in X[d], CharMove(A, w[k], d, u)
        PROVE  k \in X[u]
    <3> DEFINE p == k - 1
    <3>1. d # N
      BY <1>4, <2>4
    <3>2. d \in 1 .. m
      BY <1>3, <2>0, <3>1
    <3>3. p \in X[d] /\ w[k] \in Chars /\ k \in 0 .. n
      BY <1>1, <2>4
    <3>a. Target(As, op, S[p], w[k]) # {} => Target(As, op, S[p], w[k]) = S[k]
      BY <1>2
    <3> HIDE DEF p
    <3>4. SetOf(all, kept, d) = S[p] /\ S[p] \in F
      BY <1>3, <2>0, <2>1, <3>1, <3>2, <3>3
    <3>5. Target(As, op, S[p], w[k]) # {} /\ u = Num(Target(As, op, S[p], w[k]))
      BY <1>4, <2>4, <3>2, <3>3, <3>4
    <3>6. u = Num(S[k]) /\ S[k] \in F
      BY <1>3, <3>3, <3>4, <3>5, <3>a
    <3>7. (u # N => SetOf(all, kept, u) = S[k]) /\ (u = N => IsEnd(As, op, S[k]))
      BY <1>3, <3>6
    <3> QED BY <2>0, <2>1, <3>3, <3>7
  <2>5. Closed(A, w, X)
    BY <1>5, <2>2, <2>3, <2>4 DEF Closed, n
  <2>6. 0 \in X[1]
    <3>1. 0 \in 0 .. n /\ 1 \in 1 .. N /\ 1 # N /\ SetOf(all, kept, 1) = S[0]
      BY <1>1, <1>3, <1>6, <2>0
    <3> QED BY <2>1, <3>1
  <2>7. n \in X[N]
    BY <1>4, <1>7, <2>5, <2>6 DEF Accepts, Reaches
  <2>8. N \in 1 .. N
    BY <1>3, <2>0
  <2> QED BY <2>1, <2>7, <2>8
<1>8. ASSUME IsEnd(As, op, S[n]) PROVE Accepts(A, w, 0, n)
  <2> DEFINE V == S[n]
             d == Num(V)
  <2>0. n \in 0 .. n
    BY <1>1
  <2>1. V \in F /\ Reaches(A, w, 1, 0, d, n)
    <3>1. IsEnd(As, op, SimSet(As, w, n)) /\ V = SimSet(As, w, n)
      BY <1>1, <1>8, <2>0
    <3>2. SimSet(As, w, n) \in ToSet(all.found) /\ Reaches(A, w, 1, 0, NumberOf(all, kept, SimSet(As, w, n)), n)
      BY <2>0, <3>1, DFAFollows
    <3> HIDE DEF V
    <3> QED BY <3>1, <3>2 DEF Num, F
  <2>2. IsEnd(As, op, V)
    BY <1>8
  <2> HIDE DEF V, n
  <2>3. d \in 1 .. N /\ (d # N => SetOf(all, kept, d) = V)
    BY <1>3, <2>1
  <2> HIDE DEF d
  <2>4. EmptyMove(A, d, N)
    <3>1. CASE d = N
      BY <1>4, <3>1
    <3>2. CASE d # N
      <4>1. d \in 1 .. m
        BY <1>3, <2>3, <3>2
      <4> QED BY <1>4, <2>2, <2>3, <3>2, <4>1
    <3> QED BY <3>1, <3>2
  <2>5. N \in 1 .. N
    BY <1>3
  <2>6. d \in DOMAIN A /\ N \in DOMAIN A
    BY <1>5, <2>3, <2>5
  <2>7. Reaches(A, w, d, n, N, n)
    BY <2>4, <2>6, ReachesSteps
  <2>8. Reaches(A, w, 1, 0, N, n)
    BY ONLY <2>1, <2>7, ReachesOn
  <2> QED BY <1>4, <2>8 DEF Accepts
<1>9. S[n] = SimSet(As, w, n)
  BY <1>1
<1> QED BY <1>7, <1>8, <1>9

\* makedfa_automat and makedfa2_automat: the words of the first operand, if "and"
\* or "and not" is asked for restricted by those of the second.
LEMMA MakeDFALanguage ==
    ASSUME NEW Bs, NEW op, GoodOperands(Bs, op), NEW w \in Words(MaxWord)
    PROVE  w \in Language(MakeDFA(Bs, op)) <=>
              /\ w \in Language(Bs[1])
              /\ op = "OP_AND" => w \in Language(Bs[2])
              /\ op = "OP_AND_NOT" => w \notin Language(Bs[2])
<1> DEFINE As == Shortened(Bs)
           A == MakeDFA(Bs, op)
           V == SimSet(As, w, Len(w))
<1>1. IsDFAOf(A, As, op, Explored(Bs, op), KeptOf(Bs, op)) /\ Operands(As, op)
  BY MakeDFAFacts DEF IsDFAOf
<1>2. w \in Seq(Chars)
  BY AutomatAssumption, WordsFacts
<1>3. /\ DOMAIN As = DOMAIN Bs /\ DOMAIN Bs = 1 .. Len(Bs) /\ Len(Bs) \in {1, 2} /\ op \in Operations
      /\ op # "DFA" => Len(Bs) = 2
      /\ \A k \in DOMAIN Bs : As[k] = RemoveSingle(Bs[k]) /\ GoodAutomaton(Bs[k])
  BY ShortenedOperands DEF GoodOperands
<1> HIDE DEF As, A
<1>4. w \in Language(A) <=> IsEnd(As, op, V)
  BY <1>1, <1>2, DFAAccepts DEF Language
<1>5. ASSUME NEW k \in DOMAIN Bs PROVE HasEnd(As, V, k) <=> w \in Language(Bs[k])
  <2>1. Len(As[k]) \in DOMAIN As[k]
    BY <1>1, <1>3, MoveFacts DEF Operands
  <2>2. <<k, Len(As[k])>> \in V <=> Reaches(As[k], w, 1, 0, Len(As[k]), Len(w))
    BY <1>1, <1>3, <2>1, SimMembers
  <2>3. Language(As[k]) = Language(Bs[k])
    BY <1>3, ShortenedLanguage
  <2>4. w \in Language(As[k]) <=> Accepts(As[k], w, 0, Len(w))
    BY DEF Language
  <2> QED BY <2>2, <2>3, <2>4 DEF HasEnd, Accepts
<1> HIDE DEF V
<1>6. 1 \in DOMAIN Bs /\ (op # "DFA" => 2 \in DOMAIN Bs)
  BY <1>3
<1>7. op = "OP_AND" => op # "DFA"
  OBVIOUS
<1>8. op = "OP_AND_NOT" => op # "DFA"
  OBVIOUS
<1> QED BY <1>4, <1>5, <1>6, <1>7, <1>8 DEF IsEnd, A

-----------------------------------------------------------------------------
(* Minimized and complemented automata *)

\* The words of one character.
Letters == {<<c>> : c \in Chars}

\* Every word is made of letters.
LEMMA AllWords == Plus(Letters, {<<>>} \cup Letters) = Words(MaxWord)
<1> DEFINE W == Words(MaxWord)
           X == Plus(Letters, {<<>>} \cup Letters)
<1>1. MaxWord \in Nat /\ MaxWord >= 1 /\ \A w : w \in W <=> w \in Seq(Chars) /\ Len(w) <= MaxWord
  <2>1. MaxWord \in Nat /\ MaxWord >= 1
    BY AutomatAssumption
  <2> QED BY <2>1, WordsFacts
<1>2. Letters \in SUBSET W
  <2> SUFFICES ASSUME NEW c \in Chars PROVE <<c>> \in W
    BY DEF Letters
  <2>1. <<c>> \in Seq(Chars) /\ Len(<<c>>) = 1
    OBVIOUS
  <2> QED BY <1>1, <2>1
<1>3. {<<>>} \cup Letters \in SUBSET W
  BY <1>2, EmptyWord
<1>4. X \in SUBSET W /\ {<<>>} \cup Letters \subseteq X /\ Concat(X, Letters) \subseteq X
  BY <1>2, <1>3, PlusFacts
<1> DEFINE M == {Len(w) : w \in W \ X}
<1> HIDE DEF X
<1> SUFFICES ASSUME W \ X # {} PROVE FALSE
  BY <1>4 DEF X
<1>5. PICK m \in M : \A k \in M : m <= k
  <2>1. M \in SUBSET Nat /\ M # {}
    BY <1>1
  <2> HIDE DEF M
  <2> QED BY <2>1, LeastNumber
<1>6. PICK w \in W \ X : m = Len(w)
  OBVIOUS
<1>7. w \in Seq(Chars) /\ m \in Nat /\ Len(w) = m /\ m <= MaxWord
  BY <1>1, <1>6
<1>8. m >= 1
  <2>1. w # <<>>
    BY <1>4, <1>6
  <2> QED BY <1>7, <2>1
<1> DEFINE j == m - 1
<1>9. j \in 0 .. Len(w) /\ j \in Nat /\ j + 1 = m /\ Len(w) - j = 1 /\ ~(m <= j) /\ j - 0 = j /\ j <= MaxWord
      /\ j \in 0 .. Len(w) /\ Len(w) \in j .. Len(w) /\ j \in 0 .. Len(w) /\ 0 \in 0 .. Len(w)
  BY <1>1, <1>7, <1>8
<1> HIDE DEF j
<1>10. SubSeq(w, 1, j) \in X
  <2>1. SubSeq(w, 0 + 1, j) \in Seq(Chars) /\ Len(SubSeq(w, 0 + 1, j)) = j - 0
    BY <1>7, <1>9, SegmentFacts
  <2>2. 0 + 1 = 1
    OBVIOUS
  <2> DEFINE u == SubSeq(w, 1, j)
  <2>3. u \in Seq(Chars) /\ Len(u) = j
    BY <1>9, <2>1, <2>2
  <2> HIDE DEF u
  <2>4. u \in W
    BY <1>1, <1>9, <2>3
  <2>5. u \in X
    <3>1. ~(u \in W \ X)
      BY <1>5, <1>9, <2>3
    <3> QED BY <2>4, <3>1
  <2> QED BY <2>5 DEF u
<1>11. SubSeq(w, j + 1, Len(w)) \in Letters
  <2> DEFINE v == SubSeq(w, j + 1, Len(w))
  <2>1. v \in Seq(Chars) /\ Len(v) = Len(w) - j
    BY <1>7, <1>9, SegmentFacts
  <2> HIDE DEF v
  <2>2. v \in Seq(Chars) /\ Len(v) = 1
    BY <1>9, <2>1
  <2>3. v = <<v[1]>> /\ v[1] \in Chars
    BY <2>2
  <2>4. v \in Letters
    BY <2>3 DEF Letters
  <2> QED BY <2>4 DEF v
<1>12. w \in Concat(X, Letters)
  BY <1>2, <1>4, <1>6, <1>9, <1>10, <1>11, ConcatWords
<1> QED BY <1>4, <1>6, <1>12

\* opnot_automat starts with an automaton for every word.
LEMMA AnyLanguage == Language(OpRepeat(AnyChars, FALSE)) = Words(MaxWord)
<1> DEFINE r == <<<<0, MaxChar>>>>
<1>1. r \in Seq(Chars \X Chars) /\ GoodAutomaton(AnyChars)
  BY AnyCharsGood
<1>2. WordsOf(r) = Letters
  <2>1. MaxChar \in Nat
    BY AutomatAssumption
  <2>2. DOMAIN r = {1} /\ r[1][1] = 0 /\ r[1][2] = MaxChar
    OBVIOUS
  <2>3. \A c \in Chars : 0 <= c /\ c <= MaxChar
    BY <2>1 DEF Chars
  <2> HIDE DEF r
  <2> QED BY <2>2, <2>3 DEF WordsOf, Letters
<1>3. IsMatch(AnyChars, Letters)
  BY <1>1, <1>2, MatchStates DEF AnyChars
<1>4. Letters \in SUBSET {<<c>> : c \in Chars}
  BY DEF Letters
<1>5. Language(AnyChars) = Letters
  BY <1>3, <1>4, MatchLanguage
<1>6. WellFormed(AnyChars)
  BY <1>1 DEF GoodAutomaton
<1>7. Language(OpRepeat(AnyChars, FALSE)) = Plus(Language(AnyChars), {<<>>} \cup Language(AnyChars))
  BY <1>6, RepeatLanguage
<1> QED BY <1>5, <1>7, AllWords

\* makedfa_automat changes the automaton, not what it accepts.
LEMMA DFALanguage ==
    ASSUME NEW A, GoodAutomaton(A)
    PROVE  Language(MakeDFA(<<A>>, "DFA")) = Language(A)
<1>1. GoodOperands(<<A>>, "DFA") /\ <<A>>[1] = A
  BY OneOperand
<1>2. \A w \in Words(MaxWord) : w \in Language(MakeDFA(<<A>>, "DFA")) <=> w \in Language(<<A>>[1])
  BY <1>1, MakeDFALanguage
<1>3. Language(<<A>>[1]) = Language(A)
  BY ONLY <1>1
<1>4. Language(MakeDFA(<<A>>, "DFA")) \subseteq Words(MaxWord) /\ Language(A) \subseteq Words(MaxWord)
  BY DEF Language
<1> QED BY <1>2, <1>3, <1>4

\* minimize_automat as well: it reverses the automaton twice.
LEMMA MinimizeLanguage ==
    ASSUME NEW A, GoodAutomaton(A)
    PROVE  Language(Minimize(A)) = Language(A)
<1> DEFINE B == MakeDFA(<<OpReverse(A)>>, "DFA")
           C == OpReverse(B)
           P == Language(A)
<1>1. GoodAutomaton(OpReverse(A)) /\ GoodAutomaton(B) /\ GoodAutomaton(C)
  <2>1. GoodAutomaton(OpReverse(A))
    BY ResultsAreGood
  <2>2. GoodAutomaton(B)
    BY <2>1, ResultsAreGood DEF GoodResult
  <2> HIDE DEF B
  <2>3. GoodAutomaton(OpReverse(B))
    BY <2>2, ResultsAreGood
  <2> QED BY <2>1, <2>2, <2>3
<1>2. Language(OpReverse(A)) = {Reverse(w) : w \in P}
  BY ReverseLanguage DEF GoodAutomaton
<1>3. Language(B) = {Reverse(w) : w \in P}
  BY <1>1, <1>2, DFALanguage
<1>4. Language(C) = {Reverse(w) : w \in Language(B)}
  BY <1>1, ReverseLanguage DEF GoodAutomaton
<1>5. Minimize(A) = MakeDFA(<<C>>, "DFA")
  BY DEF Minimize
<1>6. Language(MakeDFA(<<C>>, "DFA")) = Language(C)
  BY <1>1, DFALanguage
<1> HIDE DEF C, B, P
<1>7. \A w \in P : Reverse(Reverse(w)) = w
  <2>1. \A w \in P : w \in Seq(Chars)
    BY AutomatAssumption, WordsFacts DEF Language, P
  <2> QED BY <2>1, ReverseFacts
<1>8. {Reverse(w) : w \in {Reverse(w) : w \in P}} = P
  BY <1>7
<1>9. Language(C) = P
  BY <1>3, <1>4, <1>8
<1> QED BY <1>5, <1>6, <1>9 DEF P

\* opand_automat and opandnot_automat: what both operands accept, and what only the first does.
LEMMA AndLanguage ==
    ASSUME NEW A, GoodAutomaton(A), NEW B, GoodAutomaton(B)
    PROVE  /\ Language(MakeDFA(<<A, B>>, "OP_AND")) = Language(A) \cap Language(B)
           /\ Language(MakeDFA(<<A, B>>, "OP_AND_NOT")) = Language(A) \ Language(B)
<1>1. <<A, B>>[1] = A /\ <<A, B>>[2] = B
  OBVIOUS
<1>2. GoodOperands(<<A, B>>, "OP_AND") /\ GoodOperands(<<A, B>>, "OP_AND_NOT")
  BY TwoOperands
<1>3. Language(<<A, B>>[1]) = Language(A) /\ Language(<<A, B>>[2]) = Language(B)
  BY ONLY <1>1
<1>4. /\ \A w \in Words(MaxWord) : w \in Language(MakeDFA(<<A, B>>, "OP_AND")) <=>
            w \in Language(<<A, B>>[1]) /\ w \in Language(<<A, B>>[2])
      /\ \A w \in Words(MaxWord) : w \in Language(MakeDFA(<<A, B>>, "OP_AND_NOT")) <=>
            w \in Language(<<A, B>>[1]) /\ w \notin Language(<<A, B>>[2])
  BY <1>2, MakeDFALanguage
<1>5. \A D : Language(D) \subseteq Words(MaxWord)
  BY DEF Language
<1> QED BY <1>3, <1>4, <1>5

\* opnot_automat: all other words.
LEMMA NotLanguage ==
    ASSUME NEW A, GoodAutomaton(A)
    PROVE  Language(OpNot(A)) = Words(MaxWord) \ Language(A)
<1>1. OpNot(A) = MakeDFA(<<OpRepeat(AnyChars, FALSE), A>>, "OP_AND_NOT")
  BY DEF OpNot, AnyChars
<1>2. GoodAutomaton(OpRepeat(AnyChars, FALSE))
  BY AnyCharsGood
<1>3. Language(MakeDFA(<<OpRepeat(AnyChars, FALSE), A>>, "OP_AND_NOT")) = Language(OpRepeat(AnyChars, FALSE)) \ Language(A)
  BY <1>2, AndLanguage
<1> QED BY <1>1, <1>3, AnyLanguage

-----------------------------------------------------------------------------
(* The binary search of matchchar32_dfa_automat *)

\* What it relies on.
SortedRanges(R) ==
    /\ \A k \in 1 .. Len(R) - 1 : R[k].to < R[k + 1].from
    /\ \A k \in 1 .. Len(R) : R[k].from <= R[k].to

\* All ranges before another end before it.
LEMMA SortedFacts ==
    ASSUME NEW N, NEW R \in Seq(Transitions(N)), SortedRanges(R)
    PROVE  /\ \A k \in 1 .. Len(R) : R[k].from \in Int /\ R[k].to \in Int /\ R[k].from <= R[k].to
           /\ \A i, j \in 1 .. Len(R) : i < j => R[i].to < R[j].from
<1> DEFINE n == Len(R)
<1>1. n \in Nat /\ \A k \in 1 .. n : R[k] \in Transitions(N)
  OBVIOUS
<1>2. Chars \subseteq Int
  BY DEF Chars
<1>3. \A k \in 1 .. n : R[k].from \in Int /\ R[k].to \in Int /\ R[k].from <= R[k].to
  <2>1. \A k \in 1 .. n : R[k].from \in Chars /\ R[k].to \in Chars
    BY <1>1 DEF Transitions
  <2> QED BY <1>2, <2>1 DEF SortedRanges
<1>4. \A k \in 1 .. n - 1 : R[k].to < R[k + 1].from
  BY DEF SortedRanges
<1> HIDE DEF n
<1>5. ASSUME NEW i \in 1 .. n PROVE \A j \in 1 .. n : i < j => R[i].to < R[j].from
  <2> DEFINE M == {j \in 1 .. n : i < j /\ ~(R[i].to < R[j].from)}
  <2> SUFFICES ASSUME M # {} PROVE FALSE
    OBVIOUS
  <2>1. PICK j \in M : \A y \in M : j <= y
    <3>1. M \in SUBSET Nat
      BY <1>1
    <3> HIDE DEF M
    <3> QED BY <3>1, LeastNumber
  <2> DEFINE p == j - 1
  <2>2. j \in 1 .. n /\ i < j /\ ~(R[i].to < R[j].from)
    OBVIOUS
  <2>3. p \in 1 .. n - 1 /\ p \in 1 .. n /\ p + 1 = j /\ ~(j <= p) /\ (i = p \/ i < p)
    BY <1>1, <2>2
  <2> HIDE DEF p
  <2>4. p \notin M
    BY <2>1, <2>3
  <2> HIDE DEF M
  <2>5. R[p].to < R[j].from
    BY <1>4, <2>3
  <2>6. CASE i = p
    BY <2>2, <2>5, <2>6
  <2>7. CASE i < p
    <3>1. R[i].to < R[p].from
      BY <2>3, <2>4, <2>7 DEF M
    <3>2. /\ R[i].to \in Int /\ R[p].from \in Int /\ R[p].to \in Int /\ R[j].from \in Int
          /\ R[p].from <= R[p].to
      BY <1>3, <2>2, <2>3
    <3> QED BY <2>2, <2>5, <3>1, <3>2
  <2> QED BY <2>3, <2>6, <2>7
<1> QED BY <1>3, <1>5 DEF n

\* The search narrows the places between low and high.
Bounds(R) == (0 .. Len(R)) \X (0 .. Len(R))
NarrowStep(R, c) == [p \in Bounds(R) |-> Narrow(R, c, p[1], p[2])]
\* Whether every range of c lies between them.
Between(R, c) == {p \in Bounds(R) : \A k \in 1 .. Len(R) : InRange(c, R[k]) => p[1] < k /\ k <= p[2]}
Width(R) == [p \in Bounds(R) |-> IF p[1] < p[2] THEN p[2] - p[1] ELSE 0]

\* What a step of the search does.
LEMMA NarrowFacts ==
    ASSUME NEW N, NEW R \in Seq(Transitions(N)), SortedRanges(R), NEW c \in Chars,
           NEW low \in 0 .. Len(R), NEW high \in 0 .. Len(R)
    PROVE  LET mid == (high + low) \div 2
           IN  \/ low >= high /\ Narrow(R, c, low, high) = <<low, high>>
               \/ /\ low < high /\ mid + 1 \in 1 .. Len(R) /\ InRange(c, R[mid + 1])
                  /\ Narrow(R, c, low, high) = <<low, high>>
               \/ /\ low < high /\ mid \in low .. high - 1 /\ Narrow(R, c, low, high) = <<low, mid>>
                  /\ \A k \in mid + 1 .. Len(R) : ~InRange(c, R[k])
               \/ /\ low < high /\ mid \in low .. high - 1 /\ Narrow(R, c, low, high) = <<mid + 1, high>>
                  /\ \A k \in 1 .. mid + 1 : ~InRange(c, R[k])
<1> DEFINE mid == (high + low) \div 2
           n == Len(R)
           q == mid + 1
<1>1. n \in Nat /\ low \in Nat /\ high \in Nat /\ low <= n /\ high <= n /\ c \in Int
  BY DEF Chars
<1>2. low < high => mid \in low .. high - 1
  BY <1>1
<1>3. /\ \A k \in 1 .. n : R[k].from \in Int /\ R[k].to \in Int /\ R[k].from <= R[k].to
      /\ \A i, j \in 1 .. n : i < j => R[i].to < R[j].from
  BY SortedFacts
<1>4. Narrow(R, c, low, high) =
         IF low >= high THEN <<low, high>>
         ELSE IF c < R[mid + 1].from THEN <<low, mid>>
         ELSE IF c > R[mid + 1].to THEN <<mid + 1, high>>
         ELSE <<low, high>>
  BY DEF Narrow
<1> HIDE DEF mid, n
<1>5. CASE low >= high
  BY <1>1, <1>4, <1>5 DEF mid
<1>6. CASE low < high
  <2>1. mid \in low .. high - 1 /\ mid \in Nat /\ ~(low >= high)
    BY <1>1, <1>2, <1>6
  <2>2. q \in 1 .. n
    BY <1>1, <2>1
  <2>3. R[q].from \in Int /\ R[q].to \in Int /\ R[q].from <= R[q].to
    BY <1>3, <2>2
  <2>4. CASE c < R[q].from
    <3>1. Narrow(R, c, low, high) = <<low, mid>>
      BY <1>4, <2>1, <2>4
    <3>2. ASSUME NEW k \in mid + 1 .. n PROVE ~InRange(c, R[k])
      <4>1. k \in 1 .. n /\ (k = q \/ q < k)
        BY <1>1, <2>1
      <4>2. R[q].from <= R[k].from
        <5>1. CASE k = q
          BY <2>3, <5>1
        <5>2. CASE q < k
          <6>1. R[q].to < R[k].from /\ R[k].from \in Int
            BY <1>3, <2>2, <4>1, <5>2
          <6> QED BY <2>3, <6>1
        <5> QED BY <4>1, <5>1, <5>2
      <4>3. R[k].from \in Int
        BY <1>3, <4>1
      <4>4. ~(R[k].from <= c)
        BY <1>1, <2>3, <2>4, <4>2, <4>3
      <4> QED BY <4>4 DEF InRange
    <3> QED BY <1>6, <2>1, <3>1, <3>2 DEF mid, n
  <2>5. CASE ~(c < R[q].from) /\ c > R[q].to
    <3>1. Narrow(R, c, low, high) = <<mid + 1, high>>
      BY <1>4, <2>1, <2>5
    <3>2. ASSUME NEW k \in 1 .. mid + 1 PROVE ~InRange(c, R[k])
      <4>1. k \in 1 .. n /\ (k = q \/ k < q)
        BY <1>1, <2>1, <2>2
      <4>2. R[k].to <= R[q].to
        <5>1. CASE k = q
          BY <2>3, <5>1
        <5>2. CASE k < q
          <6>1. R[k].to < R[q].from /\ R[k].to \in Int
            BY <1>3, <2>2, <4>1, <5>2
          <6> QED BY <2>3, <6>1
        <5> QED BY <4>1, <5>1, <5>2
      <4>3. R[k].to \in Int
        BY <1>3, <4>1
      <4>4. ~(c <= R[k].to)
        BY <1>1, <2>3, <2>5, <4>2, <4>3
      <4> QED BY <4>4 DEF InRange
    <3> QED BY <1>6, <2>1, <3>1, <3>2 DEF mid, n
  <2>6. CASE ~(c < R[q].from) /\ ~(c > R[q].to)
    <3>1. Narrow(R, c, low, high) = <<low, high>>
      BY <1>4, <2>1, <2>6
    <3>2. R[q].from <= c /\ c <= R[q].to
      BY <1>1, <2>3, <2>6
    <3>3. InRange(c, R[q])
      BY <3>2 DEF InRange
    <3> QED BY <1>6, <2>2, <3>1, <3>3 DEF mid, n
  <2> QED BY <2>4, <2>5, <2>6
<1> QED BY <1>1, <1>5, <1>6

\* A step keeps the ranges of c between the bounds and brings these together.
LEMMA NarrowStepFacts ==
    ASSUME NEW N, NEW R \in Seq(Transitions(N)), SortedRanges(R), NEW c \in Chars, NEW p \in Bounds(R)
    PROVE  /\ NarrowStep(R, c)[p] \in Bounds(R)
           /\ NarrowStep(R, c)[p] = p \/ Width(R)[NarrowStep(R, c)[p]] < Width(R)[p]
           /\ p \in Between(R, c) => NarrowStep(R, c)[p] \in Between(R, c)
           /\ NarrowStep(R, c)[p] = p /\ p[1] < p[2] =>
                 /\ (p[1] + p[2]) \div 2 + 1 \in 1 .. Len(R)
                 /\ InRange(c, R[(p[1] + p[2]) \div 2 + 1])
<1> DEFINE n == Len(R)
           low == p[1]
           high == p[2]
           mid == (high + low) \div 2
           q == Narrow(R, c, low, high)
<1>1. /\ n \in Nat /\ low \in 0 .. n /\ high \in 0 .. n /\ p = <<low, high>> /\ p \in Bounds(R)
      /\ NarrowStep(R, c)[p] = q /\ mid = (p[1] + p[2]) \div 2
  BY DEF Bounds, NarrowStep
<1>2. \/ low >= high /\ q = <<low, high>>
      \/ low < high /\ mid + 1 \in 1 .. n /\ InRange(c, R[mid + 1]) /\ q = <<low, high>>
      \/ /\ low < high /\ mid \in low .. high - 1 /\ q = <<low, mid>>
         /\ \A k \in mid + 1 .. n : ~InRange(c, R[k])
      \/ /\ low < high /\ mid \in low .. high - 1 /\ q = <<mid + 1, high>>
         /\ \A k \in 1 .. mid + 1 : ~InRange(c, R[k])
  BY <1>1, NarrowFacts
<1>3. \A u \in Bounds(R) : Width(R)[u] = IF u[1] < u[2] THEN u[2] - u[1] ELSE 0
  BY DEF Width
<1>4. \A u : u \in Between(R, c) <=>
           u \in Bounds(R) /\ \A k \in 1 .. n : InRange(c, R[k]) => u[1] < k /\ k <= u[2]
  BY DEF Between
<1>5. \A a, b \in 0 .. n : <<a, b>> \in Bounds(R)
  BY DEF Bounds
<1> HIDE DEF n, low, high, mid, q
<1>6. low \in Nat /\ high \in Nat /\ low <= n /\ high <= n
  BY <1>1
<1>7. p[1] = low /\ p[2] = high
  BY DEF low, high
<1> SUFFICES /\ q \in Bounds(R)
             /\ q = p \/ Width(R)[q] < Width(R)[p]
             /\ p \in Between(R, c) => q \in Between(R, c)
             /\ q = p /\ low < high => mid + 1 \in 1 .. n /\ InRange(c, R[mid + 1])
  BY <1>1, <1>7 DEF n
<1>8. CASE low >= high /\ q = <<low, high>>
  BY <1>1, <1>6, <1>8
<1>9. CASE low < high /\ mid + 1 \in 1 .. n /\ InRange(c, R[mid + 1]) /\ q = <<low, high>>
  BY <1>1, <1>9
<1>10. CASE /\ low < high /\ mid \in low .. high - 1 /\ q = <<low, mid>>
            /\ \A k \in mid + 1 .. n : ~InRange(c, R[k])
  <2>1. q[1] = low /\ q[2] = mid /\ mid \in 0 .. n /\ mid < high /\ low <= mid
    BY <1>1, <1>6, <1>10
  <2>2. q \in Bounds(R)
    BY <1>1, <1>5, <1>10, <2>1
  <2>3. Width(R)[p] = high - low
    BY <1>1, <1>3, <1>7, <1>10
  <2>4. Width(R)[q] = IF low < mid THEN mid - low ELSE 0
    BY <1>3, <2>1, <2>2
  <2>5. Width(R)[q] < Width(R)[p]
    BY <1>6, <2>1, <2>3, <2>4
  <2>6. ASSUME p \in Between(R, c), NEW k \in 1 .. n, InRange(c, R[k]) PROVE low < k /\ k <= mid
    <3>1. low < k /\ k <= high
      BY <1>4, <1>7, <2>6
    <3>2. k \notin mid + 1 .. n
      BY <1>10, <2>6
    <3> QED BY <1>1, <2>1, <3>1, <3>2
  <2>7. p \in Between(R, c) => q \in Between(R, c)
    BY <1>4, <2>1, <2>2, <2>6
  <2>8. q # p
    BY <1>7, <2>1, <1>6
  <2> QED BY <2>2, <2>5, <2>7, <2>8
<1>11. CASE /\ low < high /\ mid \in low .. high - 1 /\ q = <<mid + 1, high>>
            /\ \A k \in 1 .. mid + 1 : ~InRange(c, R[k])
  <2> DEFINE m == mid + 1
  <2>1. q[1] = m /\ q[2] = high /\ m \in 0 .. n /\ m <= high /\ low < m /\ mid \in Nat
    BY <1>1, <1>6, <1>11
  <2>2. q \in Bounds(R)
    BY <1>1, <1>5, <1>11, <2>1
  <2>3. Width(R)[p] = high - low
    BY <1>1, <1>3, <1>7, <1>11
  <2>4. Width(R)[q] = IF m < high THEN high - m ELSE 0
    BY <1>3, <2>1, <2>2
  <2> HIDE DEF m
  <2>5. Width(R)[q] < Width(R)[p]
    BY <1>6, <2>1, <2>3, <2>4
  <2>6. ASSUME p \in Between(R, c), NEW k \in 1 .. n, InRange(c, R[k]) PROVE m < k /\ k <= high
    <3>1. low < k /\ k <= high
      BY <1>4, <1>7, <2>6
    <3>2. k \notin 1 .. m
      BY <1>11, <2>6 DEF m
    <3> QED BY <1>1, <2>1, <3>1, <3>2
  <2>7. p \in Between(R, c) => q \in Between(R, c)
    BY <1>4, <2>1, <2>2, <2>6
  <2>8. q # p
    BY <1>7, <2>1, <1>6
  <2> QED BY <2>2, <2>5, <2>7, <2>8
<1> QED BY <1>2, <1>8, <1>9, <1>10, <1>11

\* The search finds the range of a character if there is one.
LEMMA SearchFacts ==
    ASSUME NEW N, NEW R \in Seq(Transitions(N)), SortedRanges(R), NEW c \in Chars
    PROVE  \/ SearchRange(R, c) = 0 /\ \A k \in 1 .. Len(R) : ~InRange(c, R[k])
           \/ \E k \in 1 .. Len(R) : InRange(c, R[k]) /\ SearchRange(R, c) = R[k].state
<1> DEFINE n == Len(R)
           D == Bounds(R)
           body == NarrowStep(R, c)
           m == Width(R)
           T == Between(R, c)
           v == <<0, n>>
           f == Loop(D, body, v)
           k0 == (f[1] + f[2]) \div 2 + 1
<1>1. n \in Nat
  OBVIOUS
<1>2. SearchRange(R, c) = IF f[1] >= f[2] THEN 0 ELSE R[k0].state
  BY DEF SearchRange, Bounds, NarrowStep
<1>3. \A p \in D : /\ body[p] \in D
                   /\ body[p] = p \/ m[body[p]] < m[p]
                   /\ p \in T => body[p] \in T
                   /\ body[p] = p /\ p[1] < p[2] =>
                         (p[1] + p[2]) \div 2 + 1 \in 1 .. n /\ InRange(c, R[(p[1] + p[2]) \div 2 + 1])
  BY NarrowStepFacts
<1>4. body = [p \in D |-> body[p]]
  BY DEF NarrowStep
<1>5. \A p \in D : p[1] \in Nat /\ p[2] \in Nat
  BY DEF Bounds
<1>6. m \in [D -> Nat]
  BY <1>5 DEF Width
<1>7. T \in SUBSET D
  BY DEF Between
<1>8. v \in D /\ v \in T
  <2>1. v \in D
    BY <1>1 DEF Bounds
  <2>2. \A k \in 1 .. n : 0 < k /\ k <= n
    BY <1>1
  <2> QED BY <2>1, <2>2 DEF Between
<1>9. \A p \in T : p \in D /\ \A k \in 1 .. n : InRange(c, R[k]) => p[1] < k /\ k <= p[2]
  BY DEF Between
<1> HIDE DEF n, D, body, m, T, v
<1>10. body \in [D -> D]
  BY <1>3, <1>4
<1>11. \A u \in T : body[u] \in T
  BY <1>3, <1>7
<1>12. f \in T /\ body[f] = f
  BY <1>3, <1>6, <1>7, <1>8, <1>10, <1>11, LoopEnds
<1> HIDE DEF f
<1>13. f \in D /\ f[1] \in Nat /\ f[2] \in Nat
  BY <1>5, <1>7, <1>12
<1>14. CASE f[1] >= f[2]
  <2>1. \A k \in 1 .. n : ~InRange(c, R[k])
    <3> SUFFICES ASSUME NEW k \in 1 .. n, InRange(c, R[k]) PROVE FALSE
      OBVIOUS
    <3>1. f[1] < k /\ k <= f[2]
      BY <1>9, <1>12
    <3> QED BY <1>13, <1>14, <3>1
  <2> QED BY <1>2, <1>14, <2>1 DEF n
<1>15. CASE ~(f[1] >= f[2])
  <2>1. k0 \in 1 .. n /\ InRange(c, R[k0])
    BY <1>3, <1>12, <1>13, <1>15
  <2> QED BY <1>2, <1>15, <2>1 DEF n
<1> QED BY <1>14, <1>15

\* It is the only transition of a deterministic automaton.
LEMMA SearchMoves ==
    ASSUME NEW A, WellFormed(A), IsDeterministic(A), NEW i \in DOMAIN A, NEW c \in Chars
    PROVE  \/ SearchRange(A[i].range, c) = 0 /\ \A t : ~CharMove(A, c, i, t)
           \/ /\ SearchRange(A[i].range, c) \in DOMAIN A
              /\ \A t : CharMove(A, c, i, t) <=> t = SearchRange(A[i].range, c)
<1> DEFINE N == Len(A)
           R == A[i].range
           s == SearchRange(R, c)
<1>1. N \in Nat /\ DOMAIN A = 1 .. N /\ \A t : CharMove(A, c, i, t) => t \in DOMAIN A
  BY MoveFacts
<1>2. R \in Seq(Transitions(N))
  <2>1. A \in Seq(StatesOf(N))
    BY DEF WellFormed
  <2> QED BY <1>1, <2>1, StateFacts
<1>3. SortedRanges(R)
  BY DEF IsDeterministic, SortedRanges
<1>4. \A t : CharMove(A, c, i, t) <=> \E k \in 1 .. Len(R) : R[k].state = t /\ InRange(c, R[k])
  BY <1>2 DEF CharMove, ToSet
<1> HIDE DEF R
<1>5. \/ s = 0 /\ \A k \in 1 .. Len(R) : ~InRange(c, R[k])
      \/ \E k \in 1 .. Len(R) : InRange(c, R[k]) /\ s = R[k].state
  BY <1>2, <1>3, SearchFacts
<1>6. ASSUME NEW k \in 1 .. Len(R), NEW j \in 1 .. Len(R), InRange(c, R[k]), InRange(c, R[j]) PROVE j = k
  <2>1. /\ \A l \in 1 .. Len(R) : R[l].from \in Int /\ R[l].to \in Int /\ R[l].from <= R[l].to
        /\ \A a, b \in 1 .. Len(R) : a < b => R[a].to < R[b].from
    BY <1>2, <1>3, SortedFacts
  <2>2. c \in Int /\ R[k].from <= c /\ c <= R[k].to /\ R[j].from <= c /\ c <= R[j].to
    BY <1>6 DEF InRange, Chars
  <2>3. /\ R[k].from \in Int /\ R[k].to \in Int /\ R[j].from \in Int /\ R[j].to \in Int
        /\ k < j => R[k].to < R[j].from
        /\ j < k => R[j].to < R[k].from
    BY <2>1
  <2>4. ~(k < j) /\ ~(j < k) /\ k \in Int /\ j \in Int
    BY <2>2, <2>3, <1>2
  <2> QED BY <2>4
<1> HIDE DEF s
<1>7. CASE s = 0 /\ \A k \in 1 .. Len(R) : ~InRange(c, R[k])
  <2>1. \A t : ~CharMove(A, c, i, t)
    BY <1>4, <1>7
  <2> QED BY <1>7, <2>1 DEF s, R
<1>8. CASE \E k \in 1 .. Len(R) : InRange(c, R[k]) /\ s = R[k].state
  <2>1. \A t : CharMove(A, c, i, t) <=> t = s
    BY <1>4, <1>6, <1>8
  <2>2. s \in DOMAIN A
    BY <1>1, <2>1
  <2> QED BY <2>1, <2>2 DEF s, R
<1> QED BY <1>5, <1>7, <1>8

-----------------------------------------------------------------------------
(* matchchar32_automat *)

\* matchchar32_automat on an NFA: an end state is in the set of states after k
\* characters exactly if these are accepted.
LEMMA NFAFollows ==
    ASSUME NEW A, WellFormed(A), NEW str \in Seq(Chars), NEW k \in 0 .. Len(str)
    PROVE  <<1, Len(A)>> \in NFASets(A, str)[k] <=> Accepts(A, str, 0, k)
<1> DEFINE n == Len(str)
           As == <<A>>
           G == [j \in 0 .. n |-> SimSet(As, str, j)]
           F == CHOOSE Sets : Sets = [j \in 0 .. n |-> IF j = 0 THEN Follow(As, {<<1, 1>>})
                                                     ELSE Follow(As, Read(As, Sets[j - 1], str[j]))]
<1>1. n \in Nat
  OBVIOUS
<1>2. As[1] = A /\ DOMAIN As = {1} /\ DOMAIN As = 1 .. Len(As) /\ Len(As) = 1
  OBVIOUS
<1>3. NFASets(A, str) = F
  BY Zenon DEF NFASets
<1> HIDE DEF As, n
<1>4. Operands(As, "DFA")
  BY <1>2 DEF Operands, Operations
<1>5. StartSet(As) = Follow(As, {<<1, 1>>})
  <2>1. {<<i, 1>> : i \in DOMAIN As} = {<<1, 1>>}
    BY <1>2
  <2> QED BY <2>1 DEF StartSet
<1>6. /\ SimSet(As, str, 0) = Follow(As, {<<1, 1>>})
      /\ \A j \in 1 .. n : SimSet(As, str, j) = Follow(As, Read(As, SimSet(As, str, j - 1), str[j]))
  BY <1>4, <1>5, SimSteps DEF n
<1>7. G = [j \in 0 .. n |-> IF j = 0 THEN Follow(As, {<<1, 1>>}) ELSE Follow(As, Read(As, G[j - 1], str[j]))]
  <2>1. ASSUME NEW j \in 0 .. n
        PROVE  G[j] = IF j = 0 THEN Follow(As, {<<1, 1>>}) ELSE Follow(As, Read(As, G[j - 1], str[j]))
    <3>1. CASE j = 0
      BY <1>6, <3>1
    <3>2. CASE j # 0
      <4> DEFINE p == j - 1
      <4>1. p \in 0 .. n /\ j \in 1 .. n
        BY <1>1, <3>2
      <4>2. SimSet(As, str, j) = Follow(As, Read(As, SimSet(As, str, p), str[j]))
        BY <1>6, <4>1
      <4>3. G[p] = SimSet(As, str, p) /\ G[j] = SimSet(As, str, j)
        BY <4>1
      <4> HIDE DEF p, G
      <4>4. G[j] = Follow(As, Read(As, G[p], str[j]))
        BY <4>2, <4>3
      <4> QED BY <3>2, <4>4 DEF p
    <3> QED BY <3>1, <3>2
  <2>2. G = [j \in 0 .. n |-> G[j]]
    OBVIOUS
  <2> HIDE DEF G
  <2> QED BY <2>1, <2>2
<1>8. F = [j \in 0 .. n |-> IF j = 0 THEN Follow(As, {<<1, 1>>}) ELSE Follow(As, Read(As, F[j - 1], str[j]))]
  <2>1. \E H : H = [j \in 0 .. n |-> IF j = 0 THEN Follow(As, {<<1, 1>>})
                                    ELSE Follow(As, Read(As, H[j - 1], str[j]))]
    <3> HIDE DEF G, F
    <3> QED BY <1>7
  <2> HIDE DEF F
  <2> QED BY <2>1, Zenon DEF F
<1> HIDE DEF F, G
<1>9. \A j \in 0 .. n : F[j] = SimSet(As, str, j)
  <2> DEFINE M == {j \in 0 .. n : F[j] # SimSet(As, str, j)}
  <2> SUFFICES ASSUME M # {} PROVE FALSE
    OBVIOUS
  <2>1. PICK j \in M : \A y \in M : j <= y
    <3>1. M \in SUBSET Nat
      BY <1>1
    <3> HIDE DEF M
    <3> QED BY <3>1, LeastNumber
  <2>2. j \in 0 .. n /\ F[j] # SimSet(As, str, j)
    OBVIOUS
  <2>3. j # 0
    BY <1>1, <1>6, <1>8, <2>2
  <2> DEFINE p == j - 1
  <2>4. p \in 0 .. n /\ j \in 1 .. n /\ ~(j <= p)
    BY <1>1, <2>2, <2>3
  <2>5. F[j] = Follow(As, Read(As, F[p], str[j]))
    BY <1>8, <2>2, <2>3
  <2>6. SimSet(As, str, j) = Follow(As, Read(As, SimSet(As, str, p), str[j]))
    BY <1>6, <2>4
  <2> HIDE DEF p
  <2>7. F[p] = SimSet(As, str, p)
    BY <2>1, <2>4
  <2> QED BY <2>2, <2>5, <2>6, <2>7
<1>10. 1 \in DOMAIN As /\ Len(A) \in DOMAIN As[1]
  BY <1>2, MoveFacts
<1>11. <<1, Len(A)>> \in SimSet(As, str, k) <=> Reaches(As[1], str, 1, 0, Len(A), k)
  BY <1>4, <1>10, SimMembers
<1> QED BY <1>2, <1>3, <1>9, <1>11 DEF Accepts, n

\* The states a DFA goes through, 0 after a character without a transition.
LEMMA DFAStatesFacts ==
    ASSUME NEW A, WellFormed(A), IsDeterministic(A), NEW str \in Seq(Chars)
    PROVE  /\ DFAStates(A, str) \in [0 .. Len(str) -> 0 .. Len(A)]
           /\ DFAStates(A, str)[0] = 1
           /\ \A k \in 1 .. Len(str) :
                 DFAStates(A, str)[k] = IF DFAStates(A, str)[k - 1] = 0 THEN 0
                                        ELSE SearchRange(A[DFAStates(A, str)[k - 1]].range, str[k])
<1> DEFINE n == Len(str)
           D == 0 .. Len(A)
           step == [p \in (1 .. n) \X D |-> IF p[2] = 0 THEN 0 ELSE SearchRange(A[p[2]].range, str[p[1]])]
           F == CHOOSE State : State = [j \in 0 .. n |-> IF j = 0 THEN 1
                                                       ELSE IF State[j - 1] = 0 THEN 0
                                                       ELSE SearchRange(A[State[j - 1]].range, str[j])]
<1>1. n \in Nat /\ Len(A) \in Nat /\ DOMAIN A = 1 .. Len(A) /\ 1 \in D
  BY MoveFacts
<1>2. DFAStates(A, str) = F
  BY Zenon DEF DFAStates
<1>3. \A j \in 1 .. n : \A d \in D : d # 0 => SearchRange(A[d].range, str[j]) \in D
  <2> SUFFICES ASSUME NEW j \in 1 .. n, NEW d \in D, d # 0 PROVE SearchRange(A[d].range, str[j]) \in D
    OBVIOUS
  <2>1. str[j] \in Chars /\ d \in DOMAIN A
    BY <1>1
  <2> QED BY <1>1, <2>1, SearchMoves
<1>4. \A j \in 1 .. n : \A d \in D : step[j, d] = IF d = 0 THEN 0 ELSE SearchRange(A[d].range, str[j])
  OBVIOUS
<1>5. step \in [(1 .. n) \X D -> D]
  BY <1>1, <1>3
<1> HIDE DEF step
<1>6. PICK f : f \in Computed(D, 1, step, n)
  BY <1>1, <1>5, Recursion
<1> HIDE DEF D, n
<1>7. f \in [0 .. n -> D] /\ f[0] = 1 /\ \A j \in 1 .. n : f[j] = step[j, f[j - 1]]
  BY <1>6 DEF Computed
<1>8. f = [j \in 0 .. n |-> IF j = 0 THEN 1 ELSE IF f[j - 1] = 0 THEN 0 ELSE SearchRange(A[f[j - 1]].range, str[j])]
  <2>1. ASSUME NEW j \in 0 .. n
        PROVE  f[j] = IF j = 0 THEN 1 ELSE IF f[j - 1] = 0 THEN 0 ELSE SearchRange(A[f[j - 1]].range, str[j])
    <3>1. CASE j = 0
      BY <1>7, <3>1
    <3>2. CASE j # 0
      <4>1. j \in 1 .. n /\ j - 1 \in 0 .. n
        BY <1>1, <3>2
      <4>2. f[j - 1] \in D
        BY <1>7, <4>1
      <4> QED BY <1>4, <1>7, <3>2, <4>1, <4>2
    <3> QED BY <3>1, <3>2
  <2> QED BY <1>7, <2>1
<1>9. F = [j \in 0 .. n |-> IF j = 0 THEN 1 ELSE IF F[j - 1] = 0 THEN 0 ELSE SearchRange(A[F[j - 1]].range, str[j])]
  <2>1. \E H : H = [j \in 0 .. n |-> IF j = 0 THEN 1 ELSE IF H[j - 1] = 0 THEN 0 ELSE SearchRange(A[H[j - 1]].range, str[j])]
    <3> HIDE DEF F
    <3> QED BY <1>8
  <2> HIDE DEF F
  <2> QED BY <2>1, Zenon DEF F
<1> HIDE DEF F
<1>10. /\ F[0] = 1
       /\ \A j \in 1 .. n : F[j] = IF F[j - 1] = 0 THEN 0 ELSE SearchRange(A[F[j - 1]].range, str[j])
  BY <1>1, <1>9
<1>11. \A j \in 0 .. n : F[j] \in D
  <2> DEFINE M == {j \in 0 .. n : F[j] \notin D}
  <2> SUFFICES ASSUME M # {} PROVE FALSE
    OBVIOUS
  <2>1. PICK j \in M : \A y \in M : j <= y
    <3>1. M \in SUBSET Nat
      BY <1>1
    <3> HIDE DEF M
    <3> QED BY <3>1, LeastNumber
  <2>2. j \in 0 .. n /\ F[j] \notin D
    OBVIOUS
  <2>3. j # 0
    BY <1>1, <1>10, <2>2
  <2> DEFINE p == j - 1
  <2>4. p \in 0 .. n /\ j \in 1 .. n /\ ~(j <= p)
    BY <1>1, <2>2, <2>3
  <2>5. F[j] = IF F[p] = 0 THEN 0 ELSE SearchRange(A[F[p]].range, str[j])
    BY <1>10, <2>4
  <2> HIDE DEF p
  <2>6. F[p] \in D
    BY <2>1, <2>4
  <2>7. 0 \in D
    BY <1>1 DEF D
  <2> QED BY <1>3, <2>2, <2>4, <2>5, <2>6, <2>7
<1>12. F \in [0 .. n -> D]
  <2>1. F = [j \in 0 .. n |-> F[j]]
    BY <1>9
  <2> QED BY <1>11, <2>1
<1> QED BY <1>2, <1>10, <1>12 DEF n, D

\* matchchar32_automat on a DFA: the state after k characters exists and has an
\* empty transition exactly if these are accepted.
LEMMA DFAMatches ==
    ASSUME NEW A, WellFormed(A), IsDeterministic(A), NEW str \in Seq(Chars), NEW k \in 0 .. Len(str)
    PROVE  DFAStates(A, str)[k] # 0 /\ A[DFAStates(A, str)[k]].empty # <<>> <=> Accepts(A, str, 0, k)
<1> DEFINE n == Len(str)
           N == Len(A)
           S == DFAStates(A, str)
<1>1. n \in Nat /\ N \in Nat /\ N >= 2 /\ DOMAIN A = 1 .. N /\ 1 \in 1 .. N /\ N \in 1 .. N /\ k \in 0 .. n
  BY MoveFacts
<1>2. /\ S \in [0 .. n -> 0 .. N]
      /\ S[0] = 1
      /\ \A j \in 1 .. n : S[j] = IF S[j - 1] = 0 THEN 0 ELSE SearchRange(A[S[j - 1]].range, str[j])
  BY DFAStatesFacts
<1>3. \A j \in 1 .. n : str[j] \in Chars
  OBVIOUS
<1>4. \A s \in 1 .. N : A[s].empty \in {<<>>, <<N>>}
  BY <1>1 DEF IsDeterministic
<1>5. A[N].empty # <<>> /\ A[N].range = <<>>
  BY DEF WellFormed, IsDeterministic
<1>6. \A s \in 1 .. N : \A t : EmptyMove(A, s, t) <=> t = N /\ A[s].empty # <<>>
  <2> SUFFICES ASSUME NEW s \in 1 .. N, NEW t PROVE EmptyMove(A, s, t) <=> t = N /\ A[s].empty # <<>>
    OBVIOUS
  <2>1. CASE A[s].empty = <<>>
    BY <2>1 DEF EmptyMove, ToSet
  <2>2. CASE A[s].empty = <<N>>
    BY <2>2 DEF EmptyMove, ToSet
  <2> QED BY <1>4, <2>1, <2>2
<1>7. \A c, t : ~CharMove(A, c, N, t)
  BY <1>5 DEF CharMove, ToSet
<1> HIDE DEF n, N, S
<1>8. ASSUME NEW j \in 1 .. n, S[j - 1] # 0
      PROVE  /\ S[j - 1] \in 1 .. N
             /\ \/ S[j] = 0 /\ \A t : ~CharMove(A, str[j], S[j - 1], t)
                \/ S[j] \in 1 .. N /\ \A t : CharMove(A, str[j], S[j - 1], t) <=> t = S[j]
  <2> DEFINE i == S[j - 1]
  <2>1. i \in 1 .. N /\ S[j] = SearchRange(A[i].range, str[j])
    <3>1. j - 1 \in 0 .. n
      BY <1>1
    <3> QED BY <1>1, <1>2, <1>8, <3>1
  <2> HIDE DEF i
  <2>2. \/ SearchRange(A[i].range, str[j]) = 0 /\ \A t : ~CharMove(A, str[j], i, t)
        \/ /\ SearchRange(A[i].range, str[j]) \in DOMAIN A
           /\ \A t : CharMove(A, str[j], i, t) <=> t = SearchRange(A[i].range, str[j])
    BY <1>1, <1>3, <2>1, SearchMoves
  <2>3. \/ S[j] = 0 /\ \A t : ~CharMove(A, str[j], i, t)
        \/ S[j] \in 1 .. N /\ \A t : CharMove(A, str[j], i, t) <=> t = S[j]
    BY ONLY <1>1, <2>1, <2>2
  <2> QED BY <2>1, <2>3 DEF i
<1>9. \A j \in 1 .. n : \A s, t \in 1 .. N : CharMove(A, str[j], s, t) => Reaches(A, str, s, j - 1, t, j)
  <2>1. \A j \in 1 .. Len(str) : \A s, t \in DOMAIN A : CharMove(A, str[j], s, t) => Reaches(A, str, s, j - 1, t, j)
    BY ReachesSteps
  <2> QED BY ONLY <1>1, <2>1 DEF n
<1>10. \A j \in 0 .. n : S[j] # 0 => Reaches(A, str, 1, 0, S[j], j)
  <2> DEFINE M == {j \in 0 .. n : S[j] # 0 /\ ~Reaches(A, str, 1, 0, S[j], j)}
  <2> SUFFICES ASSUME M # {} PROVE FALSE
    OBVIOUS
  <2>1. PICK j \in M : \A y \in M : j <= y
    <3>1. M \in SUBSET Nat
      BY <1>1
    <3> HIDE DEF M
    <3> QED BY <3>1, LeastNumber
  <2>2. j \in 0 .. n /\ S[j] # 0 /\ ~Reaches(A, str, 1, 0, S[j], j)
    OBVIOUS
  <2>3. j # 0
    <3>1. Reaches(A, str, 1, 0, 1, 0)
      BY ReachesSteps
    <3> QED BY <1>2, <2>2, <3>1
  <2> DEFINE p == j - 1
  <2>4. p \in 0 .. n /\ j \in 1 .. n /\ ~(j <= p)
    BY <1>1, <2>2, <2>3
  <2>5. S[p] # 0
    BY <1>2, <2>2, <2>4
  <2>6. S[p] \in 1 .. N /\ S[j] \in 1 .. N /\ CharMove(A, str[j], S[p], S[j])
    BY <1>8, <2>2, <2>4, <2>5
  <2>7. Reaches(A, str, S[p], p, S[j], j)
    BY ONLY <1>9, <2>4, <2>6
  <2> HIDE DEF p
  <2>8. Reaches(A, str, 1, 0, S[p], p)
    BY <2>1, <2>4, <2>5
  <2>9. Reaches(A, str, 1, 0, S[j], j)
    BY ONLY <2>7, <2>8, ReachesOn
  <2> QED BY <2>2, <2>9
<1>11. ASSUME S[k] # 0, A[S[k]].empty # <<>> PROVE Reaches(A, str, 1, 0, N, k)
  <2>1. S[k] \in 1 .. N
    BY <1>1, <1>2, <1>11
  <2>2. Reaches(A, str, S[k], k, N, k)
    BY <1>1, <1>6, <1>11, <2>1, ReachesSteps
  <2>3. Reaches(A, str, 1, 0, S[k], k)
    BY <1>1, <1>10, <1>11
  <2> QED BY ONLY <2>2, <2>3, ReachesOn
<1>12. ASSUME Reaches(A, str, 1, 0, N, k) PROVE S[k] # 0 /\ A[S[k]].empty # <<>>
  <2> DEFINE X == [t \in 1 .. N |-> {j \in 0 .. n : S[j] = t \/ (t = N /\ S[j] # 0 /\ A[S[j]].empty # <<>>)}]
  <2>1. \A t \in 1 .. N : \A j : j \in X[t] <=> j \in 0 .. n /\ (S[j] = t \/ (t = N /\ S[j] # 0 /\ A[S[j]].empty # <<>>))
    OBVIOUS
  <2>2. X \in [1 .. N -> SUBSET (0 .. n)]
    OBVIOUS
  <2> HIDE DEF X
  <2>3. ASSUME NEW s \in 1 .. N, NEW t \in 1 .. N, EmptyMove(A, s, t) PROVE X[s] \subseteq X[t]
    <3>1. t = N /\ A[s].empty # <<>>
      BY <1>6, <2>3
    <3>2. s # 0
      BY <1>1
    <3> QED BY <2>1, <3>1, <3>2
  <2>4. ASSUME NEW j \in 1 .. n, NEW s \in 1 .. N, NEW t \in 1 .. N, j - 1 \in X[s], CharMove(A, str[j], s, t)
        PROVE  j \in X[t]
    <3>1. s # N /\ s # 0 /\ j \in 0 .. n
      BY <1>1, <1>7, <2>4
    <3>2. S[j - 1] = s
      BY <2>1, <2>4, <3>1
    <3>3. S[j] = t
      BY <1>8, <2>4, <3>1, <3>2
    <3> QED BY <2>1, <3>1, <3>3
  <2>5. Closed(A, str, X)
    BY <1>1, <2>2, <2>3, <2>4 DEF Closed, n
  <2>6. 0 \in X[1]
    <3>1. 0 \in 0 .. n /\ S[0] = 1 /\ 1 \in 1 .. N
      BY <1>1, <1>2
    <3> QED BY ONLY <2>1, <3>1
  <2>7. k \in X[N]
    BY <1>12, <2>5, <2>6 DEF Reaches
  <2>8. S[k] = N \/ (S[k] # 0 /\ A[S[k]].empty # <<>>)
    BY <1>1, <2>1, <2>7
  <2> QED BY <1>1, <1>5, <2>8
<1> QED BY <1>11, <1>12 DEF Accepts, S, N

\* What matchchar32_automat makes of an automaton is its language.
LEMMA MatchedPrefixes ==
    ASSUME NEW A, NEW dfa \in BOOLEAN, GoodResult(A, dfa), NEW str \in [1 .. MaxWord -> Chars]
    PROVE  Matched(A, dfa, str) = {k \in 0 .. MaxWord : SubSeq(str, 1, k) \in Language(A)}
<1>1. MaxWord \in Nat
  BY AutomatAssumption
<1>2. str \in Seq(Chars) /\ Len(str) = MaxWord
  BY <1>1
<1>3. str \in Words(MaxWord)
  BY <1>1, <1>2, WordsFacts
<1>4. WellFormed(A) /\ (dfa => IsDeterministic(A))
  BY DEF GoodResult, GoodAutomaton
<1>5. \A k \in 0 .. MaxWord : SubSeq(str, 1, k) \in Language(A) <=> Accepts(A, str, 0, k)
  BY <1>2, <1>3, <1>4, CutLanguages
<1>6. CASE dfa
  <2>1. \A k \in 0 .. Len(str) : DFAStates(A, str)[k] # 0 /\ A[DFAStates(A, str)[k]].empty # <<>> <=> Accepts(A, str, 0, k)
    BY <1>2, <1>4, <1>6, DFAMatches
  <2>2. Matched(A, dfa, str) = {k \in 0 .. Len(str) : DFAStates(A, str)[k] # 0 /\ A[DFAStates(A, str)[k]].empty # <<>>}
    BY <1>6 DEF Matched
  <2> QED BY ONLY <1>2, <1>5, <2>1, <2>2
<1>7. CASE ~dfa
  <2>1. \A k \in 0 .. Len(str) : <<1, Len(A)>> \in NFASets(A, str)[k] <=> Accepts(A, str, 0, k)
    BY <1>2, <1>4, NFAFollows
  <2>2. Matched(A, dfa, str) = {k \in 0 .. Len(str) : <<1, Len(A)>> \in NFASets(A, str)[k]}
    BY <1>7 DEF Matched
  <2> QED BY ONLY <1>2, <1>5, <2>1, <2>2
<1> QED BY <1>6, <1>7

\* The lengths of the prefixes of str which an automaton accepts.
PrefixLengths(A, str) == {k \in 0 .. MaxWord : SubSeq(str, 1, k) \in Language(A)}

\* The longest and the shortest of them are the results of matchchar32_automat.
LEMMA MatchLengthFacts ==
    ASSUME NEW A, NEW dfa \in BOOLEAN, GoodResult(A, dfa), NEW str \in [1 .. MaxWord -> Chars]
    PROVE  /\ MatchLength(A, dfa, str, TRUE) = Max({0} \cup PrefixLengths(A, str))
           /\ MatchLength(A, dfa, str, FALSE) = IF PrefixLengths(A, str) = {} THEN 0 ELSE Min(PrefixLengths(A, str))
<1> DEFINE P == PrefixLengths(A, str)
<1>1. MaxWord \in Nat
  BY AutomatAssumption
<1>2. Matched(A, dfa, str) = P /\ P \in SUBSET (0 .. MaxWord)
  BY MatchedPrefixes DEF PrefixLengths
<1> HIDE DEF P
<1>3. MatchLength(A, dfa, str, FALSE) = IF P = {} THEN 0 ELSE Min(P)
  BY <1>2 DEF MatchLength
<1>4. MatchLength(A, dfa, str, TRUE) = IF P = {} THEN 0 ELSE Max(P)
  BY <1>2 DEF MatchLength
<1> DEFINE Q == {0} \cup P
<1>5. \A S \in SUBSET (0 .. MaxWord) : S # {} => Max(S) \in S /\ \A y \in S : y <= Max(S)
  <2> SUFFICES ASSUME NEW S \in SUBSET (0 .. MaxWord), S # {} PROVE Max(S) \in S /\ \A y \in S : y <= Max(S)
    OBVIOUS
  <2>1. \E x \in S : \A y \in S : y <= x
    BY <1>1, GreatestNumber
  <2>2. \E x \in S : \A y \in S : x >= y
    BY <1>1, <2>1
  <2>3. Max(S) \in S /\ \A y \in S : Max(S) >= y
    BY <2>2, Zenon DEF Max
  <2> QED BY <1>1, <2>3
<1>6. ASSUME P = {} PROVE MatchLength(A, dfa, str, TRUE) = Max(Q)
  <2>1. Q = {0} /\ Q \in SUBSET (0 .. MaxWord) /\ Q # {}
    BY <1>1, <1>6
  <2> HIDE DEF Q
  <2>2. Max(Q) \in Q
    BY <1>5, <2>1
  <2> QED BY <1>4, <1>6, <2>1, <2>2
<1>7. ASSUME P # {} PROVE MatchLength(A, dfa, str, TRUE) = Max(Q)
  <2>1. Q \in SUBSET (0 .. MaxWord) /\ Q # {} /\ P \subseteq Q /\ Q \subseteq P \cup {0}
    BY <1>1, <1>2
  <2> HIDE DEF Q
  <2>2. Max(Q) \in Q /\ \A y \in Q : y <= Max(Q)
    BY <1>5, <2>1
  <2>3. Max(P) \in P /\ \A y \in P : y <= Max(P)
    BY <1>2, <1>5, <1>7
  <2>4. Max(P) \in Nat /\ Max(Q) \in Nat
    <3>1. \A y \in 0 .. MaxWord : y \in Nat
      BY <1>1
    <3> QED BY <1>2, <2>1, <2>2, <2>3, <3>1
  <2>5. Max(P) <= Max(Q)
    BY <2>1, <2>2, <2>3
  <2>6. Max(Q) <= Max(P)
    <3>1. Max(Q) \in P \/ Max(Q) = 0
      BY <2>1, <2>2
    <3> QED BY <2>3, <2>4, <3>1
  <2>7. Max(P) = Max(Q)
    BY <2>4, <2>5, <2>6
  <2> QED BY <1>4, <1>7, <2>7
<1> QED BY <1>3, <1>6, <1>7 DEF P

-----------------------------------------------------------------------------
(* Objects and the words they match *)

\* Every object accepts the words which its operations describe.
LanguagesInv ==
    /\ lang \in [Names -> SUBSET Words(MaxWord)]
    /\ \A x \in Names : ~IsFree(x) => lang[x] = Language(states[x])

\* What an operation stores in an object: an automaton and its words, or nothing.
Describes(A, P) == (A = <<>> /\ P = {}) \/ P = Language(A)

\* One object gets a new automaton.
LEMMA ReplaceLanguage ==
    ASSUME ObjectsInv, LanguagesInv, NEW x \in Names, NEW A, NEW P, Describes(A, P),
           states' = [states EXCEPT ![x] = A], lang' = [lang EXCEPT ![x] = P]
    PROVE  LanguagesInv'
<1>1. P \in SUBSET Words(MaxWord) /\ (A # <<>> => P = Language(A))
  BY DEF Describes, Language
<1>2. /\ states'[x] = A /\ lang'[x] = P
      /\ \A n \in Names : n # x => states'[n] = states[n] /\ lang'[n] = lang[n]
  BY DEF ObjectsInv, LanguagesInv
<1>3. lang' \in [Names -> SUBSET Words(MaxWord)]
  BY <1>1 DEF LanguagesInv
<1>4. ASSUME NEW n \in Names, states'[n] # <<>> PROVE lang'[n] = Language(states'[n])
  <2>1. CASE n = x
    BY <1>1, <1>2, <1>4, <2>1
  <2>2. CASE n # x
    <3>1. lang[n] = Language(states[n])
      BY <1>2, <1>4, <2>2 DEF LanguagesInv, IsFree
    <3> QED BY <1>2, <2>2, <3>1
  <2> QED BY <2>1, <2>2
<1> QED BY <1>3, <1>4 DEF LanguagesInv, IsFree

\* The same if another object is freed.
LEMMA MergeLanguage ==
    ASSUME ObjectsInv, LanguagesInv, NEW x \in Names, NEW y \in Names, x # y, NEW A, NEW P, P = Language(A),
           states' = [states EXCEPT ![x] = A, ![y] = <<>>], lang' = [lang EXCEPT ![x] = P, ![y] = {}]
    PROVE  LanguagesInv'
<1>1. P \in SUBSET Words(MaxWord)
  BY DEF Language
<1>2. /\ states'[x] = A /\ lang'[x] = P /\ states'[y] = <<>>
      /\ \A n \in Names : n # x /\ n # y => states'[n] = states[n] /\ lang'[n] = lang[n]
  BY DEF ObjectsInv, LanguagesInv
<1>3. lang' \in [Names -> SUBSET Words(MaxWord)]
  BY <1>1 DEF LanguagesInv
<1>4. ASSUME NEW n \in Names, states'[n] # <<>> PROVE lang'[n] = Language(states'[n])
  <2>1. CASE n = x
    BY <1>2, <2>1
  <2>2. CASE n = y
    BY <1>2, <1>4, <2>2
  <2>3. CASE n # x /\ n # y
    <3>1. lang[n] = Language(states[n])
      BY <1>2, <1>4, <2>3 DEF LanguagesInv, IsFree
    <3> QED BY <1>2, <2>3, <3>1
  <2> QED BY <2>1, <2>2, <2>3
<1> QED BY <1>3, <1>4 DEF LanguagesInv, IsFree

\* The words of what initmatch_automat and extendmatch_automat build.
LEMMA MatchesLanguages ==
    ASSUME NEW r \in Matches
    PROVE  /\ Language(Match(r)) = WordsOf(r)
           /\ Language(ExtendMatch(Match(r), Extend)) = WordsOf(r) \cup WordsOf(Extend)
<1>1. r \in Seq(Chars \X Chars) /\ Extend \in Seq(Chars \X Chars)
  BY AutomatAssumption
<1> DEFINE L == WordsOf(r)
           M == WordsOf(r) \cup WordsOf(Extend)
<1>2. L \in SUBSET {<<c>> : c \in Chars} /\ M \in SUBSET {<<c>> : c \in Chars}
  BY DEF WordsOf
<1>3. IsMatch(Match(r), L) /\ IsMatch(ExtendMatch(Match(r), Extend), M)
  BY <1>1, MatchStates, ExtendStates
<1> HIDE DEF L, M
<1>4. Language(Match(r)) = L
  BY ONLY <1>2, <1>3, MatchLanguage
<1>5. Language(ExtendMatch(Match(r), Extend)) = M
  BY ONLY <1>2, <1>3, MatchLanguage
<1> QED BY <1>4, <1>5 DEF L, M

\* The initial states.
LEMMA LanguagesInitInv == AutomatInit => LanguagesInv
BY DEF AutomatInit, LanguagesInv, IsFree

\* Every operation builds an automaton of the words it describes.
LEMMA LanguagesNextInv == AutomatInv /\ LanguagesInv /\ [AutomatNext]_automatVars => LanguagesInv'
<1> SUFFICES ASSUME AutomatInv, LanguagesInv, [AutomatNext]_automatVars PROVE LanguagesInv'
  OBVIOUS
<1>0. /\ ObjectsInv
      /\ \A n \in Names : ~IsFree(n) => GoodAutomaton(states[n]) /\ WellFormed(states[n]) /\ lang[n] = Language(states[n])
  BY DEF AutomatInv, ObjectsInv, LanguagesInv, GoodAutomaton
<1>1. ASSUME NEW x \in Names, NEW u \in Names, InitEmpty(x, u) PROVE LanguagesInv'
  <2>1. Describes(Empty, {<<>>})
    BY EmptyLanguage DEF Describes
  <2> QED BY <1>0, <1>1, <2>1, ReplaceLanguage DEF InitEmpty, Becomes
<1>2. ASSUME NEW x \in Names, NEW u \in Names, NEW m \in Matches, InitMatch(x, u, m) PROVE LanguagesInv'
  <2>1. Describes(Match(m), WordsOf(m))
    BY MatchesLanguages DEF Describes
  <2> QED BY <1>0, <1>2, <2>1, ReplaceLanguage DEF InitMatch, Becomes
<1>3. ASSUME NEW x \in Names, NEW y \in Names, NEW u \in Names, InitCopy(x, y, u) PROVE LanguagesInv'
  <2>1. Describes(states[y], lang[y])
    BY <1>0, <1>3 DEF Describes, InitCopy
  <2> QED BY <1>0, <1>3, <2>1, ReplaceLanguage DEF InitCopy, Becomes
<1>4. ASSUME NEW x \in Names, NEW y \in Names, NEW u \in Names, InitReverse(x, y, u) PROVE LanguagesInv'
  <2>1. WellFormed(states[y]) /\ lang[y] = Language(states[y])
    BY <1>0, <1>4 DEF InitReverse
  <2>2. Describes(OpReverse(states[y]), {Reverse(w) : w \in lang[y]})
    BY <2>1, ReverseLanguage DEF Describes
  <2> QED BY <1>0, <1>4, <2>2, ReplaceLanguage DEF InitReverse, Becomes
<1>5. ASSUME NEW x \in Names, FreeAutomat(x) PROVE LanguagesInv'
  <2>1. Describes(<<>>, {})
    BY DEF Describes
  <2> QED BY <1>0, <1>5, <2>1, ReplaceLanguage DEF FreeAutomat, Becomes
<1>6. ASSUME NEW x \in Names, ExtendMatchOf(x) PROVE LanguagesInv'
  <2>1. PICK r \in Matches : states[x] = Match(r)
    BY <1>6 DEF ExtendMatchOf
  <2>2. ~IsFree(x)
    BY <2>1, ResultsAreGood, ResultTypes DEF IsResult, GoodResult, IsFree
  <2>3. lang[x] = WordsOf(r)
    BY <1>0, <2>1, <2>2, MatchesLanguages
  <2>4. Describes(ExtendMatch(states[x], Extend), lang[x] \cup WordsOf(Extend))
    BY <2>1, <2>3, MatchesLanguages DEF Describes
  <2> QED BY <1>0, <1>6, <2>4, ReplaceLanguage DEF ExtendMatchOf, Becomes
<1>7. ASSUME NEW x \in Names, NEW y \in Names, Sequence(x, y) PROVE LanguagesInv'
  <2>1. Language(OpSequence(states[x], states[y])) = Concat(lang[x], lang[y])
    BY <1>0, <1>7, SequenceLanguage DEF Sequence, Combine
  <2> QED BY <1>0, <1>7, <2>1, MergeLanguage DEF Sequence, Combine
<1>8. ASSUME NEW x \in Names, NEW y \in Names, Or(x, y) PROVE LanguagesInv'
  <2>1. Language(OpOr(states[x], states[y])) = lang[x] \cup lang[y]
    BY <1>0, <1>8, OrLanguage DEF Or, Combine
  <2> QED BY <1>0, <1>8, <2>1, MergeLanguage DEF Or, Combine
<1>9. ASSUME NEW x \in Names, NEW y \in Names, CombineFails(x, y) PROVE LanguagesInv'
  BY <1>9 DEF CombineFails, LanguagesInv, IsFree
<1>10. ASSUME NEW x \in Names, NEW y \in Names, And(x, y) PROVE LanguagesInv'
  <2>1. Language(MakeDFA(<<states[x], states[y]>>, "OP_AND")) = lang[x] \cap lang[y]
    BY <1>0, <1>10, AndLanguage DEF And, And2
  <2> QED BY <1>0, <1>10, <2>1, MergeLanguage DEF And, And2
<1>11. ASSUME NEW x \in Names, NEW y \in Names, AndNot(x, y) PROVE LanguagesInv'
  <2>1. Language(MakeDFA(<<states[x], states[y]>>, "OP_AND_NOT")) = lang[x] \ lang[y]
    BY <1>0, <1>11, AndLanguage DEF AndNot, And2
  <2> QED BY <1>0, <1>11, <2>1, MergeLanguage DEF AndNot, And2
<1>12. ASSUME NEW x \in Names, NEW plus \in BOOLEAN, Repeat(x, plus) PROVE LanguagesInv'
  <2>1. WellFormed(states[x]) /\ lang[x] = Language(states[x])
    BY <1>0, <1>12 DEF Repeat
  <2>2. Describes(OpRepeat(states[x], plus), Plus(lang[x], IF plus THEN lang[x] ELSE {<<>>} \cup lang[x]))
    BY <2>1, RepeatLanguage DEF Describes
  <2> QED BY <1>0, <1>12, <2>2, ReplaceLanguage DEF Repeat, Becomes
<1>13. ASSUME NEW x \in Names, MakeDFAOf(x) PROVE LanguagesInv'
  <2>1. Describes(MakeDFA(<<states[x]>>, "DFA"), lang[x])
    BY <1>0, <1>13, DFALanguage DEF Describes, MakeDFAOf
  <2> QED BY <1>0, <1>13, <2>1, ReplaceLanguage DEF MakeDFAOf, Becomes
<1>14. ASSUME NEW x \in Names, MakeDFAFails(x) PROVE LanguagesInv'
  <2>1. Describes(RemoveSingle(states[x]), lang[x])
    BY <1>0, <1>14, ShortenedLanguage DEF Describes, MakeDFAFails
  <2> QED BY <1>0, <1>14, <2>1, ReplaceLanguage DEF MakeDFAFails, Becomes
<1>15. ASSUME NEW x \in Names, MinimizeOf(x) PROVE LanguagesInv'
  <2>1. Describes(Minimize(states[x]), lang[x])
    BY <1>0, <1>15, MinimizeLanguage DEF Describes, MinimizeOf
  <2> QED BY <1>0, <1>15, <2>1, ReplaceLanguage DEF MinimizeOf, Becomes
<1>16. ASSUME NEW x \in Names, Not(x) PROVE LanguagesInv'
  <2>1. Describes(OpNot(states[x]), Words(MaxWord) \ lang[x])
    BY <1>0, <1>16, NotLanguage DEF Describes, Not
  <2> QED BY <1>0, <1>16, <2>1, ReplaceLanguage DEF Not, Becomes
<1>17. CASE UNCHANGED automatVars
  BY <1>17 DEF LanguagesInv, IsFree, automatVars
<1> QED BY <1>1, <1>2, <1>3, <1>4, <1>5, <1>6, <1>7, <1>8, <1>9, <1>10, <1>11, <1>12, <1>13, <1>14, <1>15,
           <1>16, <1>17 DEF AutomatNext

\* Every object accepts exactly the words of the regular expression its
\* operations describe, whatever it was built from and in whichever order.
THEOREM AutomatLanguages == AutomatSpec => []LanguagesInv
BY LanguagesInitInv, LanguagesNextInv, AutomatInvariant, PTL DEF AutomatSpec

\* matchchar32_automat returns the longest and the shortest prefix of a string
\* which the regular expression describes.
THEOREM ObjectsMatchTheirLanguage == AutomatSpec => []MatchesLanguage
<1>1. AutomatInv /\ LanguagesInv => MatchesLanguage
  <2> SUFFICES ASSUME AutomatInv, LanguagesInv PROVE MatchesLanguage
    OBVIOUS
  <2> DEFINE P(x, str) == {k \in 0 .. MaxWord : SubSeq(str, 1, k) \in lang[x]}
  <2>1. ASSUME NEW x \in Names, ~IsFree(x), NEW str \in [1 .. MaxWord -> Chars]
        PROVE  /\ MatchLength(states[x], isDFA[x], str, TRUE) = Max({0} \cup P(x, str))
               /\ MatchLength(states[x], isDFA[x], str, FALSE) = IF P(x, str) = {} THEN 0 ELSE Min(P(x, str))
    <3>1. isDFA[x] \in BOOLEAN /\ GoodResult(states[x], isDFA[x]) /\ lang[x] = Language(states[x])
      BY <2>1 DEF AutomatInv, ObjectsInv, LanguagesInv, GoodResult
    <3>2. PrefixLengths(states[x], str) = P(x, str)
      BY <3>1 DEF PrefixLengths
    <3>3. /\ MatchLength(states[x], isDFA[x], str, TRUE) = Max({0} \cup PrefixLengths(states[x], str))
          /\ MatchLength(states[x], isDFA[x], str, FALSE) =
                IF PrefixLengths(states[x], str) = {} THEN 0 ELSE Min(PrefixLengths(states[x], str))
      BY <2>1, <3>1, MatchLengthFacts
    <3> QED BY ONLY <3>2, <3>3
  <2> QED BY <2>1, Zenon DEF MatchesLanguage
<1> QED BY <1>1, AutomatInvariant, AutomatLanguages, PTL

-----------------------------------------------------------------------------
(* minimize_automat *)

\* The pairs which are not told apart are states from which the same words lead
\* to the end: what holds of them holds of the states they lead to.
LEMMA DistinctFacts ==
    ASSUME NEW A, WellFormed(A), NEW i \in DOMAIN A, NEW j \in DOMAIN A, <<i, j>> \notin Distinct(A)
    PROVE  /\ A[i].empty = <<>> <=> A[j].empty = <<>>
           /\ \A c \in Chars : /\ SearchRange(A[i].range, c) = 0 <=> SearchRange(A[j].range, c) = 0
                               /\ <<SearchRange(A[i].range, c), SearchRange(A[j].range, c)>> \notin Distinct(A)
<1> DEFINE P == (DOMAIN A) \X (DOMAIN A)
           Goes(k, c) == SearchRange(A[k].range, c)
           New(E) == {p \in P : \E c \in Chars : \/ (Goes(p[1], c) = 0) # (Goes(p[2], c) = 0)
                                                 \/ <<Goes(p[1], c), Goes(p[2], c)>> \in E}
           base == {p \in P : (A[p[1]].empty = <<>>) # (A[p[2]].empty = <<>>)}
           D == SUBSET P
           g == [E \in D |-> E \cup New(E)]
           m == [E \in D |-> Cardinality(P \ E)]
           T == {E \in D : base \subseteq E}
           R == Loop(D, g, base)
<1>1. Distinct(A) = R
  BY DEF Distinct
<1>2. IsFiniteSet(P)
  <2>1. DOMAIN A = 1 .. Len(A) /\ Len(A) \in Nat
    BY MoveFacts
  <2>2. IsFiniteSet(DOMAIN A)
    BY <2>1, FS_Interval
  <2> QED BY <2>2, FS_Product
<1>3. \A E \in D : New(E) \in D /\ g[E] = E \cup New(E) /\ g[E] \in D
  OBVIOUS
<1>4. base \in D /\ base \in T /\ T \in SUBSET D
  OBVIOUS
<1> HIDE DEF P, Goes, base
<1>5. g \in [D -> D]
  BY <1>3
<1>6. \A E \in D : IsFiniteSet(P \ E) /\ Cardinality(P \ E) \in Nat
  BY <1>2, FS_Subset, FS_CardinalityType
<1>7. m \in [D -> Nat] /\ \A E \in D : m[E] = Cardinality(P \ E)
  BY <1>6
<1>8. ASSUME NEW E \in D, g[E] # E PROVE m[g[E]] < m[E]
  <2> DEFINE F == g[E]
  <2>1. F \in D /\ E \subseteq F /\ F # E
    BY <1>3, <1>8
  <2> HIDE DEF F, New, g, m, D
  <2>2. P \ F \subseteq P \ E /\ P \ F # P \ E
    BY <2>1 DEF D
  <2>3. Cardinality(P \ F) < Cardinality(P \ E)
    <3>1. IsFiniteSet(P \ E) /\ IsFiniteSet(P \ F) /\ Cardinality(P \ E) \in Nat /\ Cardinality(P \ F) \in Nat
      BY <1>6, <1>8, <2>1
    <3>2. Cardinality(P \ F) <= Cardinality(P \ E) /\ (Cardinality(P \ E) = Cardinality(P \ F) => P \ F = P \ E)
      BY <2>2, <3>1, FS_Subset
    <3> QED BY <2>2, <3>1, <3>2
  <2> QED BY <1>7, <1>8, <2>1, <2>3 DEF F
<1>9. \A E \in T : g[E] \in T
  <2> SUFFICES ASSUME NEW E \in T PROVE g[E] \in T
    OBVIOUS
  <2>1. E \in D /\ base \subseteq E /\ E \subseteq g[E] /\ g[E] \in D
    BY <1>3
  <2> HIDE DEF g, D
  <2> QED BY <2>1
<1> HIDE DEF g, m, T
<1>10. R \in T /\ g[R] = R
  BY <1>4, <1>5, <1>7, <1>8, <1>9, LoopEnds
<1> HIDE DEF R
<1>11. R \in D /\ base \subseteq R /\ New(R) \subseteq R
  <2>1. R \in D /\ base \subseteq R
    BY <1>10 DEF T
  <2> QED BY <1>3, <1>10, <2>1
<1> HIDE DEF D, New
<1> DEFINE p == <<i, j>>
<1>12. p \in P /\ p[1] = i /\ p[2] = j /\ p \notin R
  BY <1>1 DEF P
<1> HIDE DEF p
<1>13. p \notin base /\ p \notin New(R)
  BY <1>11, <1>12
<1>14. A[i].empty = <<>> <=> A[j].empty = <<>>
  BY <1>12, <1>13 DEF base
<1>15. ASSUME NEW c \in Chars PROVE (Goes(i, c) = 0 <=> Goes(j, c) = 0) /\ <<Goes(i, c), Goes(j, c)>> \notin R
  BY <1>12, <1>13 DEF New
<1> QED BY <1>1, <1>14, <1>15 DEF Goes

\* Every set becomes one state.
LEMMA KeptOnce ==
    ASSUME NEW A, NEW As, NEW op, NEW all, NEW kept, IsDFAOf(A, As, op, all, kept),
           NEW d \in 1 .. Len(kept)
    PROVE  /\ \A e \in 1 .. Len(kept) : SetOf(all, kept, e) = SetOf(all, kept, d) => e = d
           /\ NumberOf(all, kept, SetOf(all, kept, d)) = d
<1> DEFINE m == Len(kept)
           f == all.found
<1>1. m \in Nat /\ DOMAIN kept = 1 .. m
  BY DFASets
<1>2. /\ \A e \in 1 .. m : kept[e] \in DOMAIN f
      /\ \A i, j \in 1 .. m : i < j => kept[i] < kept[j]
      /\ IsInjective(f) /\ DOMAIN f \subseteq Nat
  <2>1. f \in Seq(SUBSET Places(As)) /\ IsInjective(f)
    BY DEF IsDFAOf, IsAll, IsExplored
  <2>2. kept \in Seq(DOMAIN f) /\ \A i, j \in DOMAIN kept : i < j => kept[i] < kept[j]
    BY DEF IsDFAOf, IsConverted
  <2>3. DOMAIN f = 1 .. Len(f) /\ Len(f) \in Nat
    BY <2>1
  <2> HIDE DEF f, m
  <2>4. \A e \in 1 .. m : kept[e] \in DOMAIN f
    BY <1>1, <2>2
  <2>5. DOMAIN f \subseteq Nat
    BY <2>3
  <2> QED BY <1>1, <2>1, <2>2, <2>4, <2>5
<1> HIDE DEF m, f
<1>3. ASSUME NEW e \in 1 .. m, f[kept[e]] = f[kept[d]] PROVE e = d
  <2>1. d \in 1 .. m
    BY DEF m
  <2>2. kept[e] = kept[d] /\ kept[d] \in Nat
    BY <1>2, <1>3, <2>1 DEF IsInjective
  <2>3. ~(e < d) /\ ~(d < e)
    BY <1>2, <2>1, <2>2
  <2> QED BY <1>1, <2>1, <2>3
<1>4. \A e \in 1 .. m : SetOf(all, kept, e) = f[kept[e]]
  BY DEF SetOf, f
<1>5. d \in 1 .. m
  BY DEF m
<1>6. NumberOf(all, kept, f[kept[d]]) = d
  <2> DEFINE k == CHOOSE k \in DOMAIN kept : f[kept[k]] = f[kept[d]]
  <2>1. NumberOf(all, kept, f[kept[d]]) = k
    BY <1>1, <1>5 DEF NumberOf, f
  <2>2. k \in DOMAIN kept /\ f[kept[k]] = f[kept[d]]
    BY <1>1, <1>5
  <2> HIDE DEF k
  <2> QED BY <1>1, <1>3, <2>1, <2>2
<1> QED BY <1>3, <1>4, <1>5, <1>6 DEF m

\* Every state of a DFA but the first and the end state is entered from a state before it.
LEMMA DFAFound ==
    ASSUME NEW A, NEW As, NEW op, NEW all, NEW kept, IsDFAOf(A, As, op, all, kept),
           NEW d \in 2 .. Len(kept)
    PROVE  \E e \in 1 .. d - 1 : \E c \in Chars :
              /\ Target(As, op, SetOf(all, kept, e), c) = SetOf(all, kept, d)
              /\ SetOf(all, kept, d) # {}
              /\ CharMove(A, c, e, d)
<1> DEFINE m == Len(kept)
           f == all.found
           i == kept[d]
<1>1. m \in Nat /\ DOMAIN kept = 1 .. m /\ \A k \in 1 .. m : SetOf(all, kept, k) = f[kept[k]]
  BY DFASets DEF SetOf
<1>2. /\ f \in Seq(SUBSET Places(As)) /\ \A k \in DOMAIN f : k # 1 => f[k] # {} /\ FoundFrom(As, op, f, k)
      /\ \A k \in DOMAIN f : all.targets[k] = Row(As, op, f[k])
      /\ Operands(As, op)
  BY DEF IsDFAOf, IsAll, IsExplored
<1>3. /\ \A k \in 1 .. m : kept[k] \in DOMAIN f
      /\ \A k, l \in 1 .. m : k < l => kept[k] < kept[l]
      /\ kept[1] = 1
      /\ \A k \in DOMAIN f : k \in ToSet(kept) <=> IsKept(As, op, all, k)
  <2>1. /\ kept \in Seq(DOMAIN f) /\ kept[1] = 1 /\ \A k, l \in DOMAIN kept : k < l => kept[k] < kept[l]
        /\ \A k \in DOMAIN f : k \in ToSet(kept) <=> IsKept(As, op, all, k)
    BY DEF IsDFAOf, IsConverted
  <2> QED BY <1>1, <2>1
<1>4. DOMAIN f = 1 .. Len(f) /\ Len(f) \in Nat /\ d \in 1 .. m /\ 1 \in 1 .. m /\ 1 < d
  BY <1>1, <1>2
<1> HIDE DEF m, f, i
<1>5. i \in DOMAIN f /\ i # 1 /\ f[i] = SetOf(all, kept, d)
  <2>1. kept[1] < kept[d] /\ kept[d] \in DOMAIN f
    BY <1>3, <1>4
  <2> QED BY <1>1, <1>3, <1>4, <2>1 DEF i
<1>6. f[i] # {} /\ FoundFrom(As, op, f, i)
  BY <1>2, <1>5
<1>7. PICK j \in 1 .. i - 1 : f[i] \in ToSet(Row(As, op, f[j]))
  BY <1>6 DEF FoundFrom
<1>8. j \in DOMAIN f /\ j < i /\ f[j] \in SUBSET Places(As)
  BY <1>2, <1>4, <1>5, <1>7
<1>9. j \in ToSet(kept)
  <2>1. IsKept(As, op, all, j)
    BY <1>2, <1>6, <1>7, <1>8 DEF IsKept, f
  <2> QED BY <1>3, <1>8, <2>1
<1>10. PICK e \in 1 .. m : kept[e] = j
  BY <1>1, <1>9 DEF ToSet
<1>11. e \in 1 .. d - 1
  <2>1. ~(d < e) /\ e # d
    BY <1>3, <1>4, <1>8, <1>10 DEF i
  <2> QED BY <1>1, <1>4, <2>1
<1>12. PICK c \in Chars : f[i] = Target(As, op, f[j], c)
  <2>1. /\ Row(As, op, f[j]) \in Seq(SUBSET Places(As)) /\ Len(Row(As, op, f[j])) = MaxChar + 1
        /\ \A a \in 1 .. MaxChar + 1 : Row(As, op, f[j])[a] = Target(As, op, f[j], a - 1)
    BY <1>2, <1>8, RowFacts
  <2>2. PICK a \in 1 .. MaxChar + 1 : f[i] = Row(As, op, f[j])[a]
    <3>1. PICK a \in DOMAIN Row(As, op, f[j]) : f[i] = Row(As, op, f[j])[a]
      BY <1>7 DEF ToSet
    <3>2. DOMAIN Row(As, op, f[j]) = 1 .. MaxChar + 1
      BY <2>1
    <3> QED BY <3>1, <3>2
  <2> DEFINE c == a - 1
  <2>3. c \in Chars
    BY AutomatAssumption DEF Chars
  <2>4. f[i] = Target(As, op, f[j], c)
    BY <2>1, <2>2
  <2> HIDE DEF c
  <2> QED BY <2>3, <2>4
<1>13. Target(As, op, SetOf(all, kept, e), c) = SetOf(all, kept, d) /\ SetOf(all, kept, d) # {}
  BY <1>1, <1>5, <1>6, <1>10, <1>12
<1>14. NumberOf(all, kept, SetOf(all, kept, d)) = d
  BY <1>4, KeptOnce DEF m
<1>15. CharMove(A, c, e, d)
  <2>1. CharMove(A, c, e, d) <=> /\ Target(As, op, SetOf(all, kept, e), c) # {}
                                 /\ d = NumberOf(all, kept, Target(As, op, SetOf(all, kept, e), c))
    BY DFAMoves DEF m
  <2> QED BY <1>13, <1>14, <2>1
<1> QED BY <1>11, <1>13, <1>15

\* The operand of the second construction of minimize_automat.
Turned(D) == RemoveSingle(OpReverse(D))

\* The reverse of a DFA has the transitions of the DFA turned round, and its only
\* empty transitions which lead to other states are those of the start state.
LEMMA TurnedMoves ==
    ASSUME NEW D, WellFormed(D), IsDeterministic(D)
    PROVE  /\ WellFormed(Turned(D)) /\ DOMAIN Turned(D) = 1 .. Len(D) /\ Len(Turned(D)) = Len(D)
           /\ \A s \in 2 .. Len(D) : \A t : EmptyMove(Turned(D), s, t) => t = s
           /\ \A s, t \in 1 .. Len(D) : \A c :
                 CharMove(Turned(D), c, s, t) <=> CharMove(D, c, Len(D) + 1 - t, Len(D) + 1 - s)
<1> DEFINE N == Len(D)
           E == OpReverse(D)
           F == RemoveSingle(E)
<1>1. GoodAutomaton(D) /\ IsReversed(E, D) /\ GoodAutomaton(E)
  BY DeterministicTraps, ReverseStates, ReverseTraps
<1>2. IsShortened(F, E) /\ WellFormed(F) /\ Len(F) = N /\ Len(E) = N /\ WellFormed(E)
  BY <1>1, ShortenedStates DEF IsShortened, IsReversed
<1>3. N \in Nat /\ N >= 2 /\ DOMAIN D = 1 .. N /\ DOMAIN E = 1 .. N /\ DOMAIN F = 1 .. N
  BY <1>2, MoveFacts
<1>4. \A s \in 1 .. N : \A t : EmptyMove(D, s, t) => t = N
  <2> SUFFICES ASSUME NEW s \in 1 .. N, NEW t, EmptyMove(D, s, t) PROVE t = N
    OBVIOUS
  <2>1. D[s].empty \in {<<>>, <<N>>}
    BY <1>3, SMTT(30) DEF IsDeterministic
  <2> QED BY <2>1 DEF EmptyMove, ToSet
<1> HIDE DEF E, F, N
<1>5. /\ \A s \in 1 .. N : \A t : EmptyMove(E, s, t) => t \in 1 .. N
      /\ \A s, t \in 1 .. N : EmptyMove(E, s, t) <=> EmptyMove(D, N + 1 - t, N + 1 - s) \/ (s = N /\ t = N)
      /\ \A c, s, t : s \in 1 .. N /\ t \in 1 .. N => (CharMove(E, c, s, t) <=> CharMove(D, c, N + 1 - t, N + 1 - s))
  BY <1>1, <1>2, <1>3, MoveFacts DEF IsReversed, N
<1>6. \A s \in 2 .. N : \A t : EmptyMove(E, s, t) => t = s
  <2> SUFFICES ASSUME NEW s \in 2 .. N, NEW t, EmptyMove(E, s, t) PROVE t = s
    OBVIOUS
  <2>1. s \in 1 .. N /\ t \in 1 .. N
    BY <1>3, <1>5
  <2> DEFINE a == N + 1 - t
             b == N + 1 - s
  <2>2. a \in 1 .. N /\ b # N
    BY <1>3, <2>1
  <2>3. EmptyMove(D, a, b) \/ (s = N /\ t = N)
    BY <1>5, <2>1
  <2> HIDE DEF a, b
  <2> QED BY <1>4, <2>2, <2>3
\* So no state is skipped.
<1>7. ASSUME NEW s \in 1 .. N PROVE ChainEnd(E, s) = s
  <2>1. CASE Single(E, s)
    <3> DEFINE u == E[s].empty[1]
    <3>1. u \in 1 .. N /\ EmptyMove(E, s, u) /\ \A t : EmptyMove(E, s, t) <=> t = u
      BY <1>2, <1>3, <2>1, SingleMove
    <3> HIDE DEF u
    <3>2. u = s
      <4>1. CASE s \in 2 .. N
        BY <1>6, <3>1, <4>1
      <4>2. CASE s = 1
        <5>1. EmptyMove(D, N, N)
          BY <1>3, MoveFacts DEF N
        <5>2. N + 1 - 1 = N /\ 1 \in 1 .. N
          BY <1>3
        <5>3. EmptyMove(E, 1, 1)
          BY <1>5, <5>1, <5>2
        <5> QED BY <3>1, <4>2, <5>3
      <4> QED BY <1>3, <4>1, <4>2
    <3> QED BY <1>1, <1>3, <2>1, <3>2, ChainEndFacts DEF u
  <2>2. CASE ~Single(E, s)
    BY <1>1, <1>3, <2>2, ChainEndFacts
  <2> QED BY <2>1, <2>2
<1>8. ASSUME NEW s \in 1 .. N
      PROVE  /\ \A t : EmptyMove(F, s, t) => EmptyMove(E, s, t)
             /\ \A c, t : CharMove(F, c, s, t) <=> t \in 1 .. N /\ CharMove(E, c, s, t)
  <2>1. /\ Single(E, s) => \A u : EmptyMove(F, s, u) <=> u = ChainEnd(E, s)
        /\ ~Single(E, s) => \A u : EmptyMove(F, s, u) <=> EmptyMove(E, s, u)
        /\ \A c, t : CharMove(F, c, s, t) <=> \E u \in 1 .. N : CharMove(E, c, s, u) /\ t = ChainEnd(E, u)
    BY <1>1, <1>2, <1>3, ShortenedMoves
  <2>2. Single(E, s) => EmptyMove(E, s, s)
    <3> SUFFICES ASSUME Single(E, s) PROVE EmptyMove(E, s, s)
      OBVIOUS
    <3>1. EmptyMove(E, s, E[s].empty[1]) /\ E[s].empty[1] \in 1 .. N
      BY <1>2, <1>3, SingleMove
    <3>2. ChainEnd(E, s) = ChainEnd(E, E[s].empty[1])
      BY <1>1, <1>3, ChainEndFacts
    <3> QED BY <1>7, <3>1, <3>2
  <2> QED BY <1>7, <2>1, <2>2
<1>9. \A s \in 2 .. N : s \in 1 .. N
  BY <1>3
<1>10. \A s \in 2 .. N : \A t : EmptyMove(F, s, t) => t = s
  BY <1>6, <1>8, <1>9
<1>11. \A s, t \in 1 .. N : \A c : CharMove(F, c, s, t) <=> CharMove(D, c, N + 1 - t, N + 1 - s)
  BY <1>5, <1>8
<1> QED BY <1>2, <1>3, <1>10, <1>11 DEF Turned, F, E, N

\* The set of states it is in after a character is where the character leads to.
LEMMA TurnedTarget ==
    ASSUME NEW D, WellFormed(D), IsDeterministic(D), Operands(<<Turned(D)>>, "DFA"),
           NEW V \in SUBSET Places(<<Turned(D)>>), NEW c, NEW s \in 1 .. Len(D)
    PROVE  <<1, s>> \in Target(<<Turned(D)>>, "DFA", V, c) <=>
              s # 1 /\ \E t \in 1 .. Len(D) : <<1, t>> \in V /\ CharMove(D, c, Len(D) + 1 - s, Len(D) + 1 - t)
<1> DEFINE N == Len(D)
           F == Turned(D)
           As == <<F>>
           R == Read(As, V, c)
           W == Follow(As, R)
<1>1. As[1] = F /\ DOMAIN As = {1} /\ N \in Nat /\ N >= 2
  BY MoveFacts
<1>2. /\ DOMAIN F = 1 .. N
      /\ \A a \in 2 .. N : \A b : EmptyMove(F, a, b) => b = a
      /\ \A a, b \in 1 .. N : CharMove(F, c, a, b) <=> CharMove(D, c, N + 1 - b, N + 1 - a)
  BY TurnedMoves
<1>3. \A b : ~CharMove(D, c, N, b)
  BY DEF IsDeterministic, CharMove, ToSet
<1>4. Operands(As, "DFA") /\ V \in SUBSET Places(As)
  OBVIOUS
<1> HIDE DEF As, F, N
<1>5. R \in SUBSET Places(As) /\ \A b \in 1 .. N : <<1, b>> \in R <=> \E a \in 1 .. N : <<1, a>> \in V /\ CharMove(F, c, a, b)
  <2>1. /\ \A d : Read(As, V, d) \in SUBSET Places(As)
        /\ \A d : \A k \in DOMAIN As : \A t \in DOMAIN As[k] :
              <<k, t>> \in Read(As, V, d) <=> \E a \in DOMAIN As[k] : <<k, a>> \in V /\ CharMove(As[k], d, a, t)
    BY <1>4, TargetFacts
  <2> QED BY <1>1, <1>2, <2>1
<1> HIDE DEF R
<1>6. \A b \in 1 .. N : <<1, b>> \in R <=> b # 1 /\ \E a \in 1 .. N : <<1, a>> \in V /\ CharMove(D, c, N + 1 - b, N + 1 - a)
  <2>1. N + 1 - 1 = N
    BY <1>1
  <2> QED BY <1>2, <1>3, <1>5, <2>1
<1>7. EmptyClosed(As, R)
  <2> SUFFICES ASSUME NEW x \in EmptyTargets(As, R) PROVE x \in R
    BY DEF EmptyClosed
  <2>1. x \in Places(As)
    BY <1>4, <1>5, TargetFacts
  <2>2. PICK k \in DOMAIN As : \E t \in DOMAIN As[k] : x = <<k, t>>
    BY <1>4, <2>1, PlacesFacts
  <2>3. PICK t \in DOMAIN As[k] : x = <<k, t>>
    BY <2>2
  <2>4. PICK a \in DOMAIN As[k] : <<k, a>> \in R /\ EmptyMove(As[k], a, t)
    BY <1>4, <1>5, <2>3, TargetFacts
  <2>5. k = 1 /\ a \in 1 .. N /\ t \in 1 .. N /\ EmptyMove(F, a, t)
    BY <1>1, <1>2, <2>3, <2>4
  <2>6. a \in 2 .. N
    <3>1. <<1, a>> \in R
      BY <2>4, <2>5
    <3>2. a # 1
      BY ONLY <1>6, <2>5, <3>1
    <3> QED BY <1>1, <2>5, <3>2
  <2>7. t = a
    BY <1>2, <2>5, <2>6
  <2> QED BY <2>3, <2>4, <2>7
<1>8. W = R
  <2>1. R \subseteq W /\ \A M \in SUBSET Places(As) : R \subseteq M /\ EmptyClosed(As, M) => W \subseteq M
    BY <1>4, <1>5, FollowFacts
  <2> QED BY <1>5, <1>7, <2>1
<1>9. Target(As, "DFA", V, c) = IF LeadsToEnd("DFA", W) THEN W ELSE {}
  BY DEF Target, R
<1>10. ASSUME <<1, s>> \in R PROVE LeadsToEnd("DFA", R)
  <2>1. <<1, s>>[1] = 1
    OBVIOUS
  <2> QED BY <1>10, <2>1 DEF LeadsToEnd
<1>11. <<1, s>> \in Target(As, "DFA", V, c) <=> <<1, s>> \in R
  BY <1>8, <1>9, <1>10
<1>12. s \in 1 .. N
  BY DEF N
<1> QED BY <1>6, <1>11, <1>12 DEF As, F, N

\* The state a set became has the transitions of the set.
LEMMA NumberMoves ==
    ASSUME NEW A, NEW As, NEW op, NEW all, NEW kept, IsDFAOf(A, As, op, all, kept),
           NEW V \in ToSet(all.found)
    PROVE  /\ NumberOf(all, kept, V) \in DOMAIN A
           /\ A[NumberOf(all, kept, V)].empty # <<>> <=> IsEnd(As, op, V)
           /\ \A c \in Chars :
                 /\ SearchRange(A[NumberOf(all, kept, V)].range, c) = 0 <=> Target(As, op, V, c) = {}
                 /\ Target(As, op, V, c) # {} =>
                       SearchRange(A[NumberOf(all, kept, V)].range, c) = NumberOf(all, kept, Target(As, op, V, c))
<1> DEFINE m == Len(kept)
           N == m + 1
           n == NumberOf(all, kept, V)
<1>1. /\ m \in Nat /\ n \in 1 .. N /\ (n # N => SetOf(all, kept, n) = V)
      /\ n = N => IsEnd(As, op, V) /\ \A c \in Chars : Target(As, op, V, c) = {}
  BY DFASets
<1>2. /\ WellFormed(A) /\ Len(A) = N
      /\ \A d \in 1 .. m :
            /\ \A u : EmptyMove(A, d, u) <=> u = Len(A) /\ IsEnd(As, op, SetOf(all, kept, d))
            /\ \A c \in Chars : \A u :
                  CharMove(A, c, d, u) <=> /\ Target(As, op, SetOf(all, kept, d), c) # {}
                                           /\ u = NumberOf(all, kept, Target(As, op, SetOf(all, kept, d), c))
      /\ \A u : EmptyMove(A, Len(A), u) <=> u = Len(A)
      /\ \A c, u : ~CharMove(A, c, Len(A), u)
  BY DFAMoves
<1>3. IsDeterministic(A)
  BY ConvertedDeterministic DEF IsDFAOf
<1>4. DOMAIN A = 1 .. N
  BY <1>2, MoveFacts
<1> HIDE DEF m, n
<1>5. /\ \A u : EmptyMove(A, n, u) <=> u = N /\ IsEnd(As, op, V)
      /\ \A c \in Chars : \A u :
            CharMove(A, c, n, u) <=> Target(As, op, V, c) # {} /\ u = NumberOf(all, kept, Target(As, op, V, c))
  <2>1. CASE n = N
    BY <1>1, <1>2, <2>1
  <2>2. CASE n # N
    <3>1. n \in 1 .. m /\ SetOf(all, kept, n) = V
      BY <1>1, <2>2
    <3> QED BY <1>2, <3>1
  <2> QED BY <2>1, <2>2
<1>6. A[n].empty # <<>> <=> IsEnd(As, op, V)
  <2>1. A[n].empty \in Seq(1 .. N)
    BY <1>1, <1>2, <1>4, StateFacts DEF WellFormed
  <2> DEFINE l == A[n].empty
  <2>2. l # <<>> <=> \E u : EmptyMove(A, n, u)
    <3>1. \A u : EmptyMove(A, n, u) <=> \E i \in DOMAIN l : u = l[i]
      BY DEF EmptyMove, ToSet
    <3> HIDE DEF l
    <3>2. l \in Seq(1 .. N)
      BY <2>1 DEF l
    <3>3. l # <<>> => 1 \in DOMAIN l
      BY <3>2
    <3>4. l = <<>> => DOMAIN l = {}
      OBVIOUS
    <3> QED BY <3>1, <3>3, <3>4
  <2> QED BY <1>5, <2>2
<1>7. ASSUME NEW c \in Chars
      PROVE  /\ SearchRange(A[n].range, c) = 0 <=> Target(As, op, V, c) = {}
             /\ Target(As, op, V, c) # {} => SearchRange(A[n].range, c) = NumberOf(all, kept, Target(As, op, V, c))
  <2> DEFINE s == SearchRange(A[n].range, c)
  <2>1. \/ s = 0 /\ \A t : ~CharMove(A, c, n, t)
        \/ s \in DOMAIN A /\ \A t : CharMove(A, c, n, t) <=> t = s
    BY <1>1, <1>2, <1>3, <1>4, SearchMoves
  <2> HIDE DEF s
  <2>2. s \in DOMAIN A => s # 0
    BY <1>1, <1>4
  <2> QED BY <1>5, <2>1, <2>2 DEF s
<1> QED BY <1>1, <1>4, <1>6, <1>7 DEF n

\* Every state of a DFA but the end state can be reached.
Entered(D) == \A d \in 2 .. Len(D) - 1 : \E e \in 1 .. d - 1 : \E c \in Chars : CharMove(D, c, e, d)

\* States which are not told apart, in one order or the other.
Untold(A, i, j) == <<i, j>> \notin Distinct(A) \/ <<j, i>> \notin Distinct(A)

LEMMA UntoldFacts ==
    ASSUME NEW A, WellFormed(A), NEW i \in DOMAIN A, NEW j \in DOMAIN A, Untold(A, i, j)
    PROVE  /\ A[i].empty = <<>> <=> A[j].empty = <<>>
           /\ \A c \in Chars : /\ SearchRange(A[i].range, c) = 0 <=> SearchRange(A[j].range, c) = 0
                               /\ Untold(A, SearchRange(A[i].range, c), SearchRange(A[j].range, c))
<1>1. CASE <<i, j>> \notin Distinct(A)
  BY <1>1, DistinctFacts DEF Untold
<1>2. CASE <<j, i>> \notin Distinct(A)
  BY <1>2, DistinctFacts DEF Untold
<1> QED BY <1>1, <1>2 DEF Untold

\* What is known of sets which are not told apart.
Alike(D, A, all, kept, V, W) ==
    /\ V \in ToSet(all.found) /\ W \in ToSet(all.found)
    /\ <<1, 1>> \notin V /\ <<1, 1>> \notin W
    /\ Untold(A, NumberOf(all, kept, V), NumberOf(all, kept, W))

\* A transition leads to sets which are not told apart either, and from both of
\* the same state of D, for this has one transition for a character.
LEMMA AlikeStep ==
    ASSUME NEW D, WellFormed(D), IsDeterministic(D), NEW A, NEW all, NEW kept,
           IsDFAOf(A, <<Turned(D)>>, "DFA", all, kept),
           NEW V, NEW W, Alike(D, A, all, kept, V, W),
           NEW c \in Chars, NEW d \in 1 .. Len(D) - 1, NEW e \in 1 .. Len(D) - 1, CharMove(D, c, e, d),
           <<1, Len(D) + 1 - d>> \in V,
           \A X, Y : Alike(D, A, all, kept, X, Y) =>
              (<<1, Len(D) + 1 - e>> \in X => <<1, Len(D) + 1 - e>> \in Y)
    PROVE  <<1, Len(D) + 1 - d>> \in W
<1> DEFINE N == Len(D)
           As == <<Turned(D)>>
           Num(Z) == NumberOf(all, kept, Z)
           X == Target(As, "DFA", V, c)
           Y == Target(As, "DFA", W, c)
           p == N + 1 - d
           q == N + 1 - e
<1>1. Operands(As, "DFA") /\ ToSet(all.found) \subseteq SUBSET Places(As)
  BY DFASets DEF IsDFAOf
<1>2. N \in Nat /\ N >= 2 /\ p \in 1 .. N /\ q \in 1 .. N /\ q # 1 /\ 1 \in 1 .. N
  BY MoveFacts, SMTT(30)
<1>3. d = N + 1 - p /\ e = N + 1 - q
  BY <1>2
<1>4. V \in ToSet(all.found) /\ W \in ToSet(all.found) /\ Untold(A, Num(V), Num(W))
  BY DEF Alike
<1>5. V \in SUBSET Places(As) /\ W \in SUBSET Places(As)
  BY <1>1, <1>4
<1>6. \A s \in 1 .. N :
         /\ <<1, s>> \in X <=> s # 1 /\ \E t \in 1 .. N : <<1, t>> \in V /\ CharMove(D, c, N + 1 - s, N + 1 - t)
         /\ <<1, s>> \in Y <=> s # 1 /\ \E t \in 1 .. N : <<1, t>> \in W /\ CharMove(D, c, N + 1 - s, N + 1 - t)
  BY <1>1, <1>5, TurnedTarget
<1> HIDE DEF p, q, X, Y
<1>7. <<1, q>> \in X
  <2>1. <<1, p>> \in V /\ CharMove(D, c, N + 1 - q, N + 1 - p)
    BY <1>3 DEF p
  <2> QED BY <1>2, <1>6, <2>1
<1>8. X # {} /\ Y # {} /\ X \in ToSet(all.found) /\ Y \in ToSet(all.found)
      /\ Untold(A, Num(X), Num(Y))
  <2>1. /\ Num(V) \in DOMAIN A /\ Num(W) \in DOMAIN A
        /\ SearchRange(A[Num(V)].range, c) = 0 <=> X = {}
        /\ X # {} => SearchRange(A[Num(V)].range, c) = Num(X)
        /\ SearchRange(A[Num(W)].range, c) = 0 <=> Y = {}
        /\ Y # {} => SearchRange(A[Num(W)].range, c) = Num(Y)
    BY <1>4, NumberMoves DEF X, Y
  <2>2. WellFormed(A)
    BY DFAMoves
  <2> HIDE DEF Num, As
  <2>3. /\ SearchRange(A[Num(V)].range, c) = 0 <=> SearchRange(A[Num(W)].range, c) = 0
        /\ Untold(A, SearchRange(A[Num(V)].range, c), SearchRange(A[Num(W)].range, c))
    BY <1>4, <2>1, <2>2, UntoldFacts
  <2>4. X # {} /\ Y # {}
    BY <1>7, <2>1, <2>3
  <2>5. \A Z \in ToSet(all.found) : Target(As, "DFA", Z, c) # {} => Target(As, "DFA", Z, c) \in ToSet(all.found)
    BY DFASets DEF As
  <2> QED BY <1>4, <2>1, <2>3, <2>4, <2>5 DEF X, Y
<1>9. Alike(D, A, all, kept, X, Y)
  BY <1>2, <1>6, <1>8 DEF Alike
<1>10. <<1, q>> \in Y
  BY <1>7, <1>9 DEF q
<1>11. PICK t \in 1 .. N : <<1, t>> \in W /\ CharMove(D, c, N + 1 - q, N + 1 - t)
  BY <1>2, <1>6, <1>10
<1>12. N + 1 - t = d
  <2>1. /\ e \in DOMAIN D
        /\ \/ \A u : ~CharMove(D, c, e, u)
           \/ \A u : CharMove(D, c, e, u) <=> u = SearchRange(D[e].range, c)
    <3>1. e \in DOMAIN D
      BY <1>2, MoveFacts
    <3> QED BY <3>1, SearchMoves
  <2>2. CharMove(D, c, e, N + 1 - t)
    BY <1>3, <1>11
  <2> QED BY <2>1, <2>2
<1>13. t = p
  BY <1>2, <1>12 DEF p
<1> QED BY <1>11, <1>13 DEF p

\* Sets which are not told apart have the same states.
LEMMA AlikeEqual ==
    ASSUME NEW D, WellFormed(D), IsDeterministic(D), Entered(D), NEW A, NEW all, NEW kept,
           IsDFAOf(A, <<Turned(D)>>, "DFA", all, kept)
    PROVE  \A d \in 1 .. Len(D) - 1 : \A V, W : Alike(D, A, all, kept, V, W) =>
              (<<1, Len(D) + 1 - d>> \in V => <<1, Len(D) + 1 - d>> \in W)
<1> DEFINE N == Len(D)
           Same(d) == \A V, W : Alike(D, A, all, kept, V, W) =>
                         (<<1, N + 1 - d>> \in V => <<1, N + 1 - d>> \in W)
           M == {d \in 1 .. N - 1 : ~Same(d)}
<1> SUFFICES ASSUME M # {} PROVE FALSE
  OBVIOUS
<1>1. N \in Nat /\ N >= 2
  BY MoveFacts
<1>2. PICK d \in M : \A y \in M : d <= y
  <2>1. M \in SUBSET Nat
    BY <1>1
  <2> HIDE DEF M
  <2> QED BY <2>1, LeastNumber
<1>3. PICK V, W : Alike(D, A, all, kept, V, W) /\ <<1, N + 1 - d>> \in V /\ <<1, N + 1 - d>> \notin W
  OBVIOUS
<1>4. d \in 1 .. N - 1
  OBVIOUS
\* The first state became the end state of the reversed automaton.
<1>5. d # 1
  <2> SUFFICES ASSUME d = 1 PROVE FALSE
    OBVIOUS
  <2>1. Turned(D) = <<Turned(D)>>[1] /\ Len(Turned(D)) = N
    BY TurnedMoves
  <2>2. \A Z : IsEnd(<<Turned(D)>>, "DFA", Z) <=> <<1, N>> \in Z
    BY <2>1 DEF IsEnd, HasEnd
  <2>3. V \in ToSet(all.found) /\ W \in ToSet(all.found) /\ Untold(A, NumberOf(all, kept, V), NumberOf(all, kept, W))
    BY <1>3 DEF Alike
  <2>4. /\ NumberOf(all, kept, V) \in DOMAIN A /\ NumberOf(all, kept, W) \in DOMAIN A
        /\ A[NumberOf(all, kept, V)].empty # <<>> <=> <<1, N>> \in V
        /\ A[NumberOf(all, kept, W)].empty # <<>> <=> <<1, N>> \in W
    BY <2>2, <2>3, NumberMoves
  <2>5. WellFormed(A)
    BY DFAMoves
  <2>6. A[NumberOf(all, kept, V)].empty = <<>> <=> A[NumberOf(all, kept, W)].empty = <<>>
    BY <2>3, <2>4, <2>5, UntoldFacts
  <2>7. N + 1 - d = N
    BY <1>1
  <2> QED BY <1>3, <2>4, <2>6, <2>7
<1>6. PICK e \in 1 .. d - 1 : \E c \in Chars : CharMove(D, c, e, d)
  <2>1. d \in 2 .. N - 1
    BY <1>1, <1>4, <1>5
  <2> QED BY <2>1 DEF Entered
<1>7. PICK c \in Chars : CharMove(D, c, e, d)
  BY <1>6
<1>8. e \in 1 .. N - 1 /\ ~(d <= e)
  BY <1>1, <1>4
<1>9. Same(e)
  BY <1>2, <1>8
<1> HIDE DEF M
<1>10. \A X, Y : Alike(D, A, all, kept, X, Y) => (<<1, N + 1 - e>> \in X => <<1, N + 1 - e>> \in Y)
  BY <1>9
<1>11. <<1, N + 1 - d>> \in W
  BY <1>3, <1>4, <1>7, <1>8, <1>10, AlikeStep
<1> QED BY <1>3, <1>11

\* What makedfa_automat makes of one automaton.
LEMMA OneDFA ==
    ASSUME NEW B, GoodAutomaton(B)
    PROVE  IsDFAOf(MakeDFA(<<B>>, "DFA"), <<RemoveSingle(B)>>, "DFA",
                   Explored(<<B>>, "DFA"), KeptOf(<<B>>, "DFA"))
<1> DEFINE Bs == <<B>>
<1>1. GoodOperands(Bs, "DFA") /\ Bs[1] = B /\ DOMAIN Bs = {1} /\ Len(Bs) = 1
  BY OneOperand
<1> HIDE DEF Bs
<1>2. /\ Operands(Shortened(Bs), "DFA")
      /\ Len(Shortened(Bs)) = 1 /\ Shortened(Bs)[1] = RemoveSingle(B)
  BY <1>1, ShortenedOperands
<1>3. Shortened(Bs) = <<RemoveSingle(B)>>
  <2> DEFINE h == [k \in 1 .. 1 |-> RemoveSingle(Bs[k])]
             S == {RemoveSingle(B)}
  <2>1. Shortened(Bs) = h \o <<>>
    BY <1>1 DEF Shortened, MapSeq, Build
  <2>2. h \in [1 .. 1 -> S]
    BY <1>1
  <2>3. h = <<RemoveSingle(B)>>
    BY <1>1
  <2> HIDE DEF h, S
  <2>4. 1 \in Nat
    OBVIOUS
  <2>5. h \o <<>> = h
    BY ONLY <2>2, <2>4, BuildSeq
  <2> QED BY <2>1, <2>3, <2>5
<1>4. IsDFAOf(MakeDFA(Bs, "DFA"), Shortened(Bs), "DFA", Explored(Bs, "DFA"), KeptOf(Bs, "DFA"))
  BY <1>1, MakeDFAFacts DEF IsDFAOf
<1> QED BY <1>3, <1>4 DEF Bs

LEMMA DFAEntered ==
    ASSUME NEW A, NEW As, NEW op, NEW all, NEW kept, IsDFAOf(A, As, op, all, kept)
    PROVE  Entered(A)
<1>1. Len(A) = Len(kept) + 1 /\ Len(kept) \in Nat
  BY DFAMoves, DFASets
<1>2. \A d \in 2 .. Len(kept) : \E e \in 1 .. d - 1 : \E c \in Chars : CharMove(A, c, e, d)
  BY DFAFound
<1>3. 2 .. Len(A) - 1 = 2 .. Len(kept)
  BY <1>1
<1> QED BY <1>2, <1>3 DEF Entered

\* minimize_automat: every two states but the start and the end state are told
\* apart by a string.
LEMMA MinimizedDistinct ==
    ASSUME NEW B, GoodAutomaton(B)
    PROVE  \A i, j \in 2 .. Len(Minimize(B)) - 1 : i # j => <<i, j>> \in Distinct(Minimize(B))
<1> DEFINE D == MakeDFA(<<OpReverse(B)>>, "DFA")
           A == Minimize(B)
           As == <<Turned(D)>>
           all == Explored(<<OpReverse(D)>>, "DFA")
           kept == KeptOf(<<OpReverse(D)>>, "DFA")
           N == Len(D)
           m == Len(kept)
<1>1. GoodAutomaton(OpReverse(B))
  BY ReverseTraps
<1>2. GoodAutomaton(D) /\ IsDeterministic(D) /\ WellFormed(D)
  BY <1>1, OneOperand, MakeDFAGood DEF GoodAutomaton
<1>3. Entered(D)
  BY <1>1, OneDFA, DFAEntered
<1> HIDE DEF D
<1>4. A = MakeDFA(<<OpReverse(D)>>, "DFA")
  BY DEF Minimize, D
<1>5. IsDFAOf(A, As, "DFA", all, kept)
  BY <1>2, <1>4, ReverseTraps, OneDFA DEF Turned
<1> HIDE DEF A, all, kept
<1>6. Len(A) = m + 1 /\ m \in Nat /\ N \in Nat /\ N >= 2
  BY <1>2, <1>5, DFAMoves, DFASets, MoveFacts
<1>7. \A d \in 1 .. N - 1 : \A V, W : Alike(D, A, all, kept, V, W) =>
         (<<1, N + 1 - d>> \in V => <<1, N + 1 - d>> \in W)
  BY <1>2, <1>3, <1>5, AlikeEqual
<1>8. /\ Operands(As, "DFA") /\ ToSet(all.found) \subseteq SUBSET Places(As)
      /\ \A d \in 1 .. m : SetOf(all, kept, d) \in ToSet(all.found)
  BY <1>5, DFASets DEF IsDFAOf
<1>9. \A Z \in SUBSET Places(As) : \A pl \in Z : \E s \in 1 .. N : pl = <<1, s>>
  <2>1. DOMAIN As = {1} /\ As[1] = Turned(D) /\ DOMAIN Turned(D) = 1 .. N
    BY <1>2, TurnedMoves
  <2> HIDE DEF As
  <2> QED BY <2>1 DEF Places
\* A set which is not the first does not hold the end state of D.
<1>10. ASSUME NEW d \in 2 .. m
       PROVE  /\ SetOf(all, kept, d) \in ToSet(all.found) /\ <<1, 1>> \notin SetOf(all, kept, d)
              /\ NumberOf(all, kept, SetOf(all, kept, d)) = d
  <2>1. d \in 1 .. m
    BY <1>6
  <2>2. SetOf(all, kept, d) \in ToSet(all.found) /\ NumberOf(all, kept, SetOf(all, kept, d)) = d
    BY <1>5, <1>8, <2>1, KeptOnce
  <2>3. PICK e \in 1 .. d - 1 : \E c \in Chars : Target(As, "DFA", SetOf(all, kept, e), c) = SetOf(all, kept, d)
    BY <1>5, DFAFound
  <2>4. PICK c \in Chars : Target(As, "DFA", SetOf(all, kept, e), c) = SetOf(all, kept, d)
    BY <2>3
  <2>5. e \in 1 .. m
    BY <1>6
  <2>6. SetOf(all, kept, e) \in SUBSET Places(As)
    BY <1>8, <2>5
  <2>7. 1 \in 1 .. N
    BY <1>6
  <2>8. <<1, 1>> \notin Target(As, "DFA", SetOf(all, kept, e), c)
    BY <1>2, <1>8, <2>6, <2>7, TurnedTarget
  <2> QED BY <2>2, <2>4, <2>8
<1>11. ASSUME NEW i \in 2 .. m, NEW j \in 2 .. m, <<i, j>> \notin Distinct(A)
       PROVE  SetOf(all, kept, i) \subseteq SetOf(all, kept, j) /\ SetOf(all, kept, j) \subseteq SetOf(all, kept, i)
  <2> DEFINE V == SetOf(all, kept, i)
             W == SetOf(all, kept, j)
  <2>1. Alike(D, A, all, kept, V, W) /\ Alike(D, A, all, kept, W, V)
    BY <1>10, <1>11 DEF Alike, Untold
  <2>2. V \in SUBSET Places(As) /\ W \in SUBSET Places(As) /\ <<1, 1>> \notin V /\ <<1, 1>> \notin W
    BY <1>8, <2>1 DEF Alike
  <2> HIDE DEF V, W
  <2>3. ASSUME NEW X, NEW Y, Alike(D, A, all, kept, X, Y), X \in SUBSET Places(As), <<1, 1>> \notin X PROVE X \subseteq Y
    <3> SUFFICES ASSUME NEW pl \in X PROVE pl \in Y
      OBVIOUS
    <3>1. PICK s \in 1 .. N : pl = <<1, s>>
      BY <1>9, <2>3
    <3>2. s # 1
      BY <2>3, <3>1
    <3> DEFINE d == N + 1 - s
    <3>3. d \in 1 .. N - 1 /\ N + 1 - d = s
      BY <1>6, <3>2
    <3> HIDE DEF d
    <3>4. <<1, N + 1 - d>> \in X => <<1, N + 1 - d>> \in Y
      BY <1>7, <2>3, <3>3
    <3> QED BY <3>1, <3>3, <3>4
  <2> QED BY <2>1, <2>2, <2>3 DEF V, W
<1>12. ASSUME NEW i \in 2 .. m, NEW j \in 2 .. m, i # j PROVE <<i, j>> \in Distinct(A)
  <2> SUFFICES ASSUME <<i, j>> \notin Distinct(A) PROVE FALSE
    OBVIOUS
  <2>1. SetOf(all, kept, i) = SetOf(all, kept, j)
    BY <1>11
  <2>2. i \in 1 .. m /\ j \in 1 .. m
    BY <1>6
  <2>3. i = j
    BY <1>5, <2>1, <2>2, KeptOnce
  <2> QED BY <1>12, <2>3
<1>13. 2 .. Len(A) - 1 = 2 .. m
  BY <1>6
<1> QED BY <1>12, <1>13 DEF A

\* minimize_automat leaves no two states which accept the same strings but for
\* the start and the end state.
THEOREM MinimizedIsMinimal == AutomatSpec => MinimalBehindStart
<1> DEFINE Minimal == \A x \in Names : MinimizeOf(x) =>
                         \A i, j \in 2 .. Len(states'[x]) - 1 : i # j => <<i, j>> \in Distinct(states'[x])
<1>1. AutomatInv /\ [AutomatNext]_automatVars => [Minimal]_automatVars
  <2> SUFFICES ASSUME AutomatInv, NEW x \in Names, MinimizeOf(x)
               PROVE  \A i, j \in 2 .. Len(states'[x]) - 1 : i # j => <<i, j>> \in Distinct(states'[x])
    OBVIOUS
  <2>1. GoodAutomaton(states[x]) /\ states \in [Names -> Automata]
    BY DEF MinimizeOf, AutomatInv, ObjectsInv
  <2>2. states'[x] = Minimize(states[x])
    BY <2>1 DEF MinimizeOf, Becomes
  <2> HIDE DEF Minimal
  <2> QED BY <2>1, <2>2, MinimizedDistinct
<1> QED BY <1>1, AutomatInvariant, PTL DEF AutomatSpec, MinimalBehindStart

-----------------------------------------------------------------------------
(* WaitList, for any finite set of threads and any tasks.  WLInv is        *)
(* inductive: one lemma for every action of a thread, cited by the theorem *)
(* WaitListInvariant.                                                      *)

\* init_waitlist establishes the invariant.
LEMMA WaitListInitInv == Init => WLInv
<1> SUFFICES ASSUME Init PROVE WLInv
  OBVIOUS
<1>1. TypeOK
  BY DEF Init, ThreadInit, TypeOK, ThreadTypeOK
<1>2. ListInv
  BY EmptyList DEF Init, ThreadInit, ListInv
<1>3. FlagInv /\ LockInv /\ TaskInv
  BY ThreadsAssumption DEF Init, FlagInv, LockInv, TaskInv, Wakers, Locks
<1>4. TaskDelivered /\ NoLostWakeup
  BY DEF Init, TaskDelivered, NoLostWakeup
<1> QED BY <1>1, <1>2, <1>3, <1>4 DEF WLInv

\* wait_waitlist is entered.
LEMMA WaitInv ==
    ASSUME WLInv, NEW t \in Threads, Wait(t)
    PROVE  WLInv'
<1> USE DEF WLInv, Wait, Goto, listVars, taskVars, callVars, threadVars
<1>1. TypeOK'
  BY DEF TypeOK, ThreadTypeOK, Spins
<1>2. ListInv'
  BY DEF ListInv, Waits
<1>3. FlagInv'
  BY DEF FlagInv, Spins
<1>4. LockInv'
  BY DEF LockInv, Waits, Wakers, Locks
<1>5. TaskInv'
  BY DEF TaskInv
<1>6. (TaskDelivered /\ NoLostWakeup)'
  BY DEF TaskDelivered, NoLostWakeup, Waits
<1> QED BY <1>1, <1>2, <1>3, <1>4, <1>5, <1>6

\* Setting lockflag changes nothing else.
LEMMA LockFlagInv ==
    ASSUME WLInv, NEW t \in Threads, LockFlag(t)
    PROVE  WLInv'
<1> USE DEF WLInv, LockFlag, listVars, taskVars, callVars, threadVars
<1>1. TypeOK'
  BY DEF TypeOK, ThreadTypeOK
<1>2. ListInv'
  BY DEF ListInv
<1>3. FlagInv'
  BY DEF FlagInv
<1>4. LockInv'
  BY DEF LockInv
<1>5. TaskInv'
  BY DEF TaskInv
<1>6. (TaskDelivered /\ NoLostWakeup)'
  BY DEF TaskDelivered, NoLostWakeup
<1> QED BY <1>1, <1>2, <1>3, <1>4, <1>5, <1>6

\* The thread appends itself: it was in no list before.
LEMMA InsertLastInv ==
    ASSUME WLInv, NEW t \in Threads, InsertLast(t)
    PROVE  WLInv'
<1> USE DEF WLInv, InsertLast, In, UnlockFlag, Link, Goto, listVars, taskVars, callVars, threadVars
<1>0. /\ list' \in Seq(Threads)
      /\ IsInjective(list')
      /\ ToSet(list') = ToSet(list) \cup {t}
      /\ Len(list') = Len(list) + 1
      /\ Len(list) \in Nat
      /\ ~linked[t]
  <2>1. t \notin ToSet(list) /\ ~linked[t]
    BY DEF ListInv, Waits
  <2>2. list \in Seq(Threads)
    BY DEF TypeOK
  <2> QED BY <2>1, <2>2, AppendList DEF ListInv
<1>1. TypeOK'
  BY DEF TypeOK, ThreadTypeOK, Waits
<1>2. ListInv'
  BY <1>0 DEF ListInv, TypeOK, ThreadTypeOK, Waits
<1>3. FlagInv'
  BY ThreadsAssumption DEF FlagInv
<1>4. LockInv'
  BY DEF LockInv, Waits, Wakers, Locks
<1>5. TaskInv'
  BY DEF TaskInv
<1>6. (TaskDelivered /\ NoLostWakeup)'
  BY DEF TaskDelivered, NoLostWakeup, TypeOK, ThreadTypeOK, Waits
<1> QED BY <1>1, <1>2, <1>3, <1>4, <1>5, <1>6

\* suspend_thread returns.
LEMMA SuspendInv ==
    ASSUME WLInv, NEW t \in Threads, Suspend(t)
    PROVE  WLInv'
<1> USE DEF WLInv, Suspend, SuspendThread, Goto, listVars, taskVars, callVars, threadVars
<1>1. TypeOK'
  BY DEF TypeOK, ThreadTypeOK, Waits
<1>2. ListInv'
  BY DEF ListInv, Waits
<1>3. FlagInv'
  BY DEF FlagInv, Spins
<1>4. LockInv'
  BY DEF LockInv, Waits, Wakers, Locks
<1>5. TaskInv'
  BY DEF TaskInv
<1>6. (TaskDelivered /\ NoLostWakeup)'
  BY DEF TaskDelivered, NoLostWakeup, TypeOK, Waits
<1> QED BY <1>1, <1>2, <1>3, <1>4, <1>5, <1>6

\* The thread returns with its own flag clear, so its task is set.
LEMMA IsWakeupInv ==
    ASSUME WLInv, NEW t \in Threads, IsWakeup(t)
    PROVE  WLInv'
<1> USE DEF WLInv, IsWakeup, CanReadSelf, Goto, listVars, taskVars, callVars, threadVars
<1>1. TypeOK'
  BY DEF TypeOK, ThreadTypeOK
<1>2. ListInv'
  BY DEF ListInv
<1>3. FlagInv'
  BY DEF FlagInv, Spins
<1>4. LockInv'
  BY ThreadsAssumption DEF LockInv, Wakers, Locks
<1>5. TaskInv'
  BY DEF TaskInv
<1>6. (TaskDelivered /\ NoLostWakeup)'
  BY ThreadsAssumption DEF TaskDelivered, NoLostWakeup, TaskInv
<1> QED BY <1>1, <1>2, <1>3, <1>4, <1>5, <1>6

\* The thread was resumed by somebody else.
LEMMA NoWakeupInv ==
    ASSUME WLInv, NEW t \in Threads, NoWakeup(t)
    PROVE  WLInv'
<1> USE DEF WLInv, NoWakeup, CanReadSelf, Goto, listVars, taskVars, callVars, threadVars
<1>1. TypeOK'
  BY DEF TypeOK, ThreadTypeOK, Waits
<1>2. ListInv'
  BY DEF ListInv, Waits
<1>3. FlagInv'
  BY DEF FlagInv, Spins
<1>4. LockInv'
  BY DEF LockInv, Wakers, Locks
<1>5. TaskInv'
  BY DEF TaskInv
<1>6. (TaskDelivered /\ NoLostWakeup)'
  BY DEF TaskDelivered, NoLostWakeup, Waits
<1> QED BY <1>1, <1>2, <1>3, <1>4, <1>5, <1>6

\* trywakeup_waitlist is called.
LEMMA TryWakeupInv ==
    ASSUME WLInv, NEW t \in Threads, NEW m, TryWakeup(t, m)
    PROVE  WLInv'
<1> USE DEF WLInv, TryWakeup, Goto, listVars, taskVars, callVars, threadVars
<1>1. TypeOK'
  BY DEF TypeOK, ThreadTypeOK, Spins
<1>2. ListInv'
  BY DEF ListInv, Waits
<1>3. FlagInv'
  BY DEF FlagInv, Spins
<1>4. LockInv'
  BY DEF LockInv, Waits, Wakers, Locks
<1>5. TaskInv'
  BY DEF TaskInv
<1>6. (TaskDelivered /\ NoLostWakeup)'
  BY DEF TaskDelivered, NoLostWakeup, Waits
<1> QED BY <1>1, <1>2, <1>3, <1>4, <1>5, <1>6

\* trywakeup_waitlist returns EAGAIN.
LEMMA NobodyWaitsInv ==
    ASSUME WLInv, NEW t \in Threads, NobodyWaits(t)
    PROVE  WLInv'
<1> USE DEF WLInv, NobodyWaits, In, UnlockFlag, Caller, Goto, listVars, taskVars, callVars, threadVars
<1>1. TypeOK'
  BY DEF TypeOK, ThreadTypeOK
<1>2. ListInv'
  BY DEF ListInv, Waits
<1>3. FlagInv'
  BY ThreadsAssumption DEF FlagInv
<1>4. LockInv'
  BY DEF LockInv, Waits, Wakers, Locks
<1>5. TaskInv'
  BY DEF TaskInv
<1>6. (TaskDelivered /\ NoLostWakeup)'
  BY DEF TaskDelivered, NoLostWakeup, Waits
<1> QED BY <1>1, <1>2, <1>3, <1>4, <1>5, <1>6

\* The first thread leaves the list and is locked by its waker.
LEMMA TakeFirstInv ==
    ASSUME WLInv, NEW t \in Threads, TakeFirst(t)
    PROVE  WLInv'
<1> USE DEF WLInv, TakeFirst, In, UnlockFlag, LeaveList, Unlink, Goto, listVars, taskVars, callVars, threadVars
<1> DEFINE f == Head(list)
<1>0. /\ list' \in Seq(Threads)
      /\ IsInjective(list')
      /\ ToSet(list') = ToSet(list) \ {f}
      /\ Len(list') = Len(list) - 1
      /\ Len(list) \in Nat \ {0}
      /\ f \in Threads /\ linked[f]
      /\ f # t
  <2>1. list \in Seq(Threads)
    BY DEF TypeOK
  <2>2. f \in Threads /\ f \in ToSet(list) /\ linked[f]
    BY <2>1, TailList DEF ListInv
  <2>3. f # t
    BY <2>2 DEF ListInv, Waits
  <2> QED BY <2>1, <2>3, TailList DEF ListInv
<1> HIDE DEF f
<1>1. TypeOK'
  BY DEF TypeOK, ThreadTypeOK, Wakers, Locks, ListInv
<1>2. ListInv'
  BY <1>0 DEF f, ListInv, TypeOK, ThreadTypeOK, Waits
<1>3. FlagInv'
  BY ThreadsAssumption DEF FlagInv
<1>4. LockInv'
  BY <1>0 DEF f, ListInv, LockInv, TypeOK, ThreadTypeOK, Waits, Wakers, Locks
<1>5. TaskInv'
  BY ThreadsAssumption DEF TaskInv, LockInv, TypeOK, Locks
<1>6. (TaskDelivered /\ NoLostWakeup)'
  BY <1>4 DEF TaskDelivered, NoLostWakeup, LockInv, TypeOK, Waits, Wakers
<1> QED BY <1>1, <1>2, <1>3, <1>4, <1>5, <1>6

\* The waker sets the task of the thread it has locked.
LEMMA SetTaskInv ==
    ASSUME WLInv, NEW t \in Threads, SetTask(t)
    PROVE  WLInv'
<1> USE DEF WLInv, SetTask, Goto, listVars, taskVars, callVars, threadVars
<1>1. TypeOK'
  BY DEF TypeOK, ThreadTypeOK, Wakers, Locks
<1>2. ListInv'
  BY DEF ListInv, Waits
<1>3. FlagInv'
  BY DEF FlagInv, Spins
<1>4. LockInv'
  BY DEF LockInv, Waits, Wakers, Locks
<1>5. TaskInv'
  BY DEF TaskInv, LockInv, TypeOK
<1>6. (TaskDelivered /\ NoLostWakeup)'
  BY DEF TaskDelivered, NoLostWakeup, LockInv, Waits, Locks
<1> QED BY <1>1, <1>2, <1>3, <1>4, <1>5, <1>6

\* The waker unlocks the thread, which may return from now on.
LEMMA UnlockThreadInv ==
    ASSUME WLInv, NEW t \in Threads, UnlockThread(t)
    PROVE  WLInv'
<1> USE DEF WLInv, UnlockThread, Goto, listVars, taskVars, callVars, threadVars
<1>1. TypeOK'
  BY DEF TypeOK, ThreadTypeOK, Wakers
<1>2. ListInv'
  BY DEF ListInv, Waits
<1>3. FlagInv'
  BY DEF FlagInv, Spins
<1>4. LockInv'
  BY DEF LockInv, TypeOK, Waits, Wakers, Locks
<1>5. TaskInv'
  BY DEF TaskInv
<1>6. (TaskDelivered /\ NoLostWakeup)'
  BY DEF TaskDelivered, NoLostWakeup, Waits
<1> QED BY <1>1, <1>2, <1>3, <1>4, <1>5, <1>6

\* The waker sends SIGINT and forgets the thread.
LEMMA ResumeInv ==
    ASSUME WLInv, NEW t \in Threads, Resume(t)
    PROVE  WLInv'
<1> USE DEF WLInv, Resume, ResumeTaken, ResumeThread, Caller, Goto, listVars, taskVars, callVars, threadVars
<1>1. TypeOK'
  BY DEF TypeOK, ThreadTypeOK
<1>2. ListInv'
  BY DEF ListInv, Waits
<1>3. FlagInv'
  BY DEF FlagInv, Spins
<1>4. LockInv'
  BY DEF LockInv, TypeOK, Waits, Wakers, Locks
<1>5. TaskInv'
  BY DEF TaskInv
<1>6. (TaskDelivered /\ NoLostWakeup)'
  BY DEF TaskDelivered, NoLostWakeup, TypeOK, ThreadTypeOK, Waits
<1> QED BY <1>1, <1>2, <1>3, <1>4, <1>5, <1>6

\* free_waitlist is called.
LEMMA FreeInv ==
    ASSUME WLInv, NEW t \in Threads, Free(t)
    PROVE  WLInv'
<1> USE DEF WLInv, Free, Goto, listVars, taskVars, callVars, threadVars
<1>1. TypeOK'
  BY DEF TypeOK, ThreadTypeOK
<1>2. ListInv'
  BY DEF ListInv, Waits
<1>3. FlagInv'
  BY DEF FlagInv, Spins
<1>4. LockInv'
  BY DEF LockInv, Waits, Wakers, Locks
<1>5. TaskInv'
  BY DEF TaskInv
<1>6. (TaskDelivered /\ NoLostWakeup)'
  BY DEF TaskDelivered, NoLostWakeup, Waits
<1> QED BY <1>1, <1>2, <1>3, <1>4, <1>5, <1>6

\* free_waitlist calls trywakeup_waitlist.
LEMMA FreeNextInv ==
    ASSUME WLInv, NEW t \in Threads, FreeNext(t)
    PROVE  WLInv'
<1> USE DEF WLInv, FreeNext, Goto, listVars, taskVars, callVars, threadVars
<1>1. TypeOK'
  BY DEF TypeOK, ThreadTypeOK, Spins
<1>2. ListInv'
  BY DEF ListInv, Waits
<1>3. FlagInv'
  BY DEF FlagInv, Spins
<1>4. LockInv'
  BY DEF LockInv, Waits, Wakers, Locks
<1>5. TaskInv'
  BY DEF TaskInv
<1>6. (TaskDelivered /\ NoLostWakeup)'
  BY DEF TaskDelivered, NoLostWakeup, Waits
<1> QED BY <1>1, <1>2, <1>3, <1>4, <1>5, <1>6

\* free_waitlist returns.
LEMMA FreeDoneInv ==
    ASSUME WLInv, NEW t \in Threads, FreeDone(t)
    PROVE  WLInv'
<1> USE DEF WLInv, FreeDone, Goto, listVars, taskVars, callVars, threadVars
<1>1. TypeOK'
  BY DEF TypeOK, ThreadTypeOK
<1>2. ListInv'
  BY DEF ListInv, TypeOK, Waits
<1>3. FlagInv'
  BY DEF FlagInv, Spins
<1>4. LockInv'
  BY DEF LockInv, Waits, Wakers, Locks
<1>5. TaskInv'
  BY DEF TaskInv
<1>6. (TaskDelivered /\ NoLostWakeup)'
  BY DEF TaskDelivered, NoLostWakeup, Waits
<1> QED BY <1>1, <1>2, <1>3, <1>4, <1>5, <1>6

\* SIGINT is sent by somebody else.
LEMMA SpuriousInv ==
    ASSUME WLInv, NEW t \in Threads, Spurious(t)
    PROVE  WLInv'
<1> USE DEF WLInv, Spurious, SpuriousResume, ResumeThread, listVars, taskVars, callVars, threadVars
<1>1. TypeOK'
  BY DEF TypeOK, ThreadTypeOK
<1>2. ListInv'
  BY DEF ListInv
<1>3. FlagInv'
  BY DEF FlagInv
<1>4. LockInv'
  BY DEF LockInv
<1>5. TaskInv'
  BY DEF TaskInv
<1>6. (TaskDelivered /\ NoLostWakeup)'
  BY DEF TaskDelivered, NoLostWakeup
<1> QED BY <1>1, <1>2, <1>3, <1>4, <1>5, <1>6

\* Every step of every thread preserves the invariant.
LEMMA WaitListNextInv == WLInv /\ [Next]_vars => WLInv'
<1> SUFFICES ASSUME WLInv, [Next]_vars PROVE WLInv'
  OBVIOUS
<1>1. CASE UNCHANGED vars
  BY <1>1 DEF vars, listVars, taskVars, callVars, threadVars, WLInv, TypeOK, ThreadTypeOK,
     ListInv, FlagInv, LockInv, TaskInv, TaskDelivered, NoLostWakeup
<1>2. ASSUME NEW t \in Threads, Step(t) PROVE WLInv'
  BY <1>2, InsertLastInv, SuspendInv, IsWakeupInv, NoWakeupInv, NobodyWaitsInv, TakeFirstInv,
     SetTaskInv, UnlockThreadInv, ResumeInv, FreeNextInv, FreeDoneInv DEF Step
<1>3. ASSUME NEW t \in Threads, NEW m \in Tasks, TryWakeup(t, m) PROVE WLInv'
  BY <1>3, TryWakeupInv
<1>4. ASSUME NEW t \in Threads, Wait(t) \/ Free(t) \/ LockFlag(t) \/ Spurious(t)
      PROVE  WLInv'
  BY <1>4, WaitInv, FreeInv, LockFlagInv, SpuriousInv
<1> QED BY <1>1, <1>2, <1>3, <1>4 DEF Next

\* In every state the list, the flags of the threads, their tasks and the places
\* of the threads in waitlist.c agree.
THEOREM WaitListInvariant == Spec => []WLInv
<1> QED BY WaitListInitInv, WaitListNextInv, PTL DEF Spec

\* A thread which returned from wait_waitlist has the task of the call of
\* trywakeup_waitlist which took it out of the list.
THEOREM TasksDelivered == Spec => []TaskDelivered
<1>1. WLInv => TaskDelivered
  BY DEF WLInv
<1> QED BY <1>1, WaitListInvariant, PTL

\* No wakeup of trywakeup_waitlist is lost.
THEOREM NoWakeupIsLost == Spec => []NoLostWakeup
<1>1. WLInv => NoLostWakeup
  BY DEF WLInv
<1> QED BY <1>1, WaitListInvariant, PTL

=============================================================================
