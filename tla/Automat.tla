------------------------------- MODULE Automat ------------------------------
(***************************************************************************)
(* Objects of type automat_t (C-kern/proglang/automat.c) and the memory    *)
(* heaps (automat_mman_t) their states lie on.  Every function of the      *)
(* interface is an action; what it builds is defined in module Automaton.  *)
(*                                                                         *)
(* lang is the reference: the words up to length MaxWord which the regular *)
(* expression of the object describes.  It is computed from the operations *)
(* alone, never from the automaton.                                        *)
(***************************************************************************)
EXTENDS Automaton

CONSTANTS Names,     \* the automat_t of a client
          Heaps,     \* bound: heaps which may be in use at once
          Matches,   \* inputs of initmatch_automat: sequences of pairs from, to
          Extend,    \* input of extendmatch_automat
          MaxWord,   \* bound: length of the words which are matched
          MaxStates, \* bound: states of an automaton
          MaxOps     \* bound: number of operations

ASSUME AutomatAssumption == /\ MaxChar \in Nat /\ MaxWord \in Nat \ {0} /\ MaxStates \in Nat /\ MaxOps \in Nat
                            /\ IsFiniteSet(Names) /\ Heaps \subseteq Nat \ {0}
                            /\ Matches \subseteq Seq(Chars \X Chars) /\ Extend \in Seq(Chars \X Chars)

VARIABLES states,   \* states[x]: list of states of object x; <<>> if x is automat_FREE
          isDFA,
          mman,     \* the heap of x, or 0
          onHeaps,  \* the heaps on which the states of x were allocated
          refcount, \* refcount[h]: member of the heap; 0 if it does not exist
          lang,
          ops       \* operations so far

heapVars == <<mman, onHeaps, refcount>>
automatVars == <<states, isDFA, heapVars, lang, ops>>

Words(n) == UNION {[1 .. k -> Chars] : k \in 0 .. n}
Concat(P, Q) == {w \in {u \o v : u \in P, v \in Q} : Len(w) <= MaxWord}

\* Words of found followed by any number of words of P.
Plus(P, found) == Loop(SUBSET Words(MaxWord), [Q \in SUBSET Words(MaxWord) |-> Q \cup Concat(Q, P)], found)

WordsOf(ranges) == {<<c>> : c \in {c \in Chars : \E k \in DOMAIN ranges :
                                          ranges[k][1] <= c /\ c <= ranges[k][2]}}

AutomatInit == /\ states = [x \in Names |-> <<>>]
        /\ isDFA = [x \in Names |-> FALSE]
        /\ mman = [x \in Names |-> 0]
        /\ onHeaps = [x \in Names |-> {}]
        /\ refcount = [h \in Heaps |-> 0]
        /\ lang = [x \in Names |-> {}]
        /\ ops = 0

IsFree(x) == states[x] = <<>>
NewHeap == CHOOSE h \in Heaps : refcount[h] = 0
CanAllocate == \E h \in Heaps : refcount[h] = 0

\* x becomes the automaton A which matches the words P.
Becomes(x, A, dfa, P) ==
    /\ Len(A) <= MaxStates
    /\ states' = [states EXCEPT ![x] = A]
    /\ isDFA' = [isDFA EXCEPT ![x] = dfa]
    /\ lang' = [lang EXCEPT ![x] = P]

\* The use of heaps after incruse_automatmman(h).
Used(h) == [refcount EXCEPT ![h] = @ + 1]

\* The memory of a new object: that of use_mman, or a new heap.
Allocate(x, use_mman) ==
    /\ use_mman \in {n \in Names : ~IsFree(n)} \/ (use_mman = x /\ CanAllocate)
    /\ LET h == IF use_mman = x THEN NewHeap ELSE mman[use_mman]
       IN  /\ mman' = [mman EXCEPT ![x] = h]
           /\ onHeaps' = [onHeaps EXCEPT ![x] = {h}]
           /\ refcount' = Used(h)

Count == ops < MaxOps /\ ops' = ops + 1

-----------------------------------------------------------------------------
(* lifetime.  use_mman = x stands for the null pointer. *)

InitEmpty(x, use_mman) ==
    /\ Count /\ IsFree(x)
    /\ Allocate(x, use_mman)
    /\ Becomes(x, Empty, FALSE, {<<>>})

InitMatch(x, use_mman, ranges) ==
    /\ Count /\ IsFree(x)
    /\ Allocate(x, use_mman)
    /\ Becomes(x, Match(ranges), FALSE, WordsOf(ranges))

InitCopy(x, y, use_mman) ==
    /\ Count /\ IsFree(x) /\ ~IsFree(y)
    /\ Allocate(x, use_mman)
    /\ Becomes(x, states[y], isDFA[y], lang[y])

InitReverse(x, y, use_mman) ==
    /\ Count /\ IsFree(x) /\ ~IsFree(y)
    /\ Allocate(x, use_mman)
    /\ Becomes(x, OpReverse(states[y]), FALSE, {Reverse(w) : w \in lang[y]})

FreeAutomat(x) ==
    /\ Count /\ ~IsFree(x)
    /\ Becomes(x, <<>>, FALSE, {})
    /\ refcount' = [refcount EXCEPT ![mman[x]] = @ - 1]
    /\ mman' = [mman EXCEPT ![x] = 0]
    /\ onHeaps' = [onHeaps EXCEPT ![x] = {}]

\* "Unchecked Precondition: ndfa initialized with initmatch_automat"
ExtendMatchOf(x) ==
    /\ Count
    /\ \E ranges \in Matches : states[x] = Match(ranges)
    /\ Becomes(x, ExtendMatch(states[x], Extend), FALSE, lang[x] \cup WordsOf(Extend))
    /\ UNCHANGED heapVars

-----------------------------------------------------------------------------
(* operations *)

\* Mistake: the states of an object on another heap are not copied.
CopiedBug(x, y) == FALSE

\* opsequence_automat and opor_automat copy an object which is on another heap.
Copied(x, y) == mman[x] # mman[y]

\* x takes over the states of y, or of its copy, and y is automat_FREE.
Combine(x, y, A, P) ==
    /\ Count
    /\ x # y /\ ~IsFree(x) /\ ~IsFree(y)
    /\ Len(A) <= MaxStates
    /\ states' = [states EXCEPT ![x] = A, ![y] = <<>>]
    /\ isDFA' = [isDFA EXCEPT ![x] = FALSE, ![y] = FALSE]
    /\ lang' = [lang EXCEPT ![x] = P, ![y] = {}]
    /\ mman' = [mman EXCEPT ![y] = 0]
    /\ onHeaps' = [onHeaps EXCEPT ![x] = IF Copied(x, y) THEN @ ELSE @ \cup onHeaps[y], ![y] = {}]
    /\ refcount' = [refcount EXCEPT ![mman[y]] = @ - 1]

Sequence(x, y) == Combine(x, y, OpSequence(states[x], states[y]), Concat(lang[x], lang[y]))

Or(x, y) == Combine(x, y, OpOr(states[x], states[y]), lang[x] \cup lang[y])

\* The allocation after the copy fails: the copy takes the place of y.
CombineFails(x, y) ==
    /\ Count
    /\ x # y /\ ~IsFree(x) /\ ~IsFree(y)
    /\ Copied(x, y)
    /\ mman' = [mman EXCEPT ![y] = mman[x]]
    /\ onHeaps' = [onHeaps EXCEPT ![y] = {mman[x]}]
    /\ refcount' = [refcount EXCEPT ![mman[x]] = @ + 1, ![mman[y]] = @ - 1]
    /\ UNCHANGED <<states, isDFA, lang>>

Repeat(x, isAtLeastOneTime) ==
    /\ Count /\ ~IsFree(x)
    /\ Becomes(x, OpRepeat(states[x], isAtLeastOneTime), FALSE,
               Plus(lang[x], IF isAtLeastOneTime THEN lang[x] ELSE {<<>>} \cup lang[x]))
    /\ UNCHANGED heapVars

\* The DFA is built on a heap of its own; the old states are freed.
Rebuilt(x, released) ==
    LET freed == [h \in Heaps |-> refcount[h] - Cardinality({n \in {x} \cup released : mman[n] = h})]
    IN  /\ CanAllocate
        /\ refcount' = [freed EXCEPT ![NewHeap] = 1]
        /\ mman' = [n \in Names |-> IF n = x THEN NewHeap ELSE IF n \in released THEN 0 ELSE mman[n]]
        /\ onHeaps' = [n \in Names |-> IF n = x THEN {NewHeap} ELSE IF n \in released THEN {} ELSE onHeaps[n]]

MakeDFAOf(x) ==
    /\ Count /\ ~IsFree(x)
    /\ Becomes(x, MakeDFA(<<states[x]>>, "DFA"), TRUE, lang[x])
    /\ Rebuilt(x, {})

\* Memory runs out after remove_single_empty_transitions changed the object.
MakeDFAFails(x) ==
    /\ Count /\ ~IsFree(x)
    /\ Becomes(x, RemoveSingle(states[x]), isDFA[x], lang[x])
    /\ UNCHANGED heapVars

MinimizeOf(x) ==
    /\ Count /\ ~IsFree(x)
    /\ Rebuilt(x, {})
    /\ Becomes(x, Minimize(states[x]), TRUE, lang[x])

Not(x) ==
    /\ Count /\ ~IsFree(x)
    /\ Becomes(x, OpNot(states[x]), TRUE, Words(MaxWord) \ lang[x])
    /\ Rebuilt(x, {})

And2(x, y, op, P) ==
    LET A == MakeDFA(<<states[x], states[y]>>, op)
    IN  /\ Count
        /\ x # y /\ ~IsFree(x) /\ ~IsFree(y)
        /\ Len(A) <= MaxStates
        /\ states' = [states EXCEPT ![x] = A, ![y] = <<>>]
        /\ isDFA' = [isDFA EXCEPT ![x] = TRUE, ![y] = FALSE]
        /\ lang' = [lang EXCEPT ![x] = P, ![y] = {}]
        /\ Rebuilt(x, {y})

And(x, y) == And2(x, y, "OP_AND", lang[x] \cap lang[y])
AndNot(x, y) == And2(x, y, "OP_AND_NOT", lang[x] \ lang[y])

-----------------------------------------------------------------------------

AutomatNext == \E x \in Names :
           \/ \E u \in Names : \/ InitEmpty(x, u)
                               \/ \E m \in Matches : InitMatch(x, u, m)
           \/ \E y, u \in Names : InitCopy(x, y, u) \/ InitReverse(x, y, u)
           \/ FreeAutomat(x)
           \/ ExtendMatchOf(x)
           \/ \E y \in Names : \/ Sequence(x, y)
                               \/ Or(x, y)
                               \/ CombineFails(x, y)
                               \/ And(x, y)
                               \/ AndNot(x, y)
           \/ \E plus \in BOOLEAN : Repeat(x, plus)
           \/ MakeDFAOf(x)
           \/ MakeDFAFails(x)
           \/ MinimizeOf(x)
           \/ Not(x)

AutomatSpec == AutomatInit /\ [][AutomatNext]_automatVars

-----------------------------------------------------------------------------
(* Properties *)

\* matchchar32_automat recognizes the language of the regular expression the
\* operations describe: the longest and the shortest matching prefix of every
\* string, whether the object is an NFA or a DFA and whatever it was built from.
MatchesLanguage ==
    \A x \in Names : ~IsFree(x) =>
        \A str \in [1 .. MaxWord -> Chars] :
            LET prefixes == {k \in 0 .. MaxWord : SubSeq(str, 1, k) \in lang[x]}
            IN  /\ MatchLength(states[x], isDFA[x], str, TRUE) = Max({0} \cup prefixes)
                /\ MatchLength(states[x], isDFA[x], str, FALSE) =
                        IF prefixes = {} THEN 0 ELSE Min(prefixes)

\* What matchchar32_dfa_automat and the binary search rely on: the ranges of a
\* state are sorted and disjoint, and empty transitions only mark end states.
Deterministic ==
    \A x \in Names : isDFA[x] =>
        \A i \in DOMAIN states[x] :
            LET s == states[x][i]
            IN  /\ \A k \in 1 .. Len(s.range) - 1 : s.range[k].to < s.range[k + 1].from
                /\ s.empty \in {<<>>, <<Len(states[x])>>}

\* The pairs of states a string tells apart: a read of it ends in one of them,
\* or is stuck in one of them only.
Distinct(A) ==
    LET pairs == (DOMAIN A) \X (DOMAIN A)
        Step(i, c) == SearchRange(A[i].range, c)
        Told(D) == D \cup {p \in pairs : \E c \in Chars :
                       \/ (Step(p[1], c) = 0) # (Step(p[2], c) = 0)
                       \/ <<Step(p[1], c), Step(p[2], c)>> \in D}
    IN  Loop(SUBSET pairs, [D \in SUBSET pairs |-> Told(D)],
             {p \in pairs : (A[p[1]].empty = <<>>) # (A[p[2]].empty = <<>>)})

\* "auf minimale Anzahl an Zuständen optimiert": two states of an object which
\* was minimized, other than the end state every automaton has, can be told
\* apart by a string.  The start state is an exception: its statevector also
\* holds states which lead nowhere on a character, so an equivalent set reached
\* later counts as another one.
MinimalBehindStart ==
    [][\A x \in Names : MinimizeOf(x) =>
          \A i, j \in 2 .. Len(states'[x]) - 1 :
              i # j => <<i, j>> \in Distinct(states'[x])]_automatVars

\* "a every state of a single automat must be located on the same memory heap":
\* no operation, completed or failed, leaves states on a heap the object does
\* not use, and a heap lives as long as objects use it.
HeapsHoldStates ==
    /\ \A x \in Names : onHeaps[x] = IF IsFree(x) THEN {} ELSE {mman[x]}
    /\ \A h \in Heaps : refcount[h] = Cardinality({x \in Names : mman[x] = h})

=============================================================================
