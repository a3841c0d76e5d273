----------------------------- MODULE Automaton ------------------------------
(***************************************************************************)
(* The automata of C-kern/proglang/automat.c as values: what its operations*)
(* build out of automata, and what matchchar32_automat makes of them.      *)
(*                                                                         *)
(* An automaton is the sequence of its states as in list states: the first *)
(* is the start state, the last the end state.  A state has a sequence of  *)
(* empty transitions (the numbers of their targets) and one of range       *)
(* transitions.  multistate_t, statevector_t and rangemap_t, which the     *)
(* construction of a DFA uses, are what they stand for: sets of states and *)
(* a map of characters.                                                    *)
(***************************************************************************)
EXTENDS Integers, Sequences, FiniteSets, SequencesExt, FiniteSetsExt

CONSTANT MaxChar  \* maxchar_utf8()

Chars == 0 .. MaxChar

RangeTrans(from, to, state) == [from |-> from, to |-> to, state |-> state]
InRange(c, r) == r.from <= c /\ c <= r.to

\* The sequence F(1) .. F(n); \o has TLC evaluate it once.
Build(n, F(_)) == [k \in 1 .. n |-> F(k)] \o <<>>
MapSeq(s, F(_)) == Build(Len(s), LAMBDA k : F(s[k]))

\* The members of a set of numbers in ascending order.
Ascending(T) == Build(Cardinality(T), LAMBDA k : CHOOSE t \in T : Cardinality({s \in T : s <= t}) = k)

\* A loop over a variable with values in D: body changes it until nothing changes.
Loop(D, body, start) ==
    LET Result[v \in D] == IF body[v] = v THEN v ELSE Result[body[v]]
    IN  Result[start]

\* initempty_state, initempty2_state
EmptyState(targets) == [empty |-> targets, range |-> <<>>]

\* The numbers of states grow by d if states are put in front of them.
Shifted(states, d) ==
    MapSeq(states, LAMBDA s : [empty |-> MapSeq(s.empty, LAMBDA t : t + d),
                               range |-> MapSeq(s.range, LAMBDA r : [r EXCEPT !.state = @ + d])])

\* Mistake: the first empty transition is changed.
RedirectEndBug(states, target) == [states EXCEPT ![Len(states)].empty[1] = target]

\* last_emptylist(&end->emptylist)->state = target
RedirectEnd(states, target) ==
    [states EXCEPT ![Len(states)].empty = [@ EXCEPT ![Len(@)] = target]]

-----------------------------------------------------------------------------
(* lifetime and operations *)

Empty == <<EmptyState(<<2>>), EmptyState(<<2>>)>>

\* ranges is the sequence of pairs match_from, match_to.
Match(ranges) ==
    <<[empty |-> <<>>, range |-> MapSeq(ranges, LAMBDA r : RangeTrans(r[1], r[2], 2))],
      EmptyState(<<2>>)>>

ExtendMatch(A, ranges) ==
    [A EXCEPT ![1].range = @ \o MapSeq(ranges, LAMBDA r : RangeTrans(r[1], r[2], Len(A)))]

OpSequence(A, B) ==
    LET start2 == Len(A) + 2
        end == Len(A) + Len(B) + 2
    IN  <<EmptyState(<<2>>)>> \o RedirectEnd(Shifted(A, 1), start2)
        \o RedirectEnd(Shifted(B, Len(A) + 1), end) \o <<EmptyState(<<end>>)>>

OpOr(A, B) ==
    LET start2 == Len(A) + 2
        end == Len(A) + Len(B) + 2
    IN  <<EmptyState(<<2, start2>>)>> \o RedirectEnd(Shifted(A, 1), end)
        \o RedirectEnd(Shifted(B, Len(A) + 1), end) \o <<EmptyState(<<end>>)>>

\* The state which leads into the next iteration and out of the last.
Repeated(isAtLeastOneTime) == IF isAtLeastOneTime THEN 2 ELSE 1

OpRepeat(A, isAtLeastOneTime) ==
    LET again == Repeated(isAtLeastOneTime)
        start1 == IF isAtLeastOneTime THEN 3 ELSE 2
        end == start1 + Len(A)
    IN  (IF isAtLeastOneTime THEN <<EmptyState(<<start1>>)>> ELSE <<>>)
        \o <<EmptyState(<<start1, end>>)>>
        \o RedirectEnd(Shifted(A, start1 - 1), again) \o <<EmptyState(<<end>>)>>

\* initreverse_automat: the last transition of the end state leads to itself.
OpReverse(A) ==
    LET n == Len(A)
        Rev(i) == n + 1 - i
        EmptiesTo(j) == FlattenSeq(Build(n, LAMBDA i :
                            MapSeq(Ascending({k \in DOMAIN A[i].empty : A[i].empty[k] = j}),
                                   LAMBDA k : Rev(i))))
        RangesTo(j) == FlattenSeq(Build(n, LAMBDA i :
                            MapSeq(Ascending({k \in DOMAIN A[i].range : A[i].range[k].state = j}),
                                   LAMBDA k : [A[i].range[k] EXCEPT !.state = Rev(i)])))
        reversed == Build(n, LAMBDA i : [empty |-> EmptiesTo(Rev(i)), range |-> RangesTo(Rev(i))])
    IN  IF reversed[n].empty # <<>> /\ Last(reversed[n].empty) = n THEN reversed
        ELSE [reversed EXCEPT ![n].empty = Append(@, n)]

-----------------------------------------------------------------------------
(* makedfa_automat and makedfa2_automat *)

Single(A, s) == A[s].range = <<>> /\ Len(A[s].empty) = 1

\* Where a chain of such states which starts with s ends.
ChainEnd(A, s) == Loop(DOMAIN A, [t \in DOMAIN A |-> IF Single(A, t) THEN A[t].empty[1] ELSE t], s)

\* remove_single_empty_transitions
RemoveSingle(A) ==
    Build(Len(A), LAMBDA s :
        [empty |-> IF Single(A, s) THEN <<ChainEnd(A, s)>> ELSE A[s].empty,
         range |-> MapSeq(A[s].range, LAMBDA r : [r EXCEPT !.state = ChainEnd(A, @)])])

\* follow_empty_transition.  A set V of states of the automata As[1] and As[2]
\* is a set of pairs: nrdfa and the number of a state.
Places(As) == UNION {{<<k, s>> : s \in DOMAIN As[k]} : k \in DOMAIN As}
EmptyTargets(As, V) == UNION {{<<v[1], t>> : t \in ToSet(As[v[1]][v[2]].empty)} : v \in V}

Follow(As, V) == Loop(SUBSET Places(As), [W \in SUBSET Places(As) |-> W \cup EmptyTargets(As, W)], V)

\* What the states of V lead to if c is read.
Read(As, V, c) == UNION {{<<v[1], r.state>> : r \in {r \in ToSet(As[v[1]][v[2]].range) : InRange(c, r)}} : v \in V}

HasEnd(As, V, nrdfa) == <<nrdfa, Len(As[nrdfa])>> \in V

IsEnd(As, op, V) ==
    /\ HasEnd(As, V, 1)
    /\ op = "OP_AND" => HasEnd(As, V, 2)
    /\ op = "OP_AND_NOT" => ~HasEnd(As, V, 2)

\* isnrdfa12_statevector: from V an end state could be reached.
LeadsToEnd(op, V) ==
    /\ \E v \in V : v[1] = 1
    /\ op = "OP_AND" => \E v \in V : v[1] = 2

\* The target of the transition for character c; {} means none.
Target(As, op, V, c) ==
    LET W == Follow(As, Read(As, V, c))
    IN  IF LeadsToEnd(op, W) THEN W ELSE {}

\* The targets of the set V: entry a is the one for character a - 1.
Row(As, op, V) == Build(MaxChar + 1, LAMBDA a : Target(As, op, V, a - 1))

\* The sets of row which are not found yet, in the order they are inserted in.
NewSets(found, row) ==
    MapSeq(Ascending({a \in DOMAIN row : /\ row[a] \notin ToSet(found) \cup {{}}
                                        /\ \A b \in 1 .. a - 1 : row[b] # row[a]}),
           LAMBDA a : row[a])

\* The loop over unprocessed: u.found are the sets in the order they are inserted
\* in, the first u.done of them are processed.
Unprocessed(As) == {u \in [done : Nat, found : Seq(SUBSET Places(As))] : u.done <= Len(u.found)}
ProcessFirst(As, op, u) ==
    IF u.done = Len(u.found) THEN u
    ELSE [done |-> u.done + 1,
          found |-> u.found \o NewSets(u.found, Row(As, op, u.found[u.done + 1]))]

\* targets[i] is the row of found[i].
Explore(As, op, start) ==
    LET found == Loop(Unprocessed(As), [u \in Unprocessed(As) |-> ProcessFirst(As, op, u)],
                      [done |-> 0, found |-> <<start>>]).found
    IN  [found |-> found, targets |-> MapSeq(found, LAMBDA V : Row(As, op, V))]

\* The "transition optimizer" joins adjacent ranges with the same target.
SameRun(row, a, b) == row[a] # {} /\ row[a] = row[b]

\* Mistake: every character starts a run.
RunStartsBug(row) == Ascending({a \in DOMAIN row : row[a] # {}})

\* Where the maximal runs of characters with the same target start and end; entry
\* a of row is the target of character a - 1.
RunStarts(row) == Ascending({a \in DOMAIN row : row[a] # {} /\ (a = 1 \/ ~SameRun(row, a - 1, a))})
RunEnd(row, a) == Max({b \in a .. Len(row) : \A c \in a .. b : SameRun(row, a, c)})

\* The sets which become states of the DFA, by their place in all.found: an
\* accepting set without transition is represented by the end state.
KeptSets(As, op, all) ==
    Ascending({i \in DOMAIN all.found : i = 1 \/ ~IsEnd(As, op, all.found[i])
                                             \/ \E W \in ToSet(all.targets[i]) : W # {}})

\* The number of the state set V becomes.
NumberOf(all, kept, V) ==
    IF \E k \in DOMAIN kept : all.found[kept[k]] = V
    THEN CHOOSE k \in DOMAIN kept : all.found[kept[k]] = V
    ELSE Len(kept) + 1

Ranges(all, kept, row) ==
    MapSeq(RunStarts(row), LAMBDA a : RangeTrans(a - 1, RunEnd(row, a) - 1, NumberOf(all, kept, row[a])))

ListStates(As, op, all, kept) ==
    Append(MapSeq(kept, LAMBDA i :
               [empty |-> IF IsEnd(As, op, all.found[i]) THEN <<Len(kept) + 1>> ELSE <<>>,
                range |-> Ranges(all, kept, all.targets[i])]),
           EmptyState(<<Len(kept) + 1>>))

ConvertSets(As, op, all) == ListStates(As, op, all, KeptSets(As, op, all))

Determinize(As, op) ==
    ConvertSets(As, op, Explore(As, op, Follow(As, {<<k, 1>> : k \in DOMAIN As})))

MakeDFA(Bs, op) == Determinize(MapSeq(Bs, RemoveSingle), op)

\* Mistake: the automaton is not reversed a second time before the first DFA.
MinimizeBug(A) == MakeDFA(<<A>>, "DFA")

Minimize(A) == MakeDFA(<<OpReverse(MakeDFA(<<OpReverse(A)>>, "DFA"))>>, "DFA")

OpNot(A) == MakeDFA(<<OpRepeat(Match(<<<<0, MaxChar>>>>), FALSE), A>>, "OP_AND_NOT")

-----------------------------------------------------------------------------
(* matchchar32_automat *)

\* The sets of states after 0, 1, .. characters of str were read.
NFASets(A, str) ==
    LET Sets[k \in 0 .. Len(str)] ==
          IF k = 0 THEN Follow(<<A>>, {<<1, 1>>})
          ELSE Follow(<<A>>, Read(<<A>>, Sets[k - 1], str[k]))
    IN  Sets

\* The binary search of matchchar32_dfa_automat; the array starts with 0.
\* 0 stands for no transition.
Narrow(array, c, low, high) ==
    LET mid == (high + low) \div 2
    IN  IF low >= high THEN <<low, high>>
        ELSE IF c < array[mid + 1].from THEN <<low, mid>>
        ELSE IF c > array[mid + 1].to THEN <<mid + 1, high>>
        ELSE <<low, high>>

SearchRange(array, c) ==
    LET n == Len(array)
        found == Loop((0 .. n) \X (0 .. n), [p \in (0 .. n) \X (0 .. n) |-> Narrow(array, c, p[1], p[2])],
                      <<0, n>>)
    IN  IF found[1] >= found[2] THEN 0 ELSE array[(found[1] + found[2]) \div 2 + 1].state

DFAStates(A, str) ==
    LET State[k \in 0 .. Len(str)] ==
          IF k = 0 THEN 1
          ELSE IF State[k - 1] = 0 THEN 0
          ELSE SearchRange(A[State[k - 1]].range, str[k])
    IN  State

\* The lengths of the prefixes of str after which an end state is reached.
Matched(A, isDFA, str) ==
    IF isDFA
    THEN LET State == DFAStates(A, str)
         IN  {k \in 0 .. Len(str) : State[k] # 0 /\ A[State[k]].empty # <<>>}
    ELSE LET Sets == NFASets(A, str)
         IN  {k \in 0 .. Len(str) : <<1, Len(A)>> \in Sets[k]}

\* "L is the longest possible match", "the shortest possible match", or 0.
MatchLength(A, isDFA, str, matchLongest) ==
    LET lens == Matched(A, isDFA, str)
    IN  IF lens = {} THEN 0 ELSE IF matchLongest THEN Max(lens) ELSE Min(lens)

=============================================================================
