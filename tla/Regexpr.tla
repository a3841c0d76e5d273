------------------------------ MODULE Regexpr -------------------------------
(***************************************************************************)
(* regexpr_t: C-kern/proglang/regexpr.c.  init_regexpr parses a text by    *)
(* recursive descent, builds the automaton while it reads and minimizes it *)
(* at the end.                                                             *)
(*                                                                         *)
(* A text is a sequence of characters: those with a meaning in the syntax, *)
(* the character a, which is 0 for the automaton, and others, which are 1. *)
(* utf-8, control codes and the description of an error are left out.      *)
(*                                                                         *)
(* Second half: the grammar of regexpr.h as a relation between texts and   *)
(* languages, the reference the parser is compared with.                   *)
(***************************************************************************)
EXTENDS Automat

CONSTANT Texts  \* inputs of init_regexpr

AnyChar == Match(<<<<0, MaxChar>>>>)
Literal(chr) == IF chr = "a" THEN 0 ELSE 1

-----------------------------------------------------------------------------
(* buffer_t: the position i stands for input.next of text t *)

NextAt(t, i) == Min({Len(t) + 1} \cup {j \in i .. Len(t) : t[j] # " "})

\* peek_next, read_next: a space stands for the end of the text.
Peek(t, i) == IF NextAt(t, i) > Len(t) THEN " " ELSE t[NextAt(t, i)]
Skip(t, i) == Min({NextAt(t, i), Len(t)}) + 1

\* Mistake: a masked character keeps its meaning.
ParseCharBug(t, i) == [at |-> Skip(t, i), chr |-> Peek(t, i)]

\* read_next and parse_char
ParseChar(t, i) ==
    IF Peek(t, i) = "\\" /\ Skip(t, i) <= Len(t)
    THEN [at |-> Skip(t, i) + 1, chr |-> t[Skip(t, i)]]
    ELSE [at |-> Skip(t, i), chr |-> Peek(t, i)]

\* What a function leaves behind: the position and buffer->result.
Parsed(i, A) == [at |-> i, result |-> A, err |-> FALSE]
Fails == [at |-> 0, result |-> <<>>, err |-> TRUE]

OperatorNot(A) == MakeDFA(<<AnyChar, A>>, "OP_AND_NOT")
OperatorOptional(A) == OpOr(A, Empty)

-----------------------------------------------------------------------------
(* parsing *)

\* The loop of parse_atom over the characters of a set.  A is what was read
\* of it, <<>> as long as isFirst.
RECURSIVE ParseSet(_, _, _)

AddRange(t, from, to, A) ==
    LET range == <<<<Literal(from.chr), Literal(to.chr)>>>>
    IN  ParseSet(t, to.at, IF A = <<>> THEN Match(range) ELSE ExtendMatch(A, range))

ParseTo(t, from, to, A) == IF to.chr = "]" THEN Fails ELSE AddRange(t, from, to, A)

ParseRange(t, from, A) == IF Peek(t, from.at) = "-" THEN ParseTo(t, from, ParseChar(t, Skip(t, from.at)), A)
                          ELSE AddRange(t, from, from, A)

ParseSet(t, i, A) == CASE Peek(t, i) = " " -> Fails
                       [] Peek(t, i) = "]" -> Parsed(Skip(t, i), IF A = <<>> THEN Empty ELSE A)
                       [] OTHER -> ParseRange(t, ParseChar(t, i), A)

NotSet(set) == IF set.err THEN Fails ELSE Parsed(set.at, OperatorNot(set.result))

CloseGroup(t, group) == IF group.err \/ Peek(t, group.at) # ")" THEN Fails
                        ELSE Parsed(Skip(t, group.at), group.result)

MatchChar(char) == Parsed(char.at, Match(<<<<Literal(char.chr), Literal(char.chr)>>>>))

RECURSIVE ParseOperands(_, _, _, _)
ParseRegexpr(t, i) == ParseOperands(t, i, "", <<>>)

ParseAtom(t, i) ==
    LET next == Peek(t, i)
        j == Skip(t, i)
    IN  CASE next = " " -> Parsed(j, Empty)
          [] next = "(" -> CloseGroup(t, ParseRegexpr(t, j))
          [] next = "[" /\ Peek(t, j) # "^" -> ParseSet(t, j, <<>>)
          [] next = "[" /\ Peek(t, j) = "^" -> NotSet(ParseSet(t, Skip(t, j), <<>>))
          [] next = "." -> Parsed(j, AnyChar)
          [] OTHER -> MatchChar(ParseChar(t, i))

RepeatOp(A, next) == CASE next \in {"*", "+"} -> OpRepeat(A, next = "+")
                       [] next = "?" -> OperatorOptional(A)
                       [] OTHER -> A

\* "operator not is applied after repeat operator"
Factor(A, next, isNot) == IF isNot THEN OpNot(RepeatOp(A, next)) ELSE RepeatOp(A, next)

\* seqresult is <<>> as long as isResult is 0.
RECURSIVE ParseSequence(_, _, _)

AfterFactor(t, i, seqresult) == IF Peek(t, i) \in {" ", "|", "&", ")"} THEN Parsed(i, seqresult)
                                ELSE ParseSequence(t, i, seqresult)

AddFactor(seqresult, factor) == IF seqresult = <<>> THEN factor ELSE OpSequence(seqresult, factor)

AfterAtom(t, atom, isNot, seqresult) ==
    LET next == Peek(t, atom.at)
    IN  IF atom.err THEN Fails
        ELSE AfterFactor(t, IF next \in {"*", "+", "?"} THEN Skip(t, atom.at) ELSE atom.at,
                         AddFactor(seqresult, Factor(atom.result, next, isNot)))

ParseSequence(t, i, seqresult) ==
    LET start == Min({Len(t) + 1} \cup {j \in i .. Len(t) : t[j] \notin {"!", " "}})
        isNot == Cardinality({j \in i .. start - 1 : t[j] = "!"}) % 2 = 1
    IN  IF Peek(t, start) \in {"*", "+", "|", "&", ")", "]", "?"} THEN Fails
        ELSE AfterAtom(t, ParseAtom(t, start), isNot, seqresult)

\* parse_regexpr: op is the operator which was read last, regexresult the
\* operand to its left.
Applied(op, regexresult, operand) ==
    CASE op = "" -> operand
      [] op = "|" -> OpOr(regexresult, operand)
      [] op \in {"&", "!"} -> MakeDFA(<<regexresult, operand>>, IF op = "&" THEN "OP_AND" ELSE "OP_AND_NOT")

NextOperator(t, i, regexresult) ==
    LET next == Peek(t, i)
        j == Skip(t, i)
        isAndNot == next = "&" /\ j <= Len(t) /\ t[j] = "!"
    IN  CASE isAndNot -> ParseOperands(t, j + 1, "!", regexresult)
          [] ~isAndNot /\ next \in {"|", "&"} -> ParseOperands(t, j, next, regexresult)
          [] OTHER -> Parsed(i, regexresult)

AfterOperand(t, operand, op, regexresult) ==
    IF operand.err THEN Fails ELSE NextOperator(t, operand.at, Applied(op, regexresult, operand.result))

ParseOperands(t, i, op, regexresult) ==
    AfterOperand(t, IF Peek(t, i) \in {"|", "&", ")"} THEN Parsed(i, Empty) ELSE ParseSequence(t, i, <<>>),
                 op, regexresult)

-----------------------------------------------------------------------------
(* The grammar of regexpr.h: the languages a text describes *)

UpTo(t, i) == SubSeq(t, 1, i)
From(t, i) == SubSeq(t, i, Len(t))

\* The terminals of a text.  Spaces are skipped, what is masked is an ordinary
\* character, "&!" is one terminal.  A "\\" which masks nothing is no character.
RECURSIVE Terminals(_)
Terminals(t) ==
    CASE t = <<>> -> <<>>
      [] t # <<>> /\ t[1] = " " -> Terminals(Tail(t))
      [] Len(t) > 1 /\ t[1] = "\\" -> <<IF t[2] = "a" THEN "a" ELSE "b">> \o Terminals(From(t, 3))
      [] Len(t) > 1 /\ t[1] = "&" /\ t[2] = "!" -> <<"&!">> \o Terminals(From(t, 3))
      [] OTHER -> <<t[1]>> \o Terminals(Tail(t))

Letters == {"a", "b"}
OneOf(chars) == {<<c>> : c \in chars}

\* char: the characters it stands for.
CharSets(t) == CASE Len(t) = 1 /\ t[1] \in Letters -> {{Literal(t[1])}}
                 [] t = <<".">> -> {Chars}
                 [] OTHER -> {}

\* char ( '-' char )?
ItemSets(t) == IF Len(t) = 3 /\ t[2] = "-" /\ {t[1], t[3]} \subseteq Letters
               THEN {Literal(t[1]) .. Literal(t[3])} ELSE CharSets(t)

\* ( char ( '-' char )? )+
RECURSIVE ItemsSets(_)
ItemsSets(t) ==
    ItemSets(t) \cup UNION {{C \cup D : C \in ItemsSets(UpTo(t, i)), D \in ItemSets(From(t, i + 1))}
                            : i \in 1 .. Len(t) - 1}

\* What is between '[' and ']'.
SetLangs(t) == IF t # <<>> /\ t[1] = "^" THEN {OneOf(Chars \ C) : C \in ItemsSets(Tail(t))}
               ELSE {OneOf(C) : C \in ItemsSets(t)}

RECURSIVE ReLangs(_)

AtomLangs(t) ==
    CASE Len(t) > 1 /\ t[1] = "(" /\ Last(t) = ")" -> ReLangs(SubSeq(t, 2, Len(t) - 1))
      [] Len(t) > 1 /\ t[1] = "[" /\ Last(t) = "]" -> SetLangs(SubSeq(t, 2, Len(t) - 1))
      [] OTHER -> {OneOf(C) : C \in CharSets(t)}

RepeatLang(L, op) == CASE op = "*" -> Plus(L, {<<>>} \cup L)
                       [] op = "+" -> Plus(L, L)
                       [] op = "?" -> {<<>>} \cup L

\* atom repeat?
RepeatedLangs(t) ==
    AtomLangs(t) \cup (IF t # <<>> /\ Last(t) \in {"*", "+", "?"}
                       THEN {RepeatLang(L, Last(t)) : L \in AtomLangs(Front(t))} ELSE {})

\* not? atom repeat?
FactorLangs(t) ==
    RepeatedLangs(t) \cup (IF t # <<>> /\ t[1] = "!"
                           THEN {Words(MaxWord) \ L : L \in RepeatedLangs(Tail(t))} ELSE {})

RECURSIVE SeqLangs(_)
SeqLangs(t) ==
    FactorLangs(t) \cup UNION {{Concat(L, M) : L \in SeqLangs(UpTo(t, i)), M \in FactorLangs(From(t, i + 1))}
                               : i \in 1 .. Len(t) - 1}

OptSeqLangs(t) == IF t = <<>> THEN {{<<>>}} ELSE SeqLangs(t)

\* From left to right, all operators with the same precedence.
OperatorLang(op, L, M) == CASE op = "|" -> L \cup M
                            [] op = "&" -> L \cap M
                            [] op = "&!" -> L \ M

ReLangs(t) ==
    OptSeqLangs(t) \cup UNION
        {{OperatorLang(t[i], L, M) : L \in ReLangs(UpTo(t, i - 1)), M \in OptSeqLangs(From(t, i + 1))}
         : i \in {j \in DOMAIN t : t[j] \in {"|", "&", "&!"}}}

Grammar(text) == ReLangs(Terminals(text))

-----------------------------------------------------------------------------

\* A client either combines automata or has one text parsed.
VARIABLE definitions  \* the text which was parsed: empty or a set of one text

RegexprInit == AutomatInit /\ definitions = {}

\* x stays automat_FREE if there is an error.
SetResult(x, parsed, isError) ==
    IF isError THEN UNCHANGED <<states, isDFA, heapVars>>
    ELSE /\ states' = [states EXCEPT ![x] = Minimize(parsed.result)]
         /\ isDFA' = [isDFA EXCEPT ![x] = TRUE]
         /\ Rebuilt(x, {})

ParseAll(x, text, parsed) == SetResult(x, parsed, parsed.err \/ Peek(text, parsed.at) # " ")

\* The words up to length MaxWord which a DFA recognizes.
Recognized(A) == {w \in Words(MaxWord) : Len(w) \in Matched(A, TRUE, w)}

\* lang becomes what the grammar says; for a text which is no expression of it,
\* what the DFA recognizes if the code accepts it.
InitRegexpr(x, text) ==
    /\ ops = 0 /\ definitions = {}
    /\ definitions' = {text}
    /\ ops' = MaxOps
    /\ ParseAll(x, text, ParseRegexpr(text, 1))
    /\ lang' = [lang EXCEPT ![x] = IF Grammar(text) # {} THEN UNION Grammar(text)
                                   ELSE IF states'[x] # <<>> THEN Recognized(states'[x]) ELSE {}]

RegexprNext == \/ AutomatNext /\ UNCHANGED definitions
               \/ \E x \in Names, text \in Texts : InitRegexpr(x, text)

RegexprSpec == RegexprInit /\ [][RegexprNext]_<<automatVars, definitions>>

\* Every expression of the grammar of regexpr.h is accepted, and has one meaning
\* (MatchesLanguage compares it with the automaton).
AcceptsGrammar ==
    \A text \in definitions :
        Grammar(text) # {} => /\ \E x \in Names : ~IsFree(x)
                              /\ Cardinality(Grammar(text)) = 1

\* regexpr.h, "Der syntaktische Aufbau der regulären Sprache lautet": a text is
\* accepted exactly if it is an expression of the grammar, with its language.
FollowsGrammar ==
    \A text \in definitions :
        {Recognized(states[x]) : x \in {y \in Names : ~IsFree(y)}} = Grammar(text)

=============================================================================
