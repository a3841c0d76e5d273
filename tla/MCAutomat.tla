----------------------------- MODULE MCAutomat ------------------------------
(* TLC instances of Automat and Regexpr. *)
EXTENDS Regexpr

MCMatches == {<<<<0, 0>>>>, <<<<0, 1>>, <<1, 1>>>>}
Symmetry == Permutations(Names)
MCExtend == <<<<1, 1>>>>

SetTexts == {<<"[", "a", "]">>, <<"[", "^", "a", "]">>, <<"[", "a", "-", "b", "]">>,
             <<"[", "^", "a", "b", "]">>, <<"[", "]">>, <<"[", "b", "a">>, <<"[", "a", "-", "]">>}
Short == SetTexts \cup {<<c>> : c \in {"a", "b", ".", "(", ")", "!", "*", "+", "?", "|", "&", "]", " ", "\\"}}

LongTexts == {<<"(", "a", "|", "b", ")", "*">>, <<"!", "(", "a", "*", "b", ")">>,
              <<"a", "|", "b", "&", "!", "[", "a", "b", "]">>, <<"a", "(", ".", "|", ")", "+">>,
              <<"(", "!", "a", ")", "*", "b">>, <<"a", "&", "!", "!", "a", "*", "b">>,
              <<"a", "&", "!", "a", "*", "b">>, <<"a", "&", " ", "!", "a", "*", "b">>}

\* All texts of up to two parts, those of three and four of some characters,
\* and longer ones.
MCTexts == LongTexts
           \cup {FlattenSeq(p) : p \in UNION {[1 .. n -> Short] : n \in 0 .. 2}}
           \cup [1 .. 3 -> {"a", ".", "(", ")", "!", "*", "?", "|", "&", " ", "\\"}]
           \cup [1 .. 4 -> {"a", "(", ")", "!", "*", "|", "&"}]

\* Texts on which regexpr.c and the grammar of regexpr.h disagree.
MCBeyond == {<<"[", "]">>, <<"[", "(", "]">>, <<"!", "!", "a">>, <<"a", "!">>, <<"\\">>,
             <<"[", "a", "-", "\\", "]", "]">>, <<"[", ".", "]">>}

=============================================================================
