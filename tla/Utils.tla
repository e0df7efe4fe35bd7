------------------------------- MODULE Utils --------------------------------
(* Utils::Tokenize (utils.cpp), which splits an administrator's command.     *)
EXTENDS Naturals, Sequences, FiniteSetsExt

\* input.find_first_of(token, first), the position behind the end if there is none.
FindFirstOf(input, separator, first) ==
    Min({i \in first .. Len(input) : input[i] = separator} \cup {Len(input) + 1})

\* Mutated form of Tokenize: empty tokens are kept.
TokenizeEmpty(input, separator) ==
    LET from[first \in 1 .. Len(input) + 1] ==
            LET second == FindFirstOf(input, separator, first)
            IN  <<SubSeq(input, first, second - 1)>>
                  \o (IF second > Len(input) THEN <<>> ELSE from[second + 1])
    IN  from[1]

\* One round of the loop for each separator; a token of length zero is dropped.
Tokenize(input, separator) ==
    LET from[first \in 1 .. Len(input) + 1] ==
            LET second == FindFirstOf(input, separator, first)
                token == IF first = second THEN <<>> ELSE <<SubSeq(input, first, second - 1)>>
            IN  token \o (IF second > Len(input) THEN <<>> ELSE from[second + 1])
    IN  from[1]

\* The reference: the longest stretches without a separator, from left to right.
Words(input, separator) ==
    LET Border(i) == i \notin 1 .. Len(input) \/ input[i] = separator
        starts == {i \in 1 .. Len(input) : Border(i - 1) /\ ~Border(i)}
        Ending(i) == Min({j \in i .. Len(input) : Border(j + 1)})
    IN  [n \in 1 .. Cardinality(starts) |->
            LET start == Min({i \in starts : Cardinality({j \in starts : j <= i}) = n})
            IN  SubSeq(input, start, Ending(start))]
=============================================================================
