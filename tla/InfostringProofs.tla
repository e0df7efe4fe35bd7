-------------------------- MODULE InfostringProofs --------------------------
(* Proofs about the readers of texts: how far the parser of infostrings      *)
(* reads, that what it finds are the pairs of its text, and that Tokenize    *)
(* yields the words of a command.                                            *)
EXTENDS Texts, NaturalLemmas, SequenceTheorems

\* The second loop is never entered behind the terminator, and the position
\* stays one byte behind it, if that byte is zero.
OverrunInv ==
    /\ text \in Text /\ leftover \in Leftover
    /\ p \in Nat \ {0}
    /\ TerminatedTwice => /\ p <= Len(text) + 2
                          /\ loop = "value" => p <= Len(text) + 1

\* Both bytes behind the text read as zero then.
LEMMA ZerosBehindText ==
    ASSUME text \in Text, leftover \in Leftover, TerminatedTwice,
           p \in {Len(text) + 1, Len(text) + 2}
    PROVE  Char = NUL
  <1>1. /\ text \in Seq(Character \cup {Slash}) /\ leftover \in Seq(Character \cup {Slash, NUL})
        /\ Len(text) \in Nat /\ Len(leftover) \in Nat
    BY InfostringAssumption
  <1>2. Len(Memory) = Len(text) + 1 + Len(leftover)
    BY <1>1 DEF Memory
  <1>3. CASE p = Len(text) + 1
    BY <1>1, <1>2, <1>3 DEF Memory, Char
  <1>4. CASE p = Len(text) + 2 /\ leftover = <<>>
    BY <1>1, <1>2, <1>4 DEF Char
  <1>5. CASE p = Len(text) + 2 /\ leftover # <<>>
    <2>1. leftover[1] = NUL /\ Len(leftover) >= 1
      BY <1>1, <1>5 DEF TerminatedTwice
    <2>2. Memory[Len(text) + 2] = leftover[1]
      BY <1>1, <2>1 DEF Memory
    <2> QED
      BY <1>1, <1>2, <1>5, <2>1, <2>2 DEF Char
  <1> QED
    BY <1>3, <1>4, <1>5

\* The position starts on the text or on its terminator.
LEMMA OverrunInit ==
    ASSUME InfoInit
    PROVE  OverrunInv
  <1>1. text \in Seq(Character \cup {Slash}) /\ Len(text) \in Nat
    BY InfostringAssumption DEF InfoInit
  <1>2. First(text) \in {1, 2}
    BY DEF First
  <1> QED
    BY <1>1, <1>2 DEF InfoInit, OverrunInv

\* No step goes further than one byte behind the terminator.
LEMMA OverrunStep ==
    ASSUME OverrunInv, [InfoNext]_infoVars
    PROVE  OverrunInv'
  <1>0. /\ Len(text) \in Nat /\ text \in Text /\ leftover \in Leftover /\ p \in Nat \ {0}
        /\ TerminatedTwice /\ Char # NUL => p <= Len(text)
    <2>1. text \in Seq(Character \cup {Slash})
      BY InfostringAssumption DEF OverrunInv
    <2> QED
      BY <2>1, ZerosBehindText DEF OverrunInv
  <1>1. CASE KeyCharacter
    BY <1>0, <1>1 DEF KeyCharacter, OverrunInv, TerminatedTwice
  <1>2. CASE KeyEnd
    BY <1>0, <1>2, InfostringAssumption DEF KeyEnd, OverrunInv, TerminatedTwice
  <1>3. CASE ValueCharacter
    BY <1>0, <1>3 DEF ValueCharacter, OverrunInv, TerminatedTwice
  <1>4. CASE ValueEnd
    BY <1>0, <1>4 DEF ValueEnd, OverrunInv, TerminatedTwice
  <1>5. CASE Finish
    BY <1>0, <1>5 DEF Finish, OverrunInv, TerminatedTwice
  <1>6. CASE UNCHANGED infoVars
    BY <1>6 DEF infoVars, OverrunInv, TerminatedTwice
  <1> QED
    BY <1>1, <1>2, <1>3, <1>4, <1>5, <1>6 DEF InfoNext

\* A text is left by one byte at most when a zero follows its terminator
\* (infostring_data.cpp:43-65), whatever the text and the rest of the memory.
THEOREM OverrunBounded == InfoSpec => []OverrunIsOne
  <1>1. InfoInit => OverrunInv
    BY OverrunInit
  <1>2. OverrunInv /\ [InfoNext]_infoVars => OverrunInv'
    BY OverrunStep
  <1>3. OverrunInv => OverrunIsOne
    BY DEF OverrunInv, OverrunIsOne
  <1> QED
    BY <1>1, <1>2, <1>3, PTL DEF InfoSpec

-----------------------------------------------------------------------------
(* The separators of a text, one position further.                           *)

\* LastBefore is what its name says.
LastKnown(t, i) ==
    /\ LastBefore(t, i) \in {First(t) - 1} \cup Before(t, i)
    /\ \A j \in Before(t, i) : j <= LastBefore(t, i)

\* Reading starts at the first or the second byte of a text, which has finitely
\* many separators from there on.
LEMMA SeparatorFacts ==
    ASSUME NEW t \in Seq(Character \cup {Slash})
    PROVE  /\ Len(t) \in Nat /\ First(t) \in {1, 2} /\ First(t) <= Len(t) + 1
           /\ Separators(t) \subseteq First(t) .. Len(t)
           /\ IsFiniteSet(Separators(t))
           /\ \A i \in Separators(t) : i \in Nat /\ t[i] = Slash
           /\ \A i \in First(t) .. Len(t) : i \notin Separators(t) => t[i] \in Character
  <1>1. Len(t) \in Nat /\ First(t) \in {1, 2} /\ First(t) <= Len(t) + 1
    BY DEF First
  <1>2. Separators(t) \subseteq First(t) .. Len(t)
    BY DEF Separators
  <1>3. IsFiniteSet(Separators(t))
    <2>1. IsFiniteSet(First(t) .. Len(t))
      BY <1>1, FS_Interval
    <2> QED
      BY <1>2, <2>1, FS_Subset
  <1>4. \A i \in First(t) .. Len(t) : i \in 1 .. Len(t)
    BY <1>1
  <1> QED
    BY <1>1, <1>2, <1>3, <1>4, ElementOfSeq DEF Separators

\* No separator lies before the place where reading starts.
LEMMA NothingBefore ==
    ASSUME NEW t \in Seq(Character \cup {Slash})
    PROVE  /\ Before(t, First(t)) = {} /\ LastKnown(t, First(t))
           /\ LastBefore(t, First(t)) = First(t) - 1
           /\ Cardinality(Before(t, First(t))) = 0
           /\ KeyAt(t, First(t)) = <<>>
  <1>1. Before(t, First(t)) = {}
    BY SeparatorFacts DEF Before
  <1>2. LastBefore(t, First(t)) = First(t) - 1
    BY <1>1, SeparatorFacts, MaxIs DEF LastBefore
  <1>3. KeyAt(t, First(t)) = <<>>
    BY <1>2, SeparatorFacts, SubSeqEmpty DEF KeyAt
  <1> QED
    BY <1>1, <1>2, <1>3, FS_EmptySet DEF LastKnown

\* Past a character the stretch since the last separator is longer by it.
LEMMA PastCharacter ==
    ASSUME NEW t \in Seq(Character \cup {Slash}), NEW i \in First(t) .. Len(t),
           t[i] # Slash, LastKnown(t, i)
    PROVE  /\ Before(t, i + 1) = Before(t, i)
           /\ LastBefore(t, i + 1) = LastBefore(t, i) /\ LastKnown(t, i + 1)
           /\ KeyAt(t, i + 1) = Append(KeyAt(t, i), t[i])
  <1>0. /\ i \in 1 .. Len(t) /\ Len(t) \in Nat /\ First(t) \in {1, 2}
        /\ Separators(t) \subseteq Nat
    BY SeparatorFacts
  <1>1. i \notin Separators(t)
    BY DEF Separators
  <1>2. Before(t, i + 1) = Before(t, i)
    BY <1>0, <1>1 DEF Before
  <1>3. LastBefore(t, i + 1) = LastBefore(t, i)
    BY <1>2 DEF LastBefore
  <1>4. LastKnown(t, i + 1)
    BY <1>2, <1>3 DEF LastKnown
  <1> DEFINE b == LastBefore(t, i)
  <1>5. b \in Nat /\ b + 1 \in 1 .. i
    <2>1. CASE b = First(t) - 1
      BY <1>0, <2>1
    <2>2. CASE b \in Before(t, i)
      <3>1. b \in Separators(t) /\ b < i
        BY <2>2 DEF Before
      <3> QED
        BY <1>0, <3>1
    <2> QED
      BY <2>1, <2>2 DEF LastKnown
  <1> HIDE DEF b
  <1>6. /\ SubSeq(t, b + 1, i) = SubSeq(t, b + 1, i - 1) \o <<t[i]>>
        /\ t[i] \in Character \cup {Slash}
    BY <1>0, <1>5, SubSeqRecursiveSecond, ElementOfSeq
  <1>7. SubSeq(t, b + 1, i - 1) \in Seq(Character \cup {Slash})
    <2>1. \A j \in b + 1 .. i - 1 : j \in 1 .. Len(t)
      BY <1>0, <1>5
    <2> QED
      BY <2>1, <1>0, <1>5, ElementOfSeq, SubSeqProperties
  <1>8. KeyAt(t, i + 1) = SubSeq(t, b + 1, i) /\ KeyAt(t, i) = SubSeq(t, b + 1, i - 1)
    <2>1. (i + 1) - 1 = i
      BY <1>0
    <2> QED
      BY <1>3, <2>1 DEF KeyAt, b
  <1> QED
    BY <1>2, <1>3, <1>4, <1>6, <1>7, <1>8, AppendIsConcat

\* Past a separator there is one more, and the stretch behind it is empty yet.
LEMMA PastSeparator ==
    ASSUME NEW t \in Seq(Character \cup {Slash}), NEW i \in Separators(t)
    PROVE  /\ Before(t, i + 1) = Before(t, i) \cup {i}
           /\ Cardinality(Before(t, i)) \in Nat
           /\ Cardinality(Before(t, i + 1)) = Cardinality(Before(t, i)) + 1
           /\ LastBefore(t, i + 1) = i /\ LastKnown(t, i + 1)
           /\ KeyAt(t, i + 1) = <<>>
  <1>0. /\ i \in First(t) .. Len(t) /\ Len(t) \in Nat /\ First(t) \in {1, 2}
        /\ Separators(t) \subseteq Nat
    BY SeparatorFacts
  <1>1. Before(t, i + 1) = Before(t, i) \cup {i}
    BY <1>0 DEF Before
  <1>2. IsFiniteSet(Before(t, i)) /\ i \notin Before(t, i)
    BY <1>0, SeparatorFacts, FS_Subset DEF Before
  <1>3. /\ Cardinality(Before(t, i)) \in Nat
        /\ Cardinality(Before(t, i + 1)) = Cardinality(Before(t, i)) + 1
    BY <1>1, <1>2, FS_AddElement, FS_CardinalityType
  <1>4. LastBefore(t, i + 1) = i
    <2>1. \A j \in {First(t) - 1} \cup Before(t, i + 1) : i >= j /\ j \in Int
      BY <1>0 DEF Before
    <2>2. i \in {First(t) - 1} \cup Before(t, i + 1)
      BY <1>1
    <2> QED
      BY <2>1, <2>2, MaxIs DEF LastBefore
  <1>5. LastKnown(t, i + 1)
    BY <1>0, <1>1, <1>4 DEF LastKnown, Before
  <1>6. KeyAt(t, i + 1) = <<>>
    BY <1>0, <1>4, SubSeqEmpty DEF KeyAt
  <1> QED
    BY <1>1, <1>3, <1>4, <1>5, <1>6

-----------------------------------------------------------------------------
(* What the map holds when the text is read up to a place.                   *)

\* The ends of the keys before b.
Found(t, b) == {i \in KeyEnds(t) : i < b}

\* The map m has the pairs whose keys end before b, the last of equal keys.
Describes(m, t, b) ==
    /\ m = [k \in DOMAIN m |-> m[k]]
    /\ DOMAIN m = {KeyAt(t, i) : i \in Found(t, b)}
    /\ \A k \in DOMAIN m : \E i \in Found(t, b) :
          /\ KeyAt(t, i) = k /\ m[k] = ValueAt(t, i)
          /\ \A j \in Found(t, b) : KeyAt(t, j) = k => j <= i

\* At the end of the text these are all of its pairs.
LEMMA DescribesAll ==
    ASSUME NEW t \in Seq(Character \cup {Slash}), NEW m, Describes(m, t, Len(t) + 1)
    PROVE  m = Pairs(t)
  <1>1. Found(t, Len(t) + 1) = KeyEnds(t) /\ KeyEnds(t) \subseteq Int
    BY SeparatorFacts DEF Found, KeyEnds
  <1>2. DOMAIN m = {KeyAt(t, i) : i \in KeyEnds(t)}
    BY <1>1 DEF Describes
  <1>3. ASSUME NEW k \in DOMAIN m
        PROVE  m[k] = ValueAt(t, Max({i \in KeyEnds(t) : KeyAt(t, i) = k}))
    <2>1. PICK i \in KeyEnds(t) :
             /\ KeyAt(t, i) = k /\ m[k] = ValueAt(t, i)
             /\ \A j \in KeyEnds(t) : KeyAt(t, j) = k => j <= i
      BY <1>1 DEF Describes
    <2> DEFINE ends == {j \in KeyEnds(t) : KeyAt(t, j) = k}
    <2>2. ends \in SUBSET Int /\ i \in ends /\ \A j \in ends : i >= j
      BY <1>1, <2>1
    <2> HIDE DEF ends
    <2>3. Max(ends) = i
      BY <2>2, MaxIs
    <2> QED
      BY <2>1, <2>3 DEF ends
  <1>4. m = [k \in DOMAIN m |-> m[k]]
    BY DEF Describes
  <1> QED
    BY <1>2, <1>3, <1>4 DEF Pairs

\* One more pair makes the map describe the text up to any place before the
\* next end of a key.
LEMMA DescribesNext ==
    ASSUME NEW t \in Seq(Character \cup {Slash}), NEW m, NEW e \in KeyEnds(t),
           NEW q \in Nat, e < q, \A i \in KeyEnds(t) : i < q => i <= e,
           Describes(m, t, e)
    PROVE  Describes([k \in DOMAIN m \cup {KeyAt(t, e)} |->
                         IF k = KeyAt(t, e) THEN ValueAt(t, e) ELSE m[k]], t, q)
  <1> DEFINE n == [k \in DOMAIN m \cup {KeyAt(t, e)} |->
                      IF k = KeyAt(t, e) THEN ValueAt(t, e) ELSE m[k]]
  <1>1. KeyEnds(t) \subseteq Nat
    BY SeparatorFacts DEF KeyEnds
  <1>2. Found(t, q) = Found(t, e) \cup {e} /\ e \notin Found(t, e)
    BY <1>1 DEF Found
  <1>3. DOMAIN n = {KeyAt(t, i) : i \in Found(t, q)}
    BY <1>2 DEF Describes
  <1>4. ASSUME NEW k \in DOMAIN n
        PROVE  \E i \in Found(t, q) :
                  /\ KeyAt(t, i) = k /\ n[k] = ValueAt(t, i)
                  /\ \A j \in Found(t, q) : KeyAt(t, j) = k => j <= i
    <2>1. CASE k = KeyAt(t, e)
      <3>1. n[k] = ValueAt(t, e)
        BY <2>1
      <3>2. \A j \in Found(t, q) : j <= e
        BY <1>1, <1>2 DEF Found
      <3> QED
        BY <1>2, <2>1, <3>1, <3>2
    <2>2. CASE k # KeyAt(t, e)
      <3>1. k \in DOMAIN m /\ n[k] = m[k]
        BY <2>2
      <3>2. PICK i \in Found(t, e) :
               /\ KeyAt(t, i) = k /\ m[k] = ValueAt(t, i)
               /\ \A j \in Found(t, e) : KeyAt(t, j) = k => j <= i
        BY <3>1 DEF Describes
      <3> QED
        BY <1>2, <2>2, <3>1, <3>2
    <2> QED
      BY <2>1, <2>2
  <1>5. n = [k \in DOMAIN n |-> n[k]]
    OBVIOUS
  <1> QED
    BY <1>3, <1>4, <1>5 DEF Describes

\* Places with the same ends of keys before them are described alike.
LEMMA DescribesStays ==
    ASSUME NEW t, NEW m, NEW b, NEW c, Found(t, b) = Found(t, c), Describes(m, t, b)
    PROVE  Describes(m, t, c)
  BY DEF Describes

\* The value behind a separator is the stretch up to the next one, or to the end.
LEMMA ValueIs ==
    ASSUME NEW t \in Seq(Character \cup {Slash}), NEW e \in Separators(t),
           NEW q \in Separators(t) \cup {Len(t) + 1}, e < q,
           LastKnown(t, q), LastBefore(t, q) = e
    PROVE  ValueAt(t, e) = KeyAt(t, q)
  <1>1. Len(t) \in Nat /\ Separators(t) \subseteq 1 .. Len(t)
    BY SeparatorFacts
  <1> DEFINE ends == {Len(t) + 1} \cup {j \in Separators(t) : j > e}
  <1>2. ends \in SUBSET Int /\ q \in ends
    BY <1>1
  <1>3. ASSUME NEW j \in Separators(t), j > e PROVE q <= j
    <2>1. CASE j < q
      BY <1>1, <1>3, <2>1 DEF LastKnown, Before
    <2> QED
      BY <1>1, <2>1
  <1>4. \A j \in ends : q <= j
    BY <1>1, <1>3
  <1>5. NextBehind(t, e) = q
    <2> HIDE DEF ends
    <2>1. Min(ends) = q
      BY <1>2, <1>4, MinIs
    <2> QED
      BY <2>1 DEF NextBehind, ends
  <1> QED
    BY <1>5 DEF ValueAt, KeyAt

-----------------------------------------------------------------------------
\* Where the parser is, inside its text: reading a key, with the pairs of all
\* keys before it in the map, or the value of the last key.
InsideText ==
    /\ LastKnown(text, p)
    /\ loop # "value" =>
          /\ Cardinality(Before(text, p)) % 2 = 0
          /\ key = KeyAt(text, p) /\ value = <<>>
          /\ Describes(m_hashmap, text, p)
    /\ loop = "value" =>
          /\ Cardinality(Before(text, p)) % 2 = 1
          /\ LastBefore(text, p) \in KeyEnds(text)
          /\ key = KeyAt(text, LastBefore(text, p)) /\ value = KeyAt(text, p)
          /\ Describes(m_hashmap, text, LastBefore(text, p))

\* Behind it nothing of the text is lost, and nothing added if it ends in zeros.
ParseInv ==
    /\ OverrunInv
    /\ p >= First(text)
    /\ loop = "done" => p > Len(text)
    /\ p <= Len(text) + 1 => InsideText
    /\ p > Len(text) + 1 => /\ DOMAIN Pairs(text) \subseteq DOMAIN m_hashmap
                            /\ TerminatedTwice => m_hashmap = Pairs(text)

\* What the position holds while it is in the text or at its terminator.
LEMMA CharInside ==
    ASSUME text \in Text, leftover \in Leftover, p \in 1 .. Len(text) + 1
    PROVE  Char = IF p = Len(text) + 1 THEN NUL ELSE text[p]
  <1>1. /\ text \in Seq(Character \cup {Slash}) /\ leftover \in Seq(Character \cup {Slash, NUL})
        /\ Len(text) \in Nat /\ Len(leftover) \in Nat
    BY InfostringAssumption
  <1>2. Len(Memory) = Len(text) + 1 + Len(leftover)
    BY <1>1 DEF Memory
  <1>3. CASE p = Len(text) + 1
    BY <1>1, <1>2, <1>3 DEF Memory, Char
  <1>4. CASE p <= Len(text)
    BY <1>1, <1>2, <1>4 DEF Memory, Char
  <1> QED
    BY <1>1, <1>3, <1>4

\* It starts so: no key, no pair, nothing before the position.
LEMMA ParseInit ==
    ASSUME InfoInit
    PROVE  ParseInv
  <1>1. text \in Seq(Character \cup {Slash})
    BY InfostringAssumption DEF InfoInit
  <1>2. OverrunInv
    BY OverrunInit
  <1>3. /\ p = First(text) /\ loop = "key" /\ key = <<>> /\ value = <<>>
        /\ DOMAIN m_hashmap = {} /\ m_hashmap = [k \in DOMAIN m_hashmap |-> m_hashmap[k]]
    BY DEF InfoInit
  <1>4. Found(text, First(text)) = {}
    BY <1>1, SeparatorFacts DEF Found, KeyEnds
  <1>5. Describes(m_hashmap, text, p)
    BY <1>3, <1>4 DEF Describes
  <1>6. InsideText
    BY <1>1, <1>3, <1>5, NothingBefore DEF InsideText
  <1> QED
    BY <1>1, <1>2, <1>3, <1>6, SeparatorFacts DEF ParseInv

\* No step adds anything that the text does not say before it is left, and none
\* loses what it says.
LEMMA ParseStep ==
    ASSUME ParseInv, [InfoNext]_infoVars
    PROVE  ParseInv'
  <1> USE DEF ParseInv
  <1>0. /\ text \in Seq(Character \cup {Slash}) /\ text \in Text /\ leftover \in Leftover
        /\ Len(text) \in Nat /\ p \in Nat \ {0} /\ First(text) \in {1, 2}
    BY InfostringAssumption, SeparatorFacts DEF OverrunInv
  <1>1. OverrunInv'
    BY OverrunStep
  <1>2. p \in First(text) .. Len(text) => Char = text[p]
    BY <1>0, CharInside
  <1>3. p = Len(text) + 1 => Char = NUL
    BY <1>0, CharInside
  <1>4. CASE KeyCharacter
    <2>1. /\ text' = text /\ leftover' = leftover /\ loop = "key" /\ loop' = "key" /\ p' = p + 1
          /\ key' = Append(key, Char) /\ value' = value /\ m_hashmap' = m_hashmap
          /\ Char # Slash /\ Char # NUL
      BY <1>4 DEF KeyCharacter
    <2>2. CASE p \in First(text) .. Len(text)
      <3>1. /\ Before(text, p + 1) = Before(text, p) /\ LastKnown(text, p + 1)
            /\ KeyAt(text, p + 1) = Append(KeyAt(text, p), text[p])
        BY <1>0, <1>2, <2>1, <2>2, PastCharacter DEF InsideText
      <3>2. Found(text, p + 1) = Found(text, p)
        BY <1>0, <1>2, <2>1, <2>2, SeparatorFacts DEF Found, KeyEnds
      <3>3. Describes(m_hashmap, text, p + 1)
        BY <1>0, <2>1, <2>2, <3>2, DescribesStays DEF InsideText
      <3>4. InsideText'
        BY <1>0, <1>2, <2>1, <2>2, <3>1, <3>3 DEF InsideText
      <3> QED
        BY <1>0, <1>1, <2>1, <2>2, <3>4
    <2>3. CASE p > Len(text) + 1
      BY <1>0, <1>1, <2>1, <2>3 DEF TerminatedTwice
    <2> QED
      BY <1>0, <1>3, <2>1, <2>2, <2>3
  <1>5. CASE KeyEnd
    <2>1. /\ text' = text /\ leftover' = leftover /\ loop = "key" /\ loop' = "value" /\ p' = p + 1
          /\ key' = key /\ value' = value /\ m_hashmap' = m_hashmap
          /\ Char = Slash /\ Char # NUL
      BY <1>5, InfostringAssumption DEF KeyEnd
    <2>2. CASE p \in First(text) .. Len(text)
      <3>1. p \in Separators(text)
        BY <1>2, <2>1, <2>2 DEF Separators
      <3>2. /\ Cardinality(Before(text, p)) \in Nat
            /\ Cardinality(Before(text, p + 1)) = Cardinality(Before(text, p)) + 1
            /\ LastBefore(text, p + 1) = p /\ LastKnown(text, p + 1)
            /\ KeyAt(text, p + 1) = <<>>
        BY <1>0, <3>1, PastSeparator
      <3>3. /\ Cardinality(Before(text, p)) % 2 = 0 /\ key = KeyAt(text, p) /\ value = <<>>
            /\ Describes(m_hashmap, text, p)
        BY <1>0, <2>1, <2>2 DEF InsideText
      <3>4. p \in KeyEnds(text)
        BY <3>1, <3>3 DEF KeyEnds
      <3>5. Cardinality(Before(text, p + 1)) % 2 = 1
        BY <3>2, <3>3
      <3>6. InsideText'
        BY <2>1, <3>2, <3>3, <3>4, <3>5 DEF InsideText
      <3> QED
        BY <1>0, <1>1, <2>1, <2>2, <3>6
    <2>3. CASE p > Len(text) + 1
      BY <1>0, <1>1, <2>1, <2>3 DEF TerminatedTwice
    <2> QED
      BY <1>0, <1>3, <2>1, <2>2, <2>3
  <1>6. CASE ValueCharacter
    <2>1. /\ text' = text /\ leftover' = leftover /\ loop = "value" /\ loop' = "value" /\ p' = p + 1
          /\ key' = key /\ value' = Append(value, Char) /\ m_hashmap' = m_hashmap
          /\ Char # Slash /\ Char # NUL
      BY <1>6 DEF ValueCharacter
    <2>2. CASE p \in First(text) .. Len(text)
      <3>1. /\ Before(text, p + 1) = Before(text, p) /\ LastKnown(text, p + 1)
            /\ LastBefore(text, p + 1) = LastBefore(text, p)
            /\ KeyAt(text, p + 1) = Append(KeyAt(text, p), text[p])
        BY <1>0, <1>2, <2>1, <2>2, PastCharacter DEF InsideText
      <3>2. InsideText'
        BY <1>0, <1>2, <2>1, <2>2, <3>1 DEF InsideText
      <3> QED
        BY <1>0, <1>1, <2>1, <2>2, <3>2
    <2>3. CASE p > Len(text) + 1
      BY <1>0, <1>1, <2>1, <2>3 DEF TerminatedTwice
    <2> QED
      BY <1>0, <1>3, <2>1, <2>2, <2>3
  <1>7. CASE ValueEnd
    <2>1. /\ text' = text /\ leftover' = leftover /\ loop = "value" /\ loop' = "key" /\ p' = p + 1
          /\ key' = <<>> /\ value' = <<>> /\ Char \in {Slash, NUL}
          /\ m_hashmap' = [k \in DOMAIN m_hashmap \cup {key} |->
                              IF k = key THEN value ELSE m_hashmap[k]]
      BY <1>7 DEF ValueEnd, InsertOrAssign
    <2> DEFINE e == LastBefore(text, p)
    <2>2. ASSUME p \in First(text) .. Len(text) + 1
          PROVE  /\ Cardinality(Before(text, p)) % 2 = 1
                 /\ e \in KeyEnds(text) /\ e \in Separators(text) /\ e \in Nat /\ e < p
                 /\ key = KeyAt(text, e) /\ value = KeyAt(text, p) /\ LastKnown(text, p)
                 /\ Describes(m_hashmap, text, e)
                 /\ \A i \in KeyEnds(text) : i < p => i <= e
      <3>1. InsideText
        BY <1>0, <2>2
      <3>2. e \in KeyEnds(text) /\ e \in Separators(text) /\ e \in Nat
        BY <1>0, <2>1, <3>1, SeparatorFacts DEF InsideText, KeyEnds
      <3>3. e < p
        BY <1>0, <3>1, <3>2, SeparatorFacts DEF InsideText, LastKnown, Before
      <3>4. \A i \in KeyEnds(text) : i < p => i <= e
        BY <3>1 DEF InsideText, LastKnown, Before, KeyEnds
      <3> QED
        BY <2>1, <3>1, <3>2, <3>3, <3>4 DEF InsideText
    <2>3. CASE p \in First(text) .. Len(text)
      <3>1. p \in Separators(text)
        <4>1. text[p] \in Character \cup {Slash}
          BY <1>0, <2>3, ElementOfSeq
        <4> QED
          BY <1>2, <2>1, <2>3, <4>1, InfostringAssumption DEF Separators
      <3>2. /\ Cardinality(Before(text, p)) \in Nat
            /\ Cardinality(Before(text, p + 1)) = Cardinality(Before(text, p)) + 1
            /\ LastKnown(text, p + 1)
            /\ KeyAt(text, p + 1) = <<>>
        BY <1>0, <3>1, PastSeparator
      <3>3. Cardinality(Before(text, p)) % 2 = 1 /\ p \notin KeyEnds(text)
        BY <2>2, <2>3, <1>0 DEF KeyEnds
      <3>4. Cardinality(Before(text, p + 1)) % 2 = 0
        BY <3>2, <3>3
      <3>5. ValueAt(text, e) = KeyAt(text, p)
        BY <1>0, <2>2, <2>3, <3>1, ValueIs
      <3>6. \A i \in KeyEnds(text) : i < p + 1 => i <= e
        BY <1>0, <2>2, <2>3, <3>3, SeparatorFacts DEF KeyEnds
      <3>7. Describes(m_hashmap', text, p + 1)
        <4> HIDE DEF e
        <4>1. /\ e \in KeyEnds(text) /\ p + 1 \in Nat /\ e < p + 1
              /\ Describes(m_hashmap, text, e) /\ key = KeyAt(text, e) /\ value = ValueAt(text, e)
          BY <1>0, <2>2, <2>3, <3>5
        <4>2. m_hashmap' = [k \in DOMAIN m_hashmap \cup {KeyAt(text, e)} |->
                               IF k = KeyAt(text, e) THEN ValueAt(text, e) ELSE m_hashmap[k]]
          BY <2>1, <4>1
        <4> QED
          BY <1>0, <3>6, <4>1, <4>2, DescribesNext
      <3>8. InsideText'
        BY <2>1, <3>2, <3>4, <3>7 DEF InsideText
      <3> QED
        BY <1>0, <1>1, <2>1, <2>3, <3>8
    <2>4. CASE p = Len(text) + 1
      <3>1. /\ e \in KeyEnds(text) /\ e \in Separators(text) /\ e < Len(text) + 1
            /\ Describes(m_hashmap, text, e) /\ key = KeyAt(text, e) /\ value = KeyAt(text, p)
            /\ LastKnown(text, p) /\ \A i \in KeyEnds(text) : i < Len(text) + 1 => i <= e
        BY <1>0, <2>2, <2>4
      <3>2. ValueAt(text, e) = KeyAt(text, p)
        BY <1>0, <2>4, <3>1, ValueIs
      <3>3. Describes(m_hashmap', text, Len(text) + 1)
        <4> HIDE DEF e
        <4>1. m_hashmap' = [k \in DOMAIN m_hashmap \cup {KeyAt(text, e)} |->
                               IF k = KeyAt(text, e) THEN ValueAt(text, e) ELSE m_hashmap[k]]
          BY <2>1, <3>1, <3>2
        <4> QED
          BY <1>0, <3>1, <4>1, DescribesNext
      <3>4. m_hashmap' = Pairs(text)
        BY <1>0, <3>3, DescribesAll
      <3> QED
        BY <1>0, <1>1, <2>1, <2>4, <3>4
    <2>5. CASE p > Len(text) + 1
      <3>1. ~TerminatedTwice
        BY <1>0, <2>1, <2>5 DEF OverrunInv
      <3>2. DOMAIN m_hashmap \subseteq DOMAIN m_hashmap'
        BY <2>1
      <3>3. ~TerminatedTwice'
        BY <2>1, <3>1 DEF TerminatedTwice
      <3> QED
        BY <1>0, <1>1, <2>1, <2>5, <3>2, <3>3
    <2> QED
      BY <1>0, <2>3, <2>4, <2>5
  <1>8. CASE Finish
    <2>1. /\ text' = text /\ leftover' = leftover /\ loop = "key" /\ loop' = "done" /\ p' = p
          /\ key' = key /\ value' = value /\ m_hashmap' = m_hashmap
      BY <1>8 DEF Finish
    <2>2. InsideText => InsideText'
      BY <2>1 DEF InsideText
    <2>3. p > Len(text)
      <3>1. SUFFICES ASSUME p \in First(text) .. Len(text) PROVE FALSE
        BY <1>0
      <3>2. text[p] \in Character \cup {Slash}
        BY <1>0, <3>1, ElementOfSeq
      <3> QED
        BY <1>2, <1>8, <3>1, <3>2, InfostringAssumption DEF Finish
    <2> QED
      BY <1>0, <1>1, <2>1, <2>2, <2>3 DEF TerminatedTwice
  <1>9. CASE UNCHANGED infoVars
    <2>1. /\ text' = text /\ leftover' = leftover /\ loop' = loop /\ p' = p
          /\ key' = key /\ value' = value /\ m_hashmap' = m_hashmap
      BY <1>9 DEF infoVars
    <2>2. InsideText => InsideText'
      BY <2>1 DEF InsideText
    <2> QED
      BY <1>0, <1>1, <2>1, <2>2 DEF TerminatedTwice
  <1> QED
    BY <1>4, <1>5, <1>6, <1>7, <1>8, <1>9 DEF InfoNext

\* A text that was not left and is done is at its end.
LEMMA ParsedInside ==
    ASSUME ParseInv, loop = "done", p <= Len(text) + 1
    PROVE  m_hashmap = Pairs(text)
  <1>1. text \in Seq(Character \cup {Slash}) /\ Len(text) \in Nat /\ p \in Nat
    BY InfostringAssumption DEF ParseInv, OverrunInv
  <1>2. p = Len(text) + 1
    BY <1>1 DEF ParseInv
  <1>3. Describes(m_hashmap, text, Len(text) + 1)
    BY <1>2 DEF ParseInv, InsideText
  <1> QED
    BY <1>1, <1>3, DescribesAll

\* ParseInv holds whatever the text and the memory behind it.
LEMMA Parsing == InfoSpec => []ParseInv
  <1>1. InfoInit => ParseInv
    BY ParseInit
  <1>2. ParseInv /\ [InfoNext]_infoVars => ParseInv'
    BY ParseStep
  <1> QED
    BY <1>1, <1>2, PTL DEF InfoSpec

\* Parse finds exactly the pairs of its text (infostring_data.cpp:33-66), if a
\* zero follows the terminator or the text was not left, whatever keys, values
\* and separators are empty, repeated or missing.
THEOREM TextIsParsed == InfoSpec => []ParsesPairs
  <1>1. ParseInv => ParsesPairs
    <2> SUFFICES ASSUME ParseInv, loop = "done", TerminatedTwice \/ p = Len(text) + 1
                 PROVE  m_hashmap = Pairs(text)
      BY DEF ParsesPairs
    <2>1. text \in Seq(Character \cup {Slash}) /\ Len(text) \in Nat /\ p \in Nat
      BY InfostringAssumption DEF ParseInv, OverrunInv
    <2>2. CASE p > Len(text) + 1
      BY <2>1, <2>2 DEF ParseInv
    <2>3. CASE p <= Len(text) + 1
      BY <2>1, <2>3, ParsedInside
    <2> QED
      BY <2>1, <2>2, <2>3
  <1> QED
    BY <1>1, Parsing, PTL

\* Whatever lies behind a text, every key of it is found
\* (infostring_data.cpp:33-66), so that a complete request stays complete.
THEOREM KeysAreKept == InfoSpec => []KeysKept
  <1>1. ParseInv => KeysKept
    <2> SUFFICES ASSUME ParseInv, loop = "done"
                 PROVE  DOMAIN Pairs(text) \subseteq DOMAIN m_hashmap
      BY DEF KeysKept
    <2>1. text \in Seq(Character \cup {Slash}) /\ Len(text) \in Nat /\ p \in Nat
      BY InfostringAssumption DEF ParseInv, OverrunInv
    <2>2. CASE p > Len(text) + 1
      BY <2>1, <2>2 DEF ParseInv
    <2>3. CASE p <= Len(text) + 1
      BY <2>1, <2>3, ParsedInside
    <2> QED
      BY <2>1, <2>2, <2>3
  <1> QED
    BY <1>1, Parsing, PTL

\* The check for the keys of a request is exact whenever the memory behind its
\* text starts with a zero (server_append_request.cpp:32): what lies behind the
\* byte that the tokeniser reads too many is the only reason for it to fail.
THEOREM FullnessIsExact == InfoSpec => [](TerminatedTwice => FullnessChecked)
  <1>1. ParsesPairs => (TerminatedTwice => FullnessChecked)
    BY DEF ParsesPairs, FullnessChecked
  <1> QED
    BY <1>1, TextIsParsed, PTL

-----------------------------------------------------------------------------
(* The tokens of a command.                                                  *)

\* Where the words begin that begin at first or later.
Starts(t, s, first) ==
    {i \in first .. Len(t) : /\ i - 1 \notin first .. Len(t) \/ t[i - 1] = s
                             /\ ~(i \notin first .. Len(t) \/ t[i] = s)}

\* Where a word ends that begins at i.
Ending(t, s, i) == Min({j \in i .. Len(t) : j + 1 \notin 1 .. Len(t) \/ t[j + 1] = s})

\* The n-th of such places.
Nth(starts, n) == Min({i \in starts : Cardinality({j \in starts : j <= i}) = n})

\* The words that begin there, from left to right.
WordsOf(t, s, starts) ==
    [n \in 1 .. Cardinality(starts) |-> SubSeq(t, Nth(starts, n), Ending(t, s, Nth(starts, n)))]

\* FindFirstOf finds the first separator, or the place behind the text.
LEMMA FindFacts ==
    ASSUME NEW S, NEW t \in Seq(S), NEW s, NEW first \in 1 .. Len(t) + 1
    PROVE  /\ FindFirstOf(t, s, first) \in first .. Len(t) + 1
           /\ \A i \in first .. FindFirstOf(t, s, first) - 1 : t[i] # s
           /\ FindFirstOf(t, s, first) <= Len(t) => t[FindFirstOf(t, s, first)] = s
  <1> DEFINE found == {i \in first .. Len(t) : t[i] = s} \cup {Len(t) + 1}
  <1>1. Len(t) \in Nat
    OBVIOUS
  <1>2. found \in SUBSET Nat /\ found # {}
    BY <1>1
  <1>3. Min(found) \in found /\ \A x \in found : Min(found) <= x
    <2> HIDE DEF found
    <2> QED
      BY <1>2, MinExists
  <1>4. FindFirstOf(t, s, first) = Min(found)
    BY DEF FindFirstOf
  <1> DEFINE m == Min(found)
  <1>5. m \in first .. Len(t) + 1 /\ (m <= Len(t) => t[m] = s)
    BY <1>1, <1>3
  <1>6. ASSUME NEW i \in first .. m - 1, t[i] = s PROVE FALSE
    <2>1. i \in found
      BY <1>1, <1>5, <1>6
    <2> QED
      BY <1>3, <1>5, <2>1
  <1> QED
    BY <1>4, <1>5, <1>6

\* The words from first on begin at first, if no separator is there, and behind
\* the next separator.
LEMMA StartsStep ==
    ASSUME NEW S, NEW t \in Seq(S), NEW s, NEW first \in 1 .. Len(t) + 1,
           NEW second, second = FindFirstOf(t, s, first)
    PROVE  Starts(t, s, first) =
             (IF first = second THEN {} ELSE {first})
               \cup (IF second > Len(t) THEN {} ELSE Starts(t, s, second + 1))
  <1>1. /\ Len(t) \in Nat /\ second \in first .. Len(t) + 1
        /\ \A i \in first .. second - 1 : t[i] # s
        /\ second <= Len(t) => t[second] = s
    BY FindFacts
  <1>2. ASSUME NEW i \in first .. Len(t)
        PROVE  i \in Starts(t, s, first) <=>
                 \/ i = first /\ first # second
                 \/ second <= Len(t) /\ i \in Starts(t, s, second + 1)
    <2>1. CASE i < second
      <3>1. t[i] # s /\ (i # first => t[i - 1] # s)
        BY <1>1, <2>1
      <3>2. second <= Len(t) => i \notin Starts(t, s, second + 1)
        BY <1>1, <2>1 DEF Starts
      <3> QED
        BY <1>1, <2>1, <3>1, <3>2 DEF Starts
    <2>2. CASE i = second
      BY <1>1, <2>2 DEF Starts
    <2>3. CASE i > second
      <3>1. second <= Len(t) /\ i \in second + 1 .. Len(t) /\ i # first
        BY <1>1, <2>3
      <3>2. i = second + 1 => t[i - 1] = s
        BY <1>1
      <3> QED
        BY <1>1, <3>1, <3>2 DEF Starts
    <2> QED
      BY <1>1, <2>1, <2>2, <2>3
  <1>3. /\ Starts(t, s, first) \subseteq first .. Len(t)
        /\ second <= Len(t) => Starts(t, s, second + 1) \subseteq first .. Len(t)
        /\ first # second => first \in first .. Len(t)
    BY <1>1 DEF Starts
  <1> QED
    BY <1>1, <1>2, <1>3

\* A word reaches to the next separator.
LEMMA EndingIs ==
    ASSUME NEW S, NEW t \in Seq(S), NEW s, NEW first \in 1 .. Len(t) + 1,
           first # FindFirstOf(t, s, first)
    PROVE  Ending(t, s, first) = FindFirstOf(t, s, first) - 1
  <1> DEFINE second == FindFirstOf(t, s, first)
             ends == {j \in first .. Len(t) : j + 1 \notin 1 .. Len(t) \/ t[j + 1] = s}
  <1>1. /\ Len(t) \in Nat /\ second \in first .. Len(t) + 1
        /\ \A i \in first .. second - 1 : t[i] # s
        /\ second <= Len(t) => t[second] = s
    BY FindFacts
  <1> HIDE DEF second
  <1>2. second - 1 \in ends
    BY <1>1 DEF second
  <1>3. \A j \in ends : second - 1 <= j
    BY <1>1
  <1>4. ends \in SUBSET Int
    BY <1>1
  <1>5. Min(ends) = second - 1
    <2> HIDE DEF ends
    <2> QED
      BY <1>2, <1>3, <1>4, MinIs
  <1> QED
    BY <1>5 DEF Ending, second

\* One more word in front of those that begin later.
LEMMA WordInFront ==
    ASSUME NEW t, NEW s, NEW first \in Nat,
           NEW rest \in SUBSET {i \in Nat : i > first}, IsFiniteSet(rest)
    PROVE  WordsOf(t, s, {first} \cup rest) =
             <<SubSeq(t, first, Ending(t, s, first))>> \o WordsOf(t, s, rest)
  <1> DEFINE starts == {first} \cup rest
             c == Cardinality(rest)
             Upto(set, i) == {j \in set : j <= i}
  <1>1. c \in Nat /\ IsFiniteSet(starts) /\ Cardinality(starts) = c + 1
    <2>1. first \notin rest
      OBVIOUS
    <2>2. starts = rest \cup {first}
      OBVIOUS
    <2> QED
      BY <2>1, <2>2, FS_AddElement, FS_CardinalityType
  <1>a. \A i \in starts : i \in Nat /\ first <= i /\ (i <= first => i = first)
    <2>1. \A i \in rest : i \in Nat /\ i > first
      OBVIOUS
    <2> QED
      BY <2>1
  <1>b. Upto(starts, first) = {first}
    BY <1>a
  <1>2. Nth(starts, 1) = first
    <2> DEFINE ones == {i \in starts : Cardinality(Upto(starts, i)) = 1}
    <2>2. first \in ones
      BY <1>b, FS_Singleton
    <2>3. ones \in SUBSET Int /\ \A i \in ones : first <= i
      <3> HIDE DEF starts, Upto
      <3> QED
        BY <1>a
    <2>4. Min(ones) = first
      <3> HIDE DEF ones
      <3> QED
        BY <2>2, <2>3, MinIs
    <2> QED
      BY <2>4 DEF Nth
  <1>3. ASSUME NEW n \in 1 .. c PROVE Nth(starts, n + 1) = Nth(rest, n)
    <2>1. Cardinality(Upto(starts, first)) = 1
      BY <1>b, FS_Singleton
    <2>2. ASSUME NEW i \in rest
          PROVE  /\ Cardinality(Upto(rest, i)) \in Nat
                 /\ Cardinality(Upto(starts, i)) = Cardinality(Upto(rest, i)) + 1
      <3>1. Upto(starts, i) = Upto(rest, i) \cup {first}
        OBVIOUS
      <3>2. IsFiniteSet(Upto(rest, i)) /\ first \notin Upto(rest, i)
        BY FS_Subset
      <3> QED
        BY <3>1, <3>2, FS_AddElement, FS_CardinalityType
    <2> HIDE DEF Upto
    <2>3. {i \in starts : Cardinality(Upto(starts, i)) = n + 1}
            = {i \in rest : Cardinality(Upto(rest, i)) = n}
      <3>1. ASSUME NEW i \in rest
            PROVE  Cardinality(Upto(starts, i)) = n + 1 <=> Cardinality(Upto(rest, i)) = n
        BY <1>1, <2>2
      <3>2. Cardinality(Upto(starts, first)) # n + 1
        BY <1>1, <2>1
      <3> QED
        BY <3>1, <3>2
    <2> QED
      BY <2>3 DEF Nth, Upto
  <1> DEFINE Word(i) == SubSeq(t, i, Ending(t, s, i))
             later == WordsOf(t, s, rest)
             all == WordsOf(t, s, starts)
             X == {Word(i) : i \in Nat \cup {Nth(rest, n) : n \in 1 .. c}}
  <1>4. later = [n \in 1 .. c |-> Word(Nth(rest, n))]
    BY DEF WordsOf
  <1>5. all = [n \in 1 .. c + 1 |-> Word(Nth(starts, n))]
    BY <1>1 DEF WordsOf
  <1>6. Word(first) \in X /\ \A n \in 1 .. c : Word(Nth(rest, n)) \in X
    OBVIOUS
  <1> HIDE DEF Word, X, starts, c, later, all
  <1>7. later \in Seq(X) /\ Len(later) = c
    BY <1>1, <1>4, <1>6
  <1>8. \A n \in 1 .. c + 1 : Word(Nth(starts, n)) \in X
    <2>1. ASSUME NEW n \in 1 .. c + 1, n # 1 PROVE Word(Nth(starts, n)) \in X
      <3>1. n - 1 \in 1 .. c /\ (n - 1) + 1 = n
        BY <1>1, <2>1
      <3> QED
        BY <1>3, <1>6, <3>1
    <2> QED
      BY <1>2, <1>6, <2>1
  <1>9. all \in Seq(X) /\ Len(all) = c + 1
    BY <1>1, <1>5, <1>8
  <1>10. /\ <<Word(first)>> \o later \in Seq(X)
         /\ Len(<<Word(first)>> \o later) = c + 1
         /\ (<<Word(first)>> \o later)[1] = Word(first)
         /\ \A n \in 1 .. c : (<<Word(first)>> \o later)[n + 1] = later[n]
    BY <1>1, <1>6, <1>7
  <1>11. \A n \in 1 .. c + 1 : all[n] = (<<Word(first)>> \o later)[n]
    <2>1. all[1] = Word(first)
      BY <1>1, <1>2, <1>5
    <2>2. ASSUME NEW n \in 1 .. c PROVE all[n + 1] = later[n]
      BY <1>1, <1>3, <1>4, <1>5
    <2>3. ASSUME NEW n \in 1 .. c + 1, n # 1
          PROVE  all[n] = (<<Word(first)>> \o later)[n]
      <3>1. n - 1 \in 1 .. c /\ (n - 1) + 1 = n
        BY <1>1, <2>3
      <3> QED
        BY <1>10, <2>2, <3>1
    <2> QED
      BY <1>10, <2>1, <2>3
  <1>12. all = <<Word(first)>> \o later
    BY <1>9, <1>10, <1>11, SeqEqual
  <1> QED
    BY <1>12 DEF all, later, Word, starts

\* No word begins nowhere.
LEMMA NoWords ==
    ASSUME NEW t, NEW s
    PROVE  WordsOf(t, s, {}) = <<>>
  BY FS_EmptySet DEF WordsOf

\* One round of Tokenize, f standing for the rounds behind it.
Round(t, s, f, first) ==
    LET second == FindFirstOf(t, s, first)
        token == IF first = second THEN <<>> ELSE <<SubSeq(t, first, second - 1)>>
    IN  token \o (IF second > Len(t) THEN <<>> ELSE f[second + 1])

\* The words from every place on, as a function of the place.
WordsFrom(t, s) == [first \in 1 .. Len(t) + 1 |-> WordsOf(t, s, Starts(t, s, first))]

\* A round puts one word at most in front of those behind the next separator.
LEMMA RoundIsWords ==
    ASSUME NEW S, NEW t \in Seq(S), NEW s, NEW first \in 1 .. Len(t) + 1
    PROVE  WordsFrom(t, s)[first] = Round(t, s, WordsFrom(t, s), first)
  <1> DEFINE second == FindFirstOf(t, s, first)
             rest == IF second > Len(t) THEN {} ELSE Starts(t, s, second + 1)
  <1>1. Len(t) \in Nat /\ second \in first .. Len(t) + 1
    BY FindFacts
  <1>2. Starts(t, s, first) = (IF first = second THEN {} ELSE {first}) \cup rest
    BY StartsStep
  <1>3. rest \in SUBSET {i \in Nat : i > first} /\ IsFiniteSet(rest)
    <2>1. rest \in SUBSET (second + 1 .. Len(t))
      BY DEF Starts
    <2>2. IsFiniteSet(second + 1 .. Len(t))
      BY <1>1, FS_Interval
    <2> HIDE DEF rest, second
    <2>3. IsFiniteSet(rest)
      BY <2>1, <2>2, FS_Subset
    <2> QED
      BY <1>1, <2>1, <2>3
  <1>4. WordsOf(t, s, rest) =
          IF second > Len(t) THEN <<>> ELSE WordsFrom(t, s)[second + 1]
    <2>1. second <= Len(t) => second + 1 \in 1 .. Len(t) + 1
      BY <1>1
    <2>2. second <= Len(t) => WordsOf(t, s, rest) = WordsFrom(t, s)[second + 1]
      BY <1>1, <2>1 DEF WordsFrom
    <2>3. second > Len(t) => WordsOf(t, s, rest) = <<>>
      BY NoWords
    <2> QED
      BY <1>1, <2>2, <2>3
  <1> HIDE DEF rest
  <1>5. CASE first = second
    <2>1. Starts(t, s, first) = rest
      BY <1>2, <1>5
    <2>2. <<>> \o WordsOf(t, s, rest) = WordsOf(t, s, rest)
      <3> DEFINE X == {WordsOf(t, s, rest)[n] : n \in 1 .. Cardinality(rest)}
      <3>1. WordsOf(t, s, rest) \in Seq(X)
        <4>1. Cardinality(rest) \in Nat
          BY <1>3, FS_CardinalityType
        <4> QED
          BY <4>1 DEF WordsOf
      <3> QED
        BY <3>1, ConcatEmptySeq
    <2> QED
      BY <1>4, <1>5, <2>1, <2>2 DEF WordsFrom, Round
  <1>6. CASE first # second
    <2>1. WordsOf(t, s, Starts(t, s, first)) =
            <<SubSeq(t, first, Ending(t, s, first))>> \o WordsOf(t, s, rest)
      <3>1. Starts(t, s, first) = {first} \cup rest /\ first \in Nat
        BY <1>2, <1>6
      <3> HIDE DEF second
      <3> QED
        BY <1>3, <3>1, WordInFront
    <2>2. Ending(t, s, first) = second - 1
      BY <1>6, EndingIs
    <2> QED
      BY <1>4, <1>6, <2>1, <2>2 DEF WordsFrom, Round
  <1> QED
    BY <1>5, <1>6

\* A function of the place that satisfies the recursion of Tokenize.
MadeOfRounds(t, s, f) == \A first \in 1 .. Len(t) + 1 : f[first] = Round(t, s, f, first)

\* Only one function is made of such rounds.
LEMMA RoundsAreUnique ==
    ASSUME NEW S, NEW t \in Seq(S), NEW s, NEW f, NEW g,
           MadeOfRounds(t, s, f), MadeOfRounds(t, s, g)
    PROVE  \A first \in 1 .. Len(t) + 1 : f[first] = g[first]
  <1> DEFINE T == {n \in 0 .. Len(t) : f[Len(t) + 1 - n] # g[Len(t) + 1 - n]}
  <1>0. Len(t) \in Nat
    OBVIOUS
  <1>1. CASE T = {}
    <2>1. ASSUME NEW first \in 1 .. Len(t) + 1 PROVE f[first] = g[first]
      <3>1. Len(t) + 1 - first \in 0 .. Len(t) /\ Len(t) + 1 - (Len(t) + 1 - first) = first
        BY <1>0
      <3> QED
        BY <1>1, <3>1
    <2> QED
      BY <2>1
  <1>2. CASE T # {}
    <2>1. T \in SUBSET Nat
      BY <1>0
    <2>2. PICK n \in T : \A m \in T : n <= m
      <3> HIDE DEF T
      <3> QED
        BY <1>2, <2>1, LeastNatural
    <2> DEFINE first == Len(t) + 1 - n
               second == FindFirstOf(t, s, first)
    <2>3. first \in 1 .. Len(t) + 1 /\ f[first] # g[first] /\ n \in 0 .. Len(t)
      BY <1>0, <2>2
    <2>4. second \in first .. Len(t) + 1
      <3> HIDE DEF first
      <3> QED
        BY <2>3, FindFacts
    <2>5. ASSUME second <= Len(t) PROVE f[second + 1] = g[second + 1]
      <3> HIDE DEF second
      <3>1. /\ Len(t) - second \in 0 .. Len(t) /\ Len(t) - second < n
            /\ Len(t) + 1 - (Len(t) - second) = second + 1
        BY <1>0, <2>3, <2>4, <2>5
      <3>2. Len(t) - second \notin T
        <4> HIDE DEF T, first
        <4> QED
          BY <1>0, <2>1, <2>2, <3>1
      <3> QED
        BY <3>1, <3>2
    <2> HIDE DEF first
    <2>6. ~(second > Len(t)) => second <= Len(t)
      BY <1>0, <2>4, <2>3
    <2>7. Round(t, s, f, first) = Round(t, s, g, first)
      BY <2>5, <2>6 DEF Round
    <2> QED
      BY <2>3, <2>7 DEF MadeOfRounds
  <1> QED
    BY <1>1, <1>2

\* Tokenize yields the words, for every text and every separator.
LEMMA TokenizeIsWords ==
    ASSUME NEW S, NEW t \in Seq(S), NEW s
    PROVE  Tokenize(t, s) = Words(t, s)
  <1> DEFINE from == CHOOSE f : f = [first \in 1 .. Len(t) + 1 |-> Round(t, s, f, first)]
  <1>1. Tokenize(t, s) = from[1]
    BY DEF Tokenize, Round
  <1>2. WordsFrom(t, s) = [first \in 1 .. Len(t) + 1 |-> Round(t, s, WordsFrom(t, s), first)]
    <2>1. WordsFrom(t, s) = [first \in 1 .. Len(t) + 1 |-> WordsFrom(t, s)[first]]
      BY DEF WordsFrom
    <2> QED
      BY <2>1, RoundIsWords
  <1>3. from = [first \in 1 .. Len(t) + 1 |-> Round(t, s, from, first)]
    BY <1>2
  <1> HIDE DEF from
  <1>4. from[1] = WordsFrom(t, s)[1]
    <2>1. MadeOfRounds(t, s, from) /\ MadeOfRounds(t, s, WordsFrom(t, s))
      BY <1>3, RoundIsWords DEF MadeOfRounds
    <2> QED
      BY <2>1, RoundsAreUnique
  <1>5. WordsFrom(t, s)[1] = Words(t, s)
    BY DEF WordsFrom, WordsOf, Words, Starts, Ending, Nth
  <1> QED
    BY <1>1, <1>4, <1>5

\* Blanks before, behind or between the words of a command, however many, make
\* no tokens, and no word is lost (utils.cpp:17-35).
THEOREM CommandsAreTokenized == InfoSpec => []TokensAreWords
  <1>1. OverrunInv => TokensAreWords
    <2> SUFFICES ASSUME OverrunInv PROVE Tokenize(text, Slash) = Words(text, Slash)
      BY DEF TokensAreWords
    <2>1. text \in Seq(Character \cup {Slash})
      BY InfostringAssumption DEF OverrunInv
    <2> QED
      BY <2>1, TokenizeIsWords
  <1>2. InfoInit => OverrunInv
    BY OverrunInit
  <1>3. OverrunInv /\ [InfoNext]_infoVars => OverrunInv'
    BY OverrunStep
  <1> QED
    BY <1>1, <1>2, <1>3, PTL DEF InfoSpec
=============================================================================
