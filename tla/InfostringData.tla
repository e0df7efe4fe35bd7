--------------------------- MODULE InfostringData ---------------------------
(* InfostringData::Parse (infostring_data.cpp): the text of a request,       *)
(* "\key\value\key\value", becomes a map.  One action is one round of the    *)
(* two loops.  A value that ends with the text makes the outer loop step     *)
(* over the terminator, so the memory behind the text is part of the model:  *)
(* the code does not initialise it, and it is any leftover of the heap.      *)
EXTENDS Naturals, Sequences, FiniteSetsExt

CONSTANTS Character,   \* the characters of keys and values
          Slash, NUL,  \* the separator and the terminator
          Text,        \* the texts parsed
          Leftover,    \* what may lie in memory behind a text
          Required     \* the keys a request must have

ASSUME InfostringAssumption ==
    /\ Slash # NUL /\ Slash \notin Character /\ NUL \notin Character
    /\ Text \subseteq Seq(Character \cup {Slash})
    /\ Leftover \subseteq Seq(Character \cup {Slash, NUL})

VARIABLES text, leftover,   \* the argument, and the memory behind its terminator
          p,                \* the position read
          loop,             \* the loop that reads: "key", "value", or "done"
          key, value,       \* what they have collected
          m_hashmap

infoVars == <<text, leftover, p, loop, key, value, m_hashmap>>

\* *p, the memory being zero behind what the model chooses.
Memory == text \o <<NUL>> \o leftover
Char == IF p <= Len(Memory) THEN Memory[p] ELSE NUL

\* Where reading starts: behind a separator in front (infostring_data.cpp:42-45).
First(t) == IF t # <<>> /\ Head(t) = Slash THEN 2 ELSE 1

InfoInit ==
    /\ text \in Text /\ leftover \in Leftover
    /\ p = First(text)
    /\ loop = "key"
    /\ key = <<>> /\ value = <<>>
    /\ m_hashmap = [k \in {} |-> k]

KeyCharacter ==
    /\ loop = "key" /\ Char \notin {Slash, NUL}
    /\ key' = Append(key, Char)
    /\ p' = p + 1
    /\ UNCHANGED <<text, leftover, loop, value, m_hashmap>>

KeyEnd ==
    /\ loop = "key" /\ Char = Slash
    /\ loop' = "value"
    /\ p' = p + 1
    /\ UNCHANGED <<text, leftover, key, value, m_hashmap>>

\* Mutated form of ValueCharacter: the terminator does not end the loop.
ValueCharacterUnended ==
    /\ loop = "value" /\ Char # Slash
    /\ value' = Append(value, Char)
    /\ p' = p + 1
    /\ UNCHANGED <<text, leftover, loop, key, m_hashmap>>

ValueCharacter ==
    /\ loop = "value" /\ Char \notin {Slash, NUL}
    /\ value' = Append(value, Char)
    /\ p' = p + 1
    /\ UNCHANGED <<text, leftover, loop, key, m_hashmap>>

\* Mutated form of InsertOrAssign: insert, which leaves an earlier value.
InsertOnly ==
    m_hashmap' = [k \in DOMAIN m_hashmap \cup {key} |->
                     IF k \in DOMAIN m_hashmap THEN m_hashmap[k] ELSE value]

\* std::unordered_map::insert_or_assign
InsertOrAssign ==
    m_hashmap' = [k \in DOMAIN m_hashmap \cup {key} |-> IF k = key THEN value ELSE m_hashmap[k]]

\* Mutated form of ValueEnd: the key is not cleared.
ValueEndUncleared ==
    /\ loop = "value" /\ Char \in {Slash, NUL}
    /\ InsertOrAssign
    /\ value' = <<>>
    /\ loop' = "key"
    /\ p' = p + 1
    /\ UNCHANGED <<text, leftover, key>>

\* Whatever ended the value, the outer loop steps over it, the terminator too.
ValueEnd ==
    /\ loop = "value" /\ Char \in {Slash, NUL}
    /\ InsertOrAssign
    /\ key' = <<>> /\ value' = <<>>
    /\ loop' = "key"
    /\ p' = p + 1
    /\ UNCHANGED <<text, leftover>>

Finish ==
    /\ loop = "key" /\ Char = NUL
    /\ loop' = "done"
    /\ UNCHANGED <<text, leftover, p, key, value, m_hashmap>>

InfoNext == KeyCharacter \/ KeyEnd \/ ValueCharacter \/ ValueEnd \/ Finish

InfoSpec == InfoInit /\ [][InfoNext]_infoVars

-----------------------------------------------------------------------------
\* What a text t says: every key that ends at a separator with an even number
\* of separators before it (the one in front not counted) has the value up to
\* the next separator, and the last of equal keys counts.
Separators(t) == {i \in First(t) .. Len(t) : t[i] = Slash}
Before(t, i) == {j \in Separators(t) : j < i}
LastBefore(t, i) == Max({First(t) - 1} \cup Before(t, i))
NextBehind(t, i) == Min({Len(t) + 1} \cup {j \in Separators(t) : j > i})
KeyEnds(t) == {i \in Separators(t) : Cardinality(Before(t, i)) % 2 = 0}
KeyAt(t, i) == SubSeq(t, LastBefore(t, i) + 1, i - 1)
ValueAt(t, i) == SubSeq(t, i + 1, NextBehind(t, i) - 1)
Pairs(t) == [k \in {KeyAt(t, i) : i \in KeyEnds(t)} |->
                ValueAt(t, Max({i \in KeyEnds(t) : KeyAt(t, i) = k}))]

\* The byte behind the terminator ends the second loop as well.
TerminatedTwice == leftover = <<>> \/ Head(leftover) = NUL

\* Parse finds exactly the pairs of its text, whatever keys, values and
\* separators are empty, repeated or missing, provided that the memory behind
\* the text starts with a zero or the text was not left while parsing.
ParsesPairs ==
    loop = "done" /\ (TerminatedTwice \/ p = Len(text) + 1) => m_hashmap = Pairs(text)

\* Whatever memory holds, no key of the text is lost: leftovers add keys and
\* replace values, so a complete request never fails the check for its keys.
KeysKept == loop = "done" => DOMAIN Pairs(text) \subseteq DOMAIN m_hashmap

\* If a zero follows the terminator, Parse reads that zero and nothing beyond.
OverrunIsOne == TerminatedTwice => p <= Len(text) + 2

\* "request infostring correctness and fullness check failed"
\* (server_append_request.cpp:32) otherwise: a request that passes for complete has the required keys itself.
FullnessChecked ==
    loop = "done" /\ Required \subseteq DOMAIN m_hashmap => Required \subseteq DOMAIN Pairs(text)
=============================================================================
