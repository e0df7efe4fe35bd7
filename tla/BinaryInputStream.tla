------------------------- MODULE BinaryInputStream --------------------------
(* The reader of a datagram (binary_input_stream.cpp): a position that only  *)
(* moves forward, and a flag that remembers a read beyond the end.           *)
EXTENDS Naturals, Sequences, FiniteSets

CONSTANTS Byte,   \* what a byte may be
          NUL     \* the byte that ends a string

ASSUME ByteAssumption == NUL \in Byte

Stream == [data : Seq(Byte), offset : Nat, underflow : BOOLEAN]

\* The constructor.
Open(data) == [data |-> data, offset |-> 0, underflow |-> FALSE]

RemainingBytes(s) == Len(s.data) - s.offset
EndOfFile(s) == RemainingBytes(s) = 0
Underflowed(s) == s.underflow

Advance(s, count) == [s EXCEPT !.offset = @ + count]
Underflow(s) == [s EXCEPT !.underflow = TRUE]

\* SkipBytes, and ReadBytes: all the bytes or none.
SkipBytes(s, count) ==
    IF RemainingBytes(s) >= count THEN Advance(s, count) ELSE Underflow(s)

\* Read<T>: what there is, up to the size of a T.
Read(s, count) ==
    IF RemainingBytes(s) >= count THEN Advance(s, count)
    ELSE Underflow(Advance(s, RemainingBytes(s)))

\* The length of the string at the offset, its NUL included: as many bytes as
\* no NUL comes before.  The last string of a datagram need not have one.
StringLength(s) ==
    Cardinality({n \in 1 .. RemainingBytes(s) :
                    \A m \in 1 .. n - 1 : s.data[s.offset + m] # NUL})

\* ReadString and SkipString: a string, unless the end is reached already.
ReadString(s) ==
    IF RemainingBytes(s) > 0 THEN Advance(s, StringLength(s)) ELSE Underflow(s)
=============================================================================
