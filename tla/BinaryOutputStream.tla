------------------------- MODULE BinaryOutputStream -------------------------
(* The writer of a datagram (binary_output_stream.cpp), over a buffer of a   *)
(* fixed size or over a vector that grows.                                   *)
EXTENDS Naturals, Sequences

\* The two constructors; the second one clears the vector.
OpenFixed(size) == [written |-> <<>>, bufferSize |-> size, dynamic |-> FALSE]
OpenDynamic == [written |-> <<>>, bufferSize |-> 0, dynamic |-> TRUE]

GetLength(s) == Len(s.written)

\* All the bytes or none.  No caller looks at whether it was none.
WriteBytes(s, data) ==
    IF s.dynamic \/ GetLength(s) + Len(data) <= s.bufferSize
      THEN [s EXCEPT !.written = @ \o data]
      ELSE s

WriteByte(s, value, repeats) == WriteBytes(s, [i \in 1 .. repeats |-> value])

\* Mutated form of WriteNetAddress: the port in the byte order of the machine.
WriteNetAddressSwapped(s, span, port) ==
    WriteByte(WriteByte(WriteBytes(s, span), port % 256, 1), (port \div 256) % 256, 1)

\* The address bytes, and the port with its high byte first.
WriteNetAddress(s, span, port) ==
    WriteByte(WriteByte(WriteBytes(s, span), (port \div 256) % 256, 1), port % 256, 1)
=============================================================================
