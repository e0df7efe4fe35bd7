---------------------------- MODULE MCInfostring ----------------------------
(* Values of the constants of InfostringData: every text and every leftover  *)
(* up to a length.                                                           *)
EXTENDS Texts

CONSTANTS TextLength, LeftoverLength

UpTo(chars, length) == UNION {[1 .. n -> chars] : n \in 0 .. length}
MCText == UpTo(Character \cup {Slash}, TextLength)
MCLeftover == UpTo(Character \cup {Slash, NUL}, LeftoverLength)
OneKey == {<<"k">>}
=============================================================================
