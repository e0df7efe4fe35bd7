------------------------------ MODULE MCSocket ------------------------------
(* Values of the constants of Socket for the model-checking runs: bytes by   *)
(* name, and headers that keep the order of the real lengths and the prefix  *)
(* that the two headers of administrators share.                             *)
EXTENDS Socket

MCByte == {"nul", "0", "1", "q", "ff", "nl", "a", "d", "m", "c", "x"}
MCQuery == <<"1">>
MCChallenge == <<"q", "ff">>
MCAppend == <<"0", "nl">>
MCAdminCommand == <<"a", "d", "m">>
MCAdminChallenge == <<"a", "d", "m", "c">>

\* Datagrams of each kind, and one that does not fit in the buffer.
Whole == {<<"1", "ff", "nul", "x", "x">>,
          <<"1", "ff", "x", "nul">>,
          <<"q", "ff", "x">>,
          <<"0", "nl", "x">>,
          MCAdminChallenge,
          <<"a", "d", "m", "x", "x", "x", "nul">>,
          <<"x", "ff", "m", "c", "x", "x", "x", "x">>,
          <<"x", "nl">>}

\* Each of them cut anywhere.
MCDatagram == UNION {{SubSeq(d, 1, n) : n \in 0 .. Len(d)} : d \in Whole}
=============================================================================
