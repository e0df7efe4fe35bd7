----------------------------- MODULE MCReplies ------------------------------
(* Values of the constants for the run of the queries.                       *)
EXTENDS MCEventLoop, Replies

\* 10.0.0.1, and an IPv6 address with zeros in it whose text is as long as any.
MCAddressSpan == (h1 :> <<10, 0, 0, 1>>)
                   @@ (h2 :> <<253, 0, 0, 0, 0, 0, 0, 0, 0, 0, 0, 0, 0, 0, 0, 1>>)
MCTextLength == (h1 :> 8) @@ (h2 :> LongestText - 1)

\* A client of each family, at the port with the longest text.
HighPorts == {At(h1, 65535), At(h2, 65535)}
=============================================================================
